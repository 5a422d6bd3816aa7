--------------------------- MODULE EditFormsProofs ---------------------------
(***************************************************************************)
(* Proofs about EditForms, for any tabs, worker threads, edits, requests   *)
(* and values of the fields.                                               *)
(***************************************************************************)
EXTENDS EditForms, RecordsProofs

(***************************************************************************)
(* The objects of the two tables.                                          *)
(***************************************************************************)
Edited == {"users", "sites"}

LEMMA EditedTables == Edited \subseteq Tables
    BY DEF Edited, Tables

LEMMA BlankObject ==
    ASSUME table \in Edited, NEW u \in Uuids, NEW now \in Times
    PROVE  Blank(u, now) \in Objects(table) /\ Blank(u, now).uuid = u
<1>1. NewUser(u) \in User /\ NewUser(u).uuid = u
    BY RecordsAssumption DEF NewUser, User
<1>2. NewSite(u, now) \in Placed(Site) /\ NewSite(u, now).uuid = u
    BY RecordsAssumption DEF NewSite, Placed, Site
<1> QED
    BY <1>1, <1>2 DEF Edited, Blank, Objects

LEMMA ObjectUuid ==
    ASSUME NEW T \in Edited, NEW o \in Objects(T)
    PROVE  o.uuid \in Uuids /\ [o EXCEPT !.uuid = o.uuid] = o
    BY DEF Edited, Objects, User, Placed, Site

LEMMA FromJsonUpdates ==
    ASSUME table \in Edited, NEW u, NEW now, NEW json
    PROVE  FromJson(table, u, now, json) = Update(table, Blank(u, now), json)
    BY DEF Edited, FromJson, Update, Blank, UserFromJson, SiteFromJson

LEMMA UpdateTyped ==
    ASSUME NEW T \in Edited, NEW o \in Objects(T), NEW json \in Requests(T),
           NEW x, ~Refuses(T, x, json)
    PROVE  /\ Update(T, o, json) \in Objects(T)
           /\ json.Uuid = Absent => Update(T, o, json).uuid = o.uuid
<1>1. CASE T = "users"
  <2>1. o \in User /\ json \in UserRequests /\ ~UserRefuses(json)
      BY <1>1 DEF Objects, Requests, Refuses
  <2>2. UserUpdate(o, json) \in User
      BY <2>1 DEF User, UserRequests, UserRefuses, UserUpdate, Member
  <2>3. json.Uuid = Absent => UserUpdate(o, json).uuid = o.uuid
      BY DEF UserUpdate, Member
  <2> QED
      BY <1>1, <2>2, <2>3 DEF Objects, Update
<1>2. CASE T = "sites"
  <2>1. o \in Placed(Site) /\ o \in Site /\ json \in SiteRequests /\ ~SiteRefuses(json)
      BY <1>2 DEF Objects, Requests, Refuses, Placed
  <2>2. Seconds(json.SecondsSinceEpoch, o.secondsSinceEpoch) \in Times
      BY <2>1 DEF Site, SiteRequests, SiteRefuses, Seconds, Printed
  <2>3. HasPosition(json) \in BOOLEAN
      BY DEF HasPosition
  <2>7. HasPosition(json) => json.Longitude \in Coords /\ json.Latitude \in Coords
      BY <2>1 DEF SiteRequests, SiteRefuses, HasPosition
  <2>8. HasPosition(json) =>
            AsFloat[json.Longitude] \in Floats /\ AsFloat[json.Latitude] \in Floats
      BY <2>7, FloatsStay
  <2>4. SiteUpdate(o, json) \in Site
      BY <2>1, <2>2, <2>3, <2>8 DEF Site, SiteRequests, SiteRefuses, SiteUpdate, Member
  <2>5. SiteUpdate(o, json).hasGps
        \/ (SiteUpdate(o, json).longitude = 0 /\ SiteUpdate(o, json).latitude = 0)
      BY <2>1 DEF Placed, Site, SiteUpdate
  <2>6. json.Uuid = Absent => SiteUpdate(o, json).uuid = o.uuid
      BY DEF SiteUpdate, Member
  <2> QED
      BY <1>2, <2>4, <2>5, <2>6 DEF Objects, Update, Placed
<1> QED
    BY <1>1, <1>2 DEF Edited

LEMMA ToJsonTyped ==
    ASSUME NEW T \in Edited, NEW o \in Objects(T)
    PROVE  ToJson(T, o) \in Requests(T)
<1>1. CASE T = "users"
    BY <1>1 DEF Objects, Requests, ToJson, User, UserRequests, UserToJson
<1>2. CASE T = "sites"
  <2>1. o \in Site
      BY <1>2 DEF Objects, Placed
  <2>2. SiteToJson(o) \in SiteRequests
      BY <2>1, FloatsStay DEF Site, SiteRequests, SiteToJson
  <2> QED
      BY <1>2, <2>2 DEF Requests, ToJson
<1> QED
    BY <1>1, <1>2 DEF Edited

LEMMA SameMembers ==
    ASSUME NEW T \in Edited, NEW f \in Requests(T), NEW g \in Requests(T)
    PROVE  DOMAIN f = DOMAIN g /\ "ImageMime" \notin DOMAIN f
    BY DEF Edited, Requests, UserRequests, SiteRequests

LEMMA BodyTyped ==
    ASSUME table \in Edited, NEW f \in Requests(table)
    PROVE  Body(f) \in Requests(table) /\ Body(f).Uuid = Absent
<1>1. CASE table = "users"
    BY <1>1 DEF Requests, Body, UserRequests
<1>2. CASE table = "sites"
  <2>1. 0 \in Statuses
      BY RecordsAssumption
  <2> QED
      BY <1>2, <2>1 DEF Requests, Body, SiteRequests, Member
<1> QED
    BY <1>1, <1>2 DEF Edited

LEMMA NothingTypedType ==
    ASSUME table \in Edited PROVE NothingTyped \in Requests(table)
<1>1. CASE table = "users"
    BY <1>1 DEF NothingTyped, Blank, ToJson, UserToJson, Requests, UserRequests
<1>2. CASE table = "sites"
    BY <1>2 DEF NothingTyped, Blank, ToJson, SiteToJson, Requests, SiteRequests
<1> QED
    BY <1>1, <1>2 DEF Edited

LEMMA GeocodedType ==
    ASSUME table = "sites", NEW f \in Requests(table), NEW p \in Positions
    PROVE  [f EXCEPT !.Latitude = p[1], !.Longitude = p[2]] \in Requests(table)
<1>1. p[1] \in Coords /\ p[2] \in Coords
    BY EditAssumption
<1> QED
    BY <1>1 DEF Requests, SiteRequests

-----------------------------------------------------------------------------
(***************************************************************************)
(* Types.  A request that carries a form never names the uuid, and a row is*)
(* the columns of an object with the uuid of the row.                      *)
(***************************************************************************)
Carries(r) ==
    r.kind # "delete" => r.json \in Requests(table) /\ r.json.Uuid = Absent

RowInv ==
    \A u \in DOMAIN rows : \E o \in Objects(table) : o.uuid = u /\ rows[u] = Columns(table, o)

ThreadInv ==
    /\ pc \in [Threads -> {"idle", "read"}]
    /\ job \in [Threads -> Request \cup {NoRequest}]
    /\ obj \in [Threads -> Objects(table) \cup {NoForm}]
    /\ \A t \in Threads : pc[t] = "read" =>
          /\ job[t] \in Request /\ job[t].kind = "put" /\ Carries(job[t])
          /\ obj[t] \in Objects(table) /\ obj[t].uuid \in used

PageInv ==
    /\ view \in [Clients -> {"list", "add", "edit"}]
    /\ target \in [Clients -> Uuids \cup {NoUuid}]
    /\ form \in [Clients -> Requests(table) \cup {NoForm}]
    /\ base \in [Clients -> Requests(table) \cup {NoForm}]
    /\ shown \in [Clients -> (SUBSET Uuids) \cup {NoList}]
    /\ \A c \in Clients :
          /\ target[c] \in used \cup {NoUuid}
          /\ shown[c] # NoList => shown[c] \subseteq used

EditInv ==
    /\ table \in Edited
    /\ DOMAIN rows \subseteq used /\ used \subseteq Uuids
    /\ RowInv /\ ThreadInv /\ PageInv
    /\ requests \subseteq Request /\ sent \in 0 .. MaxRequests
    /\ answers \in [Clients -> SUBSET Request]
    /\ \A r \in requests : Carries(r) /\ r.uuid \in used \cup {NoUuid}

LEMMA RowRead ==
    ASSUME EditInv, NEW u \in DOMAIN rows
    PROVE  /\ Object(table, rows[u]) \in Objects(table)
           /\ Object(table, rows[u]).uuid = u
           /\ rows[u] = Columns(table, Object(table, rows[u]))
<1>1. PICK o \in Objects(table) : o.uuid = u /\ rows[u] = Columns(table, o)
    BY DEF EditInv, RowInv
<1>2. Object(table, Columns(table, o)) = o
    BY RecordsSurvive, EditedTables DEF EditInv, RoundTrip, RowRoundTrip
<1> QED
    BY <1>1, <1>2

LEMMA ColumnsRead ==
    ASSUME NEW T \in Edited, NEW o \in Objects(T) PROVE Object(T, Columns(T, o)) = o
    BY RecordsSurvive, EditedTables DEF RoundTrip, RowRoundTrip

LEMMA EditInit == Init => EditInv
<1> SUFFICES ASSUME Init PROVE EditInv
    OBVIOUS
<1>0. table \in Edited
    BY DEF Init, Edited
<1>1. (CHOOSE n \in Times : TRUE) \in Times
    BY RecordsAssumption
<1>2. RowInv
    BY <1>0, <1>1, BlankObject, EditAssumption DEF Init, RowInv
<1>3. ThreadInv
    BY DEF Init, ThreadInv
<1>4. PageInv
  <2>1. /\ view = [c \in Clients |-> "list"] /\ target = [c \in Clients |-> NoUuid]
        /\ form = [c \in Clients |-> NoForm] /\ base = [c \in Clients |-> NoForm]
        /\ shown = [c \in Clients |-> NoList]
      BY DEF Init
  <2> QED
      BY <2>1 DEF PageInv
<1> QED
    BY <1>0, <1>2, <1>3, <1>4, EditAssumption DEF Init, EditInv

\* The steps of a tab leave the server alone.
LEMMA PageStep ==
    ASSUME EditInv, UNCHANGED <<table, rows, used, server>>, PageInv',
           requests' \subseteq Request, sent' \in 0 .. MaxRequests,
           answers' \in [Clients -> SUBSET Request],
           \A r \in requests' : Carries(r) /\ r.uuid \in used \cup {NoUuid}
    PROVE  EditInv'
<1>1. Request' = Request /\ \A r : Carries(r)' <=> Carries(r)
    BY DEF Request, Carries
<1>2. RowInv'
    BY DEF EditInv, RowInv
<1>3. ThreadInv'
    BY <1>1 DEF EditInv, ThreadInv, server
<1> QED
    BY <1>1, <1>2, <1>3 DEF EditInv

LEMMA OpenType ==
    ASSUME EditInv, table' = table, used' = used,
           NEW c \in Clients, NEW v \in {"list", "add", "edit"},
           NEW u \in used \cup {NoUuid}, NEW f \in Requests(table) \cup {NoForm},
           Open(c, v, u, f)
    PROVE  PageInv'
<1>1. u \in Uuids \cup {NoUuid}
    BY DEF EditInv
<1>2. /\ view' = [view EXCEPT ![c] = v] /\ target' = [target EXCEPT ![c] = u]
      /\ form' = [form EXCEPT ![c] = f] /\ base' = [base EXCEPT ![c] = f]
      /\ shown' = [shown EXCEPT ![c] = NoList]
    BY DEF Open
<1>3. PageInv
    BY DEF EditInv
<1>4. /\ view' \in [Clients -> {"list", "add", "edit"}]
      /\ target' \in [Clients -> Uuids \cup {NoUuid}]
      /\ form' \in [Clients -> Requests(table)' \cup {NoForm}]
      /\ base' \in [Clients -> Requests(table)' \cup {NoForm}]
      /\ shown' \in [Clients -> (SUBSET Uuids) \cup {NoList}]
    BY <1>1, <1>2, <1>3 DEF PageInv
<1>5. \A d \in Clients :
          /\ target'[d] \in used' \cup {NoUuid}
          /\ shown'[d] # NoList => shown'[d] \subseteq used'
    BY <1>2, <1>3 DEF PageInv
<1> QED
    BY <1>4, <1>5 DEF PageInv

LEMMA SendType ==
    ASSUME EditInv, NEW c \in Clients, NEW kind \in {"post", "put", "delete"},
           NEW json \in Requests(table) \cup {NoForm}, Send(c, kind, json),
           kind # "delete" => json \in Requests(table) /\ json.Uuid = Absent
    PROVE  /\ requests' \subseteq Request /\ sent' \in 0 .. MaxRequests
           /\ \A r \in requests' : Carries(r) /\ r.uuid \in used \cup {NoUuid}
<1> DEFINE r == [id |-> sent', client |-> c, kind |-> kind, uuid |-> target[c],
                 json |-> json, base |-> IF kind = "put" THEN base[c] ELSE NoForm]
<1>1. sent' \in 1 .. MaxRequests
    BY EditAssumption DEF Send, EditInv
<1>2. r \in Request
    BY <1>1 DEF Request, EditInv, PageInv
<1>3. Carries(r) /\ r.uuid \in used \cup {NoUuid}
    BY DEF Carries, EditInv, PageInv
<1>4. requests' = requests \cup {r}
    BY DEF Send
<1> HIDE DEF r
<1> QED
    BY <1>1, <1>2, <1>3, <1>4 DEF EditInv

LEMMA TabStep ==
    ASSUME EditInv, table' = table, NEW c \in Clients, Tab(c) PROVE EditInv'
<1>0. /\ table \in Edited /\ PageInv /\ requests \subseteq Request
      /\ sent \in 0 .. MaxRequests /\ answers \in [Clients -> SUBSET Request]
      /\ \A r \in requests : Carries(r) /\ r.uuid \in used \cup {NoUuid}
      /\ DOMAIN rows \subseteq used /\ used \subseteq Uuids
    BY DEF EditInv
<1>1. CASE OpenList(c)
  <2>1. PageInv'
      BY <1>1, OpenType DEF OpenList
  <2> QED
      BY <1>0, <1>1, <2>1, PageStep DEF OpenList
<1>2. CASE LoadList(c)
  <2>1. PageInv'
      BY <1>0, <1>2 DEF LoadList, Listing, PageInv
  <2> QED
      BY <1>0, <1>2, <2>1, PageStep DEF LoadList
<1>3. CASE OpenAdd(c)
  <2>1. NothingTyped \in Requests(table)
      BY <1>0, NothingTypedType
  <2>2. PageInv'
      BY <1>3, <2>1, OpenType DEF OpenAdd
  <2> QED
      BY <1>0, <1>3, <2>2, PageStep DEF OpenAdd
<1>4. CASE LoadForm(c)
  <2>1. ToJson(table, Object(table, rows[target[c]])) \in Requests(table)
      BY <1>0, <1>4, RowRead, ToJsonTyped DEF LoadForm
  <2>2. PageInv'
      BY <1>0, <1>4, <2>1 DEF LoadForm, PageInv
  <2> QED
      BY <1>0, <1>4, <2>2, PageStep DEF LoadForm
<1>5. CASE Save(c)
  <2>1. form[c] \in Requests(table)
      BY <1>0, <1>5 DEF Save, PageInv
  <2>2. Body(form[c]) \in Requests(table) /\ Body(form[c]).Uuid = Absent
      BY <1>0, <2>1, BodyTyped
  <2>3. /\ requests' \subseteq Request /\ sent' \in 0 .. MaxRequests
        /\ \A r \in requests' : Carries(r) /\ r.uuid \in used \cup {NoUuid}
      BY <1>5, <2>2, SendType DEF Save
  <2>4. PageInv'
      BY <1>0, <1>5 DEF Save, page, PageInv
  <2> QED
      BY <1>0, <1>5, <2>3, <2>4, PageStep DEF Save
<1>6. CASE Destroy(c)
  <2>1. /\ requests' \subseteq Request /\ sent' \in 0 .. MaxRequests
        /\ \A r \in requests' : Carries(r) /\ r.uuid \in used \cup {NoUuid}
      BY <1>6, SendType DEF Destroy
  <2>2. PageInv'
    <3>1. CASE table = "users"
        BY <1>6, <3>1, OpenType DEF Destroy
    <3>2. CASE table # "users"
        BY <1>0, <1>6, <3>2 DEF Destroy, page, PageInv
    <3> QED
        BY <3>1, <3>2
  <2> QED
      BY <1>0, <1>6, <2>1, <2>2, PageStep DEF Destroy
<1>7. ASSUME NEW u \in Uuids, OpenEdit(c, u) PROVE EditInv'
  <2>1. u \in used
      BY <1>0, <1>7 DEF OpenEdit, PageInv
  <2>2. PageInv'
      BY <1>7, <2>1, OpenType DEF OpenEdit
  <2> QED
      BY <1>0, <1>7, <2>2, PageStep DEF OpenEdit
<1>8. ASSUME NEW m \in DOMAIN Edits[table], NEW v \in Edits[table][m], Type(c, m, v)
      PROVE  EditInv'
  <2>1. form[c] \in Requests(table)
      BY <1>0, <1>8 DEF Type, PageInv
  <2>2. [form[c] EXCEPT ![m] = v] \in Requests(table)
      BY <1>0, <2>1, EditAssumption DEF Edited
  <2>3. form' = [form EXCEPT ![c] = [form[c] EXCEPT ![m] = v]]
      BY <1>8 DEF Type
  <2>4. PageInv'
      BY <1>0, <1>8, <2>2, <2>3 DEF Type, PageInv
  <2> QED
      BY <1>0, <1>8, <2>4, PageStep DEF Type
<1>9. ASSUME NEW p \in Positions, Geocode(c, p) PROVE EditInv'
  <2>1. form[c] \in Requests(table) /\ table = "sites"
      BY <1>0, <1>9 DEF Geocode, PageInv
  <2>2. [form[c] EXCEPT !.Latitude = p[1], !.Longitude = p[2]] \in Requests(table)
      BY <2>1, GeocodedType
  <2>3. form' = [form EXCEPT ![c] = [form[c] EXCEPT !.Latitude = p[1], !.Longitude = p[2]]]
      BY <1>0, <1>9 DEF Geocode, PageInv
  <2>4. PageInv'
      BY <1>0, <1>9, <2>2, <2>3 DEF Geocode, PageInv
  <2> QED
      BY <1>0, <1>9, <2>4, PageStep DEF Geocode
<1>10. ASSUME NEW r \in answers[c], Arrive(c, r) PROVE EditInv'
  <2>1. PageInv'
      BY <1>10, OpenType DEF Arrive
  <2>2. answers' \in [Clients -> SUBSET Request]
      BY <1>0, <1>10 DEF Arrive
  <2> QED
      BY <1>0, <1>10, <2>1, <2>2, PageStep DEF Arrive
<1> QED
    BY <1>1, <1>2, <1>3, <1>4, <1>5, <1>6, <1>7, <1>8, <1>9, <1>10 DEF Tab

-----------------------------------------------------------------------------
\* The steps of a worker leave the pages alone; uuids are only added.
LEMMA WorkerPages ==
    ASSUME EditInv, UNCHANGED <<table, sent, page>>, used \subseteq used', used' \subseteq Uuids,
           requests' \subseteq requests, RowInv', ThreadInv', DOMAIN rows' \subseteq used',
           answers' \in [Clients -> SUBSET Request]
    PROVE  EditInv'
<1>1. Request' = Request /\ \A r : Carries(r)' <=> Carries(r)
    BY DEF Request, Carries
<1>2. PageInv'
    BY DEF EditInv, PageInv, page
<1> QED
    BY <1>1, <1>2 DEF EditInv

LEMMA AnswerType ==
    ASSUME EditInv, NEW r \in Request, Answer(r) PROVE answers' \in [Clients -> SUBSET Request]
    BY DEF EditInv, Answer, Request

\* What a row gets is an object of its uuid.
LEMMA StoreRows ==
    ASSUME EditInv, table' = table, NEW o \in Objects(table), NEW r, Store(o.uuid, o, r)
    PROVE  RowInv' /\ DOMAIN rows' = DOMAIN rows \cup {o.uuid}
    BY DEF EditInv, Store, RowInv

LEMMA CreateObject ==
    ASSUME EditInv, NEW u \in Uuids, NEW now \in Times, NEW r \in requests,
           r.kind = "post", ~Refuses(table, FromJson(table, u, now, r.json), r.json)
    PROVE  LET o == FromJson(table, u, now, r.json) IN
           /\ o = Update(table, Blank(u, now), r.json)
           /\ o \in Objects(table) /\ o.uuid = u /\ [o EXCEPT !.uuid = u] = o
<1> DEFINE o == FromJson(table, u, now, r.json)
<1>1. table \in Edited /\ r.json \in Requests(table) /\ r.json.Uuid = Absent
    BY DEF EditInv, Carries
<1>2. o = Update(table, Blank(u, now), r.json)
    BY <1>1, FromJsonUpdates
<1>3. Blank(u, now) \in Objects(table) /\ Blank(u, now).uuid = u
    BY <1>1, BlankObject
<1>4. o \in Objects(table) /\ o.uuid = u
    BY <1>1, <1>2, <1>3, UpdateTyped
<1> QED
    BY <1>1, <1>2, <1>4, ObjectUuid

\* What an update writes.
LEMMA UpdateObject ==
    ASSUME EditInv, NEW t \in Threads, pc[t] = "read",
           ~Refuses(table, obj[t], job[t].json)
    PROVE  LET o == Update(table, obj[t], job[t].json) IN
           o \in Objects(table) /\ o.uuid = obj[t].uuid
<1>1. /\ table \in Edited /\ job[t].json \in Requests(table) /\ job[t].json.Uuid = Absent
      /\ obj[t] \in Objects(table)
    BY DEF EditInv, ThreadInv, Carries
<1> QED
    BY <1>1, UpdateTyped

LEMMA WorkerStep ==
    ASSUME EditInv, table' = table, NEW t \in Threads, Worker(t) PROVE EditInv'
<1>0. /\ table \in Edited /\ RowInv /\ ThreadInv /\ requests \subseteq Request
      /\ answers \in [Clients -> SUBSET Request]
      /\ DOMAIN rows \subseteq used /\ used \subseteq Uuids
      /\ \A r \in requests : Carries(r)
    BY DEF EditInv
<1>t. Request' = Request /\ \A r : Carries(r)' <=> Carries(r)
    BY DEF Request, Carries
<1>1. ASSUME NEW r \in requests, Create(t, r) PROVE EditInv'
  <2>1. PICK u \in Uuids \ used, now \in Times :
            LET o == FromJson(table, u, now, r.json) IN
            IF Refuses(table, o, r.json)
            THEN UNCHANGED <<rows, used, answers, written>>
            ELSE /\ used' = used \cup {u}
                 /\ Store(u, [o EXCEPT !.uuid = u], r)
                 /\ Answer(r)
      BY <1>1 DEF Create
  <2>2. /\ r.kind = "post" /\ requests' \subseteq requests
        /\ UNCHANGED <<server, sent, page>>
      BY <1>1 DEF Create
  <2> DEFINE o == FromJson(table, u, now, r.json)
  <2>3. CASE Refuses(table, o, r.json)
    <3>1. UNCHANGED <<rows, used, answers>>
        BY <2>1, <2>3
    <3>2. RowInv' /\ ThreadInv'
        BY <1>0, <1>t, <2>2, <3>1 DEF RowInv, ThreadInv, server
    <3> QED
        BY <1>0, <1>t, <2>2, <3>1, <3>2, WorkerPages
  <2>4. CASE ~Refuses(table, o, r.json)
    <3>1. used' = used \cup {u} /\ Store(u, [o EXCEPT !.uuid = u], r) /\ Answer(r)
        BY <2>1, <2>4
    <3>2. o \in Objects(table) /\ o.uuid = u /\ [o EXCEPT !.uuid = u] = o
        BY <2>2, <2>4, CreateObject
    <3> HIDE DEF o
    <3>3. Store(o.uuid, o, r)
        BY <3>1, <3>2
    <3>4. RowInv' /\ DOMAIN rows' = DOMAIN rows \cup {u}
        BY <3>2, <3>3, StoreRows
    <3>5. answers' \in [Clients -> SUBSET Request]
        BY <1>0, <3>1, AnswerType
    <3>6. ThreadInv'
        BY <1>0, <1>t, <2>2, <3>1 DEF ThreadInv, server
    <3> QED
        BY <1>0, <1>t, <2>2, <3>1, <3>4, <3>5, <3>6, WorkerPages
  <2> QED
      BY <2>3, <2>4
<1>2. ASSUME NEW r \in requests, UpdateRead(t, r) PROVE EditInv'
  <2>1. /\ r.kind = "put" /\ requests' \subseteq requests /\ r \in Request /\ Carries(r)
        /\ pc' = [pc EXCEPT ![t] = "read"] /\ job' = [job EXCEPT ![t] = r]
        /\ UNCHANGED <<rows, sent, page, answers>>
      BY <1>0, <1>2 DEF UpdateRead
  <2>2. PICK o \in Objects(table) :
            /\ obj' = [obj EXCEPT ![t] = o] /\ o.uuid \in used'
            /\ used \subseteq used' /\ used' \subseteq Uuids
    <3>1. CASE r.uuid \in DOMAIN rows
        BY <1>0, <1>2, <3>1, RowRead DEF UpdateRead
    <3>2. CASE r.uuid \notin DOMAIN rows
      <4>1. PICK u \in Uuids \ used, now \in Times :
                obj' = [obj EXCEPT ![t] = Blank(u, now)] /\ used' = used \cup {u}
          BY <1>2, <3>2 DEF UpdateRead
      <4>2. Blank(u, now) \in Objects(table) /\ Blank(u, now).uuid = u
          BY <1>0, BlankObject
      <4> QED
          BY <1>0, <4>1, <4>2
    <3> QED
        BY <3>1, <3>2
  <2>3. ThreadInv'
      BY <1>0, <1>t, <2>1, <2>2 DEF ThreadInv
  <2>4. RowInv' /\ DOMAIN rows' \subseteq used'
      BY <1>0, <2>1, <2>2 DEF RowInv
  <2> QED
      BY <1>0, <2>1, <2>2, <2>3, <2>4, WorkerPages
<1>3. ASSUME NEW r \in requests, Delete(t, r) PROVE EditInv'
  <2>1. /\ rows' = [u \in DOMAIN rows \ {r.uuid} |-> rows[u]] /\ Answer(r)
        /\ requests' \subseteq requests /\ UNCHANGED <<used, server, sent, page>>
      BY <1>3 DEF Delete, DeleteRow
  <2>2. answers' \in [Clients -> SUBSET Request]
      BY <1>0, <2>1, AnswerType
  <2>3. RowInv'
      BY <1>0, <2>1 DEF RowInv
  <2>4. ThreadInv'
      BY <1>0, <1>t, <2>1 DEF ThreadInv, server
  <2> QED
      BY <1>0, <2>1, <2>2, <2>3, <2>4, WorkerPages
<1>4. CASE UpdateWrite(t)
  <2> DEFINE o == Update(table, obj[t], job[t].json)
  <2>1. /\ pc[t] = "read" /\ pc' = [pc EXCEPT ![t] = "idle"]
        /\ job' = [job EXCEPT ![t] = NoRequest] /\ obj' = [obj EXCEPT ![t] = NoForm]
        /\ UNCHANGED <<used, requests, sent, page>>
      BY <1>4 DEF UpdateWrite
  <2>2. ThreadInv'
      BY <1>0, <1>t, <2>1 DEF ThreadInv
  <2>3. CASE Refuses(table, obj[t], job[t].json)
    <3>1. UNCHANGED <<rows, answers>>
        BY <1>4, <2>3 DEF UpdateWrite
    <3>2. RowInv'
        BY <1>0, <3>1 DEF RowInv
    <3> QED
        BY <1>0, <2>1, <2>2, <3>1, <3>2, WorkerPages
  <2>4. CASE ~Refuses(table, obj[t], job[t].json)
    <3>1. Store(o.uuid, o, job[t]) /\ Answer(job[t])
        BY <1>4, <2>4 DEF UpdateWrite
    <3>2. o \in Objects(table) /\ o.uuid = obj[t].uuid
        BY <2>1, <2>4, UpdateObject
    <3> HIDE DEF o
    <3>3. RowInv' /\ DOMAIN rows' = DOMAIN rows \cup {o.uuid}
        BY <3>1, <3>2, StoreRows
    <3>4. job[t] \in Request /\ o.uuid \in used
        BY <1>0, <2>1, <3>2 DEF ThreadInv
    <3>5. answers' \in [Clients -> SUBSET Request]
        BY <3>1, <3>4, AnswerType
    <3> QED
        BY <1>0, <2>1, <2>2, <3>3, <3>4, <3>5, WorkerPages
  <2> QED
      BY <2>3, <2>4
<1> QED
    BY <1>1, <1>2, <1>3, <1>4 DEF Worker

LEMMA EditStep == EditInv /\ [Next]_vars => EditInv'
<1> SUFFICES ASSUME EditInv, [Next]_vars PROVE EditInv'
    OBVIOUS
<1>1. CASE Next
    BY <1>1, TabStep, WorkerStep DEF Next
<1>2. CASE UNCHANGED vars
  <2>1. Request' = Request /\ \A r : Carries(r)' <=> Carries(r)
      BY <1>2 DEF vars, Request, Carries
  <2>2. RowInv' /\ ThreadInv' /\ PageInv'
      BY <1>2, <2>1 DEF vars, server, page, EditInv, RowInv, ThreadInv, PageInv
  <2> QED
      BY <1>2, <2>1, <2>2 DEF vars, EditInv
<1> QED
    BY <1>1, <1>2

LEMMA EditInvariance == Spec => []EditInv
    BY EditInit, EditStep, PTL DEF Spec

\* Every variable keeps its type: a request that does not convert changes nothing
\* (the handlers of PhotoTrackApi.cpp).
THEOREM EditTypeCorrect == Spec => []EditTypeOK
<1>1. EditInv => EditTypeOK
  <2> SUFFICES ASSUME EditInv PROVE EditTypeOK
      OBVIOUS
  <2>1. \A u \in DOMAIN rows : Object(table, rows[u]) \in Objects(table)
      BY RowRead
  <2> QED
      BY <2>1 DEF EditInv, EditTypeOK, ThreadInv, PageInv, Edited
<1> QED
    BY <1>1, EditInvariance, PTL

-----------------------------------------------------------------------------
(***************************************************************************)
(* What the last save sent.                                                *)
(***************************************************************************)
Sent(json, row) ==
    \A m \in DOMAIN json :
        json[m] # Absent /\ (m \in {"Longitude", "Latitude"} => HasPosition(json)) =>
            ToJson(table, Object(table, row))[m] = Kept(m, json[m])

WrittenInv ==
    \A u \in DOMAIN written : u \in DOMAIN rows /\ Sent(written[u].json, rows[u])

LEMMA WrittenMeans == WrittenInv <=> NoMixture
    BY DEF WrittenInv, NoMixture, Sent

\* What is told of an object after an update, as PutThenGet has it.
LEMMA UpdateTold ==
    ASSUME NEW T \in Edited, NEW x \in Objects(T), NEW json \in Requests(T),
           ~Refuses(T, x, json), NEW m \in DOMAIN json
    PROVE  /\ ToJson(T, Update(T, x, json))[m] =
                 IF Takes(json, m) THEN Kept(m, json[m]) ELSE ToJson(T, x)[m]
           /\ Takes(json, m) <=>
                 json[m] # Absent /\ (m \in {"Longitude", "Latitude"} => HasPosition(json))
<1>1. T \in Tables /\ m # "ImageMime"
    BY EditedTables, SameMembers
<1> QED
    BY <1>1, PutsAreTold DEF PutThenGet, Takes

\* The row of an updated object holds what was sent.
LEMMA UpdateSent ==
    ASSUME table \in Edited, NEW x \in Objects(table), NEW json \in Requests(table),
           ~Refuses(table, x, json)
    PROVE  Sent(json, Columns(table, Update(table, x, json)))
<1>1. Update(table, x, json) \in Objects(table)
    BY UpdateTyped
<1>2. Object(table, Columns(table, Update(table, x, json))) = Update(table, x, json)
    BY <1>1, ColumnsRead
<1> QED
    BY <1>2, UpdateTold DEF Sent

LEMMA StoreSent ==
    ASSUME WrittenInv, table' = table, NEW o, NEW r, Store(o.uuid, o, r),
           Sent(r.json, Columns(table, o))
    PROVE  WrittenInv'
<1>1. \A json, row : Sent(json, row)' <=> Sent(json, row)
    BY DEF Sent
<1> QED
    BY <1>1 DEF WrittenInv, Store

LEMMA WrittenStep == EditInv /\ WrittenInv /\ [Next]_vars => WrittenInv'
<1> SUFFICES ASSUME EditInv, WrittenInv, [Next]_vars PROVE WrittenInv'
    OBVIOUS
<1>0. table' = table
    BY DEF Next, vars
<1>s. \A json, row : Sent(json, row)' <=> Sent(json, row)
    BY <1>0 DEF Sent
<1>1. CASE UNCHANGED <<rows, written>>
    BY <1>1, <1>s DEF WrittenInv
<1>2. ASSUME NEW c \in Clients, Tab(c) PROVE UNCHANGED <<rows, written>>
    BY <1>2 DEF Tab, OpenList, LoadList, OpenAdd, LoadForm, Save, Destroy, OpenEdit, Type,
                Geocode, Arrive, history
<1>3. ASSUME NEW t \in Threads, NEW r \in requests, Create(t, r) PROVE WrittenInv'
  <2>1. PICK u \in Uuids \ used, now \in Times :
            LET o == FromJson(table, u, now, r.json) IN
            IF Refuses(table, o, r.json)
            THEN UNCHANGED <<rows, used, answers, written>>
            ELSE /\ used' = used \cup {u}
                 /\ Store(u, [o EXCEPT !.uuid = u], r)
                 /\ Answer(r)
      BY <1>3 DEF Create
  <2> DEFINE o == FromJson(table, u, now, r.json)
  <2>2. CASE Refuses(table, o, r.json)
      BY <1>1, <2>1, <2>2
  <2>3. CASE ~Refuses(table, o, r.json)
    <3>1. r.kind = "post" /\ table \in Edited /\ r.json \in Requests(table)
        BY <1>3 DEF Create, EditInv, Carries
    <3>2. /\ o = Update(table, Blank(u, now), r.json) /\ o.uuid = u
          /\ [o EXCEPT !.uuid = u] = o
        BY <2>3, <3>1, CreateObject
    <3>3. Blank(u, now) \in Objects(table) /\ ~Refuses(table, Blank(u, now), r.json)
        BY <2>3, <3>1, BlankObject DEF Refuses, Edited
    <3>4. Sent(r.json, Columns(table, o))
        BY <3>1, <3>2, <3>3, UpdateSent
    <3>5. Store(u, [o EXCEPT !.uuid = u], r)
        BY <2>1, <2>3
    <3> HIDE DEF o
    <3>6. Store(o.uuid, o, r)
        BY <3>2, <3>5
    <3> QED
        BY <1>0, <3>4, <3>6, StoreSent
  <2> QED
      BY <2>2, <2>3
<1>4. ASSUME NEW t \in Threads, NEW r \in requests, UpdateRead(t, r)
      PROVE  UNCHANGED <<rows, written>>
    BY <1>4 DEF UpdateRead, history
<1>5. ASSUME NEW t \in Threads, NEW r \in requests, Delete(t, r) PROVE WrittenInv'
  <2>1. /\ rows' = [u \in DOMAIN rows \ {r.uuid} |-> rows[u]]
        /\ written' = [u \in DOMAIN written \ {r.uuid} |-> written[u]]
      BY <1>5 DEF Delete, DeleteRow
  <2> QED
      BY <1>s, <2>1 DEF WrittenInv
<1>6. ASSUME NEW t \in Threads, UpdateWrite(t) PROVE WrittenInv'
  <2> DEFINE o == Update(table, obj[t], job[t].json)
  <2>1. CASE Refuses(table, obj[t], job[t].json)
      BY <1>1, <1>6, <2>1 DEF UpdateWrite
  <2>2. CASE ~Refuses(table, obj[t], job[t].json)
    <3>1. Store(o.uuid, o, job[t])
        BY <1>6, <2>2 DEF UpdateWrite
    <3>2. table \in Edited /\ obj[t] \in Objects(table) /\ job[t].json \in Requests(table)
        BY <1>6 DEF UpdateWrite, EditInv, ThreadInv, Carries
    <3>3. Sent(job[t].json, Columns(table, o))
        BY <2>2, <3>2, UpdateSent
    <3> HIDE DEF o
    <3> QED
        BY <1>0, <3>1, <3>3, StoreSent
  <2> QED
      BY <2>1, <2>2
<1>7. CASE UNCHANGED vars
    BY <1>1, <1>7 DEF vars, history
<1> QED
    BY <1>1, <1>2, <1>3, <1>4, <1>5, <1>6, <1>7 DEF Next, Worker

\* However saves overlap, a row holds all that the last save that wrote it sent, of
\* a coordinate the float next to it (UpdateUser, UpdateSite).
THEOREM RowsNeverMixForms == Spec => []NoMixture
<1>1. Init => WrittenInv
    BY DEF Init, WrittenInv
<1>2. Spec => []WrittenInv
    BY <1>1, WrittenStep, EditInvariance, PTL DEF Spec
<1> QED
    BY <1>2, WrittenMeans, PTL

-----------------------------------------------------------------------------
(***************************************************************************)
(* Deletions.  An object that a PUT holds of a deleted row is one it read  *)
(* before the deletion; what a client was told is deleted, is.             *)
(***************************************************************************)
GoneInv ==
    /\ deleted \subseteq used \cup {NoUuid}
    /\ DOMAIN rows \cap deleted \subseteq raced
    /\ \A t \in Threads :
          pc[t] = "read" /\ obj[t].uuid \in deleted => obj[t].uuid \in raced

LEMMA GoneStep == EditInv /\ GoneInv /\ [Next]_vars => GoneInv'
<1> SUFFICES ASSUME EditInv, GoneInv, [Next]_vars PROVE GoneInv'
    OBVIOUS
<1>0. /\ NoUuid \notin Uuids /\ used \subseteq Uuids /\ DOMAIN rows \subseteq used
      /\ pc \in [Threads -> {"idle", "read"}]
      /\ obj \in [Threads -> Objects(table) \cup {NoForm}]
      /\ \A r \in requests : r.uuid \in used \cup {NoUuid}
    BY EditAssumption DEF EditInv, ThreadInv
<1>1. CASE UNCHANGED <<rows, used, server, deleted, raced>>
    BY <1>1 DEF GoneInv, server
<1>2. ASSUME NEW c \in Clients, Tab(c) PROVE UNCHANGED <<rows, used, server, deleted, raced>>
    BY <1>2 DEF Tab, OpenList, LoadList, OpenAdd, LoadForm, Save, Destroy, OpenEdit, Type,
                Geocode, Arrive, history
<1>3. ASSUME NEW t \in Threads, NEW r \in requests, Create(t, r) PROVE GoneInv'
  <2>1. PICK u \in Uuids \ used :
            \/ UNCHANGED <<rows, used>>
            \/ used' = used \cup {u} /\ DOMAIN rows' = DOMAIN rows \cup {u}
      BY <1>3 DEF Create, Store
  <2>2. u \notin deleted
      BY <1>0 DEF GoneInv
  <2>3. UNCHANGED <<server, deleted, raced>>
      BY <1>3 DEF Create
  <2> QED
      BY <2>1, <2>2, <2>3 DEF GoneInv, server
<1>4. ASSUME NEW t \in Threads, NEW r \in requests, UpdateRead(t, r) PROVE GoneInv'
  <2>1. PICK o : /\ obj' = [obj EXCEPT ![t] = o] /\ used \subseteq used'
                 /\ o.uuid \in deleted => o.uuid \in raced
    <3>1. CASE r.uuid \in DOMAIN rows
        BY <1>4, <3>1, RowRead DEF UpdateRead, GoneInv
    <3>2. CASE r.uuid \notin DOMAIN rows
      <4>1. PICK u \in Uuids \ used, now \in Times :
                obj' = [obj EXCEPT ![t] = Blank(u, now)] /\ used' = used \cup {u}
          BY <1>4, <3>2 DEF UpdateRead
      <4>2. Blank(u, now).uuid = u /\ u \notin deleted
          BY <1>0, BlankObject DEF GoneInv, EditInv
      <4> QED
          BY <4>1, <4>2
    <3> QED
        BY <3>1, <3>2
  <2>2. pc' = [pc EXCEPT ![t] = "read"] /\ UNCHANGED <<rows, deleted, raced>>
      BY <1>4 DEF UpdateRead, history
  <2>3. \A x \in Threads : IF x = t THEN obj'[x] = o ELSE obj'[x] = obj[x] /\ pc'[x] = pc[x]
      BY <1>0, <2>1, <2>2
  <2> QED
      BY <2>1, <2>2, <2>3 DEF GoneInv
<1>5. ASSUME NEW t \in Threads, NEW r \in requests, Delete(t, r) PROVE GoneInv'
  <2>1. /\ DOMAIN rows' = DOMAIN rows \ {r.uuid} /\ deleted' = deleted \cup {r.uuid}
        /\ raced' = IF \E x \in Threads : pc[x] = "read" /\ obj[x].uuid = r.uuid
                    THEN raced \cup {r.uuid} ELSE raced
        /\ UNCHANGED <<used, server>>
      BY <1>5 DEF Delete, DeleteRow
  <2> QED
      BY <1>0, <2>1 DEF GoneInv, server
<1>6. ASSUME NEW t \in Threads, UpdateWrite(t) PROVE GoneInv'
  <2>1. \/ UNCHANGED rows
        \/ DOMAIN rows' = DOMAIN rows \cup {obj[t].uuid}
      BY <1>6, UpdateObject DEF UpdateWrite, Store
  <2>2. /\ pc[t] = "read" /\ pc' = [pc EXCEPT ![t] = "idle"]
        /\ obj' = [obj EXCEPT ![t] = NoForm] /\ UNCHANGED <<used, deleted, raced>>
      BY <1>6 DEF UpdateWrite
  <2>3. \A x \in Threads : pc'[x] = "read" => pc[x] = "read" /\ obj'[x] = obj[x]
      BY <1>0, <2>2
  <2> QED
      BY <2>1, <2>2, <2>3 DEF GoneInv
<1>7. CASE UNCHANGED vars
    BY <1>1, <1>7 DEF vars, history
<1> QED
    BY <1>1, <1>2, <1>3, <1>4, <1>5, <1>6, <1>7 DEF Next, Worker

LEMMA GoneInvariance == Spec => []GoneInv
<1>1. Init => GoneInv
    BY DEF Init, GoneInv
<1> QED
    BY <1>1, GoneStep, EditInvariance, PTL DEF Spec

\* A deleted row comes back under its uuid only through a PUT that had read it
\* before the deletion (UpdateUser, UpdateSite, DeleteUser, DeleteSite).
THEOREM DeletionsLast == Spec => []DeletedStaysDeleted
    BY GoneInvariance, PTL DEF GoneInv, DeletedStaysDeleted

ToldInv ==
    /\ \A c \in Clients : told[c] \subseteq deleted
    /\ \A c \in Clients : \A r \in answers[c] : r.kind = "delete" => r.uuid \in deleted
    /\ \A c \in Clients : shown[c] # NoList => shown[c] \cap told[c] \subseteq raced
    /\ told \in [Clients -> SUBSET (used \cup {NoUuid})]

\* A step that opens no list and adds no answer to a deletion
LEMMA ToldKept ==
    ASSUME ToldInv, UNCHANGED told, used \subseteq used', deleted \subseteq deleted',
           raced \subseteq raced',
           \A c \in Clients : shown'[c] = shown[c] \/ shown'[c] = NoList,
           \A c \in Clients : \A r \in answers'[c] :
               r \in answers[c] \/ (r.kind = "delete" => r.uuid \in deleted')
    PROVE  ToldInv'
<1>1. told' \in [Clients -> SUBSET (used' \cup {NoUuid})]
    BY DEF ToldInv
<1> QED
    BY <1>1 DEF ToldInv

LEMMA AnswerAdds ==
    ASSUME EditInv, NEW r, Answer(r)
    PROVE  \A c \in Clients : \A x \in answers'[c] : x \in answers[c] \/ x = r
    BY DEF EditInv, Answer

LEMMA ToldTab ==
    ASSUME EditInv, GoneInv, ToldInv, NEW c \in Clients, Tab(c) PROVE ToldInv'
<1>0. /\ shown \in [Clients -> (SUBSET Uuids) \cup {NoList}]
      /\ answers \in [Clients -> SUBSET Request]
      /\ told \in [Clients -> SUBSET (used \cup {NoUuid})]
    BY DEF EditInv, PageInv, ToldInv
<1>1. CASE LoadList(c)
  <2>1. /\ shown' = [shown EXCEPT ![c] = DOMAIN rows]
        /\ UNCHANGED <<used, answers, told, deleted, raced>>
      BY <1>1 DEF LoadList, Listing, history
  <2>2. DOMAIN rows \cap told[c] \subseteq raced
      BY DEF GoneInv, ToldInv
  <2> QED
      BY <1>0, <2>1, <2>2 DEF ToldInv
<1>2. ASSUME NEW r \in answers[c], Arrive(c, r) PROVE ToldInv'
  <2>1. /\ answers' = [answers EXCEPT ![c] = @ \ {r}]
        /\ shown' = [shown EXCEPT ![c] = NoList]
        /\ told' = IF r.kind = "delete" THEN [told EXCEPT ![c] = @ \cup {r.uuid}] ELSE told
        /\ UNCHANGED <<used, deleted, raced>>
      BY <1>2 DEF Arrive, Open
  <2>2. r.kind = "delete" => r.uuid \in deleted /\ r.uuid \in used \cup {NoUuid}
      BY <1>2 DEF ToldInv, GoneInv
  <2>3. told' \in [Clients -> SUBSET (used' \cup {NoUuid})]
      BY <1>0, <2>1, <2>2
  <2>4. \A d \in Clients : /\ told'[d] \subseteq deleted
                           /\ d # c => told'[d] = told[d] /\ shown'[d] = shown[d]
                           /\ d = c => shown'[d] = NoList
                           /\ answers'[d] \subseteq answers[d]
      BY <1>0, <2>1, <2>2 DEF ToldInv
  <2> QED
      BY <2>1, <2>3, <2>4 DEF ToldInv
<1>3. ASSUME /\ UNCHANGED <<used, answers, history>>
             /\ UNCHANGED shown \/ shown' = [shown EXCEPT ![c] = NoList]
      PROVE  ToldInv'
    BY <1>0, <1>3, ToldKept DEF history
<1>4. CASE OpenList(c)
    BY <1>3, <1>4 DEF OpenList, Open
<1>5. CASE OpenAdd(c)
    BY <1>3, <1>5 DEF OpenAdd, Open
<1>6. CASE LoadForm(c)
    BY <1>3, <1>6 DEF LoadForm
<1>7. CASE Save(c)
    BY <1>3, <1>7 DEF Save, page
<1>8. CASE Destroy(c)
    BY <1>3, <1>8 DEF Destroy, Open, page
<1>9. ASSUME NEW u \in Uuids, OpenEdit(c, u) PROVE ToldInv'
    BY <1>3, <1>9 DEF OpenEdit, Open
<1>10. ASSUME NEW m, NEW v, Type(c, m, v) PROVE ToldInv'
    BY <1>3, <1>10 DEF Type
<1>11. ASSUME NEW p, Geocode(c, p) PROVE ToldInv'
    BY <1>3, <1>11 DEF Geocode
<1> QED
    BY <1>1, <1>2, <1>4, <1>5, <1>6, <1>7, <1>8, <1>9, <1>10, <1>11 DEF Tab

LEMMA ToldWorker ==
    ASSUME EditInv, GoneInv, ToldInv, NEW t \in Threads, Worker(t) PROVE ToldInv'
<1>1. ASSUME NEW r \in requests, Create(t, r) PROVE ToldInv'
  <2>1. /\ UNCHANGED <<page, told, deleted, raced>> /\ used \subseteq used'
        /\ r.kind = "post" /\ (UNCHANGED answers \/ Answer(r))
      BY <1>1 DEF Create
  <2> QED
      BY <2>1, AnswerAdds, ToldKept DEF page
<1>2. ASSUME NEW r \in requests, UpdateRead(t, r) PROVE ToldInv'
    BY <1>2, ToldKept DEF UpdateRead, page, history
<1>3. ASSUME NEW r \in requests, Delete(t, r) PROVE ToldInv'
  <2>1. /\ UNCHANGED <<page, told, used>> /\ deleted' = deleted \cup {r.uuid}
        /\ raced \subseteq raced' /\ Answer(r)
      BY <1>3 DEF Delete
  <2> QED
      BY <2>1, AnswerAdds, ToldKept DEF page
<1>4. CASE UpdateWrite(t)
  <2>1. /\ UNCHANGED <<page, told, deleted, raced, used>>
        /\ job[t].kind = "put" /\ (UNCHANGED answers \/ Answer(job[t]))
      BY <1>4 DEF UpdateWrite, EditInv, ThreadInv
  <2> QED
      BY <2>1, AnswerAdds, ToldKept DEF page
<1> QED
    BY <1>1, <1>2, <1>3, <1>4 DEF Worker

\* A list that a tab opens after it was told of a deletion no longer shows the row,
\* unless a save raced with the deletion (EditSiteCtrl, DeleteSite).
THEOREM DeletionsAreSeen == Spec => []DeletedNotListed
<1>1. Init => ToldInv
    BY DEF Init, ToldInv
<1>2. EditInv /\ GoneInv /\ ToldInv /\ [Next]_vars => ToldInv'
  <2> SUFFICES ASSUME EditInv, GoneInv, ToldInv, [Next]_vars PROVE ToldInv'
      OBVIOUS
  <2>1. CASE UNCHANGED vars
      BY <2>1 DEF vars, page, history, ToldInv
  <2> QED
      BY <2>1, ToldTab, ToldWorker DEF Next
<1>3. ToldInv => DeletedNotListed
    BY DEF ToldInv, DeletedNotListed
<1> QED
    BY <1>1, <1>2, <1>3, EditInvariance, GoneInvariance, PTL DEF Spec

-----------------------------------------------------------------------------
(***************************************************************************)
(* What a save may undo, and what a row tells.                             *)
(***************************************************************************)

\* What an object tells is kept when it is sent back: its coordinates are floats.
LEMMA TellingIsKept ==
    ASSUME NEW T \in Edited, NEW o \in Objects(T), NEW m \in DOMAIN ToJson(T, o),
           ToJson(T, o)[m] # Absent
    PROVE  Kept(m, ToJson(T, o)[m]) = ToJson(T, o)[m]
<1>1. CASE m \notin {"Longitude", "Latitude"}
    BY <1>1 DEF Kept
<1>2. CASE T = "sites" /\ m \in {"Longitude", "Latitude"}
  <2>1. o.longitude \in Floats /\ o.latitude \in Floats
      BY <1>2 DEF Objects, Placed, Site
  <2>2. ToJson(T, o)[m] \in {o.longitude, o.latitude}
      BY <1>2 DEF ToJson, SiteToJson
  <2>3. AsFloat[ToJson(T, o)[m]] = ToJson(T, o)[m]
      BY <2>1, <2>2, FloatsStay
  <2> QED
      BY <1>2, <2>3 DEF Kept
<1>3. CASE T = "users"
    BY <1>1, <1>3 DEF ToJson, UserToJson
<1> QED
    BY <1>1, <1>2, <1>3 DEF Edited

LEMMA WriteKeepsUntouched ==
    ASSUME EditInv, table' = table, NEW t \in Threads, UpdateWrite(t),
           obj[t].uuid \in DOMAIN rows,
           Object(table, rows[obj[t].uuid]) = obj[t], ToJson(table, obj[t]) = job[t].base,
           NEW m \in DOMAIN job[t].base, job[t].json[m] = job[t].base[m]
    PROVE  ToJson(table, Object(table, rows'[obj[t].uuid]))[m] = job[t].base[m]
<1>1. CASE Refuses(table, obj[t], job[t].json)
    BY <1>1 DEF UpdateWrite
<1>2. CASE ~Refuses(table, obj[t], job[t].json)
  <2> DEFINE o == Update(table, obj[t], job[t].json)
  <2>1. /\ table \in Edited /\ obj[t] \in Objects(table) /\ job[t].json \in Requests(table)
      BY DEF UpdateWrite, EditInv, ThreadInv, Carries
  <2>2. o \in Objects(table) /\ o.uuid = obj[t].uuid
      BY <1>2, UpdateObject DEF UpdateWrite
  <2>3. rows'[obj[t].uuid] = Columns(table, o)
      BY <1>2, <2>2 DEF UpdateWrite, Store
  <2>4. Object(table, rows'[obj[t].uuid]) = o
      BY <2>1, <2>2, <2>3, ColumnsRead
  <2>5. m \in DOMAIN job[t].json
      BY <2>1, ToJsonTyped, SameMembers
  <2>6. ToJson(table, o)[m] =
            IF Takes(job[t].json, m) THEN Kept(m, job[t].json[m]) ELSE ToJson(table, obj[t])[m]
      BY <1>2, <2>1, <2>5, UpdateTold
  <2>7. Takes(job[t].json, m) => Kept(m, job[t].json[m]) = job[t].json[m]
      BY <2>1, TellingIsKept DEF Takes
  <2> QED
      BY <2>4, <2>6, <2>7
<1> QED
    BY <1>1, <1>2

LEMMA OnlyWritesEnd ==
    ASSUME EditInv, [Next]_vars, NEW t \in Threads, pc[t] = "read", pc'[t] = "idle"
    PROVE  UpdateWrite(t) /\ table' = table
<1>1. pc \in [Threads -> {"idle", "read"}]
    BY DEF EditInv, ThreadInv
<1>2. ASSUME NEW c \in Clients, Tab(c) PROVE UNCHANGED pc
    BY <1>2 DEF Tab, OpenList, LoadList, OpenAdd, LoadForm, Save, Destroy, OpenEdit, Type,
                Geocode, Arrive, server
<1>3. ASSUME NEW x \in Threads, NEW r \in requests,
             Create(x, r) \/ UpdateRead(x, r) \/ Delete(x, r)
      PROVE  pc'[t] # "idle"
    BY <1>1, <1>3 DEF Create, UpdateRead, Delete, server
<1>4. ASSUME NEW x \in Threads, UpdateWrite(x) PROVE x = t
    BY <1>1, <1>4 DEF UpdateWrite
<1>5. ~UNCHANGED vars
    BY DEF vars, server
<1> QED
    BY <1>2, <1>3, <1>4, <1>5 DEF Next, Worker

\* Only a form that has become stale, or a save that overlaps another, undoes what
\* others did (EditUserCtrl, EditSiteCtrl, UpdateUser, UpdateSite).
THEOREM SavesKeepTheRest == Spec => OnlyStaleFormsUndo
<1> DEFINE Keeps(t) ==
        LET r == job[t]
            u == obj[t].uuid
        IN
        /\ pc[t] = "read" /\ pc'[t] = "idle" /\ u \in DOMAIN rows
        /\ Object(table, rows[u]) = obj[t] /\ ToJson(table, obj[t]) = r.base
        => \A m \in DOMAIN r.base \ {"Uuid"} :
              r.json[m] = r.base[m] =>
                 ToJson(table, Object(table, rows'[u]))[m] = r.base[m]
<1>1. EditInv /\ [Next]_vars => [\A t \in Threads : Keeps(t)]_vars
  <2> SUFFICES ASSUME EditInv, [Next]_vars, NEW t \in Threads PROVE Keeps(t)
      OBVIOUS
  <2> QED
      BY OnlyWritesEnd, WriteKeepsUntouched
<1> QED
    BY <1>1, EditInvariance, PTL DEF Spec, OnlyStaleFormsUndo

LEMMA ToldConverts ==
    ASSUME NEW T \in Edited, NEW o \in Objects(T) PROVE ~Refuses(T, o, ToJson(T, o))
<1>0. ToJson(T, o) # NotObject
    BY EditAssumption, ToJsonTyped DEF Edited
<1>1. CASE T = "users"
  <2>1. Bad \notin {o.password, o.userName, o.fullName, o.email, o.organization, o.uuid}
      BY <1>1, RecordsAssumption DEF Objects, User
  <2> QED
      BY <1>0, <1>1, <2>1 DEF Refuses, ToJson, UserToJson, UserRefuses
<1>2. CASE T = "sites"
  <2>1. /\ o \in Site
        /\ Bad \notin {o.pitNumber, o.name, o.address, o.status, o.uuid,
                       o.longitude, o.latitude, Printed(o.secondsSinceEpoch)}
      BY <1>2, RecordsAssumption DEF Objects, Placed, Site, Printed
  <2>2. ~SiteRefuses(SiteToJson(o))
    <3>1. SiteToJson(o) # NotObject
        BY <1>0, <1>2 DEF ToJson
    <3>2. Bad \notin {SiteToJson(o).PitNumber, SiteToJson(o).Name,
                     SiteToJson(o).SecondsSinceEpoch, SiteToJson(o).Address,
                     SiteToJson(o).Status, SiteToJson(o).Uuid}
        BY <2>1 DEF SiteToJson
    <3>3. Bad \notin {SiteToJson(o).Longitude, SiteToJson(o).Latitude}
        BY <2>1, RecordsAssumption DEF SiteToJson
    <3> QED
        BY <3>1, <3>2, <3>3 DEF SiteRefuses
  <2> QED
      BY <1>2, <2>2 DEF Refuses, ToJson
<1> QED
    BY <1>1, <1>2 DEF Edited

LEMMA FormRestores ==
    ASSUME table \in Edited, NEW o \in Objects(table), NEW now
    PROVE  /\ FromJson(table, NoUuid, now, ToJson(table, o)) = o
           /\ Update(table, o, Body(ToJson(table, o))) = o
<1>1. Update(table, o, ToJson(table, o)) = o
    BY RecordsSurvive, EditedTables DEF RoundTrip, UpdateRoundTrip
<1>2. CASE table = "users"
  <2>1. o \in User
      BY <1>2 DEF Objects
  <2>2. FromJson(table, NoUuid, now, ToJson(table, o)) = o
      BY <1>2, <2>1, UserReplaced DEF FromJson, ToJson, UserFromJson
  <2>3. UserUpdate(o, [UserToJson(o) EXCEPT !.Uuid = Absent]) = UserUpdate(o, UserToJson(o))
      BY <2>1 DEF UserUpdate, UserToJson, Member
  <2> QED
      BY <1>1, <1>2, <2>2, <2>3 DEF Update, ToJson, Body
<1>3. CASE table = "sites"
  <2>1. o \in Placed(Site)
      BY <1>3 DEF Objects
  <2> DEFINE x == NewSite(NoUuid, now)
  <2>2. /\ x.hasGps \in BOOLEAN /\ (x.hasGps => o.hasGps)
        /\ ~o.hasGps => x.longitude = 0 /\ x.latitude = 0
      BY DEF NewSite
  <2> HIDE DEF x
  <2>3. SiteUpdate(x, SiteToJson(o)) = o
      BY <2>1, <2>2, SiteReplaced
  <2>4. FromJson(table, NoUuid, now, ToJson(table, o)) = o
      BY <1>3, <2>3 DEF FromJson, ToJson, SiteFromJson, x
  <2> DEFINE json == SiteToJson(o)
             body == [json EXCEPT !.Uuid = Absent, !.Status = Member(json.Status, 0)]
  <2>5. /\ body.PitNumber = json.PitNumber /\ body.Name = json.Name
        /\ body.SecondsSinceEpoch = json.SecondsSinceEpoch
        /\ body.Longitude = json.Longitude /\ body.Latitude = json.Latitude
        /\ body.Address = json.Address /\ body.Uuid = Absent /\ json.Uuid = o.uuid
        /\ body.Status = json.Status
      BY <2>1, RecordsAssumption DEF SiteToJson, Member, Placed, Site
  <2> HIDE DEF body, json
  <2>6. SiteUpdate(o, body) = SiteUpdate(o, json)
      BY <2>5 DEF SiteUpdate, Member, HasPosition
  <2> QED
      BY <1>1, <1>3, <2>4, <2>6 DEF Update, ToJson, Body, body, json
<1> QED
    BY <1>2, <1>3 DEF Edited

\* A form that shows a row unchanged would leave it as it is when it is saved, and
\* the JSON of the row holds all of it (GetUser, GetSite, ToJson, UpdateWithJson).
THEOREM RowsKeepTheirObjects == Spec => []RowsSurvive
<1>1. EditInv => RowsSurvive
  <2> SUFFICES ASSUME EditInv, NEW u \in DOMAIN rows, NEW now \in Times
               PROVE  LET o == Object(table, rows[u])
                          json == ToJson(table, o)
                      IN
                      /\ o.uuid = u /\ ~Refuses(table, o, json)
                      /\ Columns(table, FromJson(table, NoUuid, now, json)) = rows[u]
                      /\ Columns(table, Update(table, o, Body(json))) = rows[u]
      BY DEF RowsSurvive
  <2> DEFINE o == Object(table, rows[u])
  <2>1. table \in Edited
      BY DEF EditInv
  <2>2. o \in Objects(table) /\ o.uuid = u /\ rows[u] = Columns(table, o)
      BY RowRead
  <2> HIDE DEF o
  <2>3. ~Refuses(table, o, ToJson(table, o))
      BY <2>1, <2>2, ToldConverts
  <2>4. /\ FromJson(table, NoUuid, now, ToJson(table, o)) = o
        /\ Update(table, o, Body(ToJson(table, o))) = o
      BY <2>1, <2>2, FormRestores
  <2> QED
      BY <2>2, <2>3, <2>4 DEF o
<1> QED
    BY <1>1, EditInvariance, PTL
=============================================================================
