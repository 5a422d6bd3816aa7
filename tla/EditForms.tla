------------------------------ MODULE EditForms ------------------------------
(***************************************************************************)
(* The pages of the Web application that list, add, edit and delete users  *)
(* or sites (users.js, sites.js), over the handlers of the server          *)
(* (PhotoTrackApi.cpp) and a table of the database (Database.cpp).         *)
(*                                                                         *)
(* A client is a tab of a browser.  A page that reads (GET) is one step:   *)
(* that its answer takes time makes no difference, since nobody acts on a  *)
(* page before it is filled.  A request that writes is sent, waits in      *)
(* requests, and is handled by a worker thread; PUT in two steps, for its  *)
(* handler reads and writes the row under two locks.  A request that is    *)
(* never handled, or an answer that never arrives, is a lost one.          *)
(*                                                                         *)
(* The photos that go with a replaced site are the matter of PhotoStore.   *)
(* The views keep some forms from being sent, those with an empty required *)
(* field or an ill-formed address; here any form can be sent.              *)
(* A definition marked "mutant" is a plausible mistake in the definition   *)
(* after it; the specification never uses it.                              *)
(***************************************************************************)
EXTENDS Records, FiniteSets

CONSTANTS
    Threads,    \* worker threads of the server
    Clients,
    Initial,    \* the uuids in the table at the beginning
    Edits,      \* table -> member -> the values that users type into it
    Positions,  \* the positions, <<latitude, longitude>>, that geocoding finds
    MaxRequests,    \* bound on the requests that write
    NoUuid, NoForm, NoList, NoRequest

ASSUME EditAssumption ==
    /\ Initial \subseteq Uuids
    /\ MaxRequests \in Nat
    /\ Positions \subseteq Coords \X Coords
    /\ \A t \in {"users", "sites"} : \A m \in DOMAIN Edits[t] : \A v \in Edits[t][m] :
          \A f \in Requests(t) : [f EXCEPT ![m] = v] \in Requests(t)
    /\ \A t \in {"users", "sites"} : NotObject \notin Requests(t)
    /\ NoForm # NotObject /\ NoUuid \notin Uuids

VARIABLES
    table,      \* the table that the pages are about: "users" or "sites"
    rows,       \* the table: uuid -> columns
    used,       \* the uuids generated so far
    pc,         \* per thread: "idle", or "read" inside PUT
    job,        \* per thread: its request
    obj,        \* per thread: the User or Site object of UpdateUser, UpdateSite
    requests,   \* sent and not yet taken by a thread
    sent,       \* how many requests were sent
    view,       \* per client: the page
    target,     \* per client: the uuid in the address of the edit page
    form,       \* per client: what the form shows, or NoForm
    base,       \* per client: what the form was loaded with
    shown,      \* per client: the uuids the list shows, or NoList
    answers,    \* per client: answers on their way that open the list
    written,    \* history: uuid -> the request that wrote the row last
    deleted,    \* history: the uuids of deleted rows
    raced,      \* history: those deleted while a PUT had read the row
    told        \* history: per client: the uuids it was told are deleted

server  == <<pc, job, obj>>
page    == <<view, target, form, base, shown>>
history == <<written, deleted, raced, told>>
vars    == <<table, rows, used, server, requests, sent, page, answers, history>>

-----------------------------------------------------------------------------
Blank(uuid, now) == IF table = "users" THEN NewUser(uuid) ELSE NewSite(uuid, now)

Request == [id : 1 .. MaxRequests, client : Clients, kind : {"post", "put", "delete"},
            uuid : Uuids \cup {NoUuid}, json : Requests(table) \cup {NoForm},
            base : Requests(table) \cup {NoForm}]

EditTypeOK ==
    /\ table \in {"users", "sites"}
    /\ DOMAIN rows \subseteq used /\ used \subseteq Uuids
    /\ \A u \in DOMAIN rows : Object(table, rows[u]) \in Objects(table)
    /\ pc \in [Threads -> {"idle", "read"}]
    /\ \A t \in Threads : pc[t] = "read" => job[t] \in Request /\ obj[t] \in Objects(table)
    /\ requests \subseteq Request /\ sent \in 0 .. MaxRequests
    /\ view \in [Clients -> {"list", "add", "edit"}]
    /\ target \in [Clients -> Uuids \cup {NoUuid}]
    /\ form \in [Clients -> Requests(table) \cup {NoForm}]
    /\ base \in [Clients -> Requests(table) \cup {NoForm}]
    /\ shown \in [Clients -> (SUBSET Uuids) \cup {NoList}]
    /\ answers \in [Clients -> SUBSET Request]

Init ==
    /\ table \in {"users", "sites"}
    /\ rows = [u \in Initial |-> Columns(table, Blank(u, CHOOSE n \in Times : TRUE))]
    /\ used = Initial
    /\ pc = [t \in Threads |-> "idle"]
    /\ job = [t \in Threads |-> NoRequest] /\ obj = [t \in Threads |-> NoForm]
    /\ requests = {} /\ sent = 0
    /\ view = [c \in Clients |-> "list"]
    /\ target = [c \in Clients |-> NoUuid]
    /\ form = [c \in Clients |-> NoForm] /\ base = form
    /\ shown = [c \in Clients |-> NoList]
    /\ answers = [c \in Clients |-> {}]
    /\ written = [u \in {} |-> 0] /\ deleted = {} /\ raced = {}
    /\ told = [c \in Clients |-> {}]

-----------------------------------------------------------------------------
(***************************************************************************)
(* Pages.                                                                  *)
(***************************************************************************)
Open(c, v, u, f) ==
    /\ view' = [view EXCEPT ![c] = v]
    /\ target' = [target EXCEPT ![c] = u]
    /\ form' = [form EXCEPT ![c] = f]
    /\ base' = [base EXCEPT ![c] = f]
    /\ shown' = [shown EXCEPT ![c] = NoList]

\* The menu, or any other link to the list
OpenList(c) ==
    /\ view[c] # "list"
    /\ Open(c, "list", NoUuid, NoForm)
    /\ UNCHANGED <<rows, used, server, requests, sent, answers, history>>

\* GetUsers, GetSites of the database
Listing == DOMAIN rows

\* UsersService.query, SitesService.query: ListUsers, ListSites
LoadList(c) ==
    /\ view[c] = "list" /\ shown[c] = NoList
    /\ shown' = [shown EXCEPT ![c] = Listing]
    /\ UNCHANGED <<rows, used, server, requests, sent, view, target, form, base,
                   answers, history>>

OpenEdit(c, u) ==
    /\ view[c] = "list" /\ shown[c] # NoList /\ u \in shown[c]
    /\ Open(c, "edit", u, NoForm)
    /\ UNCHANGED <<rows, used, server, requests, sent, answers, history>>

NothingTyped ==
    LET o == Blank(CHOOSE u \in Uuids : TRUE, CHOOSE n \in Times : TRUE) IN
    [m \in DOMAIN ToJson(table, o) |-> Absent]

OpenAdd(c) ==
    /\ view[c] = "list"
    /\ Open(c, "add", NoUuid, NothingTyped)
    /\ UNCHANGED <<rows, used, server, requests, sent, answers, history>>

\* UsersService.get, SitesService.get: when the row is gone the server answers
\* an error and the form stays empty.
LoadForm(c) ==
    /\ view[c] = "edit" /\ form[c] = NoForm
    /\ target[c] \in DOMAIN rows
    /\ form' = [form EXCEPT ![c] = ToJson(table, Object(table, rows[target[c]]))]
    /\ base' = [base EXCEPT ![c] = form'[c]]
    /\ UNCHANGED <<rows, used, server, requests, sent, view, target, shown, answers,
                   history>>

Type(c, m, v) ==
    /\ form[c] # NoForm
    /\ form' = [form EXCEPT ![c][m] = v]
    /\ UNCHANGED <<rows, used, server, requests, sent, view, target, base, shown,
                   answers, history>>

\* geocode and geocodehere, which fill in both coordinates
Geocode(c, p) ==
    /\ table = "sites" /\ form[c] # NoForm
    /\ form' = [form EXCEPT ![c].Latitude = p[1], ![c].Longitude = p[2]]
    /\ UNCHANGED <<rows, used, server, requests, sent, view, target, base, shown,
                   answers, history>>

(***************************************************************************)
(* Requests that write.  The uuid is in the address only; parseInt makes a *)
(* number of the status, and of an empty one null, which converts to 0.    *)
(***************************************************************************)
Body(f) == IF table = "users" THEN [f EXCEPT !.Uuid = Absent]
           ELSE [f EXCEPT !.Uuid = Absent, !.Status = Member(f.Status, 0)]

Send(c, kind, json) ==
    /\ sent < MaxRequests
    /\ sent' = sent + 1
    /\ requests' = requests \cup
          {[id |-> sent', client |-> c, kind |-> kind, uuid |-> target[c],
            json |-> json, base |-> IF kind = "put" THEN base[c] ELSE NoForm]}

\* The page stays until the answer arrives; the button can be pressed again.
Save(c) ==
    /\ form[c] # NoForm
    /\ Send(c, IF view[c] = "edit" THEN "put" ELSE "post", Body(form[c]))
    /\ UNCHANGED <<rows, used, server, page, answers, history>>

\* $scope.destroy of users.js opens the list at once, that of sites.js waits for
\* the answer.
Destroy(c) ==
    /\ view[c] = "edit" /\ form[c] # NoForm
    /\ Send(c, "delete", NoForm)
    /\ IF table = "users" THEN Open(c, "list", NoUuid, NoForm) ELSE UNCHANGED page
    /\ UNCHANGED <<rows, used, server, answers, history>>

\* The callback of a save or of a deletion opens the list, whatever page the tab
\* shows by then.
Arrive(c, r) ==
    /\ r \in answers[c]
    /\ answers' = [answers EXCEPT ![c] = @ \ {r}]
    /\ Open(c, "list", NoUuid, NoForm)
    /\ told' = IF r.kind = "delete" THEN [told EXCEPT ![c] = @ \cup {r.uuid}] ELSE told
    /\ UNCHANGED <<rows, used, server, requests, sent, written, deleted, raced>>

-----------------------------------------------------------------------------
(***************************************************************************)
(* Handlers.  A thread takes any request that waits; one whose JSON does   *)
(* not convert ends with an exception, and no callback runs.               *)
(***************************************************************************)
Answer(r) ==
    answers' = IF table = "users" /\ r.kind = "delete" THEN answers
               ELSE [answers EXCEPT ![r.client] = @ \cup {r}]

Store(u, o, r) ==
    /\ rows' = [x \in DOMAIN rows \cup {u} |-> IF x = u THEN Columns(table, o) ELSE rows[x]]
    /\ written' = [x \in DOMAIN written \cup {u} |-> IF x = u THEN r ELSE written[x]]

\* PostUser, PostSite
Create(t, r) ==
    /\ pc[t] = "idle" /\ r \in requests /\ r.kind = "post"
    /\ requests' = requests \ {r}
    /\ \E u \in Uuids \ used, now \in Times :
          LET o == FromJson(table, u, now, r.json) IN
          IF Refuses(table, o, r.json)
          THEN UNCHANGED <<rows, used, answers, written>>
          ELSE /\ used' = used \cup {u}
               /\ Store(u, [o EXCEPT !.uuid = u], r)
               /\ Answer(r)
    /\ UNCHANGED <<server, sent, page, deleted, raced, told>>

\* mutant: the object takes the uuid of the address even when no row was found
UpdateReadKeepingUuid(t, r) ==
    /\ pc[t] = "idle" /\ r \in requests /\ r.kind = "put"
    /\ requests' = requests \ {r}
    /\ pc' = [pc EXCEPT ![t] = "read"] /\ job' = [job EXCEPT ![t] = r]
    /\ IF r.uuid \in DOMAIN rows
       THEN /\ obj' = [obj EXCEPT ![t] = Object(table, rows[r.uuid])]
            /\ UNCHANGED used
       ELSE \E now \in Times :
               /\ obj' = [obj EXCEPT ![t] = Blank(r.uuid, now)]
               /\ UNCHANGED used
    /\ UNCHANGED <<rows, sent, page, answers, history>>

\* UpdateUser, UpdateSite, first half: GetUser or GetSite, whose result is not
\* looked at.  An unknown uuid leaves the new object with one of its own.
UpdateRead(t, r) ==
    /\ pc[t] = "idle" /\ r \in requests /\ r.kind = "put"
    /\ requests' = requests \ {r}
    /\ pc' = [pc EXCEPT ![t] = "read"] /\ job' = [job EXCEPT ![t] = r]
    /\ IF r.uuid \in DOMAIN rows
       THEN /\ obj' = [obj EXCEPT ![t] = Object(table, rows[r.uuid])]
            /\ UNCHANGED used
       ELSE \E u \in Uuids \ used, now \in Times :
               /\ obj' = [obj EXCEPT ![t] = Blank(u, now)]
               /\ used' = used \cup {u}
    /\ UNCHANGED <<rows, sent, page, answers, history>>

\* Second half: UpdateWithJson, CreateOrUpdateUser or CreateOrUpdateSite
UpdateWrite(t) ==
    LET r == job[t]
        o == Update(table, obj[t], r.json)
    IN
    /\ pc[t] = "read"
    /\ pc' = [pc EXCEPT ![t] = "idle"]
    /\ job' = [job EXCEPT ![t] = NoRequest] /\ obj' = [obj EXCEPT ![t] = NoForm]
    /\ IF Refuses(table, obj[t], r.json)
       THEN UNCHANGED <<rows, answers, written>>
       ELSE Store(o.uuid, o, r) /\ Answer(r)
    /\ UNCHANGED <<used, requests, sent, page, deleted, raced, told>>

\* DELETE FROM Users, or Sites: an unknown uuid is no error
DeleteRow(uuid) == rows' = [u \in DOMAIN rows \ {uuid} |-> rows[u]]

\* DeleteUser, DeleteSite
Delete(t, r) ==
    /\ pc[t] = "idle" /\ r \in requests /\ r.kind = "delete"
    /\ requests' = requests \ {r}
    /\ DeleteRow(r.uuid)
    /\ written' = [u \in DOMAIN written \ {r.uuid} |-> written[u]]
    /\ deleted' = deleted \cup {r.uuid}
    /\ raced' = IF \E x \in Threads : pc[x] = "read" /\ obj[x].uuid = r.uuid
                THEN raced \cup {r.uuid} ELSE raced
    /\ Answer(r)
    /\ UNCHANGED <<used, server, sent, page, told>>

Tab(c) ==
    \/ OpenList(c) \/ LoadList(c) \/ OpenAdd(c) \/ LoadForm(c) \/ Save(c) \/ Destroy(c)
    \/ \E u \in Uuids : OpenEdit(c, u)
    \/ \E m \in DOMAIN Edits[table] : \E v \in Edits[table][m] : Type(c, m, v)
    \/ \E p \in Positions : Geocode(c, p)
    \/ \E r \in answers[c] : Arrive(c, r)

Worker(t) ==
    \/ \E r \in requests : Create(t, r) \/ UpdateRead(t, r) \/ Delete(t, r)
    \/ UpdateWrite(t)

Next ==
    /\ (\E c \in Clients : Tab(c)) \/ (\E t \in Threads : Worker(t))
    /\ UNCHANGED table

Spec == Init /\ [][Next]_vars

-----------------------------------------------------------------------------
(***************************************************************************)
(* Properties.                                                             *)
(***************************************************************************)

\* When the row is, as the handler of a save reads it and still as it writes it,
\* what the form was loaded with, the save changes what the user typed or
\* geocoded and nothing else.  So only a form that has become stale, or a save
\* that overlaps another, can undo what others did (EditUserCtrl, EditSiteCtrl,
\* UpdateUser, UpdateSite).
OnlyStaleFormsUndo ==
    [][\A t \in Threads :
          LET r == job[t]
              u == obj[t].uuid
          IN
          /\ pc[t] = "read" /\ pc'[t] = "idle" /\ u \in DOMAIN rows
          /\ Object(table, rows[u]) = obj[t] /\ ToJson(table, obj[t]) = r.base
          => \A m \in DOMAIN r.base \ {"Uuid"} :
                r.json[m] = r.base[m] =>
                   ToJson(table, Object(table, rows'[u]))[m] = r.base[m]]_vars

\* However saves overlap, a row never mixes two forms: it holds all that the
\* last save that wrote it sent, of a coordinate the float next to it (UpdateUser,
\* UpdateSite under two locks).
NoMixture ==
    \A u \in DOMAIN written :
        /\ u \in DOMAIN rows
        /\ \A m \in DOMAIN written[u].json :
              LET sentValue == written[u].json[m] IN
              sentValue # Absent /\ (m \in {"Longitude", "Latitude"} =>
                                       HasPosition(written[u].json)) =>
                 ToJson(table, Object(table, rows[u]))[m] = Kept(m, sentValue)

\* A row is one of an object with its uuid, and nothing of it is lost or mixed up
\* on its way through the object and the JSON to a form and back: saving a form
\* that shows it unchanged would leave it as it is (GetUser, GetSite, ToJson,
\* UpdateWithJson, FromJson, CreateOrUpdateUser, CreateOrUpdateSite).
RowsSurvive ==
    \A u \in DOMAIN rows, now \in Times :
        LET o == Object(table, rows[u])
            json == ToJson(table, o)
        IN
        /\ o.uuid = u /\ ~Refuses(table, o, json)
        /\ Columns(table, FromJson(table, NoUuid, now, json)) = rows[u]
        /\ Columns(table, Update(table, o, Body(json))) = rows[u]

\* A deleted row comes back under its uuid only through a PUT that had read it
\* before the deletion and writes it after: the forms that are still open on it
\* make a new row when they are saved (UpdateUser, UpdateSite).
DeletedStaysDeleted == DOMAIN rows \cap deleted \subseteq raced

\* sites.js opens the list when the deletion has been answered: unless a save
\* raced with the deletion, the list no longer shows the site.  users.js does not
\* wait, and its list may still show the user (EditSiteCtrl, DeleteSite).
DeletedNotListed ==
    \A c \in Clients :
        shown[c] # NoList => shown[c] \cap told[c] \subseteq raced
=============================================================================
