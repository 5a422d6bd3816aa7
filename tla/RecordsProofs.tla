---------------------------- MODULE RecordsProofs ----------------------------
(***************************************************************************)
(* Proofs about Records: what holds of every object and every request,     *)
(* whatever the values of the fields are.                                  *)
(***************************************************************************)
EXTENDS Records, TLAPS

\* What is a float stays as it is.
LEMMA FloatsStay ==
    /\ \A x \in Floats : AsFloat[x] = x /\ x \in Coords /\ x # Absent /\ x # Bad /\ x # Null
    /\ \A x \in Coords : AsFloat[x] \in Floats
    BY RecordsAssumption

LEMMA UserRows == \A u \in User : UserOfColumns(UserColumns(u)) = u
    BY DEF User, UserColumns, UserOfColumns, Integer

LEMMA SiteRows == \A s \in Placed(Site) : SiteOfColumns(SiteColumns(s)) = s
    BY FloatsStay DEF Placed, Site, SiteColumns, SiteOfColumns

LEMMA PhotoRows == \A p \in Placed(Photo) : PhotoOfColumns(PhotoColumns(p)) = p
    BY FloatsStay DEF Placed, Photo, PhotoColumns, PhotoOfColumns

\* The JSON of a user replaces all the fields.
LEMMA UserReplaced ==
    ASSUME NEW u \in User, NEW x PROVE UserUpdate(x, UserToJson(u)) = u
<1> DEFINE json == UserToJson(u)
<1>1. /\ json.Password = u.password /\ json.UserName = u.userName
      /\ json.FullName = u.fullName /\ json.Email = u.email
      /\ json.IsSupervisor = u.isSupervisor /\ json.IsAdmin = u.isAdmin
      /\ json.Organization = u.organization /\ json.Uuid = u.uuid
    BY DEF UserToJson
<1>2. /\ u.password # Absent /\ u.userName # Absent /\ u.fullName # Absent
      /\ u.email # Absent /\ u.isSupervisor # Absent /\ u.isAdmin # Absent
      /\ u.organization # Absent /\ u.uuid # Absent
    BY RecordsAssumption DEF User
<1> HIDE DEF json
<1>3. UserUpdate(x, json) =
        [uuid |-> u.uuid, password |-> u.password, userName |-> u.userName,
         fullName |-> u.fullName, email |-> u.email, isSupervisor |-> u.isSupervisor,
         isAdmin |-> u.isAdmin, organization |-> u.organization]
    BY <1>1, <1>2 DEF UserUpdate, Member
<1>4. u = [uuid |-> u.uuid, password |-> u.password, userName |-> u.userName,
           fullName |-> u.fullName, email |-> u.email, isSupervisor |-> u.isSupervisor,
           isAdmin |-> u.isAdmin, organization |-> u.organization]
    BY DEF User
<1> QED
    BY <1>3, <1>4 DEF json

\* The JSON of a site replaces all the fields of an object with no other position.
LEMMA SiteReplaced ==
    ASSUME NEW s \in Placed(Site), NEW x,
           x.hasGps \in BOOLEAN, x.hasGps => s.hasGps,
           ~s.hasGps => x.longitude = 0 /\ x.latitude = 0
    PROVE  SiteUpdate(x, SiteToJson(s)) = s
<1> DEFINE json == SiteToJson(s)
<1>1. /\ json.PitNumber = s.pitNumber /\ json.Name = s.name
      /\ json.SecondsSinceEpoch = Printed(s.secondsSinceEpoch)
      /\ json.Longitude = IF s.hasGps THEN s.longitude ELSE Absent
      /\ json.Latitude = IF s.hasGps THEN s.latitude ELSE Absent
      /\ json.Address = s.address /\ json.Status = s.status /\ json.Uuid = s.uuid
    BY DEF SiteToJson
<1>2. /\ s.pitNumber # Absent /\ s.name # Absent /\ s.longitude # Absent
      /\ s.latitude # Absent /\ s.address # Absent /\ s.status # Absent
      /\ s.uuid # Absent /\ Printed(s.secondsSinceEpoch) # Absent
      /\ s.hasGps \in BOOLEAN /\ s \in Site
      /\ s.hasGps \/ (s.longitude = 0 /\ s.latitude = 0)
      /\ AsFloat[s.longitude] = s.longitude /\ AsFloat[s.latitude] = s.latitude
    BY FloatsStay, RecordsAssumption DEF Placed, Site, Printed
<1>3. Printed(s.secondsSinceEpoch).decimal = s.secondsSinceEpoch
    BY DEF Printed
<1> HIDE DEF json
<1>4. HasPosition(json) <=> s.hasGps
    BY <1>1, <1>2 DEF HasPosition
<1>5. SiteUpdate(x, json) =
        [uuid |-> s.uuid, pitNumber |-> s.pitNumber, name |-> s.name,
         secondsSinceEpoch |-> s.secondsSinceEpoch,
         hasGps |-> s.hasGps, longitude |-> s.longitude,
         latitude |-> s.latitude, address |-> s.address, status |-> s.status]
    BY <1>1, <1>2, <1>3, <1>4 DEF SiteUpdate, Member, Seconds
<1>6. s = [uuid |-> s.uuid, pitNumber |-> s.pitNumber, name |-> s.name,
           secondsSinceEpoch |-> s.secondsSinceEpoch,
           hasGps |-> s.hasGps, longitude |-> s.longitude,
           latitude |-> s.latitude, address |-> s.address, status |-> s.status]
    BY <1>2 DEF Site
<1> QED
    BY <1>5, <1>6 DEF json

\* The JSON of a photo replaces all the fields but those of the image.
LEMMA PhotoReplaced ==
    ASSUME NEW p \in Placed(Photo), NEW x \in Photo,
           x.hasGps => p.hasGps,
           ~p.hasGps => x.longitude = 0 /\ x.latitude = 0
    PROVE  PhotoUpdate(x, PhotoToJson(p)) =
              [p EXCEPT !.imageUuid = x.imageUuid, !.imageMime = x.imageMime]
<1> DEFINE json == PhotoToJson(p)
<1>1. /\ json.SecondsSinceEpoch = Printed(p.secondsSinceEpoch)
      /\ json.Longitude = IF p.hasGps THEN p.longitude ELSE Absent
      /\ json.Latitude = IF p.hasGps THEN p.latitude ELSE Absent
      /\ json.SiteUuid = p.siteUuid /\ json.Tag = p.tag /\ json.Uuid = p.uuid
    BY DEF PhotoToJson
<1>2. /\ p.siteUuid # Absent /\ p.tag # Absent /\ p.longitude # Absent
      /\ p.latitude # Absent
      /\ p.uuid # Absent /\ Printed(p.secondsSinceEpoch) # Absent
      /\ p.hasGps \in BOOLEAN /\ p \in Photo
      /\ p.hasGps \/ (p.longitude = 0 /\ p.latitude = 0)
      /\ AsFloat[p.longitude] = p.longitude /\ AsFloat[p.latitude] = p.latitude
    BY FloatsStay, RecordsAssumption DEF Placed, Photo, Printed
<1>3. Printed(p.secondsSinceEpoch).decimal = p.secondsSinceEpoch
    BY DEF Printed
<1> HIDE DEF json
<1>4. HasPosition(json) <=> p.hasGps
    BY <1>1, <1>2 DEF HasPosition
<1>5. /\ Member(json.Uuid, x.uuid) = p.uuid /\ Member(json.Tag, x.tag) = p.tag
      /\ Member(json.SiteUuid, x.siteUuid) = p.siteUuid
      /\ Seconds(json.SecondsSinceEpoch, x.secondsSinceEpoch) = p.secondsSinceEpoch
      /\ (x.hasGps \/ HasPosition(json)) = p.hasGps
      /\ (IF HasPosition(json) THEN AsFloat[json.Longitude] ELSE x.longitude) = p.longitude
      /\ (IF HasPosition(json) THEN AsFloat[json.Latitude] ELSE x.latitude) = p.latitude
    BY <1>1, <1>2, <1>3, <1>4 DEF Member, Seconds, Photo
<1>6. PhotoUpdate(x, json) =
        [uuid |-> p.uuid, imageUuid |-> x.imageUuid, imageMime |-> x.imageMime,
         hasGps |-> p.hasGps, longitude |-> p.longitude, latitude |-> p.latitude,
         secondsSinceEpoch |-> p.secondsSinceEpoch, tag |-> p.tag,
         siteUuid |-> p.siteUuid]
    BY <1>5 DEF PhotoUpdate
<1> DEFINE q == [p EXCEPT !.imageUuid = x.imageUuid, !.imageMime = x.imageMime]
<1>7. /\ q \in Photo /\ q.uuid = p.uuid /\ q.imageUuid = x.imageUuid
      /\ q.imageMime = x.imageMime /\ q.hasGps = p.hasGps /\ q.longitude = p.longitude
      /\ q.latitude = p.latitude /\ q.secondsSinceEpoch = p.secondsSinceEpoch
      /\ q.tag = p.tag /\ q.siteUuid = p.siteUuid
    BY <1>2 DEF Photo
<1> HIDE DEF q
<1>8. q = [uuid |-> p.uuid, imageUuid |-> x.imageUuid, imageMime |-> x.imageMime,
           hasGps |-> p.hasGps, longitude |-> p.longitude, latitude |-> p.latitude,
           secondsSinceEpoch |-> p.secondsSinceEpoch, tag |-> p.tag,
           siteUuid |-> p.siteUuid]
    BY <1>7 DEF Photo
<1> QED
    BY <1>6, <1>8 DEF json, q

-----------------------------------------------------------------------------
\* Nothing of any record is lost or mixed up on its way through a row or through
\* its JSON (ToJson, FromJson, UpdateWithJson, CreateOrUpdate*, Get*).
THEOREM RecordsSurvive == RoundTrip
<1>1. RowRoundTrip
    BY UserRows, SiteRows, PhotoRows DEF RowRoundTrip, Tables, Objects, Object, Columns
<1>2. \A u \in User, uuid \in Uuids :
          UserFromJson(uuid, UserToJson(u)) = u
    BY UserReplaced DEF UserFromJson
<1>3. \A s \in Placed(Site), uuid \in Uuids, now \in Times :
          SiteFromJson(uuid, now, SiteToJson(s)) = s
  <2> TAKE s \in Placed(Site), uuid \in Uuids, now \in Times
  <2> DEFINE x == NewSite(uuid, now)
  <2>1. /\ x.hasGps \in BOOLEAN /\ (x.hasGps => s.hasGps)
        /\ ~s.hasGps => x.longitude = 0 /\ x.latitude = 0
      BY DEF NewSite
  <2> HIDE DEF x
  <2>2. SiteUpdate(x, SiteToJson(s)) = s
      BY <2>1, SiteReplaced
  <2> QED
      BY <2>2 DEF SiteFromJson, x
<1>4. \A p \in Placed(Photo), uuid \in Uuids, now \in Times :
          PhotoFromJson(uuid, now, PhotoToJson(p)) =
              [p EXCEPT !.imageUuid = Empty, !.imageMime = Jpeg]
  <2> TAKE p \in Placed(Photo), uuid \in Uuids, now \in Times
  <2> DEFINE x == NewPhoto(uuid, now)
  <2>1. /\ x \in Photo /\ x.hasGps = FALSE /\ x.longitude = 0 /\ x.latitude = 0
        /\ x.imageUuid = Empty /\ x.imageMime = Jpeg
      BY RecordsAssumption DEF NewPhoto, Photo
  <2> HIDE DEF x
  <2>2. PhotoUpdate(x, PhotoToJson(p)) =
          [p EXCEPT !.imageUuid = x.imageUuid, !.imageMime = x.imageMime]
      BY <2>1, PhotoReplaced
  <2> QED
      BY <2>1, <2>2 DEF PhotoFromJson, x
<1>5. JsonRoundTrip
  <2> SUFFICES ASSUME NEW table \in Tables, NEW o \in Objects(table),
                      NEW uuid \in Uuids, NEW now \in Times
               PROVE  FromJson(table, uuid, now, ToJson(table, o)) =
                         IF table = "photos"
                         THEN [o EXCEPT !.imageUuid = Empty, !.imageMime = Jpeg] ELSE o
      BY DEF JsonRoundTrip
  <2>1. CASE table = "users"
      BY <1>2, <2>1 DEF Objects, FromJson, ToJson
  <2>2. CASE table = "sites"
      BY <1>3, <2>2 DEF Objects, FromJson, ToJson
  <2>3. CASE table = "photos"
      BY <1>4, <2>3 DEF Objects, FromJson, ToJson
  <2> QED
      BY <2>1, <2>2, <2>3 DEF Tables
<1>6. \A s \in Placed(Site) : SiteUpdate(s, SiteToJson(s)) = s
  <2> TAKE s \in Placed(Site)
  <2>1. s.hasGps \in BOOLEAN /\ (~s.hasGps => s.longitude = 0 /\ s.latitude = 0)
      BY DEF Placed, Site
  <2> QED
      BY <2>1, SiteReplaced
<1>7. \A p \in Placed(Photo) : PhotoUpdate(p, PhotoToJson(p)) = p
  <2> TAKE p \in Placed(Photo)
  <2>1. p \in Photo /\ (~p.hasGps => p.longitude = 0 /\ p.latitude = 0)
      BY DEF Placed
  <2>2. PhotoUpdate(p, PhotoToJson(p)) =
          [p EXCEPT !.imageUuid = p.imageUuid, !.imageMime = p.imageMime]
      BY <2>1, PhotoReplaced
  <2> QED
      BY <2>1, <2>2 DEF Photo
<1>8. UpdateRoundTrip
    BY <1>6, <1>7, UserReplaced DEF UpdateRoundTrip, Tables, Objects, Update, ToJson
<1> QED
    BY <1>1, <1>5, <1>8 DEF RoundTrip

\* Each route that answers one field tells what the JSON of the whole record
\* tells (GetUserUserName ... GetPhotoSecondsSinceEpoch).
THEOREM RoutesTellTheRecord == RoutesAgree
<1>1. UserRoutesAgree
    BY DEF UserRoutesAgree, Objects, UserRoutes, UserToJson, Integer
<1>2. SiteRoutesAgree
  <2>1. \A s \in Placed(Site) : s.longitude # Absent /\ s.latitude # Absent
      BY RecordsAssumption DEF Placed, Site
  <2> QED
      BY <2>1 DEF SiteRoutesAgree, Objects, SiteRoutes, SiteToJson, Text
<1>3. PhotoRoutesAgree
  <2>1. \A p \in Placed(Photo) : p.longitude # Absent /\ p.latitude # Absent
      BY RecordsAssumption DEF Placed, Photo
  <2> QED
      BY <2>1 DEF PhotoRoutesAgree, Objects, PhotoRoutes, PhotoToJson, Text
<1> QED
    BY <1>1, <1>2, <1>3 DEF RoutesAgree

\* A repeated PUT changes nothing more (UpdateWithJson).
THEOREM RetriesAreHarmless == RetryIsHarmless
<1>1. \A u \in User, json \in UserRequests :
          UserUpdate(UserUpdate(u, json), json) = UserUpdate(u, json)
    BY DEF UserUpdate, Member
<1>2. \A s \in Placed(Site), json \in SiteRequests :
          SiteUpdate(SiteUpdate(s, json), json) = SiteUpdate(s, json)
  <2> TAKE s \in Placed(Site), json \in SiteRequests
  <2> DEFINE once == SiteUpdate(s, json)
  <2>1. /\ once.uuid = Member(json.Uuid, s.uuid)
        /\ once.pitNumber = Member(json.PitNumber, s.pitNumber)
        /\ once.name = Member(json.Name, s.name)
        /\ once.secondsSinceEpoch = Seconds(json.SecondsSinceEpoch, s.secondsSinceEpoch)
        /\ once.hasGps = (s.hasGps \/ HasPosition(json))
        /\ once.longitude = IF HasPosition(json) THEN AsFloat[json.Longitude] ELSE s.longitude
        /\ once.latitude = IF HasPosition(json) THEN AsFloat[json.Latitude] ELSE s.latitude
        /\ once.address = Member(json.Address, s.address)
        /\ once.status = Member(json.Status, s.status)
      BY DEF SiteUpdate
  <2> HIDE DEF once
  <2>2. SiteUpdate(once, json) =
          [uuid |-> once.uuid, pitNumber |-> once.pitNumber, name |-> once.name,
           secondsSinceEpoch |-> once.secondsSinceEpoch, hasGps |-> once.hasGps,
           longitude |-> once.longitude, latitude |-> once.latitude,
           address |-> once.address, status |-> once.status]
      BY <2>1 DEF SiteUpdate, Member, Seconds
  <2>3. once = [uuid |-> once.uuid, pitNumber |-> once.pitNumber, name |-> once.name,
           secondsSinceEpoch |-> once.secondsSinceEpoch, hasGps |-> once.hasGps,
           longitude |-> once.longitude, latitude |-> once.latitude,
           address |-> once.address, status |-> once.status]
      BY <2>1 DEF once, SiteUpdate
  <2> QED
      BY <2>2, <2>3 DEF once
<1>3. \A p \in Placed(Photo), json \in PhotoRequests :
          PhotoUpdate(PhotoUpdate(p, json), json) = PhotoUpdate(p, json)
  <2> TAKE p \in Placed(Photo), json \in PhotoRequests
  <2> DEFINE once == PhotoUpdate(p, json)
  <2>1. /\ Member(json.Uuid, once.uuid) = once.uuid
        /\ (once.hasGps \/ HasPosition(json)) = once.hasGps
        /\ (IF HasPosition(json) THEN AsFloat[json.Longitude] ELSE once.longitude) = once.longitude
        /\ (IF HasPosition(json) THEN AsFloat[json.Latitude] ELSE once.latitude) = once.latitude
        /\ Seconds(json.SecondsSinceEpoch, once.secondsSinceEpoch) = once.secondsSinceEpoch
        /\ Member(json.Tag, once.tag) = once.tag
        /\ Member(json.SiteUuid, once.siteUuid) = once.siteUuid
    <3>1. /\ once.uuid = Member(json.Uuid, p.uuid)
          /\ once.hasGps = (p.hasGps \/ HasPosition(json))
          /\ once.longitude = IF HasPosition(json) THEN AsFloat[json.Longitude] ELSE p.longitude
          /\ once.latitude = IF HasPosition(json) THEN AsFloat[json.Latitude] ELSE p.latitude
          /\ once.secondsSinceEpoch = Seconds(json.SecondsSinceEpoch, p.secondsSinceEpoch)
          /\ once.tag = Member(json.Tag, p.tag)
          /\ once.siteUuid = Member(json.SiteUuid, p.siteUuid)
        BY DEF PhotoUpdate
    <3> HIDE DEF once
    <3> QED
        BY <3>1 DEF Member, Seconds
  <2>2. once = [uuid |-> once.uuid, imageUuid |-> once.imageUuid,
                imageMime |-> once.imageMime, hasGps |-> once.hasGps,
                longitude |-> once.longitude, latitude |-> once.latitude,
                secondsSinceEpoch |-> once.secondsSinceEpoch, tag |-> once.tag,
                siteUuid |-> once.siteUuid]
      BY DEF PhotoUpdate
  <2> HIDE DEF once
  <2>3. PhotoUpdate(once, json) = once
      BY <2>1, <2>2 DEF PhotoUpdate
  <2> QED
      BY <2>3 DEF once
<1> QED
    BY <1>1, <1>2, <1>3 DEF RetryIsHarmless, Tables, Objects, Requests, Update

\* A record is told as its request has it, member by member (UpdateWithJson,
\* ToJson).
LEMMA UserTold ==
    ASSUME NEW u \in User, NEW json \in UserRequests, NEW m \in DOMAIN json
    PROVE  UserToJson(UserUpdate(u, json))[m] =
              IF Takes(json, m) THEN Kept(m, json[m]) ELSE UserToJson(u)[m]
<1>1. m \in {"Password", "UserName", "FullName", "Email", "IsSupervisor", "IsAdmin",
             "Organization", "Uuid"}
    BY DEF UserRequests
<1>2. (Takes(json, m) <=> json[m] # Absent) /\ Kept(m, json[m]) = json[m]
    BY <1>1 DEF Takes, Kept
<1>3. UserToJson(UserUpdate(u, json))[m] = Member(json[m], UserToJson(u)[m])
    BY <1>1 DEF UserToJson, UserUpdate
<1> QED
    BY <1>2, <1>3 DEF Member

LEMMA SiteTold ==
    ASSUME NEW s \in Placed(Site), NEW json \in SiteRequests, ~SiteRefuses(json),
           NEW m \in DOMAIN json
    PROVE  SiteToJson(SiteUpdate(s, json))[m] =
              IF Takes(json, m) THEN Kept(m, json[m]) ELSE SiteToJson(s)[m]
<1>1. CASE m \in {"PitNumber", "Name", "Address", "Status", "Uuid"}
  <2>1. (Takes(json, m) <=> json[m] # Absent) /\ Kept(m, json[m]) = json[m]
      BY <1>1 DEF Takes, Kept
  <2>2. SiteToJson(SiteUpdate(s, json))[m] = Member(json[m], SiteToJson(s)[m])
      BY <1>1 DEF SiteToJson, SiteUpdate
  <2> QED
      BY <2>1, <2>2 DEF Member
<1>2. CASE m = "SecondsSinceEpoch"
  <2>1. /\ Takes(json, m) <=> json.SecondsSinceEpoch # Absent
        /\ Kept(m, json[m]) = json[m]
      BY <1>2 DEF Takes, Kept
  <2>2. json.SecondsSinceEpoch # Absent =>
            json.SecondsSinceEpoch = Printed(json.SecondsSinceEpoch.decimal)
      BY DEF SiteRequests, SiteRefuses, Printed
  <2>3. SiteToJson(SiteUpdate(s, json))[m] =
            Printed(Seconds(json.SecondsSinceEpoch, s.secondsSinceEpoch))
      BY <1>2 DEF SiteToJson, SiteUpdate
  <2>4. SiteToJson(s)[m] = Printed(s.secondsSinceEpoch)
      BY <1>2 DEF SiteToJson
  <2> QED
      BY <1>2, <2>1, <2>2, <2>3, <2>4 DEF Seconds
<1>3. CASE m \in {"Longitude", "Latitude"}
  <2>1. Takes(json, m) <=> HasPosition(json)
      BY <1>3 DEF Takes, HasPosition
  <2>2. CASE HasPosition(json)
    <3>1. /\ SiteUpdate(s, json).hasGps
          /\ SiteUpdate(s, json).longitude = AsFloat[json.Longitude]
          /\ SiteUpdate(s, json).latitude = AsFloat[json.Latitude]
        BY <2>2 DEF SiteUpdate
    <3>2. SiteToJson(SiteUpdate(s, json))[m] = Kept(m, json[m])
        BY <1>3, <3>1 DEF SiteToJson, Kept
    <3> QED
        BY <2>1, <2>2, <3>2
  <2>3. CASE ~HasPosition(json)
    <3>1. s.hasGps \in BOOLEAN
        BY DEF Placed, Site
    <3> QED
        BY <1>3, <2>1, <2>3, <3>1 DEF SiteToJson, SiteUpdate
  <2> QED
      BY <2>2, <2>3
<1> QED
    BY <1>1, <1>2, <1>3 DEF SiteRequests

LEMMA PhotoTold ==
    ASSUME NEW p \in Placed(Photo), NEW json \in PhotoRequests, ~PhotoRefuses(json),
           NEW m \in DOMAIN json
    PROVE  PhotoToJson(PhotoUpdate(p, json))[m] =
              IF Takes(json, m) THEN Kept(m, json[m]) ELSE PhotoToJson(p)[m]
<1>1. CASE m \in {"Uuid", "SiteUuid", "Tag"}
  <2>1. (Takes(json, m) <=> json[m] # Absent) /\ Kept(m, json[m]) = json[m]
      BY <1>1 DEF Takes, Kept
  <2>2. PhotoToJson(PhotoUpdate(p, json))[m] = Member(json[m], PhotoToJson(p)[m])
      BY <1>1 DEF PhotoToJson, PhotoUpdate
  <2> QED
      BY <2>1, <2>2 DEF Member
<1>2. CASE m = "SecondsSinceEpoch"
  <2>1. /\ Takes(json, m) <=> json.SecondsSinceEpoch # Absent
        /\ Kept(m, json[m]) = json[m]
      BY <1>2 DEF Takes, Kept
  <2>2. json.SecondsSinceEpoch # Absent =>
            json.SecondsSinceEpoch = Printed(json.SecondsSinceEpoch.decimal)
      BY DEF PhotoRequests, PhotoRefuses, Printed
  <2>3. PhotoToJson(PhotoUpdate(p, json))[m] =
            Printed(Seconds(json.SecondsSinceEpoch, p.secondsSinceEpoch))
      BY <1>2 DEF PhotoToJson, PhotoUpdate
  <2>4. PhotoToJson(p)[m] = Printed(p.secondsSinceEpoch)
      BY <1>2 DEF PhotoToJson
  <2> QED
      BY <1>2, <2>1, <2>2, <2>3, <2>4 DEF Seconds
<1>3. CASE m \in {"Longitude", "Latitude"}
  <2>1. Takes(json, m) <=> HasPosition(json)
      BY <1>3 DEF Takes, HasPosition
  <2>2. CASE HasPosition(json)
    <3>1. /\ PhotoUpdate(p, json).hasGps
          /\ PhotoUpdate(p, json).longitude = AsFloat[json.Longitude]
          /\ PhotoUpdate(p, json).latitude = AsFloat[json.Latitude]
        BY <2>2 DEF PhotoUpdate
    <3>2. PhotoToJson(PhotoUpdate(p, json))[m] = Kept(m, json[m])
        BY <1>3, <3>1 DEF PhotoToJson, Kept
    <3> QED
        BY <2>1, <2>2, <3>2
  <2>3. CASE ~HasPosition(json)
    <3>1. p.hasGps \in BOOLEAN
        BY DEF Placed, Photo
    <3> QED
        BY <1>3, <2>1, <2>3, <3>1 DEF PhotoToJson, PhotoUpdate
  <2> QED
      BY <2>2, <2>3
<1>4. CASE m = "ImageMime"
    BY <1>4 DEF Takes, PhotoToJson, PhotoUpdate
<1> QED
    BY <1>1, <1>2, <1>3, <1>4 DEF PhotoRequests

\* A GET after a PUT tells what the PUT sent, of a coordinate the float next to
\* it, and for what the PUT did not send, what was told before (UpdateWithJson,
\* asFloat, ToJson).
THEOREM PutsAreTold == PutThenGet
<1> SUFFICES ASSUME NEW table \in Tables, NEW o \in Objects(table),
                    NEW json \in Requests(table), ~Refuses(table, o, json),
                    NEW m \in DOMAIN json
             PROVE  ToJson(table, Update(table, o, json))[m] =
                       IF Takes(json, m) THEN Kept(m, json[m]) ELSE ToJson(table, o)[m]
    BY DEF PutThenGet
<1>1. CASE table = "users"
    BY <1>1, UserTold DEF Objects, Requests, Update, ToJson
<1>2. CASE table = "sites"
    BY <1>2, SiteTold DEF Objects, Requests, Refuses, Update, ToJson
<1>3. CASE table = "photos"
    BY <1>3, PhotoTold DEF Objects, Requests, Refuses, Update, ToJson
<1> QED
    BY <1>1, <1>2, <1>3 DEF Tables

\* A PUT of what was told before undoes a PUT, unless that gave the record a
\* position (UpdateWithJson).
THEOREM PutsAreUndone == PutIsUndone
<1> SUFFICES ASSUME NEW table \in Tables, NEW o \in Objects(table),
                    NEW json \in Requests(table), ~Refuses(table, o, json)
             PROVE  LET now == Update(table, o, json) IN
                    \/ Update(table, now, ToJson(table, o)) = o
                    \/ table # "users" /\ now.hasGps /\ ~o.hasGps
    BY DEF PutIsUndone
<1>1. CASE table = "users"
    BY <1>1, UserReplaced DEF Objects, Update, ToJson
<1>2. CASE table = "sites"
  <2> DEFINE now == SiteUpdate(o, json)
  <2>1. o \in Placed(Site)
      BY <1>2 DEF Objects
  <2>2. /\ now.hasGps \in BOOLEAN
        /\ ~now.hasGps => now.longitude = 0 /\ now.latitude = 0
      BY <2>1 DEF SiteUpdate, Placed, Site
  <2> HIDE DEF now
  <2>3. CASE now.hasGps => o.hasGps
    <3>1. ~o.hasGps => now.longitude = 0 /\ now.latitude = 0
        BY <2>2, <2>3
    <3>2. SiteUpdate(now, SiteToJson(o)) = o
        BY <2>1, <2>2, <2>3, <3>1, SiteReplaced
    <3> QED
        BY <1>2, <3>2 DEF Update, ToJson, now
  <2>4. CASE ~(now.hasGps => o.hasGps)
      BY <1>2, <2>4 DEF Update, now
  <2> QED
      BY <2>3, <2>4
<1>3. CASE table = "photos"
  <2> DEFINE now == PhotoUpdate(o, json)
  <2>1. o \in Placed(Photo) /\ o \in Photo
      BY <1>3 DEF Objects, Placed
  <2>2. json \in PhotoRequests /\ ~PhotoRefuses(json)
      BY <1>3 DEF Requests, Refuses
  <2>3. now \in Photo
      BY <2>1, <2>2, FloatsStay, RecordsAssumption
      DEF PhotoUpdate, PhotoRequests, PhotoRefuses, Photo, Member, Seconds, Printed, HasPosition
  <2>4. /\ ~now.hasGps => now.longitude = 0 /\ now.latitude = 0
        /\ now.imageUuid = o.imageUuid /\ now.imageMime = o.imageMime
      BY <2>1 DEF PhotoUpdate, Placed, Photo
  <2> HIDE DEF now
  <2>5. CASE now.hasGps => o.hasGps
    <3>1. ~o.hasGps => now.longitude = 0 /\ now.latitude = 0
        BY <2>4, <2>5 DEF Photo
    <3>2. PhotoUpdate(now, PhotoToJson(o)) =
             [o EXCEPT !.imageUuid = now.imageUuid, !.imageMime = now.imageMime]
        BY <2>1, <2>3, <2>5, <3>1, PhotoReplaced
    <3>3. PhotoUpdate(now, PhotoToJson(o)) = o
        BY <2>1, <2>4, <3>2 DEF Photo
    <3> QED
        BY <1>3, <3>3 DEF Update, ToJson, now
  <2>6. CASE ~(now.hasGps => o.hasGps)
      BY <1>3, <2>6 DEF Update, now
  <2> QED
      BY <2>5, <2>6
<1> QED
    BY <1>1, <1>2, <1>3 DEF Tables
=============================================================================
