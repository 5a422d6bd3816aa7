------------------------------ MODULE Records ------------------------------
(***************************************************************************)
(* The records of the PhotoTrack server and their three forms: the objects *)
(* of class Site, Photo and User (Site.h, Photo.h, User.h and their .cpp), *)
(* the rows of the tables (Database.cpp, PrepareDatabase.sql) and the JSON *)
(* of the requests and answers.                                            *)
(*                                                                         *)
(* A JSON object is a record of all the members the code looks for; one    *)
(* that is not there is Absent.  Bad is a value the conversion of its      *)
(* member refuses, with an exception (the Boolean members convert any).    *)
(* NotObject is JSON that is no object.  A number printed as text is       *)
(* Printed(n).  A row is the tuple of its columns, in the order of the     *)
(* CREATE TABLE.                                                           *)
(*                                                                         *)
(* A coordinate is a double in JSON and in a column, but a float, of 32    *)
(* bits, in an object: AsFloat takes a number to the float next to it, and *)
(* what is told afterwards is that float.  JSON tells it with digits       *)
(* enough to read the same float back, and so does the text of a route.    *)
(*                                                                         *)
(* A definition marked "mutant" is a plausible mistake in the definition   *)
(* after it; the specification never uses it.                              *)
(***************************************************************************)
EXTENDS Integers

CONSTANTS
    Uuids, Texts, Times, Statuses,  \* the values of the fields
    Coords,     \* the numbers sent as coordinates, all in the range of a float
    Floats,     \* those that a float holds
    AsFloat,    \* asFloat, static_cast<float>: the float that each becomes
    Empty,      \* the empty string
    Jpeg,       \* "image/jpeg"
    Absent, Bad, NotObject,
    Null        \* SQL NULL

ASSUME RecordsAssumption ==
    /\ Empty \in Texts /\ Jpeg \in Texts
    /\ Times \subseteq Int /\ Times # {} /\ 0 \in Statuses
    /\ 0 \in Floats /\ Floats \subseteq Coords
    /\ AsFloat \in [Coords -> Floats] /\ \A x \in Floats : AsFloat[x] = x
    /\ {Absent, Bad} \cap Texts = {} /\ {Absent, Bad} \cap Uuids = {}
    /\ {Absent, Bad} \cap Coords = {} /\ {Absent, Bad} \cap Statuses = {}
    /\ Absent \notin BOOLEAN
    /\ Absent # Bad /\ Null \notin Coords
    /\ \A n \in Times : [decimal |-> n] \notin {Absent, Bad}

Printed(n) == [decimal |-> n]

\* The field as the request has it, or as it was.
Member(value, old) == IF value = Absent THEN old ELSE value

Seconds(value, old) == IF value = Absent THEN old ELSE value.decimal

Integer(bool) == IF bool THEN 1 ELSE 0

HasPosition(json) == json.Longitude # Absent /\ json.Latitude # Absent

\* What remains of the value of member m once it is in an object.
Kept(m, value) == IF m \in {"Longitude", "Latitude"} THEN AsFloat[value] ELSE value

-----------------------------------------------------------------------------
(***************************************************************************)
(* Users.                                                                  *)
(***************************************************************************)
User == [uuid : Uuids, password : Texts, userName : Texts, fullName : Texts,
         email : Texts, isSupervisor : BOOLEAN, isAdmin : BOOLEAN,
         organization : Texts]

UserRequests ==
    [Password : Texts \cup {Absent}, UserName : Texts \cup {Absent},
     FullName : Texts \cup {Absent}, Email : Texts \cup {Absent, Bad},
     IsSupervisor : BOOLEAN \cup {Absent}, IsAdmin : BOOLEAN \cup {Absent},
     Organization : Texts \cup {Absent}, Uuid : Uuids \cup {Absent}]

NewUser(uuid) ==
    [uuid |-> uuid, password |-> Empty, userName |-> Empty, fullName |-> Empty,
     email |-> Empty, isSupervisor |-> FALSE, isAdmin |-> FALSE,
     organization |-> Empty]

UserToJson(u) ==
    [Password |-> u.password, UserName |-> u.userName, FullName |-> u.fullName,
     Email |-> u.email, IsSupervisor |-> u.isSupervisor, IsAdmin |-> u.isAdmin,
     Organization |-> u.organization, Uuid |-> u.uuid]

UserRefuses(json) ==
    \/ json = NotObject
    \/ Bad \in {json.Password, json.UserName, json.FullName, json.Email,
                json.Organization, json.Uuid}

UserUpdate(u, json) ==
    [uuid         |-> Member(json.Uuid, u.uuid),
     password     |-> Member(json.Password, u.password),
     userName     |-> Member(json.UserName, u.userName),
     fullName     |-> Member(json.FullName, u.fullName),
     email        |-> Member(json.Email, u.email),
     isSupervisor |-> Member(json.IsSupervisor, u.isSupervisor),
     isAdmin      |-> Member(json.IsAdmin, u.isAdmin),
     organization |-> Member(json.Organization, u.organization)]

\* FromJson; uuid is the one that the constructor generates.
UserFromJson(uuid, json) == UserUpdate(NewUser(uuid), json)

\* mutant: the name and the password are bound in the order of the JSON
UserColumnsCrossed(u) ==
    <<u.uuid, u.password, u.userName, u.fullName, u.email,
      Integer(u.isSupervisor), Integer(u.isAdmin), u.organization>>

\* What CreateOrUpdateUser binds and GetUser reads back.
UserColumns(u) ==
    <<u.uuid, u.userName, u.password, u.fullName, u.email,
      Integer(u.isSupervisor), Integer(u.isAdmin), u.organization>>

\* mutant: the two roles are read crosswise
UserOfColumnsCrossed(c) ==
    [uuid |-> c[1], userName |-> c[2], password |-> c[3], fullName |-> c[4],
     email |-> c[5], isSupervisor |-> c[7] # 0, isAdmin |-> c[6] # 0,
     organization |-> c[8]]

UserOfColumns(c) ==
    [uuid |-> c[1], userName |-> c[2], password |-> c[3], fullName |-> c[4],
     email |-> c[5], isSupervisor |-> c[6] # 0, isAdmin |-> c[7] # 0,
     organization |-> c[8]]

\* The answers of GET /users/{uuid}/username, /password and so on.
UserRoutes(u) ==
    [username |-> u.userName, password |-> u.password, full_name |-> u.fullName,
     email |-> u.email, is_supervisor |-> Printed(Integer(u.isSupervisor)),
     is_admin |-> Printed(Integer(u.isAdmin)), organization |-> u.organization]

-----------------------------------------------------------------------------
(***************************************************************************)
(* Sites.  A position is there with both coordinates or not at all.        *)
(***************************************************************************)
Site == [uuid : Uuids, pitNumber : Texts, name : Texts,
         secondsSinceEpoch : Times, hasGps : BOOLEAN, longitude : Floats,
         latitude : Floats, address : Texts, status : Statuses]

SiteRequests ==
    [PitNumber : Texts \cup {Absent}, Name : Texts \cup {Absent},
     SecondsSinceEpoch : {Printed(n) : n \in Times} \cup {Absent, Bad},
     Longitude : Coords \cup {Absent, Bad}, Latitude : Coords \cup {Absent},
     Address : Texts \cup {Absent}, Status : Statuses \cup {Absent},
     Uuid : Uuids \cup {Absent}]

\* now is the time of the constructor.
NewSite(uuid, now) ==
    [uuid |-> uuid, pitNumber |-> Empty, name |-> Empty,
     secondsSinceEpoch |-> now, hasGps |-> FALSE, longitude |-> 0,
     latitude |-> 0, address |-> Empty, status |-> 0]

\* The member Time, which no request is searched for, is left out.
SiteToJson(s) ==
    [PitNumber |-> s.pitNumber, Name |-> s.name,
     SecondsSinceEpoch |-> Printed(s.secondsSinceEpoch),
     Longitude |-> IF s.hasGps THEN s.longitude ELSE Absent,
     Latitude  |-> IF s.hasGps THEN s.latitude ELSE Absent,
     Address |-> s.address, Status |-> s.status, Uuid |-> s.uuid]

SiteRefuses(json) ==
    \/ json = NotObject
    \/ Bad \in {json.PitNumber, json.Name, json.SecondsSinceEpoch,
                json.Address, json.Status, json.Uuid}
    \/ HasPosition(json) /\ Bad \in {json.Longitude, json.Latitude}

SiteUpdate(s, json) ==
    [uuid      |-> Member(json.Uuid, s.uuid),
     pitNumber |-> Member(json.PitNumber, s.pitNumber),
     name      |-> Member(json.Name, s.name),
     secondsSinceEpoch |-> Seconds(json.SecondsSinceEpoch, s.secondsSinceEpoch),
     hasGps    |-> s.hasGps \/ HasPosition(json),
     longitude |-> IF HasPosition(json) THEN AsFloat[json.Longitude] ELSE s.longitude,
     latitude  |-> IF HasPosition(json) THEN AsFloat[json.Latitude] ELSE s.latitude,
     address   |-> Member(json.Address, s.address),
     status    |-> Member(json.Status, s.status)]

SiteFromJson(uuid, now, json) == SiteUpdate(NewSite(uuid, now), json)

SiteColumns(s) ==
    <<s.uuid, s.pitNumber, s.name, s.secondsSinceEpoch,
      IF s.hasGps THEN s.latitude ELSE Null, IF s.hasGps THEN s.longitude ELSE Null,
      s.address, s.status>>

\* mutant: the coordinates are read crosswise
SiteOfColumnsCrosswise(c) ==
    [uuid |-> c[1], pitNumber |-> c[2], name |-> c[3], secondsSinceEpoch |-> c[4],
     hasGps |-> c[5] # Null,
     latitude  |-> IF c[5] = Null THEN 0 ELSE AsFloat[c[6]],
     longitude |-> IF c[5] = Null THEN 0 ELSE AsFloat[c[5]],
     address |-> c[7], status |-> c[8]]

SiteOfColumns(c) ==
    [uuid |-> c[1], pitNumber |-> c[2], name |-> c[3], secondsSinceEpoch |-> c[4],
     hasGps |-> c[5] # Null,
     latitude  |-> IF c[5] = Null THEN 0 ELSE AsFloat[c[5]],
     longitude |-> IF c[5] = Null THEN 0 ELSE AsFloat[c[6]],
     address |-> c[7], status |-> c[8]]

\* A handler that has nothing to answer answers nothing: Absent.
SiteRoutes(s) ==
    [latitude  |-> IF s.hasGps THEN Printed(s.latitude) ELSE Absent,
     longitude |-> IF s.hasGps THEN Printed(s.longitude) ELSE Absent,
     pit_number |-> s.pitNumber,
     seconds_since_epoch |-> Printed(s.secondsSinceEpoch),
     address |-> s.address, name |-> s.name, status |-> Printed(s.status)]

-----------------------------------------------------------------------------
(***************************************************************************)
(* Photos.  The image belongs to the server: no JSON names it, and its     *)
(* type is told but never taken from a request.                            *)
(***************************************************************************)
Photo == [uuid : Uuids, imageUuid : Texts, imageMime : Texts, hasGps : BOOLEAN,
          longitude : Floats, latitude : Floats, secondsSinceEpoch : Times,
          tag : Texts, siteUuid : Texts]

PhotoRequests ==
    [SecondsSinceEpoch : {Printed(n) : n \in Times} \cup {Absent, Bad},
     Longitude : Coords \cup {Absent, Bad}, Latitude : Coords \cup {Absent},
     Uuid : Uuids \cup {Absent}, SiteUuid : Texts \cup {Absent},
     Tag : Texts \cup {Absent}, ImageMime : Texts \cup {Absent}]

NewPhoto(uuid, now) ==
    [uuid |-> uuid, imageUuid |-> Empty, imageMime |-> Jpeg, hasGps |-> FALSE,
     longitude |-> 0, latitude |-> 0, secondsSinceEpoch |-> now, tag |-> Empty,
     siteUuid |-> Empty]

PhotoToJson(p) ==
    [SecondsSinceEpoch |-> Printed(p.secondsSinceEpoch), ImageMime |-> p.imageMime,
     SiteUuid |-> p.siteUuid,
     Longitude |-> IF p.hasGps THEN p.longitude ELSE Absent,
     Latitude  |-> IF p.hasGps THEN p.latitude ELSE Absent,
     Tag |-> p.tag, Uuid |-> p.uuid]

PhotoRefuses(json) ==
    \/ json = NotObject
    \/ Bad \in {json.SecondsSinceEpoch, json.Uuid, json.SiteUuid, json.Tag}
    \/ HasPosition(json) /\ Bad \in {json.Longitude, json.Latitude}

PhotoUpdate(p, json) ==
    [uuid      |-> Member(json.Uuid, p.uuid),
     imageUuid |-> p.imageUuid,
     imageMime |-> p.imageMime,
     hasGps    |-> p.hasGps \/ HasPosition(json),
     longitude |-> IF HasPosition(json) THEN AsFloat[json.Longitude] ELSE p.longitude,
     latitude  |-> IF HasPosition(json) THEN AsFloat[json.Latitude] ELSE p.latitude,
     secondsSinceEpoch |-> Seconds(json.SecondsSinceEpoch, p.secondsSinceEpoch),
     tag       |-> Member(json.Tag, p.tag),
     siteUuid  |-> Member(json.SiteUuid, p.siteUuid)]

PhotoFromJson(uuid, now, json) == PhotoUpdate(NewPhoto(uuid, now), json)

PhotoColumns(p) ==
    <<p.uuid, p.imageUuid, p.imageMime,
      IF p.hasGps THEN p.latitude ELSE Null, IF p.hasGps THEN p.longitude ELSE Null,
      p.secondsSinceEpoch, p.tag, p.siteUuid>>

PhotoOfColumns(c) ==
    [uuid |-> c[1], imageUuid |-> c[2], imageMime |-> c[3],
     hasGps |-> c[4] # Null,
     latitude  |-> IF c[4] = Null THEN 0 ELSE AsFloat[c[4]],
     longitude |-> IF c[4] = Null THEN 0 ELSE AsFloat[c[5]],
     secondsSinceEpoch |-> c[6], tag |-> c[7], siteUuid |-> c[8]]

PhotoRoutes(p) ==
    [latitude  |-> IF p.hasGps THEN Printed(p.latitude) ELSE Absent,
     longitude |-> IF p.hasGps THEN Printed(p.longitude) ELSE Absent,
     tag |-> p.tag, seconds_since_epoch |-> Printed(p.secondsSinceEpoch)]

-----------------------------------------------------------------------------
(***************************************************************************)
(* The same for any of the three tables.                                   *)
(***************************************************************************)
Tables == {"users", "sites", "photos"}

\* Without a position the coordinates are those of the constructor.
Placed(S) == {o \in S : o.hasGps \/ (o.longitude = 0 /\ o.latitude = 0)}

Objects(table) ==
    CASE table = "users" -> User [] table = "sites" -> Placed(Site)
      [] table = "photos" -> Placed(Photo)

Requests(table) ==
    CASE table = "users" -> UserRequests [] table = "sites" -> SiteRequests
      [] table = "photos" -> PhotoRequests

Object(table, c) ==
    CASE table = "users" -> UserOfColumns(c) [] table = "sites" -> SiteOfColumns(c)
      [] table = "photos" -> PhotoOfColumns(c)

Columns(table, o) ==
    CASE table = "users" -> UserColumns(o) [] table = "sites" -> SiteColumns(o)
      [] table = "photos" -> PhotoColumns(o)

ToJson(table, o) ==
    CASE table = "users" -> UserToJson(o) [] table = "sites" -> SiteToJson(o)
      [] table = "photos" -> PhotoToJson(o)

FromJson(table, uuid, now, json) ==
    CASE table = "users" -> UserFromJson(uuid, json)
      [] table = "sites" -> SiteFromJson(uuid, now, json)
      [] table = "photos" -> PhotoFromJson(uuid, now, json)

Update(table, o, json) ==
    CASE table = "users" -> UserUpdate(o, json) [] table = "sites" -> SiteUpdate(o, json)
      [] table = "photos" -> PhotoUpdate(o, json)

\* The request ends with an exception: a value does not convert, or a photo
\* would have no site.
Refuses(table, o, json) ==
    CASE table = "users" -> UserRefuses(json) [] table = "sites" -> SiteRefuses(json)
      [] table = "photos" -> PhotoRefuses(json) \/ PhotoUpdate(o, json).siteUuid = Empty

-----------------------------------------------------------------------------
(***************************************************************************)
(* Properties, of every object and every request.                          *)
(***************************************************************************)

\* An object that went through its row is the same object.
RowRoundTrip ==
    \A table \in Tables : \A o \in Objects(table) : Object(table, Columns(table, o)) = o

\* So is one made of its JSON, but for the image of a photo, which belongs to
\* the server.
JsonRoundTrip ==
    \A table \in Tables : \A o \in Objects(table), uuid \in Uuids, now \in Times :
        FromJson(table, uuid, now, ToJson(table, o)) =
            IF table = "photos" THEN [o EXCEPT !.imageUuid = Empty, !.imageMime = Jpeg]
            ELSE o

\* A client that sends back what it was given changes nothing, the image of a
\* photo included.
UpdateRoundTrip ==
    \A table \in Tables : \A o \in Objects(table) : Update(table, o, ToJson(table, o)) = o

\* Nothing is lost or mixed up between objects, rows and JSON (ToJson, FromJson,
\* UpdateWithJson, CreateOrUpdate*, Get*): the tests *Serialization of
\* UnitTestsMain.cpp leave the database out, test_Sites.py and test_Users.py rely
\* on it to restore a row, and the edit forms send back all they read.
RoundTrip == RowRoundTrip /\ JsonRoundTrip /\ UpdateRoundTrip

Text(value) == IF value = Absent THEN Absent ELSE Printed(value)

UserRoutesAgree ==
    \A u \in Objects("users") :
        LET json == UserToJson(u) IN
        UserRoutes(u) =
            [username |-> json.UserName, password |-> json.Password,
             full_name |-> json.FullName, email |-> json.Email,
             is_supervisor |-> Printed(IF json.IsSupervisor THEN 1 ELSE 0),
             is_admin |-> Printed(IF json.IsAdmin THEN 1 ELSE 0),
             organization |-> json.Organization]

SiteRoutesAgree ==
    \A s \in Objects("sites") :
        LET json == SiteToJson(s) IN
        SiteRoutes(s) =
            [latitude |-> Text(json.Latitude), longitude |-> Text(json.Longitude),
             pit_number |-> json.PitNumber,
             seconds_since_epoch |-> json.SecondsSinceEpoch,
             address |-> json.Address, name |-> json.Name,
             status |-> Printed(json.Status)]

PhotoRoutesAgree ==
    \A p \in Objects("photos") :
        LET json == PhotoToJson(p) IN
        PhotoRoutes(p) =
            [latitude |-> Text(json.Latitude), longitude |-> Text(json.Longitude),
             tag |-> json.Tag, seconds_since_epoch |-> json.SecondsSinceEpoch]

\* The routes that answer one field agree with the JSON of the whole record
\* (GetUserUserName ... GetPhotoSecondsSinceEpoch).
RoutesAgree == UserRoutesAgree /\ SiteRoutesAgree /\ PhotoRoutesAgree

\* What the JSON tells after a PUT is what the PUT sent, for every member it
\* sent, and what it told before for every other: no member gets into another
\* one's field.  Of a coordinate it tells the float, which is what was sent only
\* if that is a float (test_Sites.py and test_Photos.py round before they
\* compare).  A coordinate alone is no position, and the type of an image is not
\* taken (UpdateWithJson).
Takes(json, m) ==
    /\ json[m] # Absent /\ m # "ImageMime"
    /\ m \in {"Longitude", "Latitude"} => HasPosition(json)

PutThenGet ==
    \A table \in Tables : \A o \in Objects(table), json \in Requests(table) :
        ~Refuses(table, o, json) =>
            \A m \in DOMAIN json :
                ToJson(table, Update(table, o, json))[m] =
                    IF Takes(json, m) THEN Kept(m, json[m]) ELSE ToJson(table, o)[m]

\* A PUT that is sent again, because its answer was lost, changes nothing more
\* (UpdateWithJson).
RetryIsHarmless ==
    \A table \in Tables : \A o \in Objects(table), json \in Requests(table) :
        ~Refuses(table, o, json) =>
            LET once == Update(table, o, json) IN Update(table, once, json) = once

\* PUT of what GET told before undoes a PUT, as the tests of the REST interface do
\* when they clean up, unless the record has gained a position: no request can
\* take a position away again (UpdateWithJson).
PutIsUndone ==
    \A table \in Tables : \A o \in Objects(table), json \in Requests(table) :
        ~Refuses(table, o, json) =>
            LET now == Update(table, o, json) IN
            \/ Update(table, now, ToJson(table, o)) = o
            \/ table # "users" /\ now.hasGps /\ ~o.hasGps
=============================================================================
