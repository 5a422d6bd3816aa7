---------------------------- MODULE AndroidClient ----------------------------
(***************************************************************************)
(* The Android client (AndroidNativeClient, package                        *)
(* com.orthancserver.phototrack): its three screens Login, ListSites and   *)
(* Photo, and the requests they make to the server in the background.      *)
(*                                                                         *)
(* A request is an asynchronous task.  When it ends, with the answer of    *)
(* the server or with null, onPostExecute starts the activity that it is   *)
(* for, with the answer as an extra and with FLAG_ACTIVITY_REORDER_TO_     *)
(* FRONT: whatever the user is looking at, that screen comes to the front. *)
(* Tasks end in any order.                                                 *)
(*                                                                         *)
(* Android is not in the repository.  Of it is assumed: startActivity      *)
(* queues an intent, and the intents are delivered one by one and in       *)
(* order; one for an activity that exists reaches its onNewIntent, any     *)
(* other creates it; onStart follows when it was covered or is new; the    *)
(* user can touch the screen in front until the next intent is delivered.  *)
(* Taking a picture with the camera is one step.                           *)
(*                                                                         *)
(* A definition marked "mutant" is a plausible mistake in the definition   *)
(* after it; the specification never uses it.                              *)
(***************************************************************************)
EXTENDS Integers, SequencesExt

CONSTANTS
    Sites,
    Lists,      \* the sequences of sites the server may answer
    Pictures,
    MaxRequests,    \* bound on the requests; later ones are never answered
    MaxIntents,     \* bound on the intents on their way when the list is tapped
    NoSite, NoPicture

ASSUME ClientAssumption ==
    /\ Lists \subseteq Seq(Sites)
    /\ NoSite \notin Sites /\ NoPicture \notin Pictures
    /\ MaxRequests \in Nat /\ MaxIntents \in Nat

VARIABLES
    stack,      \* the activities that exist; the last one is in front
    intents,    \* started and not yet delivered
    tasks,      \* the requests under way
    sent,       \* how many requests were made; they are numbered
    session,    \* sessionId_ of ListSites and of Photo; 0 is the empty one
    list,       \* sitesUuids_ of ListSites
    site,       \* siteId_ of Photo
    title,      \* the site whose name Photo shows
    picture,    \* what the image file and the view of Photo hold
    sessions,   \* on the server: the sessions that exist
    stored,     \* on the server: the photos, as the requests that stored them
    uploads,    \* history: the uploads made
    takenAt,    \* history: siteId_ when the picture was taken
    chosen,     \* history: whether a tap in the list arrived since
    crowded,    \* history: whether a tap was on its way with another intent for Photo
    toasts,     \* history: the uploads the user was told have succeeded
    atLogin     \* history: the requests made when Login came to the front

screen  == <<session, list, site, title, picture>>
server  == <<sessions, stored>>
history == <<uploads, takenAt, chosen, crowded, toasts, atLogin>>
vars    == <<stack, intents, tasks, sent, screen, server, history>>

-----------------------------------------------------------------------------
Activities == {"Login", "ListSites", "Photo"}
Kinds      == {"login", "logout", "sites", "send-photo"}
Ids        == 0 .. MaxRequests

InFront == stack[Len(stack)]

\* The activities that exist but a; none exists twice.
Without(a) ==
    IF \E n \in DOMAIN stack : stack[n] = a
    THEN RemoveAt(stack, CHOOSE n \in DOMAIN stack : stack[n] = a)
    ELSE stack

\* answer is "none" until the server has handled the request.
Task == [id : Ids, kind : Kinds, session : Ids, site : Sites \cup {NoSite},
         picture : Pictures \cup {NoPicture}, answer : {"none", "json", "error"},
         list : Lists \cup {<<>>}]

\* An answer, the start of ListSites with a session, or a tap on a site
Intent == [to : Activities, kind : Kinds \cup {"start", "tap"}, id : Ids, ok : BOOLEAN,
           session : Ids, site : Sites \cup {NoSite}, list : Lists \cup {<<>>}]

Upload == [id : Ids, site : Sites \cup {NoSite}, title : Sites \cup {NoSite},
           picture : Pictures, takenAt : Sites \cup {NoSite}, chosen : BOOLEAN]

Open == {stack[n] : n \in DOMAIN stack}

ClientTypeOK ==
    /\ stack \in Seq(Activities) /\ "Login" \in Open
    /\ \A m, n \in DOMAIN stack : stack[m] = stack[n] => m = n
    /\ intents \in Seq(Intent)
    /\ \A r \in tasks : r \in Task
    /\ sent \in Ids /\ session \in [{"ListSites", "Photo"} -> Ids]
    /\ list \in Lists \cup {<<>>}
    /\ site \in Sites \cup {NoSite} /\ title \in Sites \cup {NoSite}
    /\ picture \in Pictures \cup {NoPicture}
    /\ sessions \subseteq Ids /\ stored \subseteq Ids
    /\ uploads \subseteq Upload /\ toasts \subseteq Ids /\ atLogin \in Ids
    /\ takenAt \in Sites \cup {NoSite} /\ chosen \in BOOLEAN /\ crowded \in BOOLEAN
    /\ "Photo" \notin Open => picture = NoPicture /\ site = NoSite

Init ==
    /\ stack = <<"Login">> /\ intents = <<>> /\ tasks = {} /\ sent = 0
    /\ session = [a \in {"ListSites", "Photo"} |-> 0]
    /\ list = <<>> /\ site = NoSite /\ title = NoSite /\ picture = NoPicture
    /\ sessions = {} /\ stored = {}
    /\ uploads = {} /\ takenAt = NoSite /\ chosen = FALSE /\ crowded = FALSE
    /\ toasts = {} /\ atLogin = 0

-----------------------------------------------------------------------------
(***************************************************************************)
(* Requests and intents.                                                   *)
(***************************************************************************)
\* DoHttpGet, DoHttpPost, DoHttpDelete
Request(kind, s, where, what) ==
    [id |-> sent + 1, kind |-> kind, session |-> s, site |-> where, picture |-> what,
     answer |-> "none", list |-> <<>>]

Execute(request) ==
    IF sent < MaxRequests
    THEN tasks' = tasks \cup {request} /\ sent' = sent + 1
    ELSE UNCHANGED <<tasks, sent>>

\* onStart of ListSites: a new list is asked for.
StartListSites(s) == Execute(Request("sites", s, NoSite, NoPicture))

\* The activity that an answer is for
Callee(kind) ==
    CASE kind \in {"login", "logout"} -> "Login"
      [] kind = "sites" -> "ListSites"
      [] kind = "send-photo" -> "Photo"

\* onPostExecute
Answered(r, json) ==
    [to |-> Callee(r.kind), kind |-> r.kind, id |-> r.id, ok |-> json,
     session |-> IF r.kind = "login" THEN r.id ELSE 0, site |-> NoSite, list |-> r.list]

Starting(s) ==
    [to |-> "ListSites", kind |-> "start", id |-> sent, ok |-> TRUE, session |-> s,
     site |-> NoSite, list |-> <<>>]

Tapped(s) ==
    [to |-> "Photo", kind |-> "tap", id |-> sent, ok |-> TRUE,
     session |-> session["ListSites"], site |-> s, list |-> <<>>]

-----------------------------------------------------------------------------
(***************************************************************************)
(* What the user does, on the screen in front.                             *)
(***************************************************************************)
TapLogin ==
    /\ InFront = "Login" /\ sent < MaxRequests
    /\ Execute(Request("login", 0, NoSite, NoPicture))
    /\ UNCHANGED <<stack, intents, screen, server, history>>

\* onItemClick: the site that is now at the position
TapSite(n) ==
    /\ InFront = "ListSites" /\ n \in DOMAIN list
    /\ Len(intents) < MaxIntents
    /\ intents' = Append(intents, Tapped(list[n]))
    /\ crowded' = (crowded \/ \E k \in DOMAIN intents : intents[k].to = "Photo")
    /\ UNCHANGED <<stack, tasks, sent, screen, server, uploads, takenAt, chosen,
                   toasts, atLogin>>

\* TakePicture and onActivityResult
TakePicture ==
    /\ InFront = "Photo"
    /\ picture' \in Pictures
    /\ takenAt' = site /\ chosen' = FALSE
    /\ UNCHANGED <<stack, intents, tasks, sent, session, list, site, title, server,
                   uploads, crowded, toasts, atLogin>>

\* The button stays enabled.
TapUpload ==
    /\ InFront = "Photo" /\ picture # NoPicture /\ sent < MaxRequests
    /\ Execute(Request("send-photo", session["Photo"], site, picture))
    /\ uploads' = uploads \cup
          {[id |-> sent + 1, site |-> site, title |-> title, picture |-> picture,
            takenAt |-> takenAt, chosen |-> chosen]}
    /\ UNCHANGED <<stack, intents, screen, server, takenAt, chosen, crowded, toasts,
                   atLogin>>

\* The menu of ListSites and of Photo
TapLogout ==
    /\ InFront # "Login" /\ sent < MaxRequests
    /\ Execute(Request("logout", session[InFront], NoSite, NoPicture))
    /\ UNCHANGED <<stack, intents, screen, server, history>>

\* Photo is destroyed; in front, it uncovers the activity below.
FinishPhoto(front) ==
    LET rest == Without("Photo") IN
    /\ stack' = rest
    /\ session' = [session EXCEPT !["Photo"] = 0]
    /\ site' = NoSite /\ title' = NoSite /\ picture' = NoPicture
    /\ IF front /\ rest[Len(rest)] = "ListSites" THEN StartListSites(session["ListSites"])
       ELSE UNCHANGED <<tasks, sent>>
    /\ atLogin' = IF InFront # "Login" /\ rest[Len(rest)] = "Login" THEN sent ELSE atLogin
    /\ UNCHANGED list

\* The back button works in Photo only.
Back ==
    /\ InFront = "Photo"
    /\ FinishPhoto(TRUE)
    /\ UNCHANGED <<intents, server, uploads, takenAt, chosen, crowded, toasts>>

-----------------------------------------------------------------------------
(***************************************************************************)
(* The server, and the end of a task.  The answer may be lost, and so may  *)
(* be the request; either ends with null, as does an error of the server.  *)
(***************************************************************************)
Handle(r) ==
    /\ r.answer = "none"
    /\ sessions' = CASE r.kind = "login"  -> sessions \cup {r.id}
                     [] r.kind = "logout" -> sessions \ {r.session}
                     [] OTHER -> sessions
    /\ stored' = IF r.kind = "send-photo" /\ r.site # NoSite THEN stored \cup {r.id} ELSE stored
    /\ \E l \in IF r.kind = "sites" THEN Lists ELSE {<<>>} :
          tasks' = (tasks \ {r}) \cup
              {[r EXCEPT !.list = l,
                         !.answer = IF r.kind = "send-photo" /\ r.site = NoSite
                                    THEN "error" ELSE "json"]}
    /\ UNCHANGED <<stack, intents, sent, screen, history>>

End(r) ==
    /\ \E json \in {FALSE} \cup {r.answer = "json"} :
          intents' = Append(intents, Answered([r EXCEPT !.list = IF json THEN @ ELSE <<>>], json))
    /\ tasks' = tasks \ {r}
    /\ UNCHANGED <<stack, sent, screen, server, history>>

-----------------------------------------------------------------------------
(***************************************************************************)
(* The delivery of an intent.                                              *)
(***************************************************************************)
ToFront(a) ==
    /\ stack' = Append(Without(a), a)
    /\ atLogin' = IF a = "Login" /\ InFront # "Login" THEN sent ELSE atLogin

\* mutant: ListSites is opened whatever the answer
LoginAnyAnswer(i, rest) ==
    /\ i.kind = "login"
    /\ ToFront("Login")
    /\ intents' = Append(rest, Starting(IF i.ok THEN i.session ELSE 0))
    /\ UNCHANGED <<tasks, sent, screen, server, uploads, takenAt, chosen, crowded, toasts>>

\* Login, onNewIntent
LoginAnswer(i, rest) ==
    /\ i.kind = "login"
    /\ ToFront("Login")
    /\ intents' = IF i.ok THEN Append(rest, Starting(i.session)) ELSE rest
    /\ UNCHANGED <<tasks, sent, screen, server, uploads, takenAt, chosen, crowded, toasts>>

LogoutAnswer(i, rest) ==
    /\ i.kind = "logout"
    /\ ToFront("Login")
    /\ intents' = rest
    /\ UNCHANGED <<tasks, sent, screen, server, uploads, takenAt, chosen, crowded, toasts>>

\* ListSites, ProcessIntent: a list replaces the one shown, null does nothing.
ShowSites(i, rest) ==
    LET s == IF i.kind = "start" THEN i.session ELSE session["ListSites"] IN
    /\ i.to = "ListSites"
    /\ ToFront("ListSites")
    /\ intents' = rest
    /\ list' = IF i.kind = "sites" /\ i.ok THEN i.list ELSE list
    /\ session' = [session EXCEPT !["ListSites"] = s]
    /\ IF InFront # "ListSites" THEN StartListSites(s) ELSE UNCHANGED <<tasks, sent>>
    /\ UNCHANGED <<site, title, picture, server, uploads, takenAt, chosen, crowded, toasts>>

\* mutant: the name is not shown again
ShowPhotoUntitled(i, rest) ==
    /\ i.kind = "tap"
    /\ ToFront("Photo")
    /\ intents' = rest
    /\ session' = [session EXCEPT !["Photo"] = i.session]
    /\ site' = i.site
    /\ chosen' = TRUE
    /\ UNCHANGED <<tasks, sent, list, title, picture, server, uploads, takenAt, crowded,
                   toasts>>

\* Photo, ProcessIntent, for a site that was tapped.  The name of the site is
\* shown by onStart.
ShowPhoto(i, rest) ==
    /\ i.kind = "tap"
    /\ ToFront("Photo")
    /\ intents' = rest
    /\ session' = [session EXCEPT !["Photo"] = i.session]
    /\ site' = i.site
    /\ title' = IF InFront # "Photo" THEN i.site ELSE title
    /\ chosen' = TRUE
    /\ UNCHANGED <<tasks, sent, list, picture, server, uploads, takenAt, crowded, toasts>>

\* mutant: null is not told from an answer
PhotoSentAnyAnswer(i, rest) ==
    /\ i.kind = "send-photo"
    /\ toasts' = toasts \cup {i.id}
    /\ FinishPhoto(InFront = "Photo")
    /\ intents' = rest
    /\ UNCHANGED <<server, uploads, takenAt, chosen, crowded>>

\* Photo, ProcessIntent, for the answer to an upload: success ends the screen.
PhotoSent(i, rest) ==
    /\ i.kind = "send-photo" /\ i.ok
    /\ toasts' = toasts \cup {i.id}
    /\ FinishPhoto(InFront = "Photo")
    /\ intents' = rest
    /\ UNCHANGED <<server, uploads, takenAt, chosen, crowded>>

\* mutant: the site is taken from the intent even if it has none
PhotoNotSentClearing(i, rest) ==
    /\ i.kind = "send-photo" /\ ~i.ok
    /\ ToFront("Photo")
    /\ intents' = rest
    /\ site' = NoSite /\ title' = NoSite
    /\ UNCHANGED <<tasks, sent, session, list, picture, server, uploads, takenAt, chosen,
                   crowded, toasts>>

\* The upload failed: the screen is in front again, or a new one without a site.
PhotoNotSent(i, rest) ==
    /\ i.kind = "send-photo" /\ ~i.ok
    /\ ToFront("Photo")
    /\ intents' = rest
    /\ title' = IF InFront # "Photo" THEN site ELSE title
    /\ UNCHANGED <<tasks, sent, session, list, site, picture, server, uploads, takenAt,
                   chosen, crowded, toasts>>

Deliver ==
    /\ intents # <<>>
    /\ LET i == Head(intents)  rest == Tail(intents) IN
          \/ LoginAnswer(i, rest) \/ LogoutAnswer(i, rest)
          \/ ShowSites(i, rest) \/ ShowPhoto(i, rest)
          \/ PhotoSent(i, rest) \/ PhotoNotSent(i, rest)

User ==
    \/ TapLogin \/ (\E n \in DOMAIN list : TapSite(n))
    \/ TakePicture \/ TapUpload \/ TapLogout \/ Back

Next ==
    \/ User
    \/ Deliver
    \/ \E r \in tasks : Handle(r) \/ End(r)

Spec == Init /\ [][Next]_vars

-----------------------------------------------------------------------------
(***************************************************************************)
(* Properties.                                                             *)
(***************************************************************************)

\* A picture is uploaded to the site that was open when it was taken, unless the
\* user has opened a site from the list since: no late answer and no failed
\* upload moves a picture (Photo.ProcessIntent, Photo.Upload).
PictureFollowsTaps ==
    \A u \in uploads : u.site = u.takenAt \/ u.chosen

\* The site an upload names is the one Photo shows, unless a tap on the list
\* arrived together with another intent for Photo: the second of two quick taps
\* changes the site but not the name that is shown (Photo.ProcessIntent, onStart).
TitleTellsSite ==
    \A u \in uploads : u.site = u.title \/ crowded

\* The user is told that an upload has succeeded only when the photo is on the
\* server, in a site (DoHttpTask, Photo.ProcessIntent).
ToastMeansStored == toasts \subseteq stored

\* Login leaves the front for a session that a login on the server has made, or
\* for something asked for before Login came there: a late answer can bring
\* another screen back after the logout, and nothing else can.
LoginIsLeftForAReason ==
    [][InFront = "Login" /\ InFront' # "Login" =>
          LET i == Head(intents) IN
          IF i.kind = "start" THEN i.session > 0 ELSE i.id <= atLogin]_vars
=============================================================================
