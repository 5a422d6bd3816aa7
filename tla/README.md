# PhotoTrack: a formal model

PhotoTrack (`src/`) keeps the photos of construction sites: a C++ REST server
over an SQLite database and a directory of image files, an Android client that
takes and uploads photos, and an AngularJS application that manages sites, users
and photos. This directory holds TLA+ models of the server and of its two
clients, the TLC configurations that check them on small instances, and proofs
that TLAPS checks for every value of the constants.

## 1. Inventory

| Component | State | Operations | Interacts with |
|---|---|---|---|
| `ActiveSessions` | `maxAge_`, `authenticator_`, `history_` (queue of uuids), `index_` (uuid -> session object), `mutex_` | OpenSession, CloseSession, IsActive, GetPayload, ListSessions, SetMaxAge, SetAuthenticator, lazy CloseExpiredSessions | called by the session handlers on any worker thread; reads the local time |
| `DatabaseWrapper` | tables Sites, Photos, Users, Changes; trigger PhotoDeleted; a recursive mutex | CreateOrUpdate*, Get*, Delete*, ReplaceImage, GetChanges, GetLastChange, creation of the file | calls FileStorage; the trigger calls back into FileStorage |
| FileStorage (library) | image files named by uuid | Create, Remove, ReadFile | read by handlers without the mutex of the database |
| `PhotoTrackApi` | none | one handler per route | one or more calls of ActiveSessions, DatabaseWrapper, FileStorage |
| JSON records (`Site`, `Photo`, `User`) | fields | ToJson, FromJson, UpdateWithJson | handlers, rows of the database |
| `main.cpp`, `Configuration` | arguments, `globalConfiguration`, objects of `main` | set-up, start, barrier, destruction, Initialize, Get*, Finalize | everything; the disk; worker threads of the HTTP server |
| `Toolbox`, `PropertyMap` | clock, strings | Now, ParseCookies, SetValue | all |
| Android client | three activities, their fields, requests under way, intents | login, list, take a picture, upload, logout, back | the server over HTTP; activities over intents |
| Web application | lists and forms of each tab, requests under way | list, add, edit, geocode, delete | the server over HTTP |

What is hard in this code, and what makes each component correct:

* **Sessions.** Worker threads interleave inside OpenSession, which stamps the
  session before it takes the mutex; closed sessions stay queued; nothing closes
  a session but the requests of others; the clock is local time and jumps.
  Correct means: objects are owned by exactly one place, the queue reaches
  every session, readers learn of no session that is too old, the mutex is
  always given back.
* **Database and files.** Every method holds the mutex, but handlers call
  several, files are read without it, and ReplaceImage does four writes with no
  transaction. INSERT OR REPLACE deletes before it inserts, and deletions
  cascade and fire the trigger. Correct means: files equal to
  the images of the rows, every image announced by one change, an upload atomic
  to the outside, a bounded loss after a crash, archives that are complete. That a
  photo has a site and a change a photo is enforced by SQLite (the foreign keys of
  `PrepareDatabase.sql`); it is a premise of the model and not one of its properties.
* **Change feed.** Readers use the connection without the mutex and walk a table
  whose last rows come and go. Correct means: nothing missed, nothing told twice,
  `Done` said only at the end.
* **Records and edit forms.** A record is copied field by field between an object, a
  row, JSON and single-field routes; a PUT reads and writes its row under two
  locks, and a form sends back all that it once read. Coordinates are narrowed to
  a float on the way. Correct means: nothing else lost
  or mixed up, a row that never mixes two forms, deletions that last, and
  that only a form which was stale undoes what others did.
* **Start and stop.** The script that creates the tables is no transaction; the
  order in which `main` constructs and destroys its objects has to fit what worker
  threads use; options and files are read in two loops. Correct means: no server
  works on half a schema unless a death caused it, a restart alters nothing, requests find
  the objects they use, the settings are those of one file, and the process ends.
* **Android client.** Answers arrive late, in another order, or never, and are
  delivered by bringing an activity to the front, whatever the user looks at.
  Correct means: a picture goes to the site the user chose, the screen says which
  that is, success is told only of what is stored, and nothing but what was asked for
  before brings a screen back after the logout.

`PROJECT.json` lists every hazard at its line with the properties that cover it.

## 2. Modules

| Module | What it is |
|---|---|
| `ActiveSessions` | `ActiveSessions.{h,cpp}` under the worker threads, with the part of `main.cpp` that sets it up and destroys it |
| `SessionContract` | what a client of the sessions is promised: login, logout, expiry between 'too old' and 'no longer reported', answers |
| `PhotoStore` | the tables Sites, Photos and Changes, the trigger, the files, and the handlers of `PhotoTrackApi.cpp` that use them, with crashes |
| `PhotoLibrary` | an abstract library of photos in which an upload is one step |
| `ChangesFeed` | GET `/changes` and the clients that follow it, composed with `PhotoStore` |
| `FeedContract` | what the feed promises: an answer as good as one look at the table |
| `SiteArchive` | GET `/sites/{uuid}/archive`, composed with `PhotoStore` |
| `Records` | the fields of users, sites and photos: object, row, JSON, routes; no state |
| `EditForms` | the pages of users and sites in several tabs, the handlers and the table behind them; extends `Records` |
| `ServerStart` | the life of the process: arguments, configuration, creation of the database, objects, requests, deaths and restarts |
| `AndroidClient` | the three activities, their requests and intents, and what the server does with the requests |
| `MCActiveSessions`, `MCPhotoStore`, `MCChangesFeed`, `MCSiteArchive`, `MCEditForms`, `MCServerStart`, `MCAndroidClient` | instances for TLC |
| `ActiveSessionsProofs`, `PhotoStoreProofs`, `ChangesFeedProofs`, `SiteArchiveProofs`, `RecordsProofs`, `EditFormsProofs`, `ServerStartProofs`, `AndroidClientProofs` | theorems about the module of that name |

`ChangesFeed` and `SiteArchive` extend `PhotoStore` with a reader beside it, and their
proofs extend `PhotoStoreProofs`: every step of theirs is a step of the store or leaves it
alone, so what is proved of the store holds there. `EditForms` extends `Records` in the
same way.

A definition marked "mutant" is a plausible mistake in the definition after it. No
specification uses it; it is there to see that a property would notice the mistake.

### ActiveSessions

`history`, `index`, `maxAge` and `lock` are the fields of the class. `index` is
the set of the keys of `index_`; `objects` is the heap, the session objects that
are allocated, so that a leak, a dangling pointer and a double free can be told.
`pc`, `user`, `arg` and `checked` are the locals of a thread; `checked` is the
time at which a sweep ended. `inserted` is a history variable: the time of the
push into `history_`. `phase` follows `main()`.

OpenSession is three steps (authenticate; build the object and stamp it;
insert under the mutex), because the mutex is free between them. A method that
takes the mutex and neither loops nor reads the clock is one step. The sweep is
one step per turn of its loop, since every turn reads the clock: `SkipClosed`,
`CloseExpired`, `EndSweep`. IsActive, GetPayload and ListSessions share
`BeginRead` and `Return`: they differ in what they look up in the same `index_`.
A login that is refused and a CloseSession of an unknown session change nothing
and are no steps. The age is unsigned, modulo `Width`: 2^64 in the code.

### PhotoStore

`sites`, `photos`, `changes` and `lastSeq` are the tables; a photo is its site and its image,
other columns are data (they are in `Records`). `files` is the storage. Each SQL statement the
code runs is an operator (`DeletePhotoRows`, `ReplaceSiteStatement`, ...) with the cascades and
the trigger it sets off. ReplaceImage is one step per write, with the mutex held (`lock`), because
a crash may come between two of them and `GetImage` does not wait for the mutex.
`recursiveTriggers` is a setting of the connection made by a library outside the repository, and
decides whether INSERT OR REPLACE fires the trigger for the row it replaces. The proofs cover both
values and every run with the store takes both, except `feed_polling`, to keep it small: the feed
reads no file, and files are all that the setting changes. That foreign keys are enforced follows
from the unit test `DeleteSites` (`UnitTestsMain.cpp`), which counts the photos left after a site
is deleted.

The model gives each kind of uuid (site, photo, image) names of its own and
never draws a name twice, which is what GenerateUuid is relied on for.

### ChangesFeed

Every step is a step of the store (`StoreStep`, `FeedCrash`) or of a client's request. `limit`,
`cursor` and `page` are `maxResults`, `last` and `changes` of GetChangesInternal; `ReadRow` is one
turn of its loop and `Answer` its end, with the Step that decides `Done`. Between any two of them
the store may do a step, also in the middle of ReplaceImage: the statement runs without the mutex
and meets the rows as they are by then. A change is its `seq`; the row of a number never changes.
`Limits` is GetSinceAndLimit: an argument that does not parse leaves `limit` with any value.
`heard` and `from` are history variables: what the client was ever told, and where it began (0, or
the change that GetLastChange gave it). `FeedContract` has no pages, cursors and limits: a client
asks, is told, begins at the end or loses its answer. `asked` is the request under way, of a
proper number of changes or of any; reading the rows one by one is a stutter, and what the store
does with a photo is a change of the numbers in the table, or nothing. No client in the repository
follows the feed; the one modelled sends back the `Last` it was given, which is what the interface
is made for.

### SiteArchive

`phase`, `site`, `todo`, `row` and `packed` are one request: `GetArchive` (GetSite),
`ListPhotos` (GetPhotos), then for each photo `ReadRow` (GetPhoto, again) and `AddImage` or
`Fail` (ReadFile, which throws), and `SendArchive`. Each reading of the database takes
the mutex for itself (`Unlocked`), the files are read without it, and the store does its
steps in between. The code does not look at the result of GetPhoto: of a photo deleted
meanwhile `ReadRow` reads an object without an image. `listed`, `had` and `touched` are
history: what was listed, which images photos have had since, and whether the site or its
photos changed, or were being changed. The ZIP writer is a library; `packed` is its content.

### Records

A JSON object is a record of all the members the code looks for, with `Absent` for those that are
not there and `Bad` for values that `asInt`, `asString`, `asFloat` or `boost::lexical_cast` refuse
with an exception. A row is the tuple of its columns in the order of the CREATE TABLE.
`UserToJson`, `UserUpdate`, `UserColumns` (what is bound), `UserOfColumns` (what is read back),
`UserRoutes` (the handlers of one field), `UserRefuses` (an exception), and the same for sites and
photos; `ToJson`, `Update` and the others at the end select the table. Positions are there with
both coordinates or not at all, the image of a photo belongs to the server, and a number may
travel as text (`Printed`), as the times and statuses do. `AsFloat` is the conversion of a
coordinate from the double of the JSON to the float of the object (`asFloat` in `Site.cpp:70-71`
and `Photo.cpp:57`, the casts in `Database.cpp`): any function from `Coords` that leaves the
numbers in `Floats` alone. `Kept` is what is left of a value that was sent: for a coordinate the
float it became, for all other members the value itself.

### EditForms

A client is a tab of a browser: `view`, `target`, `form` and `shown` are its page, `base` what the
form was loaded with. `requests` are sent and not yet handled, `answers` are on their way.
A page that only reads is one step. A PUT is two, `UpdateRead` and `UpdateWrite`, because
UpdateUser and UpdateSite read and write the row under two locks; the result of the
reading is not looked at, so that a PUT of an unknown uuid writes a new row under the fresh
uuid of the constructor. `Destroy` of users.js opens the list at once, that of sites.js waits
for the answer. `rows` is the table Users or the table Sites, whichever `table` says, with the
columns of `Records`. `written`, `deleted`, `raced` and `told` are history: the save that wrote a row
last, the rows ever deleted, those deleted while a PUT had read them, and what a tab was told
is deleted.

### ServerStart

`disk` survives a death: the databases and the statements of the script that each has
executed. `pc` is how far `main` is; `ReadOption` and `ReadConfiguration` are the turns of its
two loops over the arguments, `OpenStorage` to `Start` its set-up with every exception the
configuration can cause (`Exit`: `main` catches nothing), `Execute` one statement of
`PrepareDatabase.sql`, `DestroyAssets` to `Return` the destructors in the order the compiler
calls them. `Accept` and `Answer` are worker threads of the HTTP server. `UseDestroyed` is a
handler whose object is gone: the server is destroyed after the handler of the assets, in an
inner block, and serves until then. `Die` is possible everywhere. The files a configuration
names are in `Content`: absent, malformed, or a record of the members the code looks for.

### AndroidClient

`stack` are the activities, the last one in front. `tasks` are the `DoHttpTask`s under way, and
`intents` what `onPostExecute`, `onNewIntent` and the user's taps have started. `session`, `list`, `site`,
`title` and `picture` are the fields of the activities and what they show. `Handle` is the server, `End` the
end of a task with its answer or with null, in any order; `Deliver` is one delivery: `ToFront`
and the ProcessIntent of the activity (`LoginAnswer`, `LogoutAnswer`, `ShowSites`, `ShowPhoto`,
`PhotoSent`, `PhotoNotSent`). The upload button stays enabled, and `TapUpload` may come again. `sessions`
and `stored` are the server's. `uploads`, `takenAt`, `chosen`, `crowded`, `toasts` and
`atLogin` are history. What is assumed of Android is stated at the head of the module.

## 3. Runs

| Run | Instance | Shows |
|---|---|---|
| `sessions` | 2 threads, 3 sessions, time 0..3, maximum age 1, one jump of the clock by 1 either way | `ObjectsOwned`, `EverySessionCanExpire`, `ActiveIsRecent`, `ActiveIsUnexpired` |
| `sessions_contract` | 2 threads, 2 sessions, time 0..3, maximum age 0 or 2 and changed at any time, no jump, fair | `ImplementsContract`, `LockReleased` |
| `store` | 3 threads, 2 sites, 2 photos, 3 images, no failure, no PUT of photos, both trigger settings | `ImagesMatchFiles`, `EveryImageAnnounced`, `FailedReadIsOutdated`, `ImplementsLibrary` |
| `store_puts` | 2 threads, 2 sites, 2 photos, 2 images, two failures, PUT of photos, both trigger settings | `OrphansBounded`, `LatestChangeOnly` |
| `store_trigger` | 2 threads, one site and photo, 2 images, PUT of photos, both trigger settings | `DeletedPhotosLeaveNoImage` does not hold while recursive triggers are off (finding) |
| `store_update` | 1 thread, one site and photo, both trigger settings | `UpdateKeepsPhotos` does not hold (finding) |
| `archive` | 1 thread, 1 download, 1 site, 2 photos, 3 images, two failures, both trigger settings | `ArchiveComplete`, `ArchiveFailsForAReason`, `QuietArchive`, `OrphansBounded`, `DamageBounded` |
| `feed` | 1 thread, 1 client, 1 site, 2 photos, 4 images, 1 failure or lost answer, pages of 2, proper and unparsable limits, int up to 3, both trigger settings | `NoChangeMissed`, `NoChangeTwice`, `DoneIsRight`, `ImagesAreTold`, `ImplementsFeed` |
| `feed_polling` | the same with 3 images, proper limits 0 and 1, no overflow, fair | `EveryChangeHeard`, `ReplaceImageEnds` |
| `edit` | 2 threads, 2 tabs, users or sites, 3 uuids, 2 requests that write, a coordinate that is no float | `NoMixture`, `DeletedStaysDeleted`, `DeletedNotListed`, `RowsSurvive`, `OnlyStaleFormsUndo` |
| `start` | 11 command lines over 6 configuration files, 2 worker threads, 2 deaths, fair | `SchemaComplete`, `HelpHasNoEffect`, `ConfigurationConsistent`, `RequestsFindTheirObjects`, `RestartKeepsTables`, `InterruptEnds` |
| `android` | 2 sites in both orders of the list, one picture, 4 requests | `PictureFollowsTaps`, `TitleTellsSite`, `ToastMeansStored`, `LoginIsLeftForAReason` |

**Bounds.** The names (`Uuids`, `Sites`, `Photos`, `Files`) run out: an action that needs a fresh
one is disabled then, which is why deadlock is not checked there. `MaxTime` ends the clock, at
most one jump occurs, `MaxFailures` bounds crashes and storage errors together. Three sessions are
the least in which a closed session lies between two live ones in the queue; ages up to three
times the maximum let sessions expire while others are being built; two threads are enough for
every pair of overlapping methods, and a third in `store` reads while one uploads and one waits.
Three images allow a replacement of a replacement. In `feed` four changes of two photos, at most
two at a time in the table, make pages that are full, partial and empty, and the fourth number
overflows the int (`IntBound` = 4); one thread is enough because the writers exclude each other,
and clients share nothing. In `archive` one photo can be deleted or replaced while the other is
read, before and after its own turn, and a second failure meets what the first one left; with one
site the run cannot tell a failure that costs photos of two sites: that none does is said by the
theorem `DamageIsBounded` alone. In `edit` the service that finds positions answers 0 and 6, and 6
is not a float but becomes 5; two requests are one save and one deletion, or two saves, of one row
or of two; the values typed are one per kind of field, one of which the server refuses; two
threads let one PUT lie inside another. In `start` `MaxDeaths` = 2 lets a restart on a half-made
database die again, and the command lines have every order of two good files, an option before and
after a file, and every way a file can end the process. In `android` `MaxRequests` = 4 is a login,
a list, an upload and one more, and `MaxIntents` = 2 lets a second tap on the list meet the first
one on its way. Thread and name symmetry is used where only invariants and step properties are
checked.

**Fairness.** `FairSpec` of the sessions has fairness only for steps of a thread that is
inside a method (`Inside`): the operating system schedules worker
threads, and inside the sweep the code waits for nothing. `PollingSpec` assumes the same of
the store (`Continue`), and a client that goes on asking, as its property says, and
that its requests are served. `FairSpec` of `ServerStart` lets `main` run on and handlers
return; nobody has to start the server, to interrupt it or to send it a request.
Elsewhere no request is assumed to arrive, no clock to tick, and nothing is assumed of a
thread that waits for the mutex beyond weak fairness. `AndroidClient` and `EditForms` have no
fairness: the clients set no time limit on a request, and a user may simply stop.

## 4. Findings

* **A PUT of a photo can orphan an image** (`store_trigger`).
  `PhotoTrackApi.cpp:508-510` reads and writes the row under two locks. If an upload
  runs in between, the row is written back with the image it had when it was read (none,
  in the trace), the file of the upload loses its last reference, and the deletion of the
  photo removes nothing, against the comment at `PrepareDatabase.sql:46`. The condition is that
  INSERT OR REPLACE (`Database.cpp:200`) does not fire the trigger for the row it replaces: SQLite
  does so only on a connection with `PRAGMA recursive_triggers`, and the connection is opened by
  a library that is not in `src/`. The run takes both settings and the property fails with the
  trigger silent only. Where it fires nothing is left behind, PUTs included (`OrphansBounded`,
  `FiringTriggerLeavesNothing`), but there a PUT loses the opposite thing: it
  removes the image of the row it replaces, which the new row still names, with no race at all.
  No client in the repository sends the request, which is why most
  store properties are stated without it (`PhotoPuts`).
* **Updating a site deletes its photos** (`store_update`): INSERT OR REPLACE in
  `Database.cpp:122` with ON DELETE CASCADE in `PrepareDatabase.sql:20`.

Comments that the code does not bear out, met on the way:

* `ActiveSessions.h:62` says that `history_` is ordered by age. Two overlapping logins
  break that, and so does a clock that is set back. `ActiveIsRecent` says what holds all the
  same: a session is active at most `maxAge_`, and a jump of the clock, after its
  *insertion*. `ActiveIsUnexpired` says what the order is good for when it is there.
* `main.cpp:131` calls the configuration file the first argument that is no option. The loop goes on,
  and the last one counts (`ConfigurationConsistent`); each is read, so a bad one among them ends
  the process.
* The comment of `Database.cpp:109-110` has the longitude before the latitude. The bindings at
  lines 130-131 and the readings are the other way round, and agree with each other
  (`RoundTrip`).

Behaviours of the model that no property forbids, because the code does nothing against them: a
database whose creation was cut short is never completed; where the trigger fires for replaced
rows a PUT of a photo removes its image; a second tap or a lost answer makes the Android user post
a photo twice; a late answer brings a screen back after the logout; a logout that is lost leaves
the session active until it expires; the list of users that is opened with a deletion still under
way may show the deleted user; a stale form undoes what others saved; a coordinate is told as the
float next to the one that was sent; beyond the overflow of an int a client of the feed is told
changes again.

## 5. What is proved

For any number of threads, sessions, sites, photos, files, clients, requests, failures and deaths,
and for any configuration files and values of the fields, from the named assumptions of the
modules only. These say that the reserved names are not names of anything, that the kinds of names
differ, that bounds are numbers, that a page of the feed and one more fit an int
(`FeedAssumption`), that `AsFloat` leaves floats alone (`RecordsAssumption`), that users type
values a form can hold (`EditAssumption`), and that command lines are made of options and
configuration files and a port that converts is a number (`StartAssumption`). TLC evaluates every
one of them in a run.

*Sessions.* `TypeCorrect`; then one inductive invariant, `OwnershipInv`, gives `ObjectsAreOwned`
and `SessionsCanExpire`. It adds what these need of each other: the thread that sweeps is the one
that holds the mutex (`MutualExclusion`), no thread is in a method before the server serves or
after it stopped (`Quiet`), no session exists before (`NotYetUsed`) and the identifier a login
holds was never queued (`Fresh`). `ReportsAreRecent` needs a second layer, `AgeInv`: the session
at the front was built before any session behind it was inserted, up to the jump of the clock; so
when the front is young enough, all are. `ReportsAreUnexpired` needs a third, `FrontIsYoung`:
since a sweep ended, the front is the session it found young enough, because the queue changes
only under the mutex. `SweepsNearTheirEnd` says that each step of the thread that sweeps leaves it
fewer turns, and that nobody else gives it more (`TurnsLeft`). `SessionsKeepTheirContract` is the
refinement of `SessionContract` while the local time does not jump (`Jumps = {}`): the mutex makes
all threads look like one request (`OneRequest`), a session counts from its insertion,
`CloseExpired` expires a session that is too old, and `AgeInv` says that none is left when the
sweep ends.

*Store.* `TypeCorrect` rests on `TypeInv` (what a handler has read is of the right kind).
`LockInv` says that a thread is inside ReplaceImage exactly while it holds the mutex, and that the
row it read is still there and the same; with `TablesInv`, to which the foreign keys contribute
`ReferencesIntact`, it gives `ChangesAreLatest`, with crashes, errors and PUTs of photos.
`FilesInv`, for runs without failures and PUTs of photos, says at every point of ReplaceImage how
the files differ from the images of the rows: by the file created and not recorded, and by the
file removed. From it follow `FilesMatchImages`, `ImagesAreAnnounced` and
`FailedReadsAreOutdated`. `OrphansAreBounded` holds with failures: `OrphansInv` counts the files
without a row, which only a failure can add to, and by one, since the file that ReplaceImage
replaces is gone before its row is (`OldFileGone`). With PUTs of photos it holds where the trigger
fires for replaced rows: the file of the row that a PUT overwrites goes with it, whatever the new
row names (`ReplaceRowOrphans`). `FiringTriggerLeavesNothing` draws from it that there deletions
leave no image behind. `DamageIsBounded` says what a failure costs besides: photos of one site
without their file, or one image without its change. It rests on `ImagesAreNeverShared`
(`OwnersInv`: a file that is on its way into a row is in no other), so that a step that removes a
file takes it from one photo only, and on who is damaged at each point of ReplaceImage; later
requests only repair, or delete what was damaged. `NoPutsNoLeftovers` is the promise of the
trigger that `store_trigger` refutes: with either setting it holds if nobody PUTs a photo.
`ReplaceImageNearsItsEnd` says that each step of the thread that holds the mutex is nearer to the
release (`WritesLeft`), and that the bound on the uuids never stops it there. `StoreIsALibrary` is
the refinement of `PhotoLibrary` without failures and PUTs of photos. An upload takes effect when
its row is replaced: until then its file does not exist for the library, from then on its change
does (`Pictures`, `Latest`, `Uploads`), whatever other threads do before ReplaceImage writes them.

*Change feed.* `FeedTypeCorrect` and the others rest on `TypeInv` of the store. `StoreGrows` shows
that whatever the store does, the table loses rows or gains one behind all numbers
ever used. `FollowInv` says that a page holds every row between `since` and the
cursor, and that neither is beyond the last number used; it gives
`NoChangesMissed`, with crashes, PUTs, lost answers and the overflow.
`DonesAreRight` adds that a proper limit hides no row (`LimitHidesNothing`, with `PagesInv`),
and `NoChangesTwice` that nothing told and still there lies after `since`
(`OnceInv`), which holds until the overflow only. `ImagesReachClients` composes two components:
what the store has not announced is bounded by `DamageIsBounded`, what was announced a client that
is told `Done` has heard by `DonesAreRight`; so it knows the latest image of every photo but for one
for each failure. `FeedKeepsItsContract` is the refinement of `FeedContract`: an answer takes effect when
it is given, tells only numbers that were given out, and leaves out only what was deleted since its row was
passed (`SpanInv`: a page holds exactly the rows between `since` and the cursor); that it says rightly
whether there is more is `DoneIsExact`. `PagesGoForward` says that each row read brings a request nearer
to its answer, however fast uploads add rows, and that an answer which is not `Done` sends the client forward.

*Archive.* `ArchiveOverStore` shows that the archive leaves the store alone, so the
invariants of the store hold. `ArchiveTypeInv` gives `ArchiveTypeCorrect`; `CompleteInv`, that
a listed photo is still to do, being read or packed and that what was read is an image it had,
gives `ArchivesAreComplete`. `ArchivesFailForAReason` follows from `FilesInv` of the store
alone: a file that is not there while its row is can only be the one that ReplaceImage
has removed. `QuietInv` says that what was read of an untouched site is still so, and gives
`QuietArchivesAreExact`, with failures and PUTs of photos, and, as long as nothing failed,
`QuietArchivesAreWhole`.

*Composition.* `StoreSafe` is the conjunction of the invariants of the store, `StorePromise` of
the properties that follow from it, each proved once over `Init` and `[Next]_vars`. A reader
beside the store takes steps of the store or leaves it alone, so `FeedKeepsTheStore` and
`ArchivesKeepTheStore` have all of them; in `FeedSpec` a lost answer only counts as a failure
(`LostAnswerIsSafe`), and where nothing fails the refinement holds too (`FeedReadsALibrary`). An
archive changes nothing of the store at all (`ArchivesOnlyRead`), which also carries over the
refinement: `ArchivesReadALibrary`.

*Records.* Statements about all objects and all requests, with no state and no TLC run of their
own: `RecordsSurvive` (object to row and back, object to JSON and back), `RoutesTellTheRecord`,
`RetriesAreHarmless`, `PutsAreTold` (a PUT sets the members it sends, a coordinate to the float
next to it, and no other) and `PutsAreUndone`. The column of a coordinate gives back the float it
was bound to (`FloatsStay`), so a coordinate is rounded once and no further save moves it. They
rest on what an update leaves in each field (`UserReplaced`, `SiteReplaced`, `PhotoReplaced`) and
on what is told of it (`UserTold`, `SiteTold`, `PhotoTold`). The run `edit` meets the same
operators in `RowsSurvive`.

*Edit forms.* `EditInv` (types, each row is the columns of an object with its uuid, what a thread
holds and what a page shows is known to the server) gives `EditTypeCorrect` and, with
`RecordsSurvive`, `RowsKeepTheirObjects`. `WrittenInv` says of each row that it tells what its
last save sent, up to the float of a coordinate; with `PutsAreTold` it gives `RowsNeverMixForms`.
`GoneInv` adds that a PUT which holds a deleted row read it before the deletion, and gives
`DeletionsLast`; `ToldInv`, that a tab was told of real deletions only, gives `DeletionsAreSeen`.
`SavesKeepTheRest` is a step property, from `EditInv`, `PutsAreTold` and `TellingIsKept`: a form
that was loaded holds floats, and a save keeps those.

*Server start.* `ObjectsInv` says which objects exist at each point of `main`, and that handlers
run only while the server exists: `RequestsAlwaysFindTheirObjects`. `CreationInv` says that a database
has its whole schema unless it is being created, and then has a beginning of it, or was cut
short: `SchemasAreComplete` and `RestartsKeepTables`. `ArgumentsInv` follows the two loops:
`HelpNeverHasEffects` and `ConfigurationIsConsistent`. `RangesInv` adds the types, the port's
among them, which rests on the file that `ArgumentsInv` says was read: `StartTypeCorrect`.
From these four `MainNearsItsEnd`: each step of `main` passes a phase, an argument or a statement of the
script (`PhasesLeft`), and while it waits handlers only return.

*Android client.* `ClientTypeCorrect` contains that no activity exists twice and that Login
always exists. `FormedInv` says what an intent of each kind carries. `StoredInv` follows an answer from the
server to the toast (`ToastsMeanStored`); `PictureInv` ties the site to the picture that is
held (`PicturesFollowTaps`); `TitleInv` needs that a tap on its way finds Photo covered and nothing for
Photo before it, until the first time two meet (`TitlesTellSites`); `AskedBefore` bounds the
numbers of the requests that can still bring a screen to the front while Login is there
(`LoginLeftForAReason`).

## 6. What is only model-checked

`LockReleased`, `ReplaceImageEnds`, `EveryChangeHeard` and `InterruptEnds` are liveness under
fairness, which is beyond the prover, as is ENABLED. The theorems `SweepsNearTheirEnd`,
`ReplaceImageNearsItsEnd`, `PagesGoForward` and `MainNearsItsEnd` prove the safety half of each: a
measure that every step of the waited-for actor lowers and no other step raises (a death of the
server, or a lost answer, ends the waiting instead). What stays with TLC is that such a step is
enabled, which with fairness makes the measure reach its end. Every other property of a passing
run is also a theorem. The type invariants (`TypeOK` of `ActiveSessions` and of `PhotoStore`,
`FeedTypeOK`, `ArchiveTypeOK`, `EditTypeOK`, `StartTypeOK`, `ClientTypeOK`) are proved and left
out of the runs, as are the statements of `Records`. Nothing here rests on induction over data or
on a RECURSIVE operator: no module declares one.

## 7. State of the plan

Done: the models and the theorems of sections 2 to 5, which is all that was planned. What
would extend them: refinements of abstract specifications for the clients as there are for the
sessions, the store and the feed, the photo pages of the Web application (they only read), two servers on one
database (what SQLite does then is outside the repository), and the Android client composed
with `ActiveSessions`, should the server one day look at the session of a request: today no
handler but those of `/sessions` does.

## 8. What is not modelled

* `PropertyMap`: copied to each reader, never written after it is shared.
* `Toolbox`: the formatting of times, on which nothing depends, and `ParseCookies` with
  `GetSessionCookie`, which the server never calls: its one call is inside a comment
  (`PhotoTrackApi.cpp:241`). The text of the cookies for the same reason.
* The characters of JSON and of file names in the ZIP file; the models keep which member has which
  value, and which image belongs to which photo.
* Of coordinates: numbers beyond the range of a float, which the JSON library refuses or turns into an
  infinity, and the digits with which floats are printed; they are taken to be enough to read the same float back.
* Memory exhaustion, everywhere.
* Of the Web application: the pages of photos, the views and their validation, which only
  keeps some forms from being sent, and the geocoding service, of which `Geocode` takes any position.
* Of the Android client: layout, spinner, thumbnails. The camera application is one step.
* The libraries: of SQLite, FileStorage, the HTTP server, the JSON parser and Android the models
  hold what the code relies on and no more.
* The REST and unit tests are read as statements of intent.
* A `since` that does not parse leaves it uninitialized; the client modelled never sends one.
* The stub authenticator is a set of accepted users.

## 9. Running

In this directory, with TLC, the community modules and TLAPS 1.4.5:

    tlc -workers 2 -config MCActiveSessions.cfg MCActiveSessions.tla
    tlc -workers 2 -config MCActiveSessionsContract.cfg MCActiveSessions.tla
    tlc -workers 2 -config MCPhotoStore.cfg MCPhotoStore.tla
    tlc -workers 2 -config MCPhotoStorePuts.cfg MCPhotoStore.tla
    tlc -workers 2 -config MCPhotoStoreTrigger.cfg MCPhotoStore.tla
    tlc -workers 2 -config MCPhotoStoreUpdate.cfg MCPhotoStore.tla
    tlc -workers 2 -config MCSiteArchive.cfg MCSiteArchive.tla
    tlc -workers 2 -config MCChangesFeed.cfg MCChangesFeed.tla
    tlc -workers 2 -config MCChangesFeedPolling.cfg MCChangesFeed.tla
    tlc -workers 2 -config MCEditForms.cfg MCEditForms.tla
    tlc -workers 2 -config MCServerStart.cfg MCServerStart.tla
    tlc -workers 2 -config MCAndroidClient.cfg MCAndroidClient.tla

    for m in ActiveSessions PhotoStore ChangesFeed SiteArchive Records EditForms ServerStart AndroidClient
    do tlapm ${m}Proofs.tla; done

`edit`, `feed` and `feed_polling` take a few minutes, the other runs a minute or less; the proofs
take several minutes each from nothing.
