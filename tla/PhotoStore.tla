----------------------------- MODULE PhotoStore -----------------------------
(***************************************************************************)
(* The database of the PhotoTrack server and its image files               *)
(* (PhotoTrackServer/ApplicationSources/Database.cpp, PrepareDatabase.sql),*)
(* driven by the REST handlers of PhotoTrackApi.cpp.                       *)
(*                                                                         *)
(* The handlers run concurrently.  Each method of DatabaseWrapper holds    *)
(* its recursive mutex, but a handler may call several, and reads the      *)
(* image files without it.  An image is a file named by a uuid: the Photos *)
(* table refers to it, and the trigger PhotoDeleted removes it.  There is  *)
(* no transaction around a table and the files, nor around two statements. *)
(*                                                                         *)
(* SQLite runs every statement on its own: it executes it completely or    *)
(* leaves the tables alone, but the files its trigger removed stay         *)
(* removed.  "INSERT OR REPLACE" deletes the row it replaces first, and    *)
(* with it, foreign keys being enforced, the rows that refer to it.        *)
(* Whether that deletion also fires the trigger of the row depends on the  *)
(* connection ("PRAGMA recursive_triggers"), set in a library outside the  *)
(* repository: the variable recursiveTriggers takes either value.          *)
(*                                                                         *)
(* A definition marked "mutant" is a plausible mistake in the definition   *)
(* after it; the specification never uses it.  It shows that some property *)
(* would notice the mistake.                                               *)
(***************************************************************************)
EXTENDS Integers, FiniteSets

CONSTANTS
    Threads,    \* worker threads of the HTTP server
    Sites, Photos, Files,   \* uuids that GenerateUuid returns for each
    MaxFailures,    \* bound on the crashes and storage errors
    PhotoPuts,  \* whether clients send PUT /photos/{uuid}
    TriggerModes,   \* values of recursive_triggers to consider
    NoThread,
    NoUuid      \* the empty string

ASSUME StoreAssumption ==
    /\ MaxFailures \in Nat
    /\ PhotoPuts \in BOOLEAN
    /\ TriggerModes \subseteq BOOLEAN
    /\ NoThread \notin Threads
    /\ NoUuid \notin Sites \cup Photos \cup Files
    /\ Sites \cap Photos = {} /\ Sites \cap Files = {} /\ Photos \cap Files = {}

VARIABLES
    recursiveTriggers,
    sites,      \* the rows of Sites, by uuid
    photos,     \* the rows of Photos: uuid -> siteUuid, imageUuid
    changes,    \* the rows of Changes: seq -> photoUuid
    lastSeq,    \* AUTOINCREMENT: the largest seq ever used
    files,      \* the files in the FileStorage
    used,       \* the uuids generated so far
    lock,       \* the thread that holds mutex_ across steps
    pc,         \* per thread: how far its handler is
    loc,        \* per thread: the Photo object of its handler
    created,    \* per thread: imageUuid in ReplaceImage
    failures    \* how often the server died or an image could not be stored

tables  == <<sites, photos, changes, lastSeq>>
handler == <<pc, loc, created>>
vars    == <<recursiveTriggers, tables, files, used, lock, handler, failures>>

-----------------------------------------------------------------------------
Row == [site : Sites, image : Files \cup {NoUuid}]

\* A Photo object: uuid, siteUuid and imageUuid.
Photo == [uuid : Photos \cup Sites \cup {NoUuid}, site : Sites \cup {NoUuid},
          image : Files \cup {NoUuid}]

Blank == [uuid |-> NoUuid, site |-> NoUuid, image |-> NoUuid]

\* ReplaceImage with the mutex held: the photo was read; the new file was
\* created; the old one was removed; the row was written.
Replacing == {"found", "stored", "removed", "recorded"}

ControlPoints ==
    {"idle", "posted", "siteRead", "photoRead", "imageRead"} \cup Replacing

TypeOK ==
    /\ recursiveTriggers \in BOOLEAN
    /\ sites \in SUBSET Sites
    /\ DOMAIN photos \in SUBSET Photos
    /\ \A p \in DOMAIN photos : photos[p] \in Row
    /\ DOMAIN changes \in SUBSET (1 .. lastSeq)
    /\ \A q \in DOMAIN changes : changes[q] \in Photos
    /\ lastSeq \in Nat
    /\ files \in SUBSET Files
    /\ used \in SUBSET (Sites \cup Photos \cup Files)
    /\ lock \in Threads \cup {NoThread}
    /\ pc \in [Threads -> ControlPoints]
    /\ loc \in [Threads -> Photo]
    /\ created \in [Threads -> Files \cup {NoUuid}]
    /\ failures \in 0 .. MaxFailures

Init ==
    /\ recursiveTriggers \in TriggerModes
    /\ sites = {} /\ lastSeq = 0 /\ files = {} /\ used = {} /\ failures = 0
    /\ photos = [p \in {} |-> 0] /\ changes = [q \in {} |-> 0]
    /\ lock = NoThread
    /\ pc = [t \in Threads |-> "idle"]
    /\ loc = [t \in Threads |-> Blank]
    /\ created = [t \in Threads |-> NoUuid]

-----------------------------------------------------------------------------
(***************************************************************************)
(* Statements.                                                             *)
(***************************************************************************)
PhotosOf(S) == {p \in DOMAIN photos : photos[p].site \in S}

ImagesOf(P) == {photos[p].image : p \in P \cap DOMAIN photos}

\* The rows of Changes that do not refer to the photos of P: the others are
\* deleted with them (ON DELETE CASCADE).
ChangesWithout(P) ==
    [q \in {r \in DOMAIN changes : changes[r] \notin P} |-> changes[q]]

\* mutant: no trigger on the deletion
DeletePhotoRowsOnly(P) ==
    /\ photos' = [p \in DOMAIN photos \ P |-> photos[p]]
    /\ changes' = ChangesWithout(P)
    /\ UNCHANGED files

\* Rows of Photos are deleted: their changes go with them, and the trigger
\* removes their images.  Removing a file that is not there has no effect.
DeletePhotoRows(P) ==
    /\ photos' = [p \in DOMAIN photos \ P |-> photos[p]]
    /\ changes' = ChangesWithout(P)
    /\ files' = files \ ImagesOf(P)

\* DELETE FROM Photos WHERE uuid=?
DeletePhotoStatement(p) ==
    /\ DeletePhotoRows({p})
    /\ UNCHANGED <<sites, lastSeq>>

\* DELETE FROM Sites WHERE uuid=?
DeleteSiteStatement(s) ==
    /\ sites' = sites \ {s}
    /\ DeletePhotoRows(PhotosOf({s}))
    /\ UNCHANGED lastSeq

\* INSERT OR REPLACE INTO Sites: the photos of a replaced site are deleted.
ReplaceSiteStatement(s) ==
    /\ sites' = sites \cup {s}
    /\ DeletePhotoRows(PhotosOf({s}))
    /\ UNCHANGED lastSeq

\* mutant: an upsert, which does not delete the row it replaces
UpsertPhotoStatement(p, row) ==
    /\ row.site \in sites
    /\ photos' = [x \in DOMAIN photos \cup {p} |-> IF x = p THEN row ELSE photos[x]]
    /\ UNCHANGED <<sites, lastSeq, changes, files>>

\* INSERT OR REPLACE INTO Photos: when the site does not exist the statement
\* fails and the tables are unchanged.
ReplacePhotoStatement(p, row) ==
    /\ IF row.site \in sites
       THEN /\ photos' = [x \in DOMAIN photos \cup {p} |->
                             IF x = p THEN row ELSE photos[x]]
            /\ changes' = ChangesWithout({p})
       ELSE UNCHANGED <<photos, changes>>
    /\ files' = IF recursiveTriggers THEN files \ ImagesOf({p}) ELSE files
    /\ UNCHANGED <<sites, lastSeq>>

-----------------------------------------------------------------------------
(***************************************************************************)
(* Handlers of one locked call: the mutex is taken and released in a step. *)
(***************************************************************************)
Idle(t) == pc[t] = "idle"
Unlocked == lock = NoThread

\* The handler answers, or an exception ends it.
Finish(t) ==
    /\ pc' = [pc EXCEPT ![t] = "idle"]
    /\ loc' = [loc EXCEPT ![t] = Blank]
    /\ created' = [created EXCEPT ![t] = NoUuid]

PostSite(t) ==
    /\ Idle(t) /\ Unlocked
    /\ \E s \in Sites \ used :
          used' = used \cup {s} /\ ReplaceSiteStatement(s)
    /\ UNCHANGED <<recursiveTriggers, lock, handler, failures>>

DeleteSite(t, s) ==
    /\ Idle(t) /\ Unlocked
    /\ DeleteSiteStatement(s)
    /\ UNCHANGED <<recursiveTriggers, used, lock, handler, failures>>

DeletePhoto(t, p) ==
    /\ Idle(t) /\ Unlocked
    /\ DeletePhotoStatement(p)
    /\ UNCHANGED <<recursiveTriggers, used, lock, handler, failures>>

(***************************************************************************)
(* POST /photos: the row is created first; an image in the request is then *)
(* stored by a second call.  A photo without an existing site is refused.  *)
(***************************************************************************)
PostPhoto(t, s, withImage) ==
    /\ Idle(t) /\ Unlocked
    /\ s \in sites
    /\ \E p \in Photos \ used :
          /\ used' = used \cup {p}
          /\ ReplacePhotoStatement(p, [site |-> s, image |-> NoUuid])
          /\ loc' = IF withImage THEN [loc EXCEPT ![t].uuid = p] ELSE loc
    /\ pc' = IF withImage THEN [pc EXCEPT ![t] = "posted"] ELSE pc
    /\ UNCHANGED <<recursiveTriggers, lock, created, failures>>

(***************************************************************************)
(* PUT /sites/{uuid}: GetSite, then CreateOrUpdateSite.  The result of     *)
(* GetSite is not checked: an unknown uuid leaves the new Site object with *)
(* a uuid of its own.  A "Uuid" in the request replaces the uuid.          *)
(***************************************************************************)
UpdateSiteRead(t, s) ==
    /\ Idle(t) /\ Unlocked
    /\ IF s \in sites
       THEN loc' = [loc EXCEPT ![t].uuid = s] /\ UNCHANGED used
       ELSE \E n \in Sites \ used :
               loc' = [loc EXCEPT ![t].uuid = n] /\ used' = used \cup {n}
    /\ pc' = [pc EXCEPT ![t] = "siteRead"]
    /\ UNCHANGED <<recursiveTriggers, tables, files, lock, created, failures>>

UpdateSiteWrite(t) ==
    /\ pc[t] = "siteRead" /\ Unlocked
    /\ \E uuid \in {loc[t].uuid} \cup (Sites \cap used) :
          ReplaceSiteStatement(uuid)
    /\ Finish(t)
    /\ UNCHANGED <<recursiveTriggers, used, lock, failures>>

(***************************************************************************)
(* PUT /photos/{uuid}: GetPhoto, then CreateOrUpdatePhoto, in the same     *)
(* way.  The request may also name another site.  A photo without a site   *)
(* is refused before the statement.                                        *)
(***************************************************************************)
UpdatePhotoRead(t, p) ==
    /\ PhotoPuts
    /\ Idle(t) /\ Unlocked
    /\ IF p \in DOMAIN photos
       THEN /\ loc' = [loc EXCEPT ![t] = [uuid  |-> p,
                                          site  |-> photos[p].site,
                                          image |-> photos[p].image]]
            /\ UNCHANGED used
       ELSE \E n \in Photos \ used :
               loc' = [loc EXCEPT ![t].uuid = n] /\ used' = used \cup {n}
    /\ pc' = [pc EXCEPT ![t] = "photoRead"]
    /\ UNCHANGED <<recursiveTriggers, tables, files, lock, created, failures>>

UpdatePhotoWrite(t) ==
    /\ pc[t] = "photoRead" /\ Unlocked
    /\ \E uuid \in {loc[t].uuid} \cup (Photos \cap used),
          site \in {loc[t].site} \cup (Sites \cap used) :
          IF site = NoUuid
          THEN UNCHANGED <<tables, files>>
          ELSE ReplacePhotoStatement(uuid, [site |-> site, image |-> loc[t].image])
    /\ Finish(t)
    /\ UNCHANGED <<recursiveTriggers, used, lock, failures>>

-----------------------------------------------------------------------------
(***************************************************************************)
(* ReplaceImage, called by PUT /photos/{uuid}/image and by POST /photos.   *)
(* It keeps the mutex from GetPhoto to the end; the readers of files and   *)
(* of Changes do not take it, and the server may die between two calls.    *)
(* It starts only while there is a fresh uuid for the file: a bound.       *)
(***************************************************************************)
ReplaceImage(t, p) ==
    /\ Unlocked
    /\ p \in DOMAIN photos
    /\ Files \ used # {}
    /\ lock' = t
    /\ pc' = [pc EXCEPT ![t] = "found"]
    /\ loc' = [loc EXCEPT ![t] = [uuid  |-> p,
                                  site  |-> photos[p].site,
                                  image |-> photos[p].image]]
    /\ UNCHANGED <<recursiveTriggers, tables, files, used, created, failures>>

\* The photo has been deleted between its creation and this call.
ReplaceImageInexistent(t) ==
    /\ Unlocked
    /\ pc[t] = "posted" /\ loc[t].uuid \notin DOMAIN photos
    /\ Finish(t)
    /\ UNCHANGED <<recursiveTriggers, tables, files, used, lock, failures>>

\* fileStorage_.Create
CreateFile(t) ==
    /\ pc[t] = "found"
    /\ \E f \in Files \ used :
          /\ used' = used \cup {f}
          /\ files' = files \cup {f}
          /\ created' = [created EXCEPT ![t] = f]
    /\ pc' = [pc EXCEPT ![t] = "stored"]
    /\ UNCHANGED <<recursiveTriggers, tables, lock, loc, failures>>

\* mutant: the new file is removed instead of the old one
RemoveNewFile(t) ==
    /\ pc[t] = "stored"
    /\ files' = files \ {created[t]}
    /\ pc' = [pc EXCEPT ![t] = "removed"]
    /\ UNCHANGED <<recursiveTriggers, tables, used, lock, loc, created, failures>>

\* mutant: the old file is kept
KeepOldFile(t) ==
    /\ pc[t] = "stored"
    /\ pc' = [pc EXCEPT ![t] = "removed"]
    /\ UNCHANGED <<recursiveTriggers, tables, files, used, lock, loc, created,
                   failures>>

\* fileStorage_.Remove, unless there was no image
RemoveFile(t) ==
    /\ pc[t] = "stored"
    /\ files' = files \ {loc[t].image}
    /\ pc' = [pc EXCEPT ![t] = "removed"]
    /\ UNCHANGED <<recursiveTriggers, tables, used, lock, loc, created, failures>>

\* mutant: the mutex is released before the change is inserted
RecordImageAndUnlock(t) ==
    /\ pc[t] = "removed"
    /\ ReplacePhotoStatement(loc[t].uuid,
                             [site |-> loc[t].site, image |-> created[t]])
    /\ pc' = [pc EXCEPT ![t] = "recorded"]
    /\ lock' = NoThread
    /\ UNCHANGED <<recursiveTriggers, used, loc, created, failures>>

\* mutant: the mutex is not recursive
RecordImageLocking(t) ==
    /\ pc[t] = "removed" /\ Unlocked
    /\ ReplacePhotoStatement(loc[t].uuid,
                             [site |-> loc[t].site, image |-> created[t]])
    /\ pc' = [pc EXCEPT ![t] = "recorded"]
    /\ UNCHANGED <<recursiveTriggers, used, lock, loc, created, failures>>

\* CreateOrUpdatePhoto, which takes the recursive mutex again
RecordImage(t) ==
    /\ pc[t] = "removed"
    /\ ReplacePhotoStatement(loc[t].uuid,
                             [site |-> loc[t].site, image |-> created[t]])
    /\ pc' = [pc EXCEPT ![t] = "recorded"]
    /\ UNCHANGED <<recursiveTriggers, used, lock, loc, created, failures>>

\* mutant: the primary key is not AUTOINCREMENT
RecordChangeReusingSeq(t) ==
    /\ pc[t] = "recorded"
    /\ \E q \in 1 .. lastSeq + 1 :
          /\ \A r \in DOMAIN changes : r < q
          /\ q = 1 \/ q - 1 \in DOMAIN changes
          /\ lastSeq' = q
          /\ changes' = [r \in DOMAIN changes \cup {q} |->
                            IF r = q THEN loc[t].uuid ELSE changes[r]]
    /\ lock' = NoThread
    /\ Finish(t)
    /\ UNCHANGED <<recursiveTriggers, sites, photos, files, used, failures>>

\* INSERT INTO Changes, and the return
RecordChange(t) ==
    /\ pc[t] = "recorded"
    /\ lastSeq' = lastSeq + 1
    /\ changes' = [q \in DOMAIN changes \cup {lastSeq'} |->
                      IF q = lastSeq' THEN loc[t].uuid ELSE changes[q]]
    /\ lock' = NoThread
    /\ Finish(t)
    /\ UNCHANGED <<recursiveTriggers, sites, photos, files, used, failures>>

\* The storage or the database refuses a step (the disk is full): an exception
\* leaves ReplaceImage, which undoes nothing.
ReplaceImageFails(t) ==
    /\ failures < MaxFailures
    /\ pc[t] \in Replacing
    /\ failures' = failures + 1
    /\ lock' = NoThread
    /\ Finish(t)
    /\ UNCHANGED <<recursiveTriggers, tables, files, used>>

(***************************************************************************)
(* GET /photos/{uuid}/image: the row is read under the mutex, the file     *)
(* after it was released.                                                  *)
(***************************************************************************)
GetImage(t, p) ==
    /\ Idle(t) /\ Unlocked
    /\ p \in DOMAIN photos
    /\ pc' = [pc EXCEPT ![t] = "imageRead"]
    /\ loc' = [loc EXCEPT ![t] = [uuid  |-> p,
                                  site  |-> photos[p].site,
                                  image |-> photos[p].image]]
    /\ UNCHANGED <<recursiveTriggers, tables, files, used, lock, created, failures>>

\* ReadFile answers with the file, or throws when there is none.
ReadFile(t) ==
    /\ pc[t] = "imageRead"
    /\ Finish(t)
    /\ UNCHANGED <<recursiveTriggers, tables, files, used, lock, failures>>

-----------------------------------------------------------------------------
(***************************************************************************)
(* The server dies and is started again on the same database and storage.  *)
(* It may die in a DELETE statement whose trigger has removed some files.  *)
(***************************************************************************)
Crash ==
    /\ failures < MaxFailures
    /\ failures' = failures + 1
    /\ \/ UNCHANGED files
       \/ Unlocked /\ \E s \in sites : \E P \in SUBSET PhotosOf({s}) :
             files' = files \ ImagesOf(P)
    /\ lock' = NoThread
    /\ pc' = [t \in Threads |-> "idle"]
    /\ loc' = [t \in Threads |-> Blank]
    /\ created' = [t \in Threads |-> NoUuid]
    /\ UNCHANGED <<recursiveTriggers, tables, used>>

Request(t) ==
    \/ PostSite(t)
    \/ \E s \in Sites : DeleteSite(t, s) \/ UpdateSiteRead(t, s)
    \/ \E s \in Sites, withImage \in BOOLEAN : PostPhoto(t, s, withImage)
    \/ \E p \in Photos : DeletePhoto(t, p) \/ UpdatePhotoRead(t, p) \/ GetImage(t, p)
    \/ \E p \in Photos : Idle(t) /\ ReplaceImage(t, p)

Continue(t) ==
    \/ UpdateSiteWrite(t)
    \/ UpdatePhotoWrite(t)
    \/ pc[t] = "posted" /\ ReplaceImage(t, loc[t].uuid)
    \/ ReplaceImageInexistent(t)
    \/ CreateFile(t)
    \/ RemoveFile(t)
    \/ RecordImage(t)
    \/ RecordChange(t)
    \/ ReadFile(t)

Next ==
    \/ \E t \in Threads : Request(t) \/ Continue(t) \/ ReplaceImageFails(t)
    \/ Crash

Spec == Init /\ [][Next]_vars

\* Worker threads are scheduled, and in ReplaceImage none waits for another.
FairSpec == Spec /\ \A t \in Threads : WF_vars(Continue(t))

-----------------------------------------------------------------------------
(***************************************************************************)
(* Properties.  Where PUT /photos/{uuid} is excluded (no client of the     *)
(* repository sends it), that is because the property fails with it.  When *)
(* recursiveTriggers holds, the PUT of a photo removes the image of the    *)
(* row it replaces, though the new row still names it; when it does not,   *)
(* a PUT that overlaps an upload leaves the new image without a row: see   *)
(* DeletedPhotosLeaveNoImage.                                              *)
(***************************************************************************)

\* The images a ReplaceImage in progress has created but not recorded, and the
\* photos it works on.
Pending  == {created[t] : t \in {u \in Threads : pc[u] \in {"stored", "removed"}}}
BusyWith == {loc[t].uuid : t \in {u \in Threads : pc[u] \in Replacing}}

\* The Changes table holds one row for a photo, its latest image, and only
\* photos that have an image: replacing the row of the photo deletes the
\* earlier change before the new one is inserted (ReplaceImage).  True with
\* failures and with concurrent updates of photos.
LatestChangeOnly ==
    /\ \A q, r \in DOMAIN changes : changes[q] = changes[r] => q = r
    /\ \A q \in DOMAIN changes : photos[changes[q]].image # NoUuid

\* With no failure and no PUT of a photo, whenever the mutex is free the stored
\* files are exactly the images of the photos, each of one photo, whatever
\* uploads, deletions and replacements of sites raced (ReplaceImage,
\* PhotoDeleted).
ImagesMatchFiles ==
    ~PhotoPuts /\ failures = 0 /\ Unlocked =>
        /\ files = ImagesOf(DOMAIN photos) \ {NoUuid}
        /\ \A p, q \in DOMAIN photos :
              photos[p].image = photos[q].image /\ photos[p].image # NoUuid => p = q

\* Under the same conditions, every image can be found in the changes
\* (ReplaceImage).
EveryImageAnnounced ==
    ~PhotoPuts /\ failures = 0 /\ Unlocked =>
        \A p \in DOMAIN photos :
            photos[p].image # NoUuid => \E q \in DOMAIN changes : changes[q] = p

\* GET of an image reads the file without the mutex.  When it finds no file
\* although the photo had an image, the photo has been deleted, or its image
\* replaced or being replaced, in between: no reader fails on a photo nobody
\* touches (GetImage).
FailedReadIsOutdated ==
    ~PhotoPuts /\ failures = 0 =>
        \A t \in Threads :
            pc[t] = "imageRead" /\ loc[t].image \notin files \cup {NoUuid} =>
                LET p == loc[t].uuid IN
                p \in DOMAIN photos =>
                    p \in BusyWith \/ photos[p].image # loc[t].image

\* A crash or a storage error leaves at most one file behind that no photo
\* refers to and that nothing will ever remove (ReplaceImage).  PUTs of photos
\* leave none as long as the trigger fires for the rows they replace: they may
\* take the image of a photo away, but not leave it without a photo
\* (UpdatePhoto, PhotoDeleted).
Orphans == files \ (ImagesOf(DOMAIN photos) \cup Pending)

OrphansBounded ==
    ~PhotoPuts \/ recursiveTriggers => Cardinality(Orphans) <= failures

\* The photos whose image is lost, and the photos with an image that clients are
\* not told of, except where the ReplaceImage in progress is about to write the
\* row and the change.
Damaged ==
    {p \in DOMAIN photos : photos[p].image \notin files \cup {NoUuid}}
        \ {loc[t].uuid : t \in {u \in Threads : pc[u] = "removed"}}

Unannounced ==
    {p \in DOMAIN photos :
        photos[p].image # NoUuid /\ \A q \in DOMAIN changes : changes[q] # p}
        \ {loc[t].uuid : t \in {u \in Threads : pc[u] = "recorded"}}

\* What a crash or a storage error may cost: it damages photos of one site at
\* most, or leaves one image out of the changes, and what later requests do with
\* what it left never makes it worse (ReplaceImage, DeleteSite, PhotoDeleted).
DamageBounded ==
    ~PhotoPuts =>
        Cardinality({photos[p].site : p \in Damaged}) + Cardinality(Unannounced)
            <= failures

\* ReplaceImage, which calls methods that take its own mutex again, always
\* releases it.
ReplaceImageEnds == \A t \in Threads : lock = t ~> lock = NoThread

\* PrepareDatabase.sql: "Trigger to remove image after a photo is deleted".
\* Once all photos are deleted no image is left.  Fails only while
\* recursiveTriggers does not hold: OrphansBounded is the other case.
DeletedPhotosLeaveNoImage ==
    failures = 0 /\ Unlocked /\ DOMAIN photos = {} => files = {}

\* test_Sites.py and the Web application call PUT /sites/{uuid} an update:
\* the photos of the site stay.
UpdateKeepsPhotos ==
    [][\A t \in Threads : UpdateSiteWrite(t) => DOMAIN photos' = DOMAIN photos]_vars

\* With no failure and no PUT of a photo the store is a library of photos in
\* which an upload is one step: see PhotoLibrary.  While ReplaceImage runs, the
\* library still has the old image until the row is written, and has the change
\* from then on.
Busy(t) == pc[t] \in {"stored", "removed"}
Late == {t \in Threads : pc[t] = "recorded"}

Library == INSTANCE PhotoLibrary WITH
    pictures <- (files \ Pending) \cup
                ({loc[t].image : t \in {u \in Threads : pc[u] = "removed"}} \ {NoUuid}),
    latest   <- [p \in {changes[q] : q \in DOMAIN changes} \cup {loc[t].uuid : t \in Late} |->
                    IF \E t \in Late : loc[t].uuid = p THEN lastSeq + 1
                    ELSE CHOOSE q \in DOMAIN changes : changes[q] = p],
    uploads  <- lastSeq + Cardinality(Late)

ImplementsLibrary == Library!Spec
=============================================================================
