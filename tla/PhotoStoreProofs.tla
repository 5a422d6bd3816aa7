-------------------------- MODULE PhotoStoreProofs --------------------------
(***************************************************************************)
(* Proofs about PhotoStore, for any threads, sites, photos, files and      *)
(* number of failures, with and without recursive triggers.                *)
(***************************************************************************)
EXTENDS PhotoStore, FiniteSetTheorems, TLAPS

(***************************************************************************)
(* Types.  Beside its type, what a handler has read is a uuid of the right *)
(* kind for where it is.                                                   *)
(***************************************************************************)
LocalInv ==
    \A t \in Threads :
        /\ pc[t] = "posted" => loc[t].uuid \in Photos
        /\ pc[t] = "siteRead" => loc[t].uuid \in Sites
        /\ pc[t] = "photoRead" => loc[t].uuid \in Photos
        /\ pc[t] \in Replacing => loc[t].uuid \in Photos /\ loc[t].site \in Sites
        /\ pc[t] \in {"stored", "removed", "recorded"} => created[t] \in Files

TypeInv == TypeOK /\ LocalInv

LEMMA TypeInit == Init => TypeInv
<1> SUFFICES ASSUME Init PROVE TypeInv
    OBVIOUS
<1>1. DOMAIN photos = {} /\ DOMAIN changes = {}
    BY DEF Init
<1>2. Blank \in Photo
    BY DEF Blank, Photo
<1>3. recursiveTriggers \in BOOLEAN /\ failures \in 0 .. MaxFailures
    BY StoreAssumption DEF Init
<1> QED
    BY <1>1, <1>2, <1>3
    DEF Init, TypeInv, TypeOK, LocalInv, ControlPoints, Replacing

\* Statements keep the types of the tables.
LEMMA DeleteRowsType ==
    ASSUME TypeOK, NEW P, DeletePhotoRows(P), lastSeq' = lastSeq
    PROVE  /\ DOMAIN photos' \in SUBSET Photos
           /\ \A p \in DOMAIN photos' : photos'[p] \in Row
           /\ DOMAIN changes' \in SUBSET (1 .. lastSeq')
           /\ \A q \in DOMAIN changes' : changes'[q] \in Photos
           /\ files' \in SUBSET Files
    BY DEF TypeOK, DeletePhotoRows, ChangesWithout

LEMMA ReplacePhotoType ==
    ASSUME TypeOK, NEW p \in Photos, NEW row \in Row,
           ReplacePhotoStatement(p, row)
    PROVE  /\ DOMAIN photos' \in SUBSET Photos
           /\ \A x \in DOMAIN photos' : photos'[x] \in Row
           /\ DOMAIN changes' \in SUBSET (1 .. lastSeq')
           /\ \A q \in DOMAIN changes' : changes'[q] \in Photos
           /\ files' \in SUBSET Files
           /\ sites' = sites /\ lastSeq' = lastSeq
    BY DEF TypeOK, ReplacePhotoStatement, ChangesWithout

\* A handler ends.
LEMMA FinishType ==
    ASSUME TypeInv, NEW t \in Threads, Finish(t)
    PROVE  /\ pc' \in [Threads -> ControlPoints]
           /\ loc' \in [Threads -> Photo]
           /\ created' \in [Threads -> Files \cup {NoUuid}]
           /\ LocalInv'
<1>1. Blank \in Photo
    BY DEF Blank, Photo
<1> QED
    BY <1>1 DEF TypeInv, TypeOK, Finish, ControlPoints, LocalInv, Replacing

\* A handler reads the row of a photo.
LEMMA ReadRowType ==
    ASSUME TypeOK, NEW p \in DOMAIN photos
    PROVE  /\ [uuid |-> p, site |-> photos[p].site, image |-> photos[p].image] \in Photo
           /\ photos[p].site \in Sites /\ p \in Photos
    BY DEF TypeOK, Photo, Row

LEMMA TypeStep == TypeInv /\ [Next]_vars => TypeInv'
<1> SUFFICES ASSUME TypeInv, [Next]_vars PROVE TypeInv'
    OBVIOUS
<1> USE DEF tables, handler
<1>1. ASSUME NEW t \in Threads, PostSite(t) PROVE TypeInv'
    BY <1>1, DeleteRowsType
    DEF PostSite, ReplaceSiteStatement, TypeInv, TypeOK, LocalInv
<1>2. ASSUME NEW t \in Threads, NEW s \in Sites, DeleteSite(t, s) PROVE TypeInv'
    BY <1>2, DeleteRowsType
    DEF DeleteSite, DeleteSiteStatement, TypeInv, TypeOK, LocalInv
<1>3. ASSUME NEW t \in Threads, NEW p \in Photos, DeletePhoto(t, p) PROVE TypeInv'
    BY <1>3, DeleteRowsType
    DEF DeletePhoto, DeletePhotoStatement, TypeInv, TypeOK, LocalInv
<1>4. ASSUME NEW t \in Threads, NEW s \in Sites, NEW withImage \in BOOLEAN,
             PostPhoto(t, s, withImage)
      PROVE  TypeInv'
  <2>1. PICK p \in Photos \ used :
           /\ used' = used \cup {p}
           /\ ReplacePhotoStatement(p, [site |-> s, image |-> NoUuid])
           /\ loc' = IF withImage THEN [loc EXCEPT ![t].uuid = p] ELSE loc
      BY <1>4 DEF PostPhoto
  <2>2. [site |-> s, image |-> NoUuid] \in Row
      BY DEF Row
  <2>3. loc' \in [Threads -> Photo]
      BY <2>1 DEF TypeInv, TypeOK, Photo
  <2>4. pc' \in [Threads -> ControlPoints]
      BY <1>4 DEF PostPhoto, TypeInv, TypeOK, ControlPoints
  <2>5. LocalInv'
      BY <1>4, <2>1 DEF PostPhoto, Idle, TypeInv, TypeOK, LocalInv, Replacing, Photo
  <2>6. TypeOK'
      BY <1>4, <2>1, <2>2, <2>3, <2>4, ReplacePhotoType DEF PostPhoto, TypeInv, TypeOK
  <2> QED
      BY <2>5, <2>6 DEF TypeInv
<1>5. ASSUME NEW t \in Threads, NEW s \in Sites, UpdateSiteRead(t, s) PROVE TypeInv'
  <2>1. PICK u \in Sites : loc' = [loc EXCEPT ![t].uuid = u]
      BY <1>5 DEF UpdateSiteRead
  <2>2. loc' \in [Threads -> Photo]
      BY <2>1 DEF TypeInv, TypeOK, Photo
  <2>3. used' \in SUBSET (Sites \cup Photos \cup Files)
      BY <1>5 DEF UpdateSiteRead, TypeInv, TypeOK
  <2>4. LocalInv'
      BY <1>5, <2>1 DEF UpdateSiteRead, TypeInv, TypeOK, LocalInv, Replacing, Photo
  <2> QED
      BY <1>5, <2>2, <2>3, <2>4 DEF UpdateSiteRead, TypeInv, TypeOK, ControlPoints
<1>6. ASSUME NEW t \in Threads, UpdateSiteWrite(t) PROVE TypeInv'
  <2>1. PICK u \in Sites : ReplaceSiteStatement(u)
      BY <1>6 DEF UpdateSiteWrite, TypeInv, LocalInv
  <2> QED
      BY <1>6, <2>1, DeleteRowsType, FinishType
      DEF UpdateSiteWrite, ReplaceSiteStatement, TypeInv, TypeOK
<1>7. ASSUME NEW t \in Threads, NEW p \in Photos, UpdatePhotoRead(t, p) PROVE TypeInv'
  <2>1. /\ loc' \in [Threads -> Photo] /\ loc'[t].uuid \in Photos
        /\ \A v \in Threads \ {t} : loc'[v] = loc[v]
    <3>1. CASE p \in DOMAIN photos
        BY <1>7, <3>1, ReadRowType DEF UpdatePhotoRead, TypeInv, TypeOK
    <3>2. CASE p \notin DOMAIN photos
        BY <1>7, <3>2 DEF UpdatePhotoRead, TypeInv, TypeOK, Photo
    <3> QED
        BY <3>1, <3>2
  <2>2. used' \in SUBSET (Sites \cup Photos \cup Files)
      BY <1>7 DEF UpdatePhotoRead, TypeInv, TypeOK
  <2>3. LocalInv'
      BY <1>7, <2>1 DEF UpdatePhotoRead, TypeInv, TypeOK, LocalInv, Replacing
  <2> QED
      BY <1>7, <2>1, <2>2, <2>3 DEF UpdatePhotoRead, TypeInv, TypeOK, ControlPoints
<1>8. ASSUME NEW t \in Threads, UpdatePhotoWrite(t) PROVE TypeInv'
  <2>1. PICK u \in Photos, s \in Sites \cup {NoUuid} :
           IF s = NoUuid
           THEN UNCHANGED <<tables, files>>
           ELSE ReplacePhotoStatement(u, [site |-> s, image |-> loc[t].image])
      BY <1>8 DEF UpdatePhotoWrite, TypeInv, TypeOK, LocalInv, Photo
  <2>2. CASE s = NoUuid
      BY <1>8, <2>1, <2>2, FinishType DEF UpdatePhotoWrite, TypeInv, TypeOK
  <2>3. CASE s # NoUuid
    <3>1. [site |-> s, image |-> loc[t].image] \in Row
        BY <2>3 DEF TypeInv, TypeOK, Photo, Row
    <3> QED
        BY <1>8, <2>1, <2>3, <3>1, FinishType, ReplacePhotoType
        DEF UpdatePhotoWrite, TypeInv, TypeOK
  <2> QED
      BY <2>2, <2>3
<1>9. ASSUME NEW t \in Threads, NEW p \in Photos \cup Sites \cup {NoUuid},
             ReplaceImage(t, p)
      PROVE  TypeInv'
  <2>1. p \in DOMAIN photos
      BY <1>9 DEF ReplaceImage
  <2>2. /\ loc' \in [Threads -> Photo]
        /\ loc'[t].uuid \in Photos /\ loc'[t].site \in Sites
        /\ \A v \in Threads \ {t} : loc'[v] = loc[v]
      BY <1>9, <2>1, ReadRowType DEF ReplaceImage, TypeInv, TypeOK
  <2>3. LocalInv'
      BY <1>9, <2>2 DEF ReplaceImage, TypeInv, TypeOK, LocalInv, Replacing
  <2> QED
      BY <1>9, <2>2, <2>3 DEF ReplaceImage, TypeInv, TypeOK, ControlPoints, Replacing
<1>10. ASSUME NEW t \in Threads, ReplaceImageInexistent(t) PROVE TypeInv'
    BY <1>10, FinishType DEF ReplaceImageInexistent, TypeInv, TypeOK
<1>11. ASSUME NEW t \in Threads, CreateFile(t) PROVE TypeInv'
  <2>1. LocalInv'
      BY <1>11 DEF CreateFile, TypeInv, TypeOK, LocalInv, Replacing
  <2> QED
      BY <1>11, <2>1 DEF CreateFile, TypeInv, TypeOK, ControlPoints, Replacing
<1>12. ASSUME NEW t \in Threads, RemoveFile(t) PROVE TypeInv'
    BY <1>12 DEF RemoveFile, TypeInv, TypeOK, LocalInv, ControlPoints, Replacing
<1>13. ASSUME NEW t \in Threads, RecordImage(t) PROVE TypeInv'
  <2>1. /\ loc[t].uuid \in Photos
        /\ [site |-> loc[t].site, image |-> created[t]] \in Row
      BY <1>13 DEF RecordImage, TypeInv, TypeOK, LocalInv, Replacing, Row
  <2>2. LocalInv'
      BY <1>13 DEF RecordImage, TypeInv, TypeOK, LocalInv, Replacing
  <2> QED
      BY <1>13, <2>1, <2>2, ReplacePhotoType
      DEF RecordImage, TypeInv, TypeOK, ControlPoints, Replacing
<1>14. ASSUME NEW t \in Threads, RecordChange(t) PROVE TypeInv'
  <2>1. loc[t].uuid \in Photos
      BY <1>14 DEF RecordChange, TypeInv, LocalInv, Replacing
  <2>2. /\ DOMAIN changes' \in SUBSET (1 .. lastSeq')
        /\ \A q \in DOMAIN changes' : changes'[q] \in Photos
        /\ lastSeq' \in Nat
      BY <1>14, <2>1 DEF RecordChange, TypeInv, TypeOK
  <2> QED
      BY <1>14, <2>2, FinishType DEF RecordChange, TypeInv, TypeOK
<1>15. ASSUME NEW t \in Threads, ReplaceImageFails(t) PROVE TypeInv'
    BY <1>15, FinishType, StoreAssumption DEF ReplaceImageFails, TypeInv, TypeOK
<1>16. ASSUME NEW t \in Threads, NEW p \in Photos, GetImage(t, p) PROVE TypeInv'
  <2>1. /\ loc' \in [Threads -> Photo]
        /\ \A v \in Threads \ {t} : loc'[v] = loc[v]
      BY <1>16, ReadRowType DEF GetImage, TypeInv, TypeOK
  <2>2. LocalInv'
      BY <1>16, <2>1 DEF GetImage, TypeInv, TypeOK, LocalInv, Replacing
  <2> QED
      BY <1>16, <2>1, <2>2 DEF GetImage, TypeInv, TypeOK, ControlPoints
<1>17. ASSUME NEW t \in Threads, ReadFile(t) PROVE TypeInv'
    BY <1>17, FinishType DEF ReadFile, TypeInv, TypeOK
<1>18. CASE Crash
  <2>1. Blank \in Photo
      BY DEF Blank, Photo
  <2>2. files' \in SUBSET Files
      BY <1>18 DEF Crash, TypeInv, TypeOK
  <2> QED
      BY <1>18, <2>1, <2>2, StoreAssumption
      DEF Crash, TypeInv, TypeOK, LocalInv, ControlPoints, Replacing
<1>19. CASE UNCHANGED vars
    BY <1>19 DEF vars, TypeInv, TypeOK, LocalInv
<1> QED
  <2>1. \A t \in Threads : loc[t].uuid \in Photos \cup Sites \cup {NoUuid}
      BY DEF TypeInv, TypeOK, Photo
  <2> QED
      BY <1>1, <1>2, <1>3, <1>4, <1>5, <1>6, <1>7, <1>8, <1>9, <1>10, <1>11,
         <1>12, <1>13, <1>14, <1>15, <1>16, <1>17, <1>18, <1>19, <2>1
      DEF Next, Request, Continue

LEMMA TypeInvariance == Spec => []TypeInv
    BY TypeInit, TypeStep, PTL DEF Spec

\* Every variable of the photo store keeps its type, in every run.
THEOREM TypeCorrect == Spec => []TypeOK
<1>1. TypeInv => TypeOK
    BY DEF TypeInv
<1> QED
    BY <1>1, TypeInvariance, PTL

-----------------------------------------------------------------------------
(***************************************************************************)
(* The tables.  ReplaceImage may rely on the row it has read as long as it *)
(* holds the mutex.                                                        *)
(***************************************************************************)
LockInv ==
    \A t \in Threads :
        /\ pc[t] \in Replacing <=> lock = t
        /\ pc[t] \in Replacing =>
              LET p == loc[t].uuid IN
              /\ p \in DOMAIN photos /\ photos[p].site = loc[t].site
              /\ pc[t] # "recorded" => photos[p].image = loc[t].image
              /\ pc[t] = "recorded" =>
                    /\ photos[p].image = created[t]
                    /\ \A q \in DOMAIN changes : changes[q] # p

\* What the foreign keys enforce.
ReferencesIntact ==
    /\ \A p \in DOMAIN photos : photos[p].site \in sites
    /\ \A q \in DOMAIN changes : changes[q] \in DOMAIN photos

TablesInv == ReferencesIntact /\ LatestChangeOnly

LEMMA DeleteRowsTables ==
    ASSUME TypeInv, TablesInv, NEW P, DeletePhotoRows(P),
           \A p \in DOMAIN photos \ P : photos[p].site \in sites'
    PROVE  TablesInv'
<1>1. /\ DOMAIN photos' = DOMAIN photos \ P
      /\ \A p \in DOMAIN photos' : photos'[p] = photos[p]
      /\ DOMAIN changes' = {q \in DOMAIN changes : changes[q] \notin P}
      /\ \A q \in DOMAIN changes' : changes'[q] = changes[q]
    BY DEF DeletePhotoRows, ChangesWithout
<1>2. ReferencesIntact'
    BY <1>1 DEF TablesInv, ReferencesIntact
<1>3. LatestChangeOnly'
    BY <1>1 DEF TablesInv, ReferencesIntact, LatestChangeOnly
<1> QED
    BY <1>2, <1>3 DEF TablesInv

LEMMA ReplacePhotoTables ==
    ASSUME TypeInv, TablesInv, NEW p, NEW row, ReplacePhotoStatement(p, row)
    PROVE  TablesInv'
<1>1. CASE row.site \in sites
  <2>1. /\ DOMAIN photos' = DOMAIN photos \cup {p}
        /\ photos'[p] = row
        /\ \A x \in DOMAIN photos \ {p} : photos'[x] = photos[x]
        /\ DOMAIN changes' = {q \in DOMAIN changes : changes[q] # p}
        /\ \A q \in DOMAIN changes' : changes'[q] = changes[q]
        /\ sites' = sites
      BY <1>1 DEF ReplacePhotoStatement, ChangesWithout
  <2>2. ReferencesIntact'
      BY <1>1, <2>1 DEF TablesInv, ReferencesIntact
  <2>3. LatestChangeOnly'
      BY <2>1 DEF TablesInv, ReferencesIntact, LatestChangeOnly
  <2> QED
      BY <2>2, <2>3 DEF TablesInv
<1>2. CASE row.site \notin sites
    BY <1>2 DEF ReplacePhotoStatement, TablesInv, ReferencesIntact, LatestChangeOnly
<1> QED
    BY <1>1, <1>2

\* While the mutex is free no handler relies on it.
LEMMA LockFree ==
    ASSUME LockInv, NEW t \in Threads, Unlocked, lock' = lock,
           pc'[t] \notin Replacing,
           \A v \in Threads \ {t} : pc'[v] = pc[v]
    PROVE  LockInv'
    BY StoreAssumption DEF LockInv, Unlocked

LEMMA TablesInit == Init => LockInv /\ TablesInv
<1> SUFFICES ASSUME Init PROVE LockInv /\ TablesInv
    OBVIOUS
<1>1. DOMAIN photos = {} /\ DOMAIN changes = {}
    BY DEF Init
<1> QED
    BY <1>1, StoreAssumption
    DEF Init, LockInv, TablesInv, ReferencesIntact, LatestChangeOnly, Replacing

LEMMA TablesStep ==
    TypeInv /\ LockInv /\ TablesInv /\ [Next]_vars => LockInv' /\ TablesInv'
<1> SUFFICES ASSUME TypeInv, LockInv, TablesInv, [Next]_vars
             PROVE  LockInv' /\ TablesInv'
    OBVIOUS
<1> USE DEF tables, handler
<1>0. /\ pc \in [Threads -> ControlPoints] /\ loc \in [Threads -> Photo]
      /\ created \in [Threads -> Files \cup {NoUuid}]
    BY DEF TypeInv, TypeOK
<1>1. ASSUME NEW t \in Threads, PostSite(t) PROVE LockInv' /\ TablesInv'
  <2>1. LockInv'
      BY <1>1, LockFree DEF PostSite, Idle, Replacing
  <2>2. TablesInv'
      BY <1>1, DeleteRowsTables
      DEF PostSite, ReplaceSiteStatement, TablesInv, ReferencesIntact
  <2> QED
      BY <2>1, <2>2
<1>2. ASSUME NEW t \in Threads, NEW s \in Sites, DeleteSite(t, s)
      PROVE  LockInv' /\ TablesInv'
  <2>1. LockInv'
      BY <1>2, LockFree DEF DeleteSite, Idle, Replacing
  <2>2. TablesInv'
      BY <1>2, DeleteRowsTables
      DEF DeleteSite, DeleteSiteStatement, PhotosOf, TablesInv, ReferencesIntact
  <2> QED
      BY <2>1, <2>2
<1>3. ASSUME NEW t \in Threads, NEW p \in Photos, DeletePhoto(t, p)
      PROVE  LockInv' /\ TablesInv'
  <2>1. LockInv'
      BY <1>3, LockFree DEF DeletePhoto, Idle, Replacing
  <2>2. TablesInv'
      BY <1>3, DeleteRowsTables
      DEF DeletePhoto, DeletePhotoStatement, TablesInv, ReferencesIntact
  <2> QED
      BY <2>1, <2>2
<1>4. ASSUME NEW t \in Threads, NEW s \in Sites, NEW withImage \in BOOLEAN,
             PostPhoto(t, s, withImage)
      PROVE  LockInv' /\ TablesInv'
  <2>1. LockInv'
      BY <1>0, <1>4, LockFree DEF PostPhoto, Idle, Replacing
  <2>2. TablesInv'
      BY <1>4, ReplacePhotoTables DEF PostPhoto
  <2> QED
      BY <2>1, <2>2
<1>5. ASSUME NEW t \in Threads, \/ \E s \in Sites : UpdateSiteRead(t, s)
                                \/ \E p \in Photos : UpdatePhotoRead(t, p)
                                \/ \E p \in Photos : GetImage(t, p)
                                \/ ReplaceImageInexistent(t)
      PROVE  LockInv' /\ TablesInv'
  <2>1. /\ Unlocked /\ UNCHANGED <<lock, tables>>
        /\ pc'[t] \notin Replacing /\ \A v \in Threads \ {t} : pc'[v] = pc[v]
      BY <1>0, <1>5
      DEF UpdateSiteRead, UpdatePhotoRead, GetImage, ReplaceImageInexistent,
          Finish, Replacing
  <2> QED
      BY <2>1, LockFree DEF TablesInv, ReferencesIntact, LatestChangeOnly
<1>6. ASSUME NEW t \in Threads, UpdateSiteWrite(t) PROVE LockInv' /\ TablesInv'
  <2>1. LockInv'
      BY <1>0, <1>6, LockFree DEF UpdateSiteWrite, Finish, Replacing
  <2>2. TablesInv'
      BY <1>6, DeleteRowsTables
      DEF UpdateSiteWrite, ReplaceSiteStatement, TablesInv, ReferencesIntact
  <2> QED
      BY <2>1, <2>2
<1>7. ASSUME NEW t \in Threads, UpdatePhotoWrite(t) PROVE LockInv' /\ TablesInv'
  <2>1. LockInv'
      BY <1>0, <1>7, LockFree DEF UpdatePhotoWrite, Finish, Replacing
  <2>2. PICK u \in Photos \cup {loc[t].uuid}, s \in Sites \cup {loc[t].site} :
           IF s = NoUuid
           THEN UNCHANGED <<tables, files>>
           ELSE ReplacePhotoStatement(u, [site |-> s, image |-> loc[t].image])
      BY <1>7 DEF UpdatePhotoWrite
  <2>3. ASSUME s = NoUuid PROVE TablesInv'
      BY <2>2, <2>3 DEF TablesInv, ReferencesIntact, LatestChangeOnly
  <2>4. ASSUME s # NoUuid PROVE TablesInv'
      BY <2>2, <2>4, ReplacePhotoTables
  <2> QED
      BY <2>1, <2>3, <2>4
<1>8. ASSUME NEW t \in Threads, NEW p \in Photos \cup Sites \cup {NoUuid},
             ReplaceImage(t, p)
      PROVE  LockInv' /\ TablesInv'
  <2>1. /\ \A v \in Threads \ {t} : pc'[v] = pc[v] /\ pc[v] \notin Replacing
        /\ pc'[t] = "found" /\ lock' = t
        /\ loc'[t] = [uuid |-> p, site |-> photos[p].site, image |-> photos[p].image]
      BY <1>0, <1>8, StoreAssumption DEF ReplaceImage, Unlocked, LockInv
  <2> QED
      BY <1>8, <2>1
      DEF ReplaceImage, LockInv, Replacing, TablesInv, ReferencesIntact,
          LatestChangeOnly
<1>9. ASSUME NEW t \in Threads, CreateFile(t) PROVE LockInv' /\ TablesInv'
    BY <1>0, <1>9
    DEF CreateFile, LockInv, Replacing, TablesInv, ReferencesIntact, LatestChangeOnly
<1>10. ASSUME NEW t \in Threads, RemoveFile(t) PROVE LockInv' /\ TablesInv'
    BY <1>0, <1>10
    DEF RemoveFile, LockInv, Replacing, TablesInv, ReferencesIntact, LatestChangeOnly
<1>11. ASSUME NEW t \in Threads, RecordImage(t) PROVE LockInv' /\ TablesInv'
  <2> DEFINE p == loc[t].uuid
  <2>1. /\ pc[t] \in Replacing /\ p \in DOMAIN photos
        /\ loc[t].site = photos[p].site /\ loc[t].site \in sites
        /\ \A v \in Threads \ {t} : pc[v] \notin Replacing
      BY <1>11 DEF RecordImage, LockInv, Replacing, TablesInv, ReferencesIntact
  <2>2. /\ DOMAIN photos' = DOMAIN photos \cup {p}
        /\ photos'[p] = [site |-> loc[t].site, image |-> created[t]]
        /\ \A q \in DOMAIN changes' : changes'[q] # p
      BY <1>11, <2>1 DEF RecordImage, ReplacePhotoStatement, ChangesWithout
  <2>3. LockInv'
      BY <1>0, <1>11, <2>1, <2>2 DEF RecordImage, LockInv, Replacing
  <2>4. TablesInv'
      BY <1>11, ReplacePhotoTables DEF RecordImage
  <2> QED
      BY <2>3, <2>4
<1>12. ASSUME NEW t \in Threads, RecordChange(t) PROVE LockInv' /\ TablesInv'
  <2> DEFINE p == loc[t].uuid
  <2>1. /\ pc[t] \in Replacing /\ lock = t /\ p \in DOMAIN photos
        /\ photos[p].image = created[t] /\ created[t] \in Files
        /\ \A q \in DOMAIN changes : changes[q] # p
        /\ \A v \in Threads \ {t} : pc[v] \notin Replacing
      BY <1>12 DEF RecordChange, LockInv, Replacing, TypeInv, LocalInv
  <2>2. /\ DOMAIN changes' = DOMAIN changes \cup {lastSeq + 1}
        /\ changes'[lastSeq + 1] = p
        /\ \A q \in DOMAIN changes : q # lastSeq + 1 /\ changes'[q] = changes[q]
        /\ photos' = photos /\ sites' = sites
      BY <1>12 DEF RecordChange, TypeInv, TypeOK
  <2>3. /\ lock' = NoThread /\ pc'[t] = "idle"
        /\ \A v \in Threads \ {t} : pc'[v] = pc[v]
      BY <1>0, <1>12 DEF RecordChange, Finish
  <2>4. LockInv'
      BY <2>1, <2>3, StoreAssumption DEF LockInv, Replacing
  <2>5. ReferencesIntact'
      BY <2>1, <2>2 DEF TablesInv, ReferencesIntact
  <2>6. LatestChangeOnly'
      BY <2>1, <2>2, StoreAssumption DEF TablesInv, LatestChangeOnly
  <2> QED
      BY <2>4, <2>5, <2>6 DEF TablesInv
<1>13. ASSUME NEW t \in Threads, ReplaceImageFails(t) PROVE LockInv' /\ TablesInv'
  <2>1. \A v \in Threads \ {t} : pc[v] \notin Replacing
      BY <1>13 DEF ReplaceImageFails, LockInv
  <2>2. /\ lock' = NoThread /\ pc'[t] = "idle"
        /\ \A v \in Threads \ {t} : pc'[v] = pc[v]
      BY <1>0, <1>13 DEF ReplaceImageFails, Finish
  <2> QED
      BY <1>13, <2>1, <2>2, StoreAssumption
      DEF ReplaceImageFails, LockInv, Replacing, TablesInv, ReferencesIntact,
          LatestChangeOnly
<1>14. ASSUME NEW t \in Threads, ReadFile(t) PROVE LockInv' /\ TablesInv'
    BY <1>0, <1>14
    DEF ReadFile, Finish, LockInv, Replacing, TablesInv, ReferencesIntact,
        LatestChangeOnly
<1>15. CASE Crash
    BY <1>15, StoreAssumption
    DEF Crash, LockInv, Replacing, TablesInv, ReferencesIntact, LatestChangeOnly
<1>16. CASE UNCHANGED vars
    BY <1>16 DEF vars, LockInv, TablesInv, ReferencesIntact, LatestChangeOnly
<1> QED
  <2>1. \A t \in Threads : loc[t].uuid \in Photos \cup Sites \cup {NoUuid}
      BY DEF TypeInv, TypeOK, Photo
  <2> QED
      BY <1>1, <1>2, <1>3, <1>4, <1>5, <1>6, <1>7, <1>8, <1>9, <1>10, <1>11,
         <1>12, <1>13, <1>14, <1>15, <1>16, <2>1
      DEF Next, Request, Continue

LEMMA TablesInvariance == Spec => [](LockInv /\ TablesInv)
    BY TypeInvariance, TablesInit, TablesStep, PTL DEF Spec

\* A photo has at most one row in Changes, and an image if it has one, in every
\* run.
THEOREM ChangesAreLatest == Spec => []LatestChangeOnly
<1>1. TablesInv => LatestChangeOnly
    BY DEF TablesInv
<1> QED
    BY <1>1, TablesInvariance, PTL

-----------------------------------------------------------------------------
(***************************************************************************)
(* The files.  With no failure and no PUT of a photo, the files are the    *)
(* images of the photos, but for the file that ReplaceImage has created    *)
(* and not recorded and the one it has removed.                            *)
(***************************************************************************)
Stored == ImagesOf(DOMAIN photos) \ {NoUuid}

ImagesDiffer ==
    \A p, q \in DOMAIN photos :
        photos[p].image = photos[q].image /\ photos[p].image # NoUuid => p = q

UuidsUsed == DOMAIN photos \subseteq used /\ Stored \subseteq used /\ files \subseteq used

FilesExact ==
    /\ Unlocked => files = Stored
    /\ \A t \in Threads :
          /\ pc[t] \in {"found", "recorded"} => files = Stored
          /\ pc[t] = "stored" =>
                files = Stored \cup {created[t]} /\ created[t] \notin Stored
          /\ pc[t] = "removed" =>
                /\ files = (Stored \ {loc[t].image}) \cup {created[t]}
                /\ created[t] \notin Stored

Announced ==
    \A p \in DOMAIN photos :
        photos[p].image # NoUuid =>
            \/ \E q \in DOMAIN changes : changes[q] = p
            \/ \E t \in Threads : pc[t] = "recorded" /\ loc[t].uuid = p

Clean == failures = 0 /\ ~PhotoPuts

FilesInv ==
    Clean => /\ \A t \in Threads : pc[t] # "photoRead"
             /\ ImagesDiffer /\ UuidsUsed /\ FilesExact /\ Announced

\* The facts about the tables that the invariant of the free store needs.
TablesMatch ==
    /\ ImagesDiffer /\ UuidsUsed
    /\ files = Stored
    /\ \A p \in DOMAIN photos :
          photos[p].image # NoUuid => \E q \in DOMAIN changes : changes[q] = p

LEMMA FilesWhileFree ==
    ASSUME LockInv, FilesInv, Clean, Unlocked
    PROVE  /\ TablesMatch
           /\ \A t \in Threads : pc[t] \notin Replacing /\ pc[t] # "photoRead"
<1>1. \A t \in Threads : pc[t] \notin Replacing
    BY StoreAssumption DEF LockInv, Unlocked
<1> QED
    BY <1>1 DEF FilesInv, Announced, FilesExact, TablesMatch, Replacing

LEMMA FreeFiles ==
    ASSUME LockInv', TablesMatch', Unlocked', \A t \in Threads : pc'[t] # "photoRead"
    PROVE  FilesInv'
<1>1. \A t \in Threads : pc'[t] \notin Replacing
    BY StoreAssumption DEF LockInv, Unlocked
<1> QED
    BY <1>1 DEF FilesInv, Announced, FilesExact, TablesMatch, Replacing

LEMMA DeleteRowsMatch ==
    ASSUME TypeInv, TablesMatch, NEW P, DeletePhotoRows(P), used \subseteq used'
    PROVE  TablesMatch'
<1>1. /\ DOMAIN photos' = DOMAIN photos \ P
      /\ \A p \in DOMAIN photos' : photos'[p] = photos[p]
      /\ DOMAIN changes' = {q \in DOMAIN changes : changes[q] \notin P}
      /\ \A q \in DOMAIN changes' : changes'[q] = changes[q]
      /\ files' = files \ ImagesOf(P)
    BY DEF DeletePhotoRows, ChangesWithout
<1>2. ImagesDiffer'
    BY <1>1 DEF TablesMatch, ImagesDiffer
<1>3. Stored' = Stored \ ImagesOf(P)
    BY <1>1 DEF TablesMatch, ImagesDiffer, Stored, ImagesOf
<1>4. UuidsUsed'
    BY <1>1, <1>3 DEF TablesMatch, UuidsUsed
<1> QED
    BY <1>1, <1>2, <1>3, <1>4 DEF TablesMatch

\* A row is written whose image is new or missing; the one it replaces, if any,
\* has lost its image or is about to.
LEMMA ReplaceRowImages ==
    ASSUME TypeInv, ImagesDiffer, NEW p, NEW row, ReplacePhotoStatement(p, row),
           row.site \in sites, row.image \notin Stored
    PROVE  /\ ImagesDiffer'
           /\ Stored' = (Stored \ ImagesOf({p})) \cup ({row.image} \ {NoUuid})
<1>1. /\ DOMAIN photos' = DOMAIN photos \cup {p}
      /\ photos'[p] = row
      /\ \A x \in DOMAIN photos \ {p} : photos'[x] = photos[x]
    BY DEF ReplacePhotoStatement
<1>2. ImagesDiffer'
    BY <1>1 DEF ImagesDiffer, Stored, ImagesOf
<1>3. Stored' = (Stored \ ImagesOf({p})) \cup ({row.image} \ {NoUuid})
    BY <1>1 DEF ImagesDiffer, Stored, ImagesOf
<1> QED
    BY <1>2, <1>3

LEMMA FilesInit == Init => FilesInv
<1> SUFFICES ASSUME Init PROVE FilesInv
    OBVIOUS
<1>1. DOMAIN photos = {} /\ Stored = {}
    BY DEF Init, Stored, ImagesOf
<1> QED
    BY <1>1 DEF Init, FilesInv, ImagesDiffer, UuidsUsed, FilesExact, Announced

LEMMA FilesStep ==
    /\ TypeInv /\ LockInv /\ TablesInv /\ FilesInv /\ [Next]_vars
    /\ LockInv'
    => FilesInv'
<1> SUFFICES ASSUME TypeInv, LockInv, TablesInv, FilesInv, [Next]_vars, LockInv', Clean'
             PROVE  FilesInv'
    BY DEF FilesInv
<1> USE DEF tables, handler
<1>0. /\ pc \in [Threads -> ControlPoints] /\ loc \in [Threads -> Photo]
      /\ created \in [Threads -> Files \cup {NoUuid}] /\ failures \in Nat
    BY StoreAssumption DEF TypeInv, TypeOK
<1>1. ASSUME NEW t \in Threads, PostSite(t) PROVE FilesInv'
  <2>1. Clean /\ Unlocked /\ Unlocked' /\ used \subseteq used' /\ pc' = pc
      BY <1>1 DEF PostSite, Unlocked, Clean
  <2>2. TablesMatch'
      BY <1>1, <2>1, FilesWhileFree, DeleteRowsMatch
      DEF PostSite, ReplaceSiteStatement
  <2> QED
      BY <2>1, <2>2, FilesWhileFree, FreeFiles
<1>2. ASSUME NEW t \in Threads, NEW s \in Sites, DeleteSite(t, s) PROVE FilesInv'
  <2>1. Clean /\ Unlocked /\ Unlocked' /\ used \subseteq used' /\ pc' = pc
      BY <1>2 DEF DeleteSite, Unlocked, Clean
  <2>2. TablesMatch'
      BY <1>2, <2>1, FilesWhileFree, DeleteRowsMatch
      DEF DeleteSite, DeleteSiteStatement
  <2> QED
      BY <2>1, <2>2, FilesWhileFree, FreeFiles
<1>3. ASSUME NEW t \in Threads, NEW p \in Photos, DeletePhoto(t, p) PROVE FilesInv'
  <2>1. Clean /\ Unlocked /\ Unlocked' /\ used \subseteq used' /\ pc' = pc
      BY <1>3 DEF DeletePhoto, Unlocked, Clean
  <2>2. TablesMatch'
      BY <1>3, <2>1, FilesWhileFree, DeleteRowsMatch
      DEF DeletePhoto, DeletePhotoStatement
  <2> QED
      BY <2>1, <2>2, FilesWhileFree, FreeFiles
<1>4. ASSUME NEW t \in Threads, NEW s \in Sites, NEW withImage \in BOOLEAN,
             PostPhoto(t, s, withImage)
      PROVE  FilesInv'
  <2>1. /\ Clean /\ Unlocked /\ Unlocked' /\ s \in sites
        /\ \A u \in Threads : pc'[u] # "photoRead"
      BY <1>0, <1>4, FilesWhileFree DEF PostPhoto, Idle, Unlocked, Clean, FilesInv
  <2> DEFINE row == [site |-> s, image |-> NoUuid]
  <2>2. PICK p \in Photos \ used : used' = used \cup {p} /\ ReplacePhotoStatement(p, row)
      BY <1>4 DEF PostPhoto
  <2>3. TablesMatch
      BY <2>1, FilesWhileFree
  <2>4. p \notin DOMAIN photos /\ ImagesOf({p}) = {} /\ NoUuid \notin Stored
      BY <2>3 DEF TablesMatch, UuidsUsed, ImagesOf, Stored
  <2>a. row.site = s /\ row.image = NoUuid
      OBVIOUS
  <2> HIDE DEF row
  <2>5. ImagesDiffer' /\ Stored' = Stored
    <3>1. /\ ImagesDiffer'
          /\ Stored' = (Stored \ ImagesOf({p})) \cup ({row.image} \ {NoUuid})
        BY <2>1, <2>2, <2>3, <2>4, <2>a, ReplaceRowImages DEF TablesMatch
    <3> QED
        BY <2>4, <2>a, <3>1
  <2>6. /\ DOMAIN photos' = DOMAIN photos \cup {p}
        /\ photos'[p].image = NoUuid
        /\ \A x \in DOMAIN photos : photos'[x] = photos[x]
        /\ files' = files
        /\ DOMAIN changes' = {q \in DOMAIN changes : changes[q] # p}
        /\ \A q \in DOMAIN changes' : changes'[q] = changes[q]
    <3>1. /\ photos' = [x \in DOMAIN photos \cup {p} |-> IF x = p THEN row ELSE photos[x]]
          /\ changes' = ChangesWithout({p})
          /\ files' = files
        BY <2>1, <2>2, <2>4, <2>a DEF ReplacePhotoStatement
    <3> QED
        BY <2>4, <2>a, <3>1 DEF ChangesWithout
  <2>7. UuidsUsed'
      BY <2>2, <2>3, <2>5, <2>6 DEF TablesMatch, UuidsUsed
  <2>8. \A x \in DOMAIN photos' :
           photos'[x].image # NoUuid => \E q \in DOMAIN changes' : changes'[q] = x
    <3> SUFFICES ASSUME NEW x \in DOMAIN photos', photos'[x].image # NoUuid
                 PROVE  \E q \in DOMAIN changes' : changes'[q] = x
        OBVIOUS
    <3>1. x # p /\ x \in DOMAIN photos /\ photos[x].image # NoUuid
        BY <2>6
    <3>2. PICK q \in DOMAIN changes : changes[q] = x
        BY <2>3, <3>1 DEF TablesMatch
    <3> QED
        BY <2>6, <3>1, <3>2
  <2>9. TablesMatch'
      BY <2>3, <2>5, <2>6, <2>7, <2>8 DEF TablesMatch
  <2> QED
      BY <2>1, <2>9, FreeFiles
<1>5. ASSUME NEW t \in Threads, \/ \E s \in Sites : UpdateSiteRead(t, s)
                                \/ \E p \in Photos : GetImage(t, p)
                                \/ ReplaceImageInexistent(t)
      PROVE  FilesInv'
  <2>1. /\ Clean /\ Unlocked /\ Unlocked' /\ UNCHANGED <<tables, files>>
        /\ used \subseteq used' /\ pc'[t] # "photoRead"
        /\ \A v \in Threads \ {t} : pc'[v] = pc[v]
      BY <1>0, <1>5
      DEF UpdateSiteRead, GetImage, ReplaceImageInexistent, Finish, Unlocked, Clean
  <2>2. TablesMatch'
      BY <2>1, FilesWhileFree
      DEF TablesMatch, ImagesDiffer, UuidsUsed, Stored, ImagesOf
  <2> QED
      BY <2>1, <2>2, FilesWhileFree, FreeFiles
<1>6. ASSUME NEW t \in Threads, UpdateSiteWrite(t) PROVE FilesInv'
  <2>1. /\ Clean /\ Unlocked /\ Unlocked' /\ used \subseteq used'
        /\ pc'[t] # "photoRead" /\ \A v \in Threads \ {t} : pc'[v] = pc[v]
      BY <1>0, <1>6 DEF UpdateSiteWrite, Finish, Unlocked, Clean
  <2>2. TablesMatch'
      BY <1>6, <2>1, FilesWhileFree, DeleteRowsMatch
      DEF UpdateSiteWrite, ReplaceSiteStatement
  <2> QED
      BY <2>1, <2>2, FilesWhileFree, FreeFiles
<1>7. ASSUME NEW t \in Threads, \/ \E p \in Photos : UpdatePhotoRead(t, p)
                                \/ UpdatePhotoWrite(t)
      PROVE  FilesInv'
    BY <1>7 DEF UpdatePhotoRead, UpdatePhotoWrite, Clean, FilesInv
<1>8. ASSUME NEW t \in Threads, NEW p \in Photos \cup Sites \cup {NoUuid},
             ReplaceImage(t, p)
      PROVE  FilesInv'
  <2>1. /\ Clean /\ Unlocked /\ UNCHANGED <<tables, files, used>>
        /\ lock' = t /\ pc'[t] = "found"
        /\ \A v \in Threads \ {t} : pc'[v] = pc[v]
      BY <1>0, <1>8 DEF ReplaceImage, Clean
  <2>2. TablesMatch /\ \A u \in Threads : pc[u] \notin Replacing /\ pc[u] # "photoRead"
      BY <2>1, FilesWhileFree
  <2>3. TablesMatch'
      BY <2>1, <2>2 DEF TablesMatch, ImagesDiffer, UuidsUsed, Stored, ImagesOf
  <2> QED
      BY <2>1, <2>2, <2>3, StoreAssumption
      DEF FilesInv, FilesExact, Announced, TablesMatch, Unlocked, Replacing
<1>9. ASSUME NEW t \in Threads, CreateFile(t) PROVE FilesInv'
  <2>1. PICK f \in Files \ used : used' = used \cup {f} /\ files' = files \cup {f}
                                  /\ created' = [created EXCEPT ![t] = f]
      BY <1>9 DEF CreateFile
  <2>2. /\ Clean /\ UNCHANGED <<tables, lock, loc>> /\ pc[t] = "found"
        /\ pc'[t] = "stored" /\ \A v \in Threads \ {t} : pc'[v] = pc[v]
        /\ created'[t] = f /\ lock = t
      BY <1>0, <1>9, <2>1 DEF CreateFile, Clean, LockInv, Replacing
  <2>3. \A v \in Threads \ {t} : pc[v] \notin Replacing
      BY <2>2 DEF LockInv
  <2>4. Stored' = Stored
      BY <2>2 DEF Stored, ImagesOf
  <2>5. files = Stored /\ Stored \subseteq used /\ DOMAIN photos \subseteq used
      BY <2>2 DEF FilesInv, FilesExact, UuidsUsed
  <2>6. FilesExact'
      BY <2>1, <2>2, <2>3, <2>4, <2>5, StoreAssumption
      DEF FilesExact, Unlocked, Replacing
  <2>7. UuidsUsed'
      BY <2>1, <2>2, <2>4, <2>5 DEF UuidsUsed
  <2>8. ImagesDiffer' /\ Announced' /\ \A v \in Threads : pc'[v] # "photoRead"
      BY <2>2, <2>3 DEF FilesInv, ImagesDiffer, Announced, Replacing
  <2> QED
      BY <2>6, <2>7, <2>8 DEF FilesInv
<1>10. ASSUME NEW t \in Threads, RemoveFile(t) PROVE FilesInv'
  <2>1. /\ Clean /\ UNCHANGED <<tables, used, lock, loc, created>>
        /\ pc[t] = "stored" /\ pc'[t] = "removed"
        /\ \A v \in Threads \ {t} : pc'[v] = pc[v]
        /\ files' = files \ {loc[t].image} /\ lock = t
        /\ loc[t].uuid \in DOMAIN photos
        /\ photos[loc[t].uuid].image = loc[t].image
      BY <1>0, <1>10 DEF RemoveFile, Clean, LockInv, Replacing
  <2>2. \A v \in Threads \ {t} : pc[v] \notin Replacing
      BY <2>1 DEF LockInv
  <2>3. Stored' = Stored
      BY <2>1 DEF Stored, ImagesOf
  <2>4. files = Stored \cup {created[t]} /\ created[t] \notin Stored
      BY <2>1 DEF FilesInv, FilesExact
  <2>5. created[t] # loc[t].image
    <3>1. created[t] # NoUuid
        BY <2>1, StoreAssumption DEF TypeInv, LocalInv
    <3>2. loc[t].image # NoUuid => loc[t].image \in Stored
        BY <2>1 DEF Stored, ImagesOf
    <3> QED
        BY <2>4, <3>1, <3>2
  <2>6. FilesExact'
      BY <2>1, <2>2, <2>3, <2>4, <2>5, StoreAssumption
      DEF FilesExact, Unlocked, Replacing
  <2>7. UuidsUsed'
      BY <2>1, <2>3 DEF FilesInv, UuidsUsed
  <2>8. ImagesDiffer' /\ Announced' /\ \A v \in Threads : pc'[v] # "photoRead"
      BY <2>1, <2>2 DEF FilesInv, ImagesDiffer, Announced, Replacing
  <2> QED
      BY <2>6, <2>7, <2>8 DEF FilesInv
<1>11. ASSUME NEW t \in Threads, RecordImage(t) PROVE FilesInv'
  <2> DEFINE p == loc[t].uuid
             row == [site |-> loc[t].site, image |-> created[t]]
  <2>1. /\ Clean /\ UNCHANGED <<used, lock, loc, created>>
        /\ pc[t] = "removed" /\ pc'[t] = "recorded"
        /\ \A v \in Threads \ {t} : pc'[v] = pc[v]
        /\ lock = t /\ p \in DOMAIN photos /\ photos[p].image = loc[t].image
        /\ photos[p].site = loc[t].site /\ ReplacePhotoStatement(p, row)
      BY <1>0, <1>11 DEF RecordImage, Clean, LockInv, Replacing
  <2>2. \A v \in Threads \ {t} : pc[v] \notin Replacing
      BY <2>1 DEF LockInv
  <2>3. row.site \in sites /\ ImagesOf({p}) = {loc[t].image}
      BY <2>1 DEF TablesInv, ReferencesIntact, ImagesOf
  <2>4. /\ files = (Stored \ {loc[t].image}) \cup {created[t]}
        /\ created[t] \notin Stored /\ ImagesDiffer /\ UuidsUsed
      BY <2>1 DEF FilesInv, FilesExact
  <2>5. created[t] # NoUuid /\ created[t] # loc[t].image
    <3>1. created[t] # NoUuid
        BY <2>1, StoreAssumption DEF TypeInv, LocalInv
    <3>2. loc[t].image # NoUuid => loc[t].image \in Stored
        BY <2>1 DEF Stored, ImagesOf
    <3> QED
        BY <2>4, <3>1, <3>2
  <2>6. ImagesDiffer' /\ Stored' = (Stored \ ImagesOf({p})) \cup ({created[t]} \ {NoUuid})
      BY <2>1, <2>3, <2>4, ReplaceRowImages
  <2>7. files' = files
      BY <2>1, <2>3, <2>4, <2>5 DEF ReplacePhotoStatement
  <2>8. Stored' = files'
      BY <2>3, <2>4, <2>5, <2>6, <2>7
  <2>9. /\ DOMAIN photos' = DOMAIN photos
        /\ \A x \in DOMAIN photos \ {p} : photos'[x] = photos[x]
        /\ DOMAIN changes' = {q \in DOMAIN changes : changes[q] # p}
        /\ \A q \in DOMAIN changes' : changes'[q] = changes[q]
      BY <2>1, <2>3 DEF ReplacePhotoStatement, ChangesWithout
  <2>10. FilesExact'
      BY <2>1, <2>2, <2>8, StoreAssumption DEF FilesExact, Unlocked, Replacing
  <2>11. UuidsUsed'
      BY <2>1, <2>4, <2>7, <2>8, <2>9 DEF UuidsUsed
  <2>12. Announced'
    <3> SUFFICES ASSUME NEW x \in DOMAIN photos', photos'[x].image # NoUuid
                 PROVE  \/ \E q \in DOMAIN changes' : changes'[q] = x
                        \/ \E v \in Threads : pc'[v] = "recorded" /\ loc'[v].uuid = x
        BY DEF Announced
    <3>1. CASE x = p
        BY <2>1, <3>1
    <3>2. CASE x # p
      <4>1. x \in DOMAIN photos /\ photos[x].image # NoUuid
          BY <2>9, <3>2
      <4>2. PICK q \in DOMAIN changes : changes[q] = x
          BY <2>1, <2>2, <4>1 DEF FilesInv, Announced, Replacing
      <4> QED
          BY <2>9, <3>2, <4>2
    <3> QED
        BY <3>1, <3>2
  <2> QED
      BY <2>1, <2>2, <2>6, <2>10, <2>11, <2>12 DEF FilesInv
<1>12. ASSUME NEW t \in Threads, RecordChange(t) PROVE FilesInv'
  <2>1. /\ Clean /\ UNCHANGED <<sites, photos, files, used>>
        /\ pc[t] = "recorded" /\ pc'[t] = "idle" /\ lock' = NoThread
        /\ \A v \in Threads \ {t} : pc'[v] = pc[v]
      BY <1>0, <1>12 DEF RecordChange, Finish, Clean
  <2>2. /\ DOMAIN changes' = DOMAIN changes \cup {lastSeq + 1}
        /\ changes'[lastSeq + 1] = loc[t].uuid
        /\ \A q \in DOMAIN changes : q # lastSeq + 1 /\ changes'[q] = changes[q]
      BY <1>12 DEF RecordChange, TypeInv, TypeOK
  <2>3. lock = t /\ \A v \in Threads \ {t} : pc[v] \notin Replacing
      BY <2>1 DEF LockInv, Replacing
  <2>4. /\ files = Stored /\ ImagesDiffer /\ UuidsUsed /\ Announced
        /\ \A v \in Threads : pc[v] # "photoRead"
      BY <2>1 DEF FilesInv, FilesExact
  <2>5. \A x \in DOMAIN photos' :
           photos'[x].image # NoUuid => \E q \in DOMAIN changes' : changes'[q] = x
    <3> SUFFICES ASSUME NEW x \in DOMAIN photos, photos[x].image # NoUuid
                 PROVE  \E q \in DOMAIN changes' : changes'[q] = x
        BY <2>1
    <3>1. x = loc[t].uuid \/ \E q \in DOMAIN changes : changes[q] = x
        BY <2>3, <2>4 DEF Announced, Replacing
    <3> QED
        BY <2>2, <3>1
  <2>6. TablesMatch'
      BY <2>1, <2>4, <2>5 DEF TablesMatch, ImagesDiffer, UuidsUsed, Stored, ImagesOf
  <2> QED
      BY <2>1, <2>4, <2>6, FreeFiles DEF Unlocked
<1>13. ASSUME NEW t \in Threads, ReplaceImageFails(t) PROVE FilesInv'
    BY <1>0, <1>13 DEF ReplaceImageFails, Clean
<1>14. ASSUME NEW t \in Threads, ReadFile(t) PROVE FilesInv'
  <2>1. /\ Clean /\ UNCHANGED <<tables, files, used, lock>>
        /\ pc[t] = "imageRead" /\ pc'[t] = "idle"
        /\ \A v \in Threads \ {t} : /\ pc'[v] = pc[v] /\ loc'[v] = loc[v]
                                    /\ created'[v] = created[v]
      BY <1>0, <1>14 DEF ReadFile, Finish, Clean
  <2>2. Stored' = Stored
      BY <2>1 DEF Stored, ImagesOf
  <2>3. FilesExact'
      BY <2>1, <2>2 DEF FilesInv, FilesExact, Unlocked
  <2>4. Announced'
      BY <2>1 DEF FilesInv, Announced
  <2> QED
      BY <2>1, <2>2, <2>3, <2>4 DEF FilesInv, ImagesDiffer, UuidsUsed
<1>15. CASE Crash
    BY <1>0, <1>15 DEF Crash, Clean
<1>16. CASE UNCHANGED vars
    BY <1>16
    DEF vars, FilesInv, Clean, ImagesDiffer, UuidsUsed, FilesExact, Announced,
        Stored, ImagesOf, Unlocked
<1> QED
  <2>1. \A t \in Threads : loc[t].uuid \in Photos \cup Sites \cup {NoUuid}
      BY DEF TypeInv, TypeOK, Photo
  <2> QED
      BY <1>1, <1>2, <1>3, <1>4, <1>5, <1>6, <1>7, <1>8, <1>9, <1>10, <1>11,
         <1>12, <1>13, <1>14, <1>15, <1>16, <2>1
      DEF Next, Request, Continue

LEMMA FilesInvariance == Spec => [](TypeInv /\ LockInv /\ FilesInv)
<1>1. Init => TypeInv /\ LockInv /\ TablesInv /\ FilesInv
    BY TypeInit, TablesInit, FilesInit
<1>2. TypeInv /\ LockInv /\ TablesInv /\ FilesInv /\ [Next]_vars
      => LockInv' /\ TablesInv' /\ FilesInv'
    BY TablesStep, FilesStep
<1> QED
    BY <1>1, <1>2, TypeInvariance, PTL DEF Spec

LEMMA FilesGiveMatch == LockInv /\ FilesInv => ImagesMatchFiles /\ EveryImageAnnounced
    BY FilesWhileFree
    DEF ImagesMatchFiles, EveryImageAnnounced, Clean, TablesMatch, ImagesDiffer, Stored

\* While the mutex is free the stored files are exactly the images of the
\* photos, each of one photo, however the requests were interleaved
\* (ReplaceImage, the trigger PhotoDeleted).
THEOREM FilesMatchImages == Spec => []ImagesMatchFiles
    BY FilesGiveMatch, FilesInvariance, PTL

\* The trigger does what its comment says as long as nobody PUTs a photo: the
\* requests alone, however they race, leave no image behind (PhotoDeleted).
THEOREM NoPutsNoLeftovers ==
    ASSUME ~PhotoPuts PROVE Spec => []DeletedPhotosLeaveNoImage
<1>1. ImagesMatchFiles => DeletedPhotosLeaveNoImage
    BY DEF ImagesMatchFiles, DeletedPhotosLeaveNoImage, ImagesOf
<1> QED
    BY <1>1, FilesMatchImages, PTL

\* While the mutex is free every image can be found in the changes
\* (ReplaceImage).
THEOREM ImagesAreAnnounced == Spec => []EveryImageAnnounced
    BY FilesGiveMatch, FilesInvariance, PTL

\* An image that a photo has is in the storage, unless an upload works on the
\* photo.
LEMMA ImageIsStored ==
    ASSUME TypeInv, LockInv, FilesInv, Clean,
           NEW p \in DOMAIN photos, p \notin BusyWith, photos[p].image # NoUuid
    PROVE  photos[p].image \in files
<1>1. photos[p].image \in Stored
    BY DEF Stored, ImagesOf
<1>2. CASE Unlocked
    BY <1>1, <1>2 DEF FilesInv, FilesExact
<1>3. CASE ~Unlocked
  <2>1. lock \in Threads /\ pc[lock] \in Replacing
      BY <1>3 DEF Unlocked, TypeInv, TypeOK, LockInv
  <2>2. pc[lock] = "removed" => loc[lock].image # photos[p].image
    <3> SUFFICES ASSUME pc[lock] = "removed", loc[lock].image = photos[p].image
                 PROVE  FALSE
        OBVIOUS
    <3>1. /\ loc[lock].uuid \in DOMAIN photos
          /\ photos[loc[lock].uuid].image = photos[p].image
        BY <2>1 DEF LockInv
    <3>2. loc[lock].uuid = p
        BY <3>1 DEF FilesInv, ImagesDiffer
    <3> QED
        BY <2>1, <3>2 DEF BusyWith
  <2> QED
      BY <1>1, <2>1, <2>2 DEF FilesInv, FilesExact, Replacing
<1> QED
    BY <1>2, <1>3

LEMMA OutdatedReads == TypeInv /\ LockInv /\ FilesInv => FailedReadIsOutdated
    BY ImageIsStored DEF FailedReadIsOutdated, Clean

\* A reader that finds no file had read a row that has been deleted or replaced
\* since, or is being replaced (GetImage).
THEOREM FailedReadsAreOutdated == Spec => []FailedReadIsOutdated
    BY OutdatedReads, FilesInvariance, PTL

-----------------------------------------------------------------------------
(***************************************************************************)
(* Orphans.  Only a failure makes one, out of the file that ReplaceImage   *)
(* has created and not recorded.  A row that is replaced leaves none:      *)
(* either the trigger removes its file, or no photo is PUT, a new photo    *)
(* replaces no row and ReplaceImage has removed the file.                  *)
(***************************************************************************)
OldFileGone ==
    /\ ~recursiveTriggers =>
          (\A t \in Threads : pc[t] # "photoRead") /\ DOMAIN photos \subseteq used
    /\ \A t \in Threads : pc[t] = "removed" => loc[t].image \notin files

OrphansInv ==
    ~PhotoPuts \/ recursiveTriggers =>
        OldFileGone /\ IsFiniteSet(Orphans) /\ Cardinality(Orphans) <= failures

\* A part of a finite set, and a finite set with an element more.
LEMMA NoMoreElements ==
    ASSUME NEW A, NEW B, NEW n \in Nat, IsFiniteSet(A), B \subseteq A, Cardinality(A) <= n
    PROVE  IsFiniteSet(B) /\ Cardinality(B) <= n
<1>1. IsFiniteSet(B) /\ Cardinality(B) <= Cardinality(A)
    BY FS_Subset
<1>2. Cardinality(A) \in Nat /\ Cardinality(B) \in Nat
    BY <1>1, FS_CardinalityType
<1> QED
    BY <1>1, <1>2

LEMMA OneMoreElement ==
    ASSUME NEW A, NEW B, NEW x, NEW n \in Nat, IsFiniteSet(A), B \subseteq A \cup {x},
           Cardinality(A) <= n
    PROVE  IsFiniteSet(B) /\ Cardinality(B) <= n + 1
<1>1. /\ Cardinality(A) \in Nat /\ IsFiniteSet(A \cup {x})
      /\ Cardinality(A \cup {x})
             = IF x \in A THEN Cardinality(A) ELSE Cardinality(A) + 1
    BY FS_AddElement, FS_CardinalityType
<1>2. Cardinality(A \cup {x}) <= n + 1
    BY <1>1
<1> QED
    BY <1>1, <1>2, NoMoreElements

\* Rows are deleted with their files.
LEMMA DeleteRowsOrphans ==
    ASSUME NEW P, DeletePhotoRows(P), Pending' = Pending
    PROVE  Orphans' \subseteq Orphans /\ files' \subseteq files
                /\ DOMAIN photos' \subseteq DOMAIN photos
    BY DEF DeletePhotoRows, Orphans, ImagesOf

\* A row is replaced, and the trigger removes its file.
LEMMA ReplaceRowOrphans ==
    ASSUME NEW p, NEW row, ReplacePhotoStatement(p, row), recursiveTriggers,
           Pending' = Pending
    PROVE  Orphans' \subseteq Orphans /\ files' \subseteq files
<1>1. files' = files \ ImagesOf({p})
    BY DEF ReplacePhotoStatement
<1>2. ImagesOf(DOMAIN photos) \ ImagesOf({p}) \subseteq ImagesOf(DOMAIN photos)'
    BY DEF ReplacePhotoStatement, ImagesOf
<1> QED
    BY <1>1, <1>2 DEF Orphans

\* The setting of the connection does not change.
LEMMA TriggersStay == [Next]_vars => recursiveTriggers' = recursiveTriggers
<1>1. \A t \in Threads : Request(t) => recursiveTriggers' = recursiveTriggers
    BY DEF Request, PostSite, DeleteSite, UpdateSiteRead, PostPhoto, DeletePhoto,
           UpdatePhotoRead, GetImage, ReplaceImage
<1>2. \A t \in Threads : Continue(t) => recursiveTriggers' = recursiveTriggers
    BY DEF Continue, UpdateSiteWrite, UpdatePhotoWrite, ReplaceImage,
           ReplaceImageInexistent, CreateFile, RemoveFile, RecordImage, RecordChange,
           ReadFile
<1> QED
    BY <1>1, <1>2 DEF Next, ReplaceImageFails, Crash, vars

\* The file that is pending is the one of the thread that has the mutex.
LEMMA OnePending ==
    ASSUME LockInv
    PROVE  \E x : Pending \subseteq {x}
<1>1. \A t \in Threads : pc[t] \in {"stored", "removed"} => t = lock
    BY DEF LockInv, Replacing
<1>2. Pending \subseteq {created[lock]}
    BY <1>1 DEF Pending
<1> QED
    BY <1>2

LEMMA OrphansInit == Init => OrphansInv
<1> SUFFICES ASSUME Init PROVE OrphansInv
    OBVIOUS
<1>1. Orphans = {} /\ DOMAIN photos = {} /\ failures = 0
    BY DEF Init, Orphans
<1> QED
    BY <1>1, FS_EmptySet DEF Init, OrphansInv, OldFileGone

LEMMA OrphansStep ==
    TypeInv /\ LockInv /\ TablesInv /\ OrphansInv /\ [Next]_vars => OrphansInv'
<1> SUFFICES ASSUME TypeInv, LockInv, TablesInv, OrphansInv, [Next]_vars,
                    ~PhotoPuts \/ recursiveTriggers
             PROVE  OldFileGone' /\ IsFiniteSet(Orphans')
                        /\ Cardinality(Orphans') <= failures'
    BY TriggersStay DEF OrphansInv
<1> USE DEF tables, handler
<1>0. /\ pc \in [Threads -> ControlPoints] /\ loc \in [Threads -> Photo]
      /\ created \in [Threads -> Files \cup {NoUuid}] /\ failures \in Nat
      /\ OldFileGone /\ IsFiniteSet(Orphans) /\ Cardinality(Orphans) <= failures
      /\ recursiveTriggers' = recursiveTriggers
    BY TriggersStay, StoreAssumption DEF TypeInv, TypeOK, OrphansInv
<1>a. ASSUME OldFileGone', Orphans' \subseteq Orphans, failures' = failures
      PROVE  OldFileGone' /\ IsFiniteSet(Orphans') /\ Cardinality(Orphans') <= failures'
    BY <1>0, <1>a, NoMoreElements
<1> DEFINE Goal == OldFileGone' /\ IsFiniteSet(Orphans')
                       /\ Cardinality(Orphans') <= failures'
\* Statements that delete rows, in a handler that holds no file
<1>1. ASSUME NEW t \in Threads, NEW P, DeletePhotoRows(P), used \subseteq used',
             pc'[t] = "idle", pc[t] \notin Replacing, failures' = failures,
             \A v \in Threads \ {t} : /\ pc'[v] = pc[v] /\ loc'[v] = loc[v]
                                      /\ created'[v] = created[v]
      PROVE  Goal
  <2>1. Pending' = Pending
      BY <1>1 DEF Pending, Replacing
  <2>2. /\ Orphans' \subseteq Orphans /\ files' \subseteq files
        /\ DOMAIN photos' \subseteq DOMAIN photos
      BY <1>1, <2>1, DeleteRowsOrphans
  <2>3. OldFileGone'
      BY <1>0, <1>1, <2>2 DEF OldFileGone
  <2> QED
      BY <1>1, <1>a, <2>2, <2>3
<1>2. ASSUME NEW t \in Threads, \/ PostSite(t)
                                \/ \E s \in Sites : DeleteSite(t, s)
                                \/ \E p \in Photos : DeletePhoto(t, p)
      PROVE  Goal
  <2>1. \E P : DeletePhotoRows(P)
      BY <1>2 DEF PostSite, DeleteSite, DeletePhoto, ReplaceSiteStatement,
                  DeleteSiteStatement, DeletePhotoStatement
  <2>2. /\ pc' = pc /\ loc' = loc /\ created' = created /\ pc[t] = "idle"
        /\ used \subseteq used' /\ failures' = failures
      BY <1>2 DEF PostSite, DeleteSite, DeletePhoto, Idle
  <2> HIDE DEF Goal
  <2> QED
      BY <1>1, <2>1, <2>2 DEF Replacing
<1>3. ASSUME NEW t \in Threads, UpdateSiteWrite(t) PROVE Goal
  <2>1. \E P : DeletePhotoRows(P)
      BY <1>3 DEF UpdateSiteWrite, ReplaceSiteStatement
  <2>2. /\ pc[t] \notin Replacing /\ pc'[t] = "idle" /\ used \subseteq used'
        /\ failures' = failures
        /\ \A v \in Threads \ {t} : /\ pc'[v] = pc[v] /\ loc'[v] = loc[v]
                                    /\ created'[v] = created[v]
      BY <1>0, <1>3 DEF UpdateSiteWrite, Finish, Replacing
  <2> HIDE DEF Goal
  <2> QED
      BY <1>1, <2>1, <2>2
\* Steps that leave the rows and the files alone, and the file they have created
<1>4. ASSUME UNCHANGED <<photos, files, failures>>, used \subseteq used',
             Pending' = Pending,
             ~recursiveTriggers => \A v \in Threads : pc'[v] # "photoRead",
             \A v \in Threads : pc'[v] = "removed" => pc[v] = "removed" /\ loc'[v] = loc[v]
      PROVE  Goal
  <2>1. Orphans' \subseteq Orphans
      BY <1>4 DEF Orphans, ImagesOf
  <2>2. OldFileGone'
      BY <1>0, <1>4 DEF OldFileGone
  <2> QED
      BY <1>4, <1>a, <2>1, <2>2
<1>5. ASSUME NEW t \in Threads, \/ \E s \in Sites : UpdateSiteRead(t, s)
                                \/ \E p \in Photos : GetImage(t, p)
                                \/ \E p \in Photos : UpdatePhotoRead(t, p)
                                \/ \E p : ReplaceImage(t, p)
                                \/ ReplaceImageInexistent(t)
                                \/ RecordChange(t) \/ ReadFile(t)
      PROVE  Goal
  <2>1. /\ UNCHANGED <<photos, files, failures>> /\ used \subseteq used'
        /\ pc[t] \notin {"stored", "removed"}
        /\ pc'[t] \notin {"stored", "removed"}
        /\ ~recursiveTriggers => pc'[t] # "photoRead"
        /\ \A v \in Threads \ {t} : /\ pc'[v] = pc[v] /\ loc'[v] = loc[v]
                                    /\ created'[v] = created[v]
    <3>4. CASE \E p \in Photos : UpdatePhotoRead(t, p)
        BY <1>0, <3>4 DEF UpdatePhotoRead, Idle
    <3>1. CASE (\E s \in Sites : UpdateSiteRead(t, s)) \/ (\E p \in Photos : GetImage(t, p))
        BY <1>0, <3>1 DEF UpdateSiteRead, GetImage, Idle
    <3>2. CASE \E p : ReplaceImage(t, p)
      <4>1. \A v \in Threads : pc[v] \notin Replacing
          BY <3>2, StoreAssumption DEF ReplaceImage, Unlocked, LockInv
      <4> QED
          BY <1>0, <3>2, <4>1 DEF ReplaceImage, Replacing
    <3>3. CASE ReplaceImageInexistent(t) \/ RecordChange(t) \/ ReadFile(t)
        BY <1>0, <3>3 DEF ReplaceImageInexistent, RecordChange, ReadFile, Finish
    <3> QED
        BY <1>5, <3>1, <3>2, <3>3, <3>4
  <2>2. Pending' = Pending
      BY <2>1 DEF Pending
  <2>3. ~recursiveTriggers => \A v \in Threads : pc'[v] # "photoRead"
      BY <1>0, <2>1 DEF OldFileGone
  <2> HIDE DEF Goal
  <2> QED
      BY <1>4, <2>1, <2>2, <2>3
<1>6. ASSUME NEW t \in Threads, NEW s \in Sites, NEW withImage \in BOOLEAN,
             PostPhoto(t, s, withImage)
      PROVE  Goal
  <2> DEFINE row == [site |-> s, image |-> NoUuid]
  <2>1. PICK p \in Photos \ used : used' = used \cup {p} /\ ReplacePhotoStatement(p, row)
      BY <1>6 DEF PostPhoto
  <2>2. /\ pc[t] = "idle" /\ pc'[t] \in {"idle", "posted"} /\ failures' = failures
        /\ created' = created
        /\ \A v \in Threads \ {t} : pc'[v] = pc[v] /\ loc'[v] = loc[v]
      BY <1>0, <1>6 DEF PostPhoto, Idle
  <2>3. Pending' = Pending
      BY <2>2 DEF Pending
  <2>4. Orphans' \subseteq Orphans /\ files' \subseteq files
    <3>1. CASE recursiveTriggers
        BY <2>1, <2>3, <3>1, ReplaceRowOrphans
    <3>2. CASE ~recursiveTriggers
      <4>1. p \notin DOMAIN photos
          BY <1>0, <2>1, <3>2 DEF OldFileGone
      <4>2. /\ DOMAIN photos' = DOMAIN photos \cup {p} /\ files' = files
            /\ \A x \in DOMAIN photos : photos'[x] = photos[x]
          BY <1>6, <2>1, <3>2, <4>1 DEF PostPhoto, ReplacePhotoStatement
      <4> QED
          BY <2>3, <4>2 DEF Orphans, ImagesOf
    <3> QED
        BY <3>1, <3>2
  <2>5. DOMAIN photos' \subseteq DOMAIN photos \cup {p}
      BY <2>1 DEF ReplacePhotoStatement
  <2>6. OldFileGone'
      BY <1>0, <2>1, <2>2, <2>4, <2>5 DEF OldFileGone
  <2> QED
      BY <1>a, <2>2, <2>4, <2>6
<1>7. ASSUME NEW t \in Threads, CreateFile(t) PROVE Goal
  <2>1. PICK f \in Files \ used : used' = used \cup {f} /\ files' = files \cup {f}
                                  /\ created' = [created EXCEPT ![t] = f]
      BY <1>7 DEF CreateFile
  <2>2. /\ UNCHANGED <<photos, loc, failures>> /\ pc[t] = "found" /\ pc'[t] = "stored"
        /\ created'[t] = f
        /\ \A v \in Threads \ {t} : pc'[v] = pc[v] /\ created'[v] = created[v]
        /\ \A v \in Threads \ {t} : pc[v] \notin Replacing
      BY <1>0, <1>7, <2>1 DEF CreateFile, LockInv, Replacing
  <2>3. Pending' = Pending \cup {f}
      BY <2>2 DEF Pending
  <2>4. Orphans' \subseteq Orphans
      BY <2>1, <2>2, <2>3 DEF Orphans, ImagesOf
  <2>5. OldFileGone'
      BY <1>0, <2>1, <2>2 DEF OldFileGone, Replacing
  <2> QED
      BY <1>a, <2>2, <2>4, <2>5
<1>8. ASSUME NEW t \in Threads, RemoveFile(t) PROVE Goal
  <2>1. /\ UNCHANGED <<photos, used, loc, created, failures>>
        /\ pc[t] = "stored" /\ pc'[t] = "removed" /\ files' = files \ {loc[t].image}
        /\ \A v \in Threads \ {t} : pc'[v] = pc[v]
      BY <1>0, <1>8 DEF RemoveFile
  <2>2. Pending' = Pending
      BY <2>1 DEF Pending
  <2>3. Orphans' \subseteq Orphans
      BY <2>1, <2>2 DEF Orphans, ImagesOf
  <2>4. OldFileGone'
      BY <1>0, <2>1 DEF OldFileGone
  <2> QED
      BY <1>a, <2>1, <2>3, <2>4
<1>9. ASSUME NEW t \in Threads, RecordImage(t) PROVE Goal
  <2> DEFINE p == loc[t].uuid
             row == [site |-> loc[t].site, image |-> created[t]]
  <2>1. /\ UNCHANGED <<used, loc, created, failures>>
        /\ pc[t] = "removed" /\ pc'[t] = "recorded"
        /\ \A v \in Threads \ {t} : pc'[v] = pc[v] /\ pc[v] \notin Replacing
        /\ p \in DOMAIN photos /\ photos[p].image = loc[t].image
        /\ photos[p].site = loc[t].site /\ ReplacePhotoStatement(p, row)
      BY <1>0, <1>9 DEF RecordImage, LockInv, Replacing
  <2>2. row.site \in sites
      BY <2>1 DEF TablesInv, ReferencesIntact
  <2>3. /\ DOMAIN photos' = DOMAIN photos /\ photos'[p].image = created[t]
        /\ \A x \in DOMAIN photos \ {p} : photos'[x] = photos[x]
        /\ files' \subseteq files
      BY <2>1, <2>2 DEF ReplacePhotoStatement
  <2>4. Pending = {created[t]} /\ loc[t].image \notin files
      BY <1>0, <2>1 DEF Pending, OldFileGone, Replacing
  <2>5. Orphans' \subseteq Orphans
      BY <2>1, <2>3, <2>4 DEF Orphans, ImagesOf
  <2>6. OldFileGone'
      BY <1>0, <2>1, <2>3 DEF OldFileGone, Replacing
  <2> QED
      BY <1>a, <2>1, <2>5, <2>6
<1>14. ASSUME NEW t \in Threads, UpdatePhotoWrite(t) PROVE Goal
  <2>1. /\ pc[t] = "photoRead" /\ pc'[t] = "idle" /\ UNCHANGED <<used, failures>>
        /\ \A v \in Threads \ {t} : /\ pc'[v] = pc[v] /\ loc'[v] = loc[v]
                                    /\ created'[v] = created[v]
      BY <1>0, <1>14 DEF UpdatePhotoWrite, Finish
  <2>2. recursiveTriggers
      BY <1>0, <2>1 DEF OldFileGone
  <2>3. Pending' = Pending
      BY <2>1 DEF Pending
  <2>4. Orphans' \subseteq Orphans /\ files' \subseteq files
    <3>1. CASE UNCHANGED <<photos, files>>
        BY <2>3, <3>1 DEF Orphans, ImagesOf
    <3>2. CASE \E p, row : ReplacePhotoStatement(p, row)
        BY <2>2, <2>3, <3>2, ReplaceRowOrphans
    <3> QED
        BY <1>14, <3>1, <3>2 DEF UpdatePhotoWrite
  <2>5. OldFileGone'
      BY <1>0, <2>1, <2>2, <2>4 DEF OldFileGone
  <2> QED
      BY <1>a, <2>1, <2>4, <2>5
\* Failures
<1>10. ASSUME NEW x, Pending \subseteq {x}, failures' = failures + 1,
              UNCHANGED <<photos, used>>, files' \subseteq files,
              \A v \in Threads : pc'[v] \notin {"stored", "removed"},
              ~recursiveTriggers => \A v \in Threads : pc'[v] # "photoRead"
       PROVE  Goal
  <2>1. Orphans' \subseteq Orphans \cup {x}
      BY <1>10 DEF Orphans, ImagesOf
  <2>2. OldFileGone'
      BY <1>0, <1>10 DEF OldFileGone
  <2> QED
      BY <1>0, <1>10, <2>1, <2>2, OneMoreElement
<1>11. ASSUME NEW t \in Threads, ReplaceImageFails(t) PROVE Goal
  <2>1. /\ failures' = failures + 1 /\ UNCHANGED <<photos, used, files>>
        /\ pc'[t] = "idle"
        /\ \A v \in Threads \ {t} : pc'[v] = pc[v] /\ pc[v] \notin Replacing
      BY <1>0, <1>11 DEF ReplaceImageFails, Finish, LockInv
  <2>2. /\ \A v \in Threads : pc'[v] \notin {"stored", "removed"}
        /\ ~recursiveTriggers => \A v \in Threads : pc'[v] # "photoRead"
      BY <1>0, <2>1 DEF OldFileGone, Replacing
  <2>3. PICK x : Pending \subseteq {x}
      BY OnePending
  <2> HIDE DEF Goal
  <2> QED
      BY <1>10, <2>1, <2>2, <2>3
<1>12. ASSUME Crash PROVE Goal
  <2>1. /\ failures' = failures + 1 /\ UNCHANGED <<photos, used>>
        /\ files' \subseteq files
        /\ \A v \in Threads : pc'[v] \notin {"stored", "removed", "photoRead"}
      BY <1>12 DEF Crash
  <2>2. PICK x : Pending \subseteq {x}
      BY OnePending
  <2> HIDE DEF Goal
  <2> QED
      BY <1>10, <2>1, <2>2
<1>13. ASSUME UNCHANGED vars PROVE Goal
  <2>1. Pending' = Pending
      BY <1>13 DEF vars, Pending
  <2> HIDE DEF Goal
  <2> QED
      BY <1>0, <1>4, <1>13, <2>1 DEF vars, OldFileGone
<1> QED
    BY <1>2, <1>3, <1>5, <1>6, <1>7, <1>8, <1>9, <1>11, <1>12, <1>13, <1>14
    DEF Next, Request, Continue

LEMMA OrphansInvariance == Spec => []OrphansInv
    BY TypeInvariance, TablesInvariance, OrphansInit, OrphansStep, PTL DEF Spec

\* Each crash and each storage error leaves at most one file behind that no photo
\* refers to, whatever handlers it interrupts, and PUTs of photos leave none where
\* the trigger fires for the rows they replace (ReplaceImage, DeletePhoto,
\* UpdatePhoto).
THEOREM OrphansAreBounded == Spec => []OrphansBounded
<1>1. OrphansInv => OrphansBounded
    BY DEF OrphansInv, OrphansBounded
<1> QED
    BY <1>1, OrphansInvariance, PTL

\* Where the trigger fires for the rows that are replaced it does what its comment
\* says, PUTs of photos included: deletions leave no image behind (PhotoDeleted).
THEOREM FiringTriggerLeavesNothing ==
    Spec => [](recursiveTriggers => DeletedPhotosLeaveNoImage)
<1>1. TypeInv /\ LockInv /\ OrphansInv /\ recursiveTriggers => DeletedPhotosLeaveNoImage
  <2> SUFFICES ASSUME TypeInv, LockInv, OrphansInv, recursiveTriggers, failures = 0,
                      Unlocked, DOMAIN photos = {}
               PROVE  files = {}
      BY DEF DeletedPhotosLeaveNoImage
  <2>1. IsFiniteSet(Orphans) /\ Cardinality(Orphans) <= 0
      BY DEF OrphansInv
  <2>2. Orphans = {}
      BY <2>1, FS_EmptySet, FS_CardinalityType
  <2>3. \A t \in Threads : pc[t] \notin Replacing
      BY StoreAssumption DEF LockInv, Unlocked
  <2>4. Pending = {} /\ ImagesOf(DOMAIN photos) = {}
      BY <2>3 DEF Pending, ImagesOf, Replacing
  <2> QED
      BY <2>2, <2>4 DEF Orphans
<1> QED
    BY <1>1, TypeInvariance, TablesInvariance, OrphansInvariance, PTL

-----------------------------------------------------------------------------
(***************************************************************************)
(* Damage.  With any failures, no two photos share an image and the file   *)
(* that ReplaceImage has created is nobody's yet, so that removing a file  *)
(* never takes it from another photo.                                      *)
(***************************************************************************)
FileOwners ==
    /\ \A t \in Threads : pc[t] # "photoRead"
    /\ ImagesDiffer /\ UuidsUsed
    /\ \A t \in Threads :
          pc[t] \in {"stored", "removed"} => created[t] \in files \ Stored

OwnersInv == ~PhotoPuts => FileOwners

\* Only the thread that has the mutex is in ReplaceImage.
LEMMA NobodyReplacing ==
    ASSUME LockInv, Unlocked PROVE \A v \in Threads : pc[v] \notin Replacing
    BY StoreAssumption DEF LockInv, Unlocked

LEMMA OneReplacing ==
    ASSUME LockInv, NEW t \in Threads, pc[t] \in Replacing
    PROVE  \A v \in Threads \ {t} : pc[v] \notin Replacing
    BY DEF LockInv

LEMMA DeleteRowsOwners ==
    ASSUME FileOwners, NEW P, DeletePhotoRows(P), used \subseteq used',
           \A v \in Threads : pc'[v] \notin {"stored", "removed", "photoRead"}
    PROVE  FileOwners'
<1>1. /\ DOMAIN photos' = DOMAIN photos \ P
      /\ \A p \in DOMAIN photos' : photos'[p] = photos[p]
      /\ files' \subseteq files
    BY DEF DeletePhotoRows
<1>2. ImagesDiffer'
    BY <1>1 DEF FileOwners, ImagesDiffer
<1>3. Stored' \subseteq Stored
    BY <1>1 DEF Stored, ImagesOf
<1>4. UuidsUsed'
    BY <1>1, <1>3 DEF FileOwners, UuidsUsed
<1> QED
    BY <1>2, <1>4 DEF FileOwners

LEMMA OwnersStep ==
    TypeInv /\ LockInv /\ TablesInv /\ OwnersInv /\ [Next]_vars => OwnersInv'
<1> SUFFICES ASSUME TypeInv, LockInv, TablesInv, FileOwners, [Next]_vars, ~PhotoPuts
             PROVE  FileOwners'
    BY DEF OwnersInv
<1> USE DEF tables, handler
<1>0. /\ pc \in [Threads -> ControlPoints] /\ loc \in [Threads -> Photo]
      /\ created \in [Threads -> Files \cup {NoUuid}]
      /\ \A v \in Threads : pc[v] # "photoRead"
    BY DEF TypeInv, TypeOK, FileOwners
<1>1. ASSUME NEW t \in Threads, \/ PostSite(t)
                                \/ \E s \in Sites : DeleteSite(t, s)
                                \/ \E p \in Photos : DeletePhoto(t, p)
                                \/ UpdateSiteWrite(t)
      PROVE  FileOwners'
  <2>1. \E P : DeletePhotoRows(P)
      BY <1>1 DEF PostSite, DeleteSite, DeletePhoto, UpdateSiteWrite,
                  ReplaceSiteStatement, DeleteSiteStatement, DeletePhotoStatement
  <2>2. Unlocked /\ used \subseteq used' /\ (pc' = pc \/ pc' = [pc EXCEPT ![t] = "idle"])
      BY <1>1 DEF PostSite, DeleteSite, DeletePhoto, UpdateSiteWrite, Finish
  <2>3. \A v \in Threads : pc'[v] \notin {"stored", "removed", "photoRead"}
      BY <1>0, <2>2, NobodyReplacing DEF Replacing
  <2> QED
      BY <2>1, <2>2, <2>3, DeleteRowsOwners
\* Steps that leave the rows alone and remove no file
<1>2. ASSUME UNCHANGED photos, used \subseteq used', files' \subseteq files \cup used',
             \A v \in Threads : pc'[v] # "photoRead",
             \A v \in Threads : pc'[v] \in {"stored", "removed"} =>
                 created'[v] \in files' \ Stored
      PROVE  FileOwners'
  <2>1. Stored' = Stored
      BY <1>2 DEF Stored, ImagesOf
  <2> QED
      BY <1>2, <2>1 DEF FileOwners, UuidsUsed, ImagesDiffer
<1>3. ASSUME NEW t \in Threads, \/ \E s \in Sites : UpdateSiteRead(t, s)
                                \/ \E p \in Photos : GetImage(t, p)
                                \/ \E p : ReplaceImage(t, p)
                                \/ ReplaceImageInexistent(t)
                                \/ RecordChange(t) \/ ReadFile(t)
                                \/ ReplaceImageFails(t)
      PROVE  FileOwners'
  <2>1. /\ UNCHANGED <<photos, files>> /\ used \subseteq used'
        /\ pc'[t] \notin {"stored", "removed", "photoRead"}
        /\ \A v \in Threads \ {t} : pc'[v] = pc[v] /\ created'[v] = created[v]
    <3>1. CASE \/ \E s \in Sites : UpdateSiteRead(t, s)
               \/ \E p \in Photos : GetImage(t, p)
               \/ \E p : ReplaceImage(t, p)
        BY <1>0, <3>1 DEF UpdateSiteRead, GetImage, ReplaceImage
    <3>2. CASE \/ ReplaceImageInexistent(t) \/ RecordChange(t) \/ ReadFile(t)
               \/ ReplaceImageFails(t)
        BY <1>0, <3>2
        DEF ReplaceImageInexistent, RecordChange, ReadFile, ReplaceImageFails, Finish
    <3> QED
        BY <1>3, <3>1, <3>2
  <2>2. \A v \in Threads : pc'[v] # "photoRead"
      BY <1>0, <2>1
  <2>3. \A v \in Threads :
           pc'[v] \in {"stored", "removed"} => created'[v] \in files' \ Stored
      BY <2>1 DEF FileOwners
  <2> QED
      BY <1>2, <2>1, <2>2, <2>3
<1>4. ASSUME NEW t \in Threads, NEW s \in Sites, NEW withImage \in BOOLEAN,
             PostPhoto(t, s, withImage)
      PROVE  FileOwners'
  <2> DEFINE row == [site |-> s, image |-> NoUuid]
  <2>1. PICK p \in Photos \ used : used' = used \cup {p} /\ ReplacePhotoStatement(p, row)
      BY <1>4 DEF PostPhoto
  <2>2. p \notin DOMAIN photos /\ ImagesOf({p}) = {} /\ s \in sites /\ row.site = s
        /\ row.image = NoUuid /\ NoUuid \notin Stored /\ ImagesDiffer
      BY <1>4, <2>1 DEF PostPhoto, FileOwners, UuidsUsed, ImagesOf, Stored
  <2>3. /\ DOMAIN photos' = DOMAIN photos \cup {p} /\ files' = files
      BY <2>1, <2>2 DEF ReplacePhotoStatement
  <2> HIDE DEF row
  <2>4. ImagesDiffer' /\ Stored' = Stored
      BY <2>1, <2>2, ReplaceRowImages
  <2>5. UuidsUsed'
      BY <2>1, <2>3, <2>4 DEF FileOwners, UuidsUsed
  <2>6. \A v \in Threads : pc'[v] = pc[v] \/ pc'[v] = "posted"
      BY <1>0, <1>4 DEF PostPhoto
  <2>7. created' = created
      BY <1>4 DEF PostPhoto
  <2> QED
      BY <2>3, <2>4, <2>5, <2>6, <2>7 DEF FileOwners
<1>5. ASSUME NEW t \in Threads, CreateFile(t) PROVE FileOwners'
  <2>1. PICK f \in Files \ used : used' = used \cup {f} /\ files' = files \cup {f}
                                  /\ created' = [created EXCEPT ![t] = f]
      BY <1>5 DEF CreateFile
  <2>2. /\ photos' = photos /\ pc[t] = "found" /\ pc'[t] = "stored" /\ created'[t] = f
        /\ \A v \in Threads \ {t} : pc'[v] = pc[v] /\ pc[v] \notin Replacing
      BY <1>0, <1>5, <2>1, OneReplacing DEF CreateFile, Replacing
  <2>3. f \in files' \ Stored
      BY <2>1 DEF FileOwners, UuidsUsed
  <2>4. \A v \in Threads :
           /\ pc'[v] # "photoRead"
           /\ pc'[v] \in {"stored", "removed"} => created'[v] \in files' \ Stored
      BY <1>0, <2>2, <2>3 DEF Replacing
  <2>5. files' \subseteq files \cup used'
      BY <2>1
  <2> QED
      BY <1>2, <2>1, <2>2, <2>4, <2>5
<1>6. ASSUME NEW t \in Threads, RemoveFile(t) PROVE FileOwners'
  <2>1. /\ UNCHANGED <<photos, used, created>>
        /\ pc[t] = "stored" /\ pc'[t] = "removed" /\ files' = files \ {loc[t].image}
        /\ \A v \in Threads \ {t} : pc'[v] = pc[v] /\ pc[v] \notin Replacing
      BY <1>0, <1>6, OneReplacing DEF RemoveFile, Replacing
  <2>2. loc[t].image \in Stored \cup {NoUuid}
      BY <2>1 DEF LockInv, Replacing, Stored, ImagesOf
  <2>3. created[t] \in files \ Stored /\ created[t] # NoUuid
      BY <2>1, StoreAssumption DEF FileOwners, TypeInv, LocalInv
  <2>4. \A v \in Threads :
           /\ pc'[v] # "photoRead"
           /\ pc'[v] \in {"stored", "removed"} => created'[v] \in files' \ Stored
      BY <1>0, <2>1, <2>2, <2>3 DEF Replacing
  <2> QED
      BY <1>2, <2>1, <2>4
<1>7. ASSUME NEW t \in Threads, RecordImage(t) PROVE FileOwners'
  <2> DEFINE p == loc[t].uuid
             row == [site |-> loc[t].site, image |-> created[t]]
  <2>1. /\ UNCHANGED <<used, created>>
        /\ pc[t] = "removed" /\ pc'[t] = "recorded"
        /\ \A v \in Threads \ {t} : pc'[v] = pc[v] /\ pc[v] \notin Replacing
        /\ p \in DOMAIN photos /\ photos[p].site = loc[t].site
        /\ ReplacePhotoStatement(p, row)
      BY <1>0, <1>7, OneReplacing DEF RecordImage, LockInv, Replacing
  <2>2. /\ row.site \in sites /\ row.image = created[t] /\ created[t] \in files \ Stored
        /\ ImagesDiffer
      BY <2>1 DEF TablesInv, ReferencesIntact, FileOwners
  <2>3. DOMAIN photos' = DOMAIN photos /\ files' \subseteq files
      BY <2>1, <2>2 DEF ReplacePhotoStatement
  <2> HIDE DEF row, p
  <2>4. ImagesDiffer' /\ Stored' \subseteq Stored \cup {created[t]}
    <3>1. row.image \notin Stored
        BY <2>2
    <3>2. /\ ImagesDiffer'
          /\ Stored' = (Stored \ ImagesOf({p})) \cup ({row.image} \ {NoUuid})
        BY <2>1, <2>2, <3>1, ReplaceRowImages
    <3> QED
        BY <2>2, <3>2
  <2>5. UuidsUsed'
      BY <2>1, <2>2, <2>3, <2>4 DEF FileOwners, UuidsUsed
  <2>6. \A v \in Threads : pc'[v] \notin {"photoRead", "stored", "removed"}
      BY <1>0, <2>1 DEF Replacing
  <2> QED
      BY <2>4, <2>5, <2>6 DEF FileOwners
<1>8. CASE Crash
  <2>1. /\ UNCHANGED <<photos, used>> /\ files' \subseteq files
        /\ \A v \in Threads : pc'[v] = "idle"
      BY <1>8 DEF Crash
  <2> QED
      BY <1>2, <2>1
<1>9. CASE UNCHANGED vars
    BY <1>0, <1>2, <1>9 DEF vars, FileOwners
<1> QED
    BY <1>1, <1>3, <1>4, <1>5, <1>6, <1>7, <1>8, <1>9
    DEF Next, Request, Continue, UpdatePhotoRead, UpdatePhotoWrite, FileOwners

LEMMA OwnersInit == Init => OwnersInv
<1>1. Init => DOMAIN photos = {} /\ Stored = {}
    BY DEF Init, Stored, ImagesOf
<1> QED
    BY <1>1 DEF Init, OwnersInv, FileOwners, ImagesDiffer, UuidsUsed

LEMMA OwnersInvariance == Spec => [](TypeInv /\ LockInv /\ TablesInv /\ OwnersInv)
    BY OwnersInit, OwnersStep, TypeInvariance, TablesInvariance, PTL DEF Spec

\* However uploads, deletions, crashes and storage errors follow each other, no
\* two photos have one image, so that no deletion takes the image of a photo that
\* stays (ReplaceImage, CreateOrUpdatePhoto, PhotoDeleted).
THEOREM ImagesAreNeverShared == Spec => [](~PhotoPuts => ImagesDiffer)
<1>1. OwnersInv => (~PhotoPuts => ImagesDiffer)
    BY DEF OwnersInv, FileOwners
<1> QED
    BY <1>1, OwnersInvariance, PTL

\* Only a failure damages, one site or one change.
DamagedSites == {photos[p].site : p \in Damaged}

DamageIs(n) ==
    /\ IsFiniteSet(DamagedSites) /\ IsFiniteSet(Unannounced)
    /\ Cardinality(DamagedSites) + Cardinality(Unannounced) <= n

DamageInv == ~PhotoPuts => DamageIs(failures)

LEMMA NoMoreDamage ==
    ASSUME NEW n \in Nat, DamageIs(n), DamagedSites' \subseteq DamagedSites,
           Unannounced' \subseteq Unannounced, failures' = n
    PROVE  DamageIs(failures)'
<1>1. /\ IsFiniteSet(DamagedSites') /\ Cardinality(DamagedSites') <= Cardinality(DamagedSites)
      /\ IsFiniteSet(Unannounced') /\ Cardinality(Unannounced') <= Cardinality(Unannounced)
    BY FS_Subset DEF DamageIs
<1>2. /\ Cardinality(DamagedSites) \in Nat /\ Cardinality(DamagedSites') \in Nat
      /\ Cardinality(Unannounced) \in Nat /\ Cardinality(Unannounced') \in Nat
    BY <1>1, FS_CardinalityType DEF DamageIs
<1>3. Cardinality(DamagedSites') + Cardinality(Unannounced') <= n
    BY <1>1, <1>2 DEF DamageIs
<1> QED
    BY <1>1, <1>3 DEF DamageIs

LEMMA OneMoreDamage ==
    ASSUME NEW n \in Nat, DamageIs(n), NEW x, failures' = n + 1,
           \/ /\ DamagedSites' \subseteq DamagedSites \cup {x}
              /\ Unannounced' \subseteq Unannounced
           \/ /\ DamagedSites' \subseteq DamagedSites
              /\ Unannounced' \subseteq Unannounced \cup {x}
    PROVE  DamageIs(failures)'
<1>1. /\ IsFiniteSet(DamagedSites) /\ IsFiniteSet(Unannounced)
      /\ Cardinality(DamagedSites) \in Nat /\ Cardinality(Unannounced) \in Nat
      /\ Cardinality(DamagedSites) + Cardinality(Unannounced) <= n
    BY FS_CardinalityType DEF DamageIs
<1>2. ASSUME NEW A, NEW B, IsFiniteSet(A), B \subseteq A
      PROVE  /\ IsFiniteSet(B) /\ Cardinality(B) <= Cardinality(A)
             /\ Cardinality(B) \in Nat /\ Cardinality(A) \in Nat
  <2>1. IsFiniteSet(B) /\ Cardinality(B) <= Cardinality(A)
      BY <1>2, FS_Subset
  <2> QED
      BY <1>2, <2>1, FS_CardinalityType
<1>3. ASSUME NEW A, NEW B, IsFiniteSet(A), B \subseteq A \cup {x}
      PROVE  /\ IsFiniteSet(B) /\ Cardinality(B) <= Cardinality(A) + 1
             /\ Cardinality(B) \in Nat
  <2>1. Cardinality(A) \in Nat
      BY <1>3, FS_CardinalityType
  <2>2. IsFiniteSet(B) /\ Cardinality(B) <= Cardinality(A) + 1
    <3>1. \A m \in Nat : Cardinality(A) <= m => IsFiniteSet(B) /\ Cardinality(B) <= m + 1
        BY <1>3, OneMoreElement
    <3> QED
        BY <2>1, <3>1
  <2> QED
      BY <2>2, FS_CardinalityType
<1>4. CASE /\ DamagedSites' \subseteq DamagedSites \cup {x}
           /\ Unannounced' \subseteq Unannounced
  <2>1. /\ IsFiniteSet(DamagedSites') /\ Cardinality(DamagedSites') \in Nat
        /\ Cardinality(DamagedSites') <= Cardinality(DamagedSites) + 1
      BY <1>1, <1>3, <1>4
  <2>2. /\ IsFiniteSet(Unannounced') /\ Cardinality(Unannounced') \in Nat
        /\ Cardinality(Unannounced') <= Cardinality(Unannounced)
      BY <1>1, <1>2, <1>4
  <2>3. Cardinality(DamagedSites') + Cardinality(Unannounced') <= n + 1
      BY <1>1, <2>1, <2>2
  <2> QED
      BY <2>1, <2>2, <2>3 DEF DamageIs
<1>5. CASE /\ DamagedSites' \subseteq DamagedSites
           /\ Unannounced' \subseteq Unannounced \cup {x}
  <2>1. /\ IsFiniteSet(DamagedSites') /\ Cardinality(DamagedSites') \in Nat
        /\ Cardinality(DamagedSites') <= Cardinality(DamagedSites)
      BY <1>1, <1>2, <1>5
  <2>2. /\ IsFiniteSet(Unannounced') /\ Cardinality(Unannounced') \in Nat
        /\ Cardinality(Unannounced') <= Cardinality(Unannounced) + 1
      BY <1>1, <1>3, <1>5
  <2>3. Cardinality(DamagedSites') + Cardinality(Unannounced') <= n + 1
      BY <1>1, <2>1, <2>2
  <2> QED
      BY <2>1, <2>2, <2>3 DEF DamageIs
<1> QED
    BY <1>4, <1>5

\* Rows are deleted while nobody replaces an image.
LEMMA DeleteRowsDamage ==
    ASSUME FileOwners, NEW P, DeletePhotoRows(P),
           \A v \in Threads : pc[v] \notin Replacing /\ pc'[v] \notin Replacing
    PROVE  DamagedSites' \subseteq DamagedSites /\ Unannounced' \subseteq Unannounced
<1>1. /\ DOMAIN photos' = DOMAIN photos \ P
      /\ \A p \in DOMAIN photos' : photos'[p] = photos[p]
      /\ DOMAIN changes' = {q \in DOMAIN changes : changes[q] \notin P}
      /\ \A q \in DOMAIN changes' : changes'[q] = changes[q]
      /\ files' = files \ ImagesOf(P)
    BY DEF DeletePhotoRows, ChangesWithout
<1>2. \A p \in DOMAIN photos' : photos[p].image \notin ImagesOf(P) \ {NoUuid}
    BY <1>1 DEF FileOwners, ImagesDiffer, ImagesOf
<1>3. \A p \in Damaged' : p \in Damaged /\ photos'[p].site = photos[p].site
    BY <1>1, <1>2 DEF Damaged, Replacing
<1>4. DamagedSites' \subseteq DamagedSites
    BY <1>3 DEF DamagedSites
<1>5. Unannounced' \subseteq Unannounced
    BY <1>1 DEF Unannounced, Replacing
<1> QED
    BY <1>4, <1>5

LEMMA DamageStep ==
    /\ TypeInv /\ LockInv /\ TablesInv /\ OwnersInv /\ DamageInv /\ [Next]_vars
    /\ LockInv'
    => DamageInv'
<1> SUFFICES ASSUME TypeInv, LockInv, TablesInv, FileOwners, DamageIs(failures),
                    [Next]_vars, LockInv', ~PhotoPuts
             PROVE  DamageIs(failures)'
    BY DEF OwnersInv, DamageInv
<1> USE DEF tables, handler
<1>0. /\ pc \in [Threads -> ControlPoints] /\ loc \in [Threads -> Photo]
      /\ failures \in Nat
      /\ \A v \in Threads : pc[v] # "photoRead"
    BY StoreAssumption DEF TypeInv, TypeOK, FileOwners
<1>1. ASSUME NEW t \in Threads, \/ PostSite(t)
                                \/ \E s \in Sites : DeleteSite(t, s)
                                \/ \E p \in Photos : DeletePhoto(t, p)
                                \/ UpdateSiteWrite(t)
      PROVE  DamageIs(failures)'
  <2>1. \E P : DeletePhotoRows(P)
      BY <1>1 DEF PostSite, DeleteSite, DeletePhoto, UpdateSiteWrite,
                  ReplaceSiteStatement, DeleteSiteStatement, DeletePhotoStatement
  <2>2. /\ Unlocked /\ failures' = failures
        /\ pc' = pc \/ pc' = [pc EXCEPT ![t] = "idle"]
      BY <1>1 DEF PostSite, DeleteSite, DeletePhoto, UpdateSiteWrite, Finish
  <2>3. \A v \in Threads : pc[v] \notin Replacing /\ pc'[v] \notin Replacing
      BY <1>0, <2>2, NobodyReplacing DEF Replacing
  <2>4. DamagedSites' \subseteq DamagedSites /\ Unannounced' \subseteq Unannounced
      BY <2>1, <2>3, DeleteRowsDamage
  <2> QED
      BY <1>0, <2>2, <2>4, NoMoreDamage
\* Steps that leave the rows alone and remove no file
<1>2. ASSUME UNCHANGED <<photos, changes, failures>>, files \subseteq files',
             \A v \in Threads : pc[v] \in {"removed", "recorded"} =>
                                  pc'[v] = pc[v] /\ loc'[v] = loc[v]
      PROVE  DamageIs(failures)'
  <2>1. DamagedSites' \subseteq DamagedSites
      BY <1>2 DEF Damaged, DamagedSites
  <2>2. Unannounced' \subseteq Unannounced
      BY <1>2 DEF Unannounced
  <2> QED
      BY <1>0, <1>2, <2>1, <2>2, NoMoreDamage
<1>3. ASSUME NEW t \in Threads, \/ \E s \in Sites : UpdateSiteRead(t, s)
                                \/ \E p \in Photos : GetImage(t, p)
                                \/ \E p : ReplaceImage(t, p)
                                \/ ReplaceImageInexistent(t) \/ ReadFile(t)
                                \/ CreateFile(t)
      PROVE  DamageIs(failures)'
  <2>1. UNCHANGED <<photos, changes, failures>> /\ files \subseteq files'
      BY <1>3 DEF UpdateSiteRead, GetImage, ReplaceImage, ReplaceImageInexistent,
                  ReadFile, CreateFile
  <2>2. \A v \in Threads : pc[v] \in {"removed", "recorded"} => v # t
    <3>1. CASE \E p : ReplaceImage(t, p)
        BY <3>1, NobodyReplacing DEF ReplaceImage, Replacing
    <3>2. CASE ~\E p : ReplaceImage(t, p)
        BY <1>3, <3>2 DEF UpdateSiteRead, GetImage, ReplaceImageInexistent, ReadFile,
                          CreateFile, Idle
    <3> QED
        BY <3>1, <3>2
  <2>3. \A v \in Threads \ {t} : pc'[v] = pc[v] /\ loc'[v] = loc[v]
    <3>1. CASE \E s \in Sites : UpdateSiteRead(t, s)
        BY <1>0, <3>1 DEF UpdateSiteRead
    <3>2. CASE (\E p \in Photos : GetImage(t, p)) \/ (\E p : ReplaceImage(t, p))
        BY <1>0, <3>2 DEF GetImage, ReplaceImage
    <3>3. CASE ReplaceImageInexistent(t) \/ ReadFile(t) \/ CreateFile(t)
        BY <1>0, <3>3 DEF ReplaceImageInexistent, ReadFile, CreateFile, Finish
    <3> QED
        BY <1>3, <3>1, <3>2, <3>3
  <2>4. \A v \in Threads : pc[v] \in {"removed", "recorded"} =>
                               pc'[v] = pc[v] /\ loc'[v] = loc[v]
      BY <2>2, <2>3
  <2> QED
      BY <1>2, <2>1, <2>4
<1>4. ASSUME NEW t \in Threads, NEW s \in Sites, NEW withImage \in BOOLEAN,
             PostPhoto(t, s, withImage)
      PROVE  DamageIs(failures)'
  <2> DEFINE row == [site |-> s, image |-> NoUuid]
  <2>1. PICK p \in Photos \ used : ReplacePhotoStatement(p, row)
      BY <1>4 DEF PostPhoto
  <2>2. p \notin DOMAIN photos /\ ImagesOf({p}) = {} /\ s \in sites
        /\ \A q \in DOMAIN changes : changes[q] # p
      BY <1>4, <2>1
      DEF PostPhoto, FileOwners, UuidsUsed, ImagesOf, TablesInv, ReferencesIntact
  <2>3. /\ DOMAIN photos' = DOMAIN photos \cup {p} /\ files' = files
        /\ photos'[p].image = NoUuid
        /\ \A x \in DOMAIN photos : photos'[x] = photos[x]
        /\ DOMAIN changes' = DOMAIN changes
        /\ \A q \in DOMAIN changes : changes'[q] = changes[q]
      BY <2>1, <2>2 DEF ReplacePhotoStatement, ChangesWithout
  <2>4. /\ Unlocked /\ failures' = failures
        /\ pc' = pc \/ pc' = [pc EXCEPT ![t] = "posted"]
      BY <1>4 DEF PostPhoto
  <2>5. \A v \in Threads : pc[v] \notin Replacing /\ pc'[v] \notin Replacing
      BY <1>0, <2>4, NobodyReplacing DEF Replacing
  <2>6. \A x \in Damaged' : x \in Damaged /\ photos'[x].site = photos[x].site
      BY <2>3, <2>5 DEF Damaged, Replacing
  <2>7. DamagedSites' \subseteq DamagedSites
      BY <2>6 DEF DamagedSites
  <2>8. Unannounced' \subseteq Unannounced
      BY <2>3, <2>5 DEF Unannounced, Replacing
  <2> QED
      BY <1>0, <2>4, <2>7, <2>8, NoMoreDamage
<1>5. ASSUME NEW t \in Threads, RemoveFile(t) PROVE DamageIs(failures)'
  <2>1. /\ UNCHANGED <<photos, changes, loc, failures>>
        /\ pc[t] = "stored" /\ pc'[t] = "removed" /\ files' = files \ {loc[t].image}
        /\ \A v \in Threads \ {t} : pc'[v] = pc[v] /\ pc[v] \notin Replacing
      BY <1>0, <1>5, OneReplacing DEF RemoveFile, Replacing
  <2>2. loc[t].uuid \in DOMAIN photos /\ photos[loc[t].uuid].image = loc[t].image
      BY <2>1 DEF LockInv, Replacing
  <2>3. \A x \in DOMAIN photos :
           photos[x].image # NoUuid /\ x # loc[t].uuid => photos[x].image # loc[t].image
      BY <2>2 DEF FileOwners, ImagesDiffer
  <2>4. Damaged' \subseteq Damaged
      BY <2>1, <2>3 DEF Damaged, Replacing
  <2>5. DamagedSites' \subseteq DamagedSites
      BY <2>1, <2>4 DEF DamagedSites
  <2>6. Unannounced' \subseteq Unannounced
      BY <2>1 DEF Unannounced, Replacing
  <2> QED
      BY <1>0, <2>1, <2>5, <2>6, NoMoreDamage
<1>6. ASSUME NEW t \in Threads, RecordImage(t) PROVE DamageIs(failures)'
  <2> DEFINE p == loc[t].uuid
             row == [site |-> loc[t].site, image |-> created[t]]
  <2>1. /\ UNCHANGED <<loc, failures>>
        /\ pc[t] = "removed" /\ pc'[t] = "recorded"
        /\ \A v \in Threads \ {t} : pc'[v] = pc[v] /\ pc[v] \notin Replacing
        /\ p \in DOMAIN photos /\ photos[p].site = loc[t].site
        /\ photos[p].image = loc[t].image /\ ReplacePhotoStatement(p, row)
      BY <1>0, <1>6, OneReplacing DEF RecordImage, LockInv, Replacing
  <2>2. row.site \in sites /\ created[t] \in files \ Stored
      BY <2>1 DEF TablesInv, ReferencesIntact, FileOwners
  <2>3. /\ DOMAIN photos' = DOMAIN photos /\ photos'[p].image = created[t]
        /\ \A x \in DOMAIN photos \ {p} : photos'[x] = photos[x]
        /\ DOMAIN changes' = {q \in DOMAIN changes : changes[q] # p}
        /\ \A q \in DOMAIN changes' : changes'[q] = changes[q]
        /\ files \ {photos[p].image} \subseteq files'
    <3>1. /\ photos' = [x \in DOMAIN photos \cup {p} |-> IF x = p THEN row ELSE photos[x]]
          /\ changes' = ChangesWithout({p})
        BY <2>1, <2>2 DEF ReplacePhotoStatement
    <3>2. files' = files \ ImagesOf({p}) \/ files' = files
        BY <2>1 DEF ReplacePhotoStatement
    <3>3. files \ {photos[p].image} \subseteq files'
        BY <2>1, <3>2 DEF ImagesOf
    <3> QED
        BY <2>1, <3>1, <3>3 DEF ChangesWithout
  <2>4. created[t] # photos[p].image /\ created[t] \in files'
    <3>1. photos[p].image \in Stored \cup {NoUuid} /\ created[t] # NoUuid
        BY <2>1, StoreAssumption DEF Stored, ImagesOf, TypeInv, LocalInv
    <3> QED
        BY <2>2, <2>3, <3>1
  <2>5. \A x \in DOMAIN photos \ {p} :
           photos[x].image # NoUuid => photos[x].image # photos[p].image
      BY <2>1 DEF FileOwners, ImagesDiffer
  <2>6. \A x \in DOMAIN photos \ {p} :
           x \in Damaged' => x \in Damaged /\ photos'[x].site = photos[x].site
      BY <2>1, <2>3, <2>5 DEF Damaged, Replacing
  <2>7. p \notin Damaged'
      BY <2>3, <2>4 DEF Damaged
  <2>8. Damaged' \subseteq DOMAIN photos
      BY <2>3 DEF Damaged
  <2>9. DamagedSites' \subseteq DamagedSites
      BY <2>6, <2>7, <2>8 DEF DamagedSites
  <2>10. p \notin Unannounced'
      BY <2>1 DEF Unannounced
  <2>11. Unannounced' \subseteq Unannounced
      BY <2>1, <2>3, <2>10 DEF Unannounced, Replacing
  <2> QED
      BY <1>0, <2>1, <2>9, <2>11, NoMoreDamage
<1>7. ASSUME NEW t \in Threads, RecordChange(t) PROVE DamageIs(failures)'
  <2>1. /\ UNCHANGED <<photos, files, failures>> /\ pc[t] = "recorded"
        /\ pc'[t] = "idle"
        /\ \A v \in Threads \ {t} : pc'[v] = pc[v] /\ pc[v] \notin Replacing
        /\ DOMAIN changes' = DOMAIN changes \cup {lastSeq + 1}
        /\ changes'[lastSeq + 1] = loc[t].uuid
        /\ \A q \in DOMAIN changes : q # lastSeq + 1 => changes'[q] = changes[q]
        /\ lastSeq \in Nat /\ DOMAIN changes \subseteq 1 .. lastSeq
      BY <1>0, <1>7, OneReplacing
      DEF RecordChange, Finish, Replacing, TypeInv, TypeOK
  <2>2. lastSeq + 1 \notin DOMAIN changes
      BY <2>1
  <2>3. Damaged' = Damaged
      BY <2>1 DEF Damaged, Replacing
  <2>4. DamagedSites' \subseteq DamagedSites
      BY <2>1, <2>3 DEF DamagedSites
  <2>5. Unannounced' \subseteq Unannounced
      BY <2>1, <2>2 DEF Unannounced, Replacing
  <2> QED
      BY <1>0, <2>1, <2>4, <2>5, NoMoreDamage
\* Failures while t has the mutex, and while nobody has
<1>8. ASSUME NEW t \in Threads, pc[t] \in Replacing,
             UNCHANGED <<photos, changes, files>>, failures' = failures + 1,
             \A v \in Threads : pc'[v] \notin Replacing
      PROVE  DamageIs(failures)'
  <2>1. \A v \in Threads \ {t} : pc[v] \notin Replacing
      BY <1>8, OneReplacing
  <2>2. CASE pc[t] # "recorded"
    <3>1. \A p \in Damaged' : p \in Damaged \/ p = loc[t].uuid
        BY <1>8, <2>1 DEF Damaged, Replacing
    <3>2. DamagedSites' \subseteq DamagedSites \cup {photos[loc[t].uuid].site}
        BY <1>8, <3>1 DEF DamagedSites
    <3>3. Unannounced' \subseteq Unannounced
        BY <1>8, <2>1, <2>2 DEF Unannounced, Replacing
    <3> QED
        BY <1>0, <1>8, <3>2, <3>3, OneMoreDamage
  <2>3. CASE pc[t] = "recorded"
    <3>1. Damaged' \subseteq Damaged
        BY <1>8, <2>1, <2>3 DEF Damaged, Replacing
    <3>2. DamagedSites' \subseteq DamagedSites
        BY <1>8, <3>1 DEF DamagedSites
    <3>3. Unannounced' \subseteq Unannounced \cup {loc[t].uuid}
        BY <1>8, <2>1 DEF Unannounced, Replacing
    <3> QED
        BY <1>0, <1>8, <3>2, <3>3, OneMoreDamage
  <2> QED
      BY <2>2, <2>3
<1>9. ASSUME Unlocked, NEW s, NEW P \in SUBSET PhotosOf({s}),
             UNCHANGED <<photos, changes>>, failures' = failures + 1,
             files' = files \ ImagesOf(P), \A v \in Threads : pc'[v] \notin Replacing
      PROVE  DamageIs(failures)'
  <2>1. \A v \in Threads : pc[v] \notin Replacing
      BY <1>9, NobodyReplacing
  <2>2. \A p \in DOMAIN photos \ P : photos[p].image \notin ImagesOf(P) \ {NoUuid}
      BY DEF FileOwners, ImagesDiffer, ImagesOf
  <2>3. \A p \in Damaged' : p \in Damaged \/ p \in P
      BY <1>9, <2>1, <2>2 DEF Damaged, Replacing
  <2>4. \A p \in P : photos[p].site = s
      BY DEF PhotosOf
  <2>5. DamagedSites' \subseteq DamagedSites \cup {s}
      BY <1>9, <2>3, <2>4 DEF DamagedSites
  <2>6. Unannounced' \subseteq Unannounced
      BY <1>9, <2>1 DEF Unannounced, Replacing
  <2> QED
      BY <1>0, <1>9, <2>5, <2>6, OneMoreDamage
<1>10. ASSUME NEW t \in Threads, ReplaceImageFails(t) PROVE DamageIs(failures)'
  <2>1. /\ pc[t] \in Replacing /\ UNCHANGED <<photos, changes, files>>
        /\ failures' = failures + 1 /\ pc' = [pc EXCEPT ![t] = "idle"]
      BY <1>10 DEF ReplaceImageFails, Finish
  <2>2. \A v \in Threads : pc'[v] \notin Replacing
      BY <1>0, <2>1, OneReplacing DEF Replacing
  <2> QED
      BY <1>8, <2>1, <2>2
<1>11. CASE Crash
  <2>1. /\ UNCHANGED <<photos, changes>> /\ failures' = failures + 1
        /\ \A v \in Threads : pc'[v] \notin Replacing
      BY <1>11 DEF Crash, Replacing
  <2>2. CASE Unlocked
    <3>1. \E s : \E P \in SUBSET PhotosOf({s}) : files' = files \ ImagesOf(P)
      <4>1. CASE UNCHANGED files
        <5>1. {} \in SUBSET PhotosOf({NoUuid}) /\ files' = files \ ImagesOf({})
            BY <4>1 DEF ImagesOf
        <5> QED
            BY <5>1
      <4> QED
          BY <1>11, <4>1 DEF Crash
    <3>2. PICK s : \E P \in SUBSET PhotosOf({s}) : files' = files \ ImagesOf(P)
        BY <3>1
    <3>3. PICK P \in SUBSET PhotosOf({s}) : files' = files \ ImagesOf(P)
        BY <3>2
    <3> QED
        BY <1>9, <2>1, <2>2, <3>3
  <2>3. CASE ~Unlocked
    <3>1. files' = files
        BY <1>11, <2>3 DEF Crash
    <3>2. lock \in Threads /\ pc[lock] \in Replacing
        BY <2>3 DEF LockInv, Unlocked, TypeInv, TypeOK
    <3> QED
        BY <1>8, <2>1, <3>1, <3>2
  <2> QED
      BY <2>2, <2>3
<1>12. CASE UNCHANGED vars
    BY <1>2, <1>12 DEF vars
<1> QED
    BY <1>1, <1>3, <1>4, <1>5, <1>6, <1>7, <1>10, <1>11, <1>12
    DEF Next, Request, Continue, UpdatePhotoRead, UpdatePhotoWrite, FileOwners

LEMMA DamageInit == Init => DamageInv
<1> SUFFICES ASSUME Init PROVE DamageInv
    OBVIOUS
<1>1. DOMAIN photos = {} /\ failures = 0
    BY DEF Init
<1>2. DamagedSites = {} /\ Unannounced = {}
    BY <1>1 DEF DamagedSites, Damaged, Unannounced
<1> QED
    BY <1>1, <1>2, FS_EmptySet DEF DamageInv, DamageIs

LEMMA DamageCounts == DamageInv => DamageBounded
    BY DEF DamageInv, DamageIs, DamageBounded, DamagedSites

\* Each crash and each storage error damages photos of one site, or leaves one
\* image out of the changes, and nothing after it adds to the damage
\* (ReplaceImage, DeleteSite, PhotoDeleted).
THEOREM DamageIsBounded == Spec => []DamageBounded
    BY DamageInit, DamageCounts, OwnersInvariance, DamageStep, PTL DEF Spec

-----------------------------------------------------------------------------
(***************************************************************************)
(* The way of ReplaceImage to the release of its mutex.                    *)
(***************************************************************************)
WritesLeft == [found |-> 4, stored |-> 3, removed |-> 2, recorded |-> 1]

NearsRelease(t) ==
    lock = t =>
        \/ lock' = NoThread
        \/ lock' = t /\ pc'[t] = pc[t]
        \/ lock' = t /\ WritesLeft[pc'[t]] < WritesLeft[pc[t]]

LEMMA NearsReleaseStep ==
    ASSUME TypeInv, LockInv, [Next]_vars, NEW t \in Threads, lock = t
    PROVE  NearsRelease(t)
<1> USE DEF tables, handler
<1>0. /\ pc \in [Threads -> ControlPoints] /\ pc[t] \in Replacing /\ ~Unlocked
      /\ \A v \in Threads \ {t} : pc[v] \notin Replacing
    BY StoreAssumption, OneReplacing DEF TypeInv, TypeOK, LockInv, Unlocked
<1>1. ASSUME CreateFile(t) \/ RemoveFile(t) \/ RecordImage(t) PROVE NearsRelease(t)
  <2>1. /\ lock' = lock
        /\ \/ pc[t] = "found" /\ pc'[t] = "stored"
           \/ pc[t] = "stored" /\ pc'[t] = "removed"
           \/ pc[t] = "removed" /\ pc'[t] = "recorded"
      BY <1>0, <1>1 DEF CreateFile, RemoveFile, RecordImage
  <2> QED
      BY <2>1 DEF NearsRelease, WritesLeft
<1>2. ASSUME lock' = NoThread PROVE NearsRelease(t)
    BY <1>2 DEF NearsRelease
<1>3. ASSUME NEW v \in Threads, ReadFile(v) PROVE NearsRelease(t)
  <2>1. v # t /\ lock' = lock /\ pc'[t] = pc[t]
      BY <1>0, <1>3 DEF ReadFile, Finish, Replacing
  <2> QED
      BY <2>1 DEF NearsRelease
<1>4. ASSUME NEW v \in Threads \ {t},
             CreateFile(v) \/ RemoveFile(v) \/ RecordImage(v) \/ RecordChange(v)
      PROVE  FALSE
    BY <1>0, <1>4 DEF CreateFile, RemoveFile, RecordImage, RecordChange, Replacing
<1>5. ASSUME NEW v \in Threads,
             \/ Request(v) \/ UpdateSiteWrite(v) \/ UpdatePhotoWrite(v)
             \/ pc[v] = "posted" /\ ReplaceImage(v, loc[v].uuid)
             \/ ReplaceImageInexistent(v)
      PROVE  FALSE
    BY <1>0, <1>5
    DEF Request, PostSite, DeleteSite, UpdateSiteRead, PostPhoto, DeletePhoto,
        UpdatePhotoRead, GetImage, ReplaceImage, UpdateSiteWrite, UpdatePhotoWrite,
        ReplaceImageInexistent
<1>6. RecordChange(t) \/ Crash \/ (\E v \in Threads : ReplaceImageFails(v))
      => lock' = NoThread
    BY DEF RecordChange, Crash, ReplaceImageFails
<1>7. CASE UNCHANGED vars
    BY <1>7 DEF vars, NearsRelease
<1> QED
    BY <1>1, <1>2, <1>3, <1>4, <1>5, <1>6, <1>7 DEF Next, Continue

\* The uuid of its file is there when ReplaceImage comes to need it: the bound on
\* uuids never stops it while it holds the mutex.
NeverBlocked == \A t \in Threads : pc[t] = "found" => Files \ used # {}

LEMMA NeverBlockedStep ==
    TypeInv /\ LockInv /\ NeverBlocked /\ [Next]_vars => NeverBlocked'
<1> SUFFICES ASSUME TypeInv, LockInv, NeverBlocked, [Next]_vars,
                    NEW t \in Threads, pc'[t] = "found"
             PROVE  Files \ used' # {}
    BY DEF NeverBlocked
<1> USE DEF tables, handler
<1>0. pc \in [Threads -> ControlPoints]
    BY DEF TypeInv, TypeOK
<1>1. CASE pc[t] = "found"
  <2>1. lock = t /\ ~Unlocked /\ \A v \in Threads \ {t} : pc[v] \notin Replacing
      BY <1>1, StoreAssumption, OneReplacing DEF LockInv, Unlocked, Replacing
  <2>2. UNCHANGED used
    <3>1. ASSUME NEW v \in Threads, CreateFile(v) PROVE FALSE
        BY <1>0, <1>1, <2>1, <3>1 DEF CreateFile, Replacing
    <3>2. ASSUME NEW v \in Threads, Request(v) PROVE FALSE
        BY <2>1, <3>2
        DEF Request, PostSite, DeleteSite, UpdateSiteRead, PostPhoto, DeletePhoto,
            UpdatePhotoRead, GetImage, ReplaceImage
    <3> QED
        BY <3>1, <3>2
        DEF Next, Continue, UpdateSiteWrite, UpdatePhotoWrite, ReplaceImage,
            ReplaceImageInexistent, RemoveFile, RecordImage, RecordChange, ReadFile,
            ReplaceImageFails, Crash, vars
  <2> QED
      BY <1>1, <2>2 DEF NeverBlocked
<1>2. CASE pc[t] # "found"
  <2>1. \E v \in Threads : \E p : ReplaceImage(v, p)
    <3>1. ASSUME NEW v \in Threads, Finish(v) PROVE FALSE
        BY <1>0, <1>2, <3>1 DEF Finish
    <3>2. ASSUME NEW v \in Threads, Request(v), ~\E p : ReplaceImage(v, p) PROVE FALSE
        BY <1>0, <1>2, <3>2
        DEF Request, PostSite, DeleteSite, UpdateSiteRead, PostPhoto, DeletePhoto,
            UpdatePhotoRead, GetImage
    <3>3. ASSUME NEW v \in Threads, CreateFile(v) \/ RemoveFile(v) \/ RecordImage(v)
          PROVE  FALSE
        BY <1>0, <1>2, <3>3 DEF CreateFile, RemoveFile, RecordImage
    <3>4. ~Crash /\ ~UNCHANGED vars
        BY <1>2 DEF Crash, vars
    <3> QED
        BY <3>1, <3>2, <3>3, <3>4
        DEF Next, Continue, UpdateSiteWrite, UpdatePhotoWrite, ReplaceImageInexistent,
            RecordChange, ReadFile, ReplaceImageFails
  <2> QED
      BY <2>1 DEF ReplaceImage
<1> QED
    BY <1>1, <1>2

\* The safety half of ReplaceImageEnds: from the moment ReplaceImage takes the mutex
\* no step of any handler moves it away from the release, each of its own brings it
\* nearer, and what its next one needs is there (ReplaceImage).
THEOREM ReplaceImageNearsItsEnd ==
    Spec => []NeverBlocked /\ [][\A t \in Threads : NearsRelease(t)]_vars
<1>1. Init => NeverBlocked
    BY DEF Init, NeverBlocked
<1>2. TypeInv /\ LockInv /\ [Next]_vars => \A t \in Threads : NearsRelease(t)
    BY NearsReleaseStep DEF NearsRelease
<1> QED
    BY <1>1, <1>2, NeverBlockedStep, TypeInvariance, TablesInvariance, PTL DEF Spec

-----------------------------------------------------------------------------
(***************************************************************************)
(* All of it in one inductive invariant, for the modules that compose the  *)
(* store with what reads it.                                               *)
(***************************************************************************)
StoreSafe ==
    TypeInv /\ LockInv /\ TablesInv /\ FilesInv /\ OrphansInv /\ OwnersInv /\ DamageInv

\* What the store promises, whoever reads it.
StorePromise ==
    /\ LatestChangeOnly /\ ImagesMatchFiles /\ EveryImageAnnounced
    /\ FailedReadIsOutdated /\ OrphansBounded /\ DamageBounded

LEMMA StoreSafeInit == Init => StoreSafe
    BY TypeInit, TablesInit, FilesInit, OrphansInit, OwnersInit, DamageInit DEF StoreSafe

LEMMA StoreSafeStep == StoreSafe /\ [Next]_vars => StoreSafe'
    BY TypeStep, TablesStep, FilesStep, OrphansStep, OwnersStep, DamageStep DEF StoreSafe

LEMMA SafeStoreKeepsPromise == StoreSafe => StorePromise
    BY FilesGiveMatch, OutdatedReads, DamageCounts
    DEF StoreSafe, StorePromise, TablesInv, OrphansInv, OrphansBounded

-----------------------------------------------------------------------------
(***************************************************************************)
(* The store implements PhotoLibrary when nothing fails and no photo is    *)
(* PUT.  The names below are what the mapping gives the variables of the   *)
(* library that the store does not have itself.                            *)
(***************************************************************************)
SeqOf(p) == CHOOSE q \in DOMAIN changes : changes[q] = p
Told     == {changes[q] : q \in DOMAIN changes} \cup {loc[t].uuid : t \in Late}
Pictures == (files \ Pending) \cup
            ({loc[t].image : t \in {u \in Threads : pc[u] = "removed"}} \ {NoUuid})
Latest   == [p \in Told |-> IF \E t \in Late : loc[t].uuid = p THEN lastSeq + 1
                            ELSE SeqOf(p)]
Uploads  == lastSeq + Cardinality(Late)

\* The tables are functions: deleting no row leaves them equal.
FunctionsInv ==
    /\ photos = [p \in DOMAIN photos |-> photos[p]]
    /\ changes = [q \in DOMAIN changes |-> changes[q]]

LEMMA FunctionsInit == Init => FunctionsInv
    BY DEF Init, FunctionsInv

LEMMA FunctionsStep == FunctionsInv /\ [Next]_vars => FunctionsInv'
<1> SUFFICES ASSUME FunctionsInv, [Next]_vars PROVE FunctionsInv'
    OBVIOUS
<1> USE DEF tables, handler, FunctionsInv
<1>1. ASSUME UNCHANGED <<photos, changes>> PROVE FunctionsInv'
    BY <1>1
<1>2. ASSUME NEW P, DeletePhotoRows(P) PROVE FunctionsInv'
    BY <1>2 DEF DeletePhotoRows, ChangesWithout
<1>3. ASSUME NEW p, NEW row, ReplacePhotoStatement(p, row) PROVE FunctionsInv'
    BY <1>3 DEF ReplacePhotoStatement, ChangesWithout
<1>4. ASSUME NEW t \in Threads, Request(t) PROVE FunctionsInv'
  <2> HIDE DEF FunctionsInv
  <2>1. CASE PostSite(t)
      BY <1>2, <2>1 DEF PostSite, ReplaceSiteStatement
  <2>2. ASSUME NEW s \in Sites, DeleteSite(t, s) PROVE FunctionsInv'
      BY <1>2, <2>2 DEF DeleteSite, DeleteSiteStatement
  <2>3. ASSUME NEW p \in Photos, DeletePhoto(t, p) PROVE FunctionsInv'
      BY <1>2, <2>3 DEF DeletePhoto, DeletePhotoStatement
  <2>4. ASSUME NEW s \in Sites, NEW withImage \in BOOLEAN, PostPhoto(t, s, withImage)
        PROVE  FunctionsInv'
      BY <1>3, <2>4 DEF PostPhoto
  <2>5. ASSUME \/ \E s \in Sites : UpdateSiteRead(t, s)
               \/ \E p \in Photos : UpdatePhotoRead(t, p) \/ GetImage(t, p)
               \/ \E p \in Photos : ReplaceImage(t, p)
        PROVE  FunctionsInv'
      BY <1>1, <2>5 DEF UpdateSiteRead, UpdatePhotoRead, GetImage, ReplaceImage
  <2> QED
      BY <1>4, <2>1, <2>2, <2>3, <2>4, <2>5 DEF Request
<1>5. ASSUME NEW t \in Threads, Continue(t) PROVE FunctionsInv'
  <2> HIDE DEF FunctionsInv
  <2>1. CASE UpdateSiteWrite(t)
      BY <1>2, <2>1 DEF UpdateSiteWrite, ReplaceSiteStatement
  <2>2. CASE UpdatePhotoWrite(t)
    <3>1. \/ UNCHANGED tables
          \/ \E p, row : ReplacePhotoStatement(p, row)
        BY <2>2 DEF UpdatePhotoWrite
    <3> QED
        BY <1>1, <1>3, <3>1
  <2>3. CASE RecordImage(t)
      BY <1>3, <2>3 DEF RecordImage
  <2>4. CASE RecordChange(t)
      BY <2>4 DEF RecordChange, FunctionsInv
  <2>5. ASSUME \/ ReplaceImage(t, loc[t].uuid) \/ ReplaceImageInexistent(t)
               \/ CreateFile(t) \/ RemoveFile(t) \/ ReadFile(t)
        PROVE  FunctionsInv'
      BY <1>1, <2>5
      DEF ReplaceImage, ReplaceImageInexistent, CreateFile, RemoveFile, ReadFile
  <2> QED
      BY <1>5, <2>1, <2>2, <2>3, <2>4, <2>5 DEF Continue
<1>6. ASSUME \/ \E t \in Threads : ReplaceImageFails(t)
             \/ Crash
             \/ UNCHANGED vars
      PROVE  FunctionsInv'
    BY <1>1, <1>6 DEF ReplaceImageFails, Crash, vars
<1> QED
    BY <1>4, <1>5, <1>6 DEF Next

StoreInv == TypeInv /\ LockInv /\ TablesInv /\ FilesInv /\ Clean /\ FunctionsInv

\* Whatever ReplaceImage is doing, the pictures of the library are the images of
\* the rows.
LEMMA PicturesAreStored ==
    ASSUME StoreInv
    PROVE  Pictures = Stored
<1> USE DEF StoreInv
<1>0. /\ UuidsUsed /\ FilesExact
      /\ \A t \in Threads : pc[t] \in Replacing <=> lock = t
    BY DEF FilesInv, LockInv
<1>1. CASE Unlocked
  <2>1. \A t \in Threads : pc[t] \notin Replacing
      BY <1>0, <1>1, StoreAssumption DEF Unlocked
  <2>2. Pending = {} /\ {u \in Threads : pc[u] = "removed"} = {}
      BY <2>1 DEF Pending, Replacing
  <2>3. files = Stored
      BY <1>0, <1>1 DEF FilesExact
  <2> QED
      BY <2>2, <2>3 DEF Pictures
<1>2. ASSUME NEW t \in Threads, lock = t PROVE Pictures = Stored
  <2>1. pc[t] \in Replacing /\ \A v \in Threads \ {t} : pc[v] \notin Replacing
      BY <1>0, <1>2
  <2>2. /\ loc[t].uuid \in DOMAIN photos
        /\ pc[t] # "recorded" => photos[loc[t].uuid].image = loc[t].image
      BY <2>1 DEF LockInv
  <2>3. CASE pc[t] \in {"found", "recorded"}
    <3>1. Pending = {} /\ {u \in Threads : pc[u] = "removed"} = {}
        BY <2>1, <2>3 DEF Pending, Replacing
    <3> QED
        BY <1>0, <2>3, <3>1 DEF FilesExact, Pictures
  <2>4. CASE pc[t] = "stored"
    <3>1. Pending = {created[t]} /\ {u \in Threads : pc[u] = "removed"} = {}
        BY <2>1, <2>4 DEF Pending, Replacing
    <3>2. files = Stored \cup {created[t]} /\ created[t] \notin Stored
        BY <1>0, <2>4 DEF FilesExact
    <3> QED
        BY <3>1, <3>2 DEF Pictures
  <2>5. CASE pc[t] = "removed"
    <3>1. Pending = {created[t]} /\ {u \in Threads : pc[u] = "removed"} = {t}
        BY <2>1, <2>5 DEF Pending, Replacing
    <3>2. /\ files = (Stored \ {loc[t].image}) \cup {created[t]}
          /\ created[t] \notin Stored
        BY <1>0, <2>5 DEF FilesExact
    <3>3. loc[t].image # NoUuid => loc[t].image \in Stored
        BY <2>2, <2>5 DEF Stored, ImagesOf
    <3>4. NoUuid \notin Stored
        BY DEF Stored
    <3> QED
        BY <3>1, <3>2, <3>3, <3>4 DEF Pictures
  <2> QED
      BY <2>1, <2>3, <2>4, <2>5 DEF Replacing
<1> QED
    BY <1>1, <1>2 DEF Unlocked, TypeInv, TypeOK

\* The row of a photo in Changes.
LEMMA SeqIs ==
    ASSUME TablesInv, NEW q \in DOMAIN changes
    PROVE  SeqOf(changes[q]) = q
<1>1. /\ SeqOf(changes[q]) \in DOMAIN changes
      /\ changes[SeqOf(changes[q])] = changes[q]
    BY DEF SeqOf
<1> QED
    BY <1>1 DEF TablesInv, LatestChangeOnly

\* The library is ahead of the table while a change is not inserted.
LEMMA LateIs ==
    ASSUME LockInv
    PROVE  /\ (\A t \in Threads : pc[t] # "recorded") => Late = {}
           /\ \A t \in Threads : pc[t] = "recorded" => Late = {t}
    BY DEF LockInv, Late, Replacing

LEMMA NoneLate ==
    ASSUME TypeInv, TablesInv, Late = {}
    PROVE  /\ Uploads = lastSeq
           /\ DOMAIN Latest = {changes[q] : q \in DOMAIN changes}
           /\ \A q \in DOMAIN changes : Latest[changes[q]] = q
<1>1. Cardinality(Late) = 0
    BY FS_EmptySet
<1>2. Uploads = lastSeq
    BY <1>1 DEF Uploads, TypeInv, TypeOK
<1>3. Told = {changes[q] : q \in DOMAIN changes}
    BY DEF Told
<1>4. Latest = [p \in Told |-> SeqOf(p)]
    BY DEF Latest
<1> QED
    BY <1>2, <1>3, <1>4, SeqIs

LEMMA OneLate ==
    ASSUME TypeInv, TablesInv, NEW t \in Threads, Late = {t},
           \A q \in DOMAIN changes : changes[q] # loc[t].uuid
    PROVE  /\ Uploads = lastSeq + 1
           /\ DOMAIN Latest = {changes[q] : q \in DOMAIN changes} \cup {loc[t].uuid}
           /\ \A q \in DOMAIN changes : Latest[changes[q]] = q
           /\ Latest[loc[t].uuid] = lastSeq + 1
<1>1. Cardinality(Late) = 1
    BY FS_Singleton
<1>2. Uploads = lastSeq + 1
    BY <1>1 DEF Uploads, TypeInv, TypeOK
<1>3. Told = {changes[q] : q \in DOMAIN changes} \cup {loc[t].uuid}
    BY DEF Told
<1>4. Latest = [p \in Told |-> IF loc[t].uuid = p THEN lastSeq + 1 ELSE SeqOf(p)]
    BY DEF Latest
<1> QED
    BY <1>2, <1>3, <1>4, SeqIs

\* What the library sees of the store.
View ==
    /\ Pictures = Stored
    /\ Latest = [x \in DOMAIN Latest |-> Latest[x]]
    /\ \A q \in DOMAIN changes : Latest[changes[q]] = q
    /\ (\A t \in Threads : pc[t] # "recorded") =>
          /\ Late = {} /\ Uploads = lastSeq
          /\ DOMAIN Latest = {changes[q] : q \in DOMAIN changes}
    /\ \A t \in Threads : pc[t] = "recorded" =>
          /\ Late = {t} /\ Uploads = lastSeq + 1
          /\ DOMAIN Latest = {changes[q] : q \in DOMAIN changes} \cup {loc[t].uuid}
          /\ Latest[loc[t].uuid] = lastSeq + 1

LEMMA ViewIs == StoreInv => View
<1> SUFFICES ASSUME StoreInv PROVE View
    OBVIOUS
<1>1. TypeInv /\ TablesInv /\ LockInv
    BY DEF StoreInv
<1>2. Pictures = Stored
    BY PicturesAreStored
<1>3. Latest = [x \in DOMAIN Latest |-> Latest[x]]
    BY DEF Latest
<1>4. CASE \A t \in Threads : pc[t] # "recorded"
  <2>1. Late = {}
      BY <1>1, <1>4, LateIs
  <2> QED
      BY <1>1, <1>2, <1>3, <1>4, <2>1, NoneLate DEF View
<1>5. ASSUME NEW t \in Threads, pc[t] = "recorded" PROVE View
  <2>1. Late = {t} /\ \A v \in Threads : pc[v] = "recorded" => v = t
      BY <1>1, <1>5, LateIs DEF LockInv, Replacing
  <2>2. \A q \in DOMAIN changes : changes[q] # loc[t].uuid
      BY <1>1, <1>5 DEF LockInv, Replacing
  <2> QED
      BY <1>1, <1>2, <1>3, <1>5, <2>1, <2>2, OneLate DEF View
<1> QED
    BY <1>4, <1>5

\* A step that the library does not see.
LEMMA LibraryFrame ==
    ASSUME View, View', UNCHANGED tables, Late' = Late,
           \A t \in Late : loc'[t] = loc[t]
    PROVE  UNCHANGED Library!vars
<1>1. UNCHANGED <<sites, photos, changes, lastSeq>>
    BY DEF tables
<1>2. Pictures' = Pictures
    BY <1>1 DEF View, Stored, ImagesOf
<1>3. Uploads' = Uploads
    BY <1>1 DEF Uploads
<1>4. Told' = Told /\ (\A p : (\E t \in Late' : loc'[t].uuid = p)
                                  <=> \E t \in Late : loc[t].uuid = p)
    BY <1>1 DEF Told
<1>5. Latest' = Latest
    BY <1>1, <1>4 DEF Latest, SeqOf
<1> QED
    BY <1>1, <1>2, <1>3, <1>5
    DEF Library!vars, Pictures, Latest, Told, SeqOf, Uploads

\* Rows are deleted with their pictures and their changes.
LEMMA LibraryRemove ==
    ASSUME StoreInv, View, View', NEW P \in SUBSET DOMAIN photos, DeletePhotoRows(P),
           lastSeq' = lastSeq, \A t \in Threads : pc[t] # "recorded",
           \A t \in Threads : pc'[t] # "recorded"
    PROVE  Library!Remove(P)
<1>1. /\ photos' = [p \in DOMAIN photos \ P |-> photos[p]]
      /\ DOMAIN photos' = DOMAIN photos \ P
      /\ \A p \in DOMAIN photos' : photos'[p] = photos[p]
      /\ DOMAIN changes' = {q \in DOMAIN changes : changes[q] \notin P}
      /\ \A q \in DOMAIN changes' : changes'[q] = changes[q]
    BY DEF DeletePhotoRows, ChangesWithout
<1>2. Library!Shown(P) = ImagesOf(P)
    BY DEF Library!Shown, ImagesOf
<1>3. Stored' = Stored \ ImagesOf(P)
    BY <1>1 DEF StoreInv, FilesInv, ImagesDiffer, Stored, ImagesOf
<1>4. Pictures' = Pictures \ Library!Shown(P)
    BY <1>2, <1>3 DEF View
<1>5. Uploads' = Uploads
    BY DEF View
<1>6. Latest' = Library!Without(Latest, P)
  <2>1. /\ DOMAIN Latest = {changes[q] : q \in DOMAIN changes}
        /\ DOMAIN Latest' = {changes'[q] : q \in DOMAIN changes'}
      BY DEF View
  <2>2. DOMAIN Latest' = DOMAIN Latest \ P
      BY <1>1, <2>1
  <2>3. \A q \in DOMAIN changes' : Latest'[changes'[q]] = Latest[changes'[q]]
      BY <1>1 DEF View
  <2>4. \A x \in DOMAIN Latest' : Latest'[x] = Latest[x]
      BY <2>1, <2>3
  <2>5. Latest' = [x \in DOMAIN Latest' |-> Latest'[x]]
      BY DEF View
  <2> QED
      BY <2>2, <2>4, <2>5 DEF Library!Without
<1> QED
    BY <1>1, <1>4, <1>5, <1>6
    DEF Library!Remove, Library!Without, Pictures, Latest, Told, SeqOf, Uploads

LEMMA LibraryInit == Init => Library!Init
<1> SUFFICES ASSUME Init PROVE Library!Init
    OBVIOUS
<1>1. Pictures = {} /\ Late = {} /\ Told = {}
    BY DEF Init, Pictures, Late, Told
<1>2. Latest = [p \in {} |-> 0]
    BY <1>1 DEF Latest
<1>3. Uploads = 0
    BY <1>1, FS_EmptySet DEF Init, Uploads
<1> QED
    BY <1>1, <1>2, <1>3
    DEF Init, Library!Init, Pictures, Latest, Told, SeqOf, Uploads

\* A site is deleted, created or replaced.
LEMMA LibraryChange ==
    ASSUME StoreInv, View, View', NEW s \in Sites, DeletePhotoRows(PhotosOf({s})),
           lastSeq' = lastSeq, sites' \in {sites \ {s}, sites \cup {s}},
           \A t \in Threads : pc[t] # "recorded",
           \A t \in Threads : pc'[t] # "recorded"
    PROVE  Library!Next
<1>1. PICK P \in SUBSET DOMAIN photos :
         P = PhotosOf({s}) /\ P = {p \in DOMAIN photos : photos[p].site = s}
    BY DEF PhotosOf
<1>2. DeletePhotoRows(P)
    BY <1>1 DEF DeletePhotoRows
<1>3. Library!Remove(P)
    BY <1>2, LibraryRemove
<1>4. Library!ChangeSite(s)
    BY <1>1, <1>3 DEF Library!ChangeSite, Library!Remove
<1> QED
    BY <1>4 DEF Library!Next

LEMMA LibraryStep ==
    StoreInv /\ StoreInv' /\ View /\ View' /\ [Next]_vars => [Library!Next]_Library!vars
<1> SUFFICES ASSUME StoreInv, StoreInv', View, View', [Next]_vars
             PROVE  Library!Next \/ UNCHANGED Library!vars
    OBVIOUS
<1> USE DEF tables, handler
<1>0. /\ pc \in [Threads -> ControlPoints] /\ loc \in [Threads -> Photo]
      /\ created \in [Threads -> Files \cup {NoUuid}]
      /\ \A p \in DOMAIN photos : p \in Photos /\ photos[p] \in Row
      /\ TypeInv /\ LockInv /\ TablesInv /\ FilesInv /\ Clean
      /\ failures = 0 /\ failures' = 0 /\ ~PhotoPuts
    BY DEF StoreInv, TypeInv, TypeOK, Clean
\* While the mutex is free nothing is late.
<1>a. Unlocked => \A t \in Threads : pc[t] # "recorded"
    BY StoreAssumption DEF StoreInv, LockInv, Unlocked, Replacing
<1>1. ASSUME NEW t \in Threads, PostSite(t) PROVE Library!Next
  <2>1. PICK s \in Sites : ReplaceSiteStatement(s)
      BY <1>1 DEF PostSite
  <2>2. \A v \in Threads : pc[v] # "recorded" /\ pc'[v] # "recorded"
      BY <1>a, <1>1 DEF PostSite
  <2> QED
      BY <2>1, <2>2, LibraryChange DEF ReplaceSiteStatement
<1>2. ASSUME NEW t \in Threads, NEW s \in Sites, DeleteSite(t, s) PROVE Library!Next
  <2>1. DeleteSiteStatement(s)
      BY <1>2 DEF DeleteSite
  <2>2. \A v \in Threads : pc[v] # "recorded" /\ pc'[v] # "recorded"
      BY <1>a, <1>2 DEF DeleteSite
  <2> QED
      BY <2>1, <2>2, LibraryChange DEF DeleteSiteStatement
<1>3. ASSUME NEW t \in Threads, UpdateSiteWrite(t) PROVE Library!Next
  <2>1. PICK s \in Sites : ReplaceSiteStatement(s)
      BY <1>0, <1>3 DEF UpdateSiteWrite, TypeInv, LocalInv
  <2>2. \A v \in Threads : pc[v] # "recorded" /\ pc'[v] # "recorded"
      BY <1>0, <1>a, <1>3 DEF UpdateSiteWrite, Finish
  <2> QED
      BY <2>1, <2>2, LibraryChange DEF ReplaceSiteStatement
\* Deleting a photo that does not exist changes nothing.
<1>4. ASSUME NEW t \in Threads, NEW p \in Photos, DeletePhoto(t, p)
      PROVE  Library!Next \/ UNCHANGED Library!vars
  <2>1. /\ DeletePhotoRows({p}) /\ UNCHANGED <<sites, lastSeq, pc, loc>>
        /\ \A v \in Threads : pc[v] # "recorded" /\ pc'[v] # "recorded"
      BY <1>a, <1>4 DEF DeletePhoto, DeletePhotoStatement
  <2>2. CASE p \in DOMAIN photos
    <3>1. Library!Remove({p})
        BY <2>1, <2>2, LibraryRemove
    <3>2. Library!RemovePhoto(p)
        BY <2>1, <3>1 DEF Library!RemovePhoto
    <3> QED
        BY <2>2, <3>2 DEF Library!Next
  <2>3. CASE p \notin DOMAIN photos
    <3>1. \A q \in DOMAIN changes : changes[q] # p
        BY <1>0, <2>3 DEF TablesInv, ReferencesIntact
    <3>2. photos' = photos /\ changes' = changes
        BY <2>1, <2>3, <3>1 DEF DeletePhotoRows, ChangesWithout, StoreInv, FunctionsInv
    <3>3. Late' = Late
        BY <2>1 DEF Late
    <3>4. UNCHANGED tables /\ \A v \in Late : loc'[v] = loc[v]
        BY <2>1, <3>2
    <3> QED
        BY <3>3, <3>4, LibraryFrame
  <2> QED
      BY <2>2, <2>3
<1>5. ASSUME NEW t \in Threads, NEW s \in Sites, NEW withImage \in BOOLEAN,
             PostPhoto(t, s, withImage)
      PROVE  Library!Next
  <2>1. PICK p \in Photos \ used :
           ReplacePhotoStatement(p, [site |-> s, image |-> NoUuid])
      BY <1>5 DEF PostPhoto
  <2>2. p \notin DOMAIN photos
      BY <1>0, <2>1 DEF FilesInv, UuidsUsed
  <2>3. \A q \in DOMAIN changes : changes[q] # p
      BY <1>0, <2>2 DEF TablesInv, ReferencesIntact
  <2>4. s \in sites /\ \A v \in Threads : pc[v] # "recorded" /\ pc'[v] # "recorded"
      BY <1>0, <1>5, <1>a DEF PostPhoto
  <2>5. /\ photos' = [x \in DOMAIN photos \cup {p} |->
                         IF x = p THEN [site |-> s, image |-> NoUuid] ELSE photos[x]]
        /\ changes' = changes /\ sites' = sites /\ lastSeq' = lastSeq
      BY <2>1, <2>3, <2>4
      DEF ReplacePhotoStatement, ChangesWithout, StoreInv, FunctionsInv
  <2>6. Stored' = Stored
    <3>1. /\ DOMAIN photos' = DOMAIN photos \cup {p} /\ photos'[p].image = NoUuid
          /\ \A x \in DOMAIN photos : photos'[x] = photos[x]
        BY <2>2, <2>5
    <3> QED
        BY <3>1 DEF Stored, ImagesOf
  <2>7. Pictures' = Pictures /\ Uploads' = Uploads
      BY <2>4, <2>5, <2>6 DEF View
  <2>8. Latest' = Latest
    <3>1. DOMAIN Latest' = DOMAIN Latest
        BY <2>4, <2>5 DEF View
    <3>2. \A x \in DOMAIN Latest : Latest'[x] = Latest[x]
        BY <2>4, <2>5 DEF View
    <3> QED
        BY <3>1, <3>2 DEF View
  <2>9. Library!AddPhoto(p, s)
      BY <2>2, <2>4, <2>5, <2>7, <2>8
      DEF Library!AddPhoto, Library!With, Pictures, Latest, Told, SeqOf, Uploads
  <2> QED
      BY <2>4, <2>9 DEF Library!Next
\* The steps of ReplaceImage before the row is written, and of the readers
<1>6. ASSUME NEW t \in Threads, \/ \E s \in Sites : UpdateSiteRead(t, s)
                                \/ \E p \in Photos : GetImage(t, p)
                                \/ \E p : ReplaceImage(t, p)
                                \/ ReplaceImageInexistent(t)
                                \/ CreateFile(t) \/ RemoveFile(t) \/ ReadFile(t)
      PROVE  UNCHANGED Library!vars
  <2>1. /\ UNCHANGED tables /\ pc[t] # "recorded" /\ pc'[t] # "recorded"
        /\ \A v \in Threads \ {t} : pc'[v] = pc[v] /\ loc'[v] = loc[v]
    <3>1. CASE \/ \E s \in Sites : UpdateSiteRead(t, s)
               \/ \E p \in Photos : GetImage(t, p)
               \/ \E p : ReplaceImage(t, p)
        BY <1>0, <1>a, <3>1 DEF UpdateSiteRead, GetImage, ReplaceImage
    <3>2. CASE ReplaceImageInexistent(t) \/ CreateFile(t) \/ RemoveFile(t) \/ ReadFile(t)
        BY <1>0, <3>2 DEF ReplaceImageInexistent, CreateFile, RemoveFile, ReadFile, Finish
    <3> QED
        BY <1>6, <3>1, <3>2
  <2>2. Late' = Late /\ \A v \in Late : loc'[v] = loc[v]
      BY <2>1 DEF Late
  <2> QED
      BY <2>1, <2>2, LibraryFrame
\* An upload is seen when its row is written ...
<1>7. ASSUME NEW t \in Threads, RecordImage(t) PROVE Library!Next
  <2>p. PICK p, f : p = loc[t].uuid /\ f = created[t]
      OBVIOUS
  <2> DEFINE row == [site |-> loc[t].site, image |-> f]
  <2>1. /\ pc[t] = "removed" /\ pc'[t] = "recorded" /\ loc' = loc
        /\ \A v \in Threads \ {t} : pc'[v] = pc[v] /\ pc[v] \notin Replacing
        /\ p \in DOMAIN photos /\ photos[p].site = loc[t].site
        /\ photos[p].image = loc[t].image /\ ReplacePhotoStatement(p, row)
      BY <1>0, <1>7, <2>p DEF RecordImage, LockInv, Replacing
  <2>2. /\ loc[t].site \in sites /\ f \in Files /\ f \notin Stored /\ ImagesDiffer
        /\ p \in Photos /\ photos[p] \in Row
      BY <1>0, <2>p, <2>1
      DEF TablesInv, ReferencesIntact, TypeInv, LocalInv, FilesInv, FilesExact
  <2>3. /\ photos' = [x \in DOMAIN photos \cup {p} |-> IF x = p THEN row ELSE photos[x]]
        /\ changes' = ChangesWithout({p}) /\ sites' = sites /\ lastSeq' = lastSeq
      BY <2>1, <2>2 DEF ReplacePhotoStatement
  <2>4. row = [photos[p] EXCEPT !.image = f]
      BY <2>1, <2>2 DEF Row
  <2>5. Pictures' = (Pictures \ {photos[p].image}) \cup {f}
    <3>1. f # NoUuid /\ NoUuid \notin Stored
        BY <2>2, StoreAssumption DEF Stored
    <3>2. /\ DOMAIN photos' = DOMAIN photos /\ photos'[p].image = f
          /\ \A x \in DOMAIN photos \ {p} : photos'[x] = photos[x]
        BY <2>1, <2>3
    <3>3. Stored' = (Stored \ {photos[p].image}) \cup {f}
        BY <2>1, <2>2, <3>1, <3>2 DEF ImagesDiffer, Stored, ImagesOf
    <3> QED
        BY <3>3 DEF View
  <2>6. /\ Uploads = lastSeq /\ Uploads' = lastSeq + 1
        /\ DOMAIN Latest = {changes[q] : q \in DOMAIN changes}
        /\ DOMAIN Latest' = {changes'[q] : q \in DOMAIN changes'} \cup {p}
        /\ Latest'[p] = lastSeq + 1
      BY <2>p, <2>1, <2>3 DEF View, Replacing
  <2>7. /\ DOMAIN changes' = {q \in DOMAIN changes : changes[q] # p}
        /\ \A q \in DOMAIN changes' : changes'[q] = changes[q]
      BY <2>3 DEF ChangesWithout
  <2>8. Latest' = Library!With(Latest, p, Uploads')
    <3>1. DOMAIN Latest' = DOMAIN Latest \cup {p}
        BY <2>6, <2>7
    <3>2. \A q \in DOMAIN changes' : Latest'[changes'[q]] = Latest[changes'[q]]
        BY <2>7 DEF View
    <3>3. \A x \in DOMAIN Latest' : x # p => Latest'[x] = Latest[x]
        BY <2>6, <3>2
    <3>4. Latest' = [x \in DOMAIN Latest' |-> Latest'[x]]
        BY DEF View
    <3> QED
        BY <2>6, <3>1, <3>3, <3>4 DEF Library!With
  <2> HIDE DEF row
  <2>9. Library!Upload(p, f)
    <3>1. f \notin Pictures /\ Uploads' = Uploads + 1
        BY <2>2, <2>6 DEF View
    <3>2. photos' = Library!With(photos, p, [photos[p] EXCEPT !.image = f])
        BY <2>3, <2>4 DEF Library!With
    <3> QED
        BY <2>1, <2>3, <2>5, <2>8, <3>1, <3>2
        DEF Library!Upload, Pictures, Latest, Told, SeqOf, Uploads
  <2> QED
      BY <2>1, <2>2, <2>9 DEF Library!Next
\* ... and its number, which the library knew, is then in the table.
<1>8. ASSUME NEW t \in Threads, RecordChange(t) PROVE UNCHANGED Library!vars
  <2>1. /\ pc[t] = "recorded" /\ UNCHANGED <<sites, photos>>
        /\ lastSeq' = lastSeq + 1 /\ lastSeq \in Nat
        /\ \A v \in Threads : pc'[v] # "recorded"
      BY <1>0, <1>8 DEF RecordChange, Finish, LockInv, Replacing, TypeInv, TypeOK
  <2>2. /\ DOMAIN changes' = DOMAIN changes \cup {lastSeq + 1}
        /\ changes'[lastSeq + 1] = loc[t].uuid
        /\ \A q \in DOMAIN changes : q # lastSeq + 1 /\ changes'[q] = changes[q]
      BY <1>0, <1>8 DEF RecordChange, TypeInv, TypeOK
  <2>3. Pictures' = Pictures
      BY <2>1 DEF View, Stored, ImagesOf
  <2>4. Uploads' = Uploads
      BY <2>1 DEF View
  <2>5. Latest' = Latest
    <3>p. PICK p : p = loc[t].uuid
        OBVIOUS
    <3>1. /\ DOMAIN Latest = {changes[q] : q \in DOMAIN changes} \cup {p}
          /\ Latest[p] = lastSeq + 1
          /\ \A q \in DOMAIN changes : Latest[changes[q]] = q
        BY <2>1, <3>p DEF View
    <3>2. /\ DOMAIN Latest' = {changes'[q] : q \in DOMAIN changes'}
          /\ \A q \in DOMAIN changes' : Latest'[changes'[q]] = q
        BY <2>1 DEF View
    <3>3. DOMAIN Latest' = DOMAIN Latest
        BY <2>2, <3>p, <3>1, <3>2
    <3>4. /\ Latest'[p] = lastSeq + 1
          /\ \A q \in DOMAIN changes : Latest'[changes[q]] = q
        BY <2>2, <3>p, <3>2
    <3>5. \A x \in DOMAIN Latest : Latest'[x] = Latest[x]
        BY <3>1, <3>4
    <3> QED
        BY <3>3, <3>5 DEF View
  <2> QED
      BY <2>1, <2>3, <2>4, <2>5
      DEF Library!vars, Pictures, Latest, Told, SeqOf, Uploads
<1>9. CASE UNCHANGED vars
  <2>1. UNCHANGED tables /\ Late' = Late /\ \A v \in Late : loc'[v] = loc[v]
      BY <1>9 DEF vars, Late
  <2> QED
      BY <2>1, LibraryFrame
\* Nothing fails and no photo is PUT.
<1>10. ASSUME NEW t \in Threads, \/ \E p \in Photos : UpdatePhotoRead(t, p)
                                 \/ UpdatePhotoWrite(t)
                                 \/ ReplaceImageFails(t)
       PROVE  FALSE
    BY <1>0, <1>10
    DEF UpdatePhotoRead, UpdatePhotoWrite, ReplaceImageFails, FilesInv
<1>11. CASE Crash
    BY <1>0, <1>11 DEF Crash
<1> QED
    BY <1>1, <1>2, <1>3, <1>4, <1>5, <1>6, <1>7, <1>8, <1>9, <1>10, <1>11
    DEF Next, Request, Continue

\* With no failure and no PUT of a photo the store is the library of PhotoLibrary:
\* for the reader an upload, which is four writes in ReplaceImage, is one step,
\* and so are the deletion of a site with its photos and their images.
THEOREM StoreIsALibrary ==
    ASSUME MaxFailures = 0, ~PhotoPuts PROVE Spec => ImplementsLibrary
<1>1. TypeInv => Clean
    BY DEF TypeInv, TypeOK, Clean
<1>2. TypeInv /\ LockInv /\ TablesInv /\ FilesInv /\ FunctionsInv => StoreInv
    BY <1>1 DEF StoreInv
<1>3. StoreInv => View
    BY ViewIs
<1>4. StoreInv /\ StoreInv' /\ View /\ View' /\ [Next]_vars
      => [Library!Next]_Library!vars
    BY LibraryStep
<1> QED
    BY <1>2, <1>3, <1>4, TypeInvariance, TablesInvariance, FilesInvariance,
       FunctionsInit, FunctionsStep, LibraryInit, PTL
    DEF Spec, ImplementsLibrary, Library!Spec
=============================================================================
