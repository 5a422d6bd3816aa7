-------------------------- MODULE SiteArchiveProofs --------------------------
(***************************************************************************)
(* Proofs about SiteArchive, for any number of archives made at once, and  *)
(* everything that PhotoStore leaves open.                                 *)
(***************************************************************************)
EXTENDS SiteArchive, PhotoStoreProofs

(***************************************************************************)
(* Every step of the composition is a step of the store or leaves it alone.*)
(***************************************************************************)
LEMMA StepOfStore == [ArchiveNext]_allVars => [Next]_vars
<1>1. StoreStep \/ ArchiveCrash => Next
    BY DEF StoreStep, ArchiveCrash, Next
<1>2. ASSUME NEW d \in Downloads,
             \/ \E s \in Sites : GetArchive(d, s)
             \/ ListPhotos(d) \/ ReadRow(d) \/ AddImage(d) \/ Fail(d) \/ SendArchive(d)
      PROVE  UNCHANGED vars
    BY <1>2 DEF GetArchive, ListPhotos, ReadRow, AddImage, Fail, SendArchive
<1> QED
    BY <1>1, <1>2 DEF ArchiveNext, allVars

\* Whatever the requests of archives do between its steps, the store runs as it
\* does alone, so that all its theorems hold with them (GetSiteArchive).
THEOREM ArchivesOnlyRead == ArchiveSpec => Spec
<1>1. ArchiveInit => Init
    BY DEF ArchiveInit
<1> QED
    BY <1>1, StepOfStore, PTL DEF ArchiveSpec, Spec

LEMMA StoreSafeUnderArchives == ArchiveSpec => []StoreSafe
    BY ArchivesOnlyRead, StoreSafeInit, StoreSafeStep, PTL DEF Spec

LEMMA ArchiveOverStore == ArchiveSpec => [](TypeInv /\ LockInv /\ FilesInv)
<1>1. StoreSafe => TypeInv /\ LockInv /\ FilesInv
    BY DEF StoreSafe
<1> QED
    BY <1>1, StoreSafeUnderArchives, PTL

\* What the store promises holds while archives are made: nothing is lost by
\* reading it without a transaction (GetSiteArchive).
THEOREM ArchivesKeepTheStore == ArchiveSpec => []StorePromise
    BY StoreSafeUnderArchives, SafeStoreKeepsPromise, PTL

\* With no failure and no PUT of a photo the store is still the library of
\* PhotoLibrary for whoever makes archives of it.
THEOREM ArchivesReadALibrary ==
    ASSUME MaxFailures = 0, ~PhotoPuts PROVE ArchiveSpec => ImplementsLibrary
    BY ArchivesOnlyRead, StoreIsALibrary, PTL

-----------------------------------------------------------------------------
(***************************************************************************)
(* Types.                                                                  *)
(***************************************************************************)
ArchiveTypeInv ==
    ArchiveTypeOK /\ \A d \in Downloads : phase[d] = "rowRead" => row[d].photo \in Photos

LEMMA ArchiveTypeInit == ArchiveInit => ArchiveTypeInv
    BY DEF ArchiveInit, ArchiveTypeInv, ArchiveTypeOK, Phases, Images, NothingRead, NoImages

LEMMA ArchiveTypeStep ==
    TypeOK /\ TypeOK' /\ ArchiveTypeInv /\ [ArchiveNext]_allVars => ArchiveTypeInv'
<1> SUFFICES ASSUME TypeOK, TypeOK', ArchiveTypeInv, [ArchiveNext]_allVars
             PROVE  ArchiveTypeInv'
    OBVIOUS
<1> USE DEF Phases, ArchiveTypeInv
<1>1. /\ Held \subseteq Photos \X (Files \cup {NoUuid})
      /\ Held' \subseteq Photos \X (Files \cup {NoUuid})
    BY DEF TypeOK, Held, Row
<1>2. ASSUME Watch
      PROVE  /\ had' \in [Downloads -> SUBSET (Photos \X (Files \cup {NoUuid}))]
             /\ touched' \in [Downloads -> BOOLEAN]
    BY <1>1, <1>2 DEF Watch, ArchiveTypeOK
<1>3. CASE StoreStep
    BY <1>2, <1>3 DEF StoreStep, request, ArchiveTypeOK
<1>4. CASE ArchiveCrash
  <2>1. phase' \in [Downloads -> Phases]
      BY <1>4 DEF ArchiveCrash, ArchiveTypeOK
  <2> QED
      BY <1>2, <1>4, <2>1 DEF ArchiveCrash, ArchiveTypeOK
<1>5. ASSUME NEW d \in Downloads, NEW s \in Sites, GetArchive(d, s) PROVE ArchiveTypeInv'
    BY <1>5 DEF GetArchive, ArchiveTypeOK, Images, NothingRead, NoImages
<1>6. ASSUME NEW d \in Downloads, ListPhotos(d) PROVE ArchiveTypeInv'
  <2>1. PhotosOf({site[d]}) \subseteq Photos
      BY DEF PhotosOf, TypeOK
  <2> QED
      BY <1>1, <1>6, <2>1 DEF ListPhotos, ArchiveTypeOK
<1>7. ASSUME NEW d \in Downloads, ReadRow(d) PROVE ArchiveTypeInv'
    BY <1>7 DEF ReadRow, ArchiveTypeOK, Images, TypeOK, Row
<1>8. ASSUME NEW d \in Downloads, AddImage(d) PROVE ArchiveTypeInv'
  <2>1. row[d].image \in Files /\ row[d].photo \in Photos
      BY <1>8 DEF AddImage, TypeOK
  <2> QED
      BY <1>8, <2>1 DEF AddImage, ArchiveTypeOK, Images, NothingRead
<1>9. ASSUME NEW d \in Downloads, Fail(d) \/ SendArchive(d) PROVE ArchiveTypeInv'
    BY <1>9 DEF Fail, SendArchive, ArchiveTypeOK
<1>10. CASE UNCHANGED allVars
    BY <1>10 DEF allVars, archiveVars, request, ArchiveTypeOK
<1> QED
    BY <1>3, <1>4, <1>5, <1>6, <1>7, <1>8, <1>9, <1>10 DEF ArchiveNext

LEMMA ArchiveTypeInvariance == ArchiveSpec => [](TypeOK /\ ArchiveTypeInv)
<1>1. TypeInv => TypeOK
    BY DEF TypeInv
<1>2. ArchiveSpec => []TypeOK
    BY <1>1, ArchiveOverStore, PTL
<1> QED
    BY <1>2, ArchiveTypeInit, ArchiveTypeStep, PTL DEF ArchiveSpec

\* What a request has read and written keeps its type (GetSiteArchive).
THEOREM ArchiveTypeCorrect == ArchiveSpec => []ArchiveTypeOK
<1>1. ArchiveTypeInv => ArchiveTypeOK
    BY DEF ArchiveTypeInv
<1> QED
    BY <1>1, ArchiveTypeInvariance, PTL

-----------------------------------------------------------------------------
(***************************************************************************)
(* Completeness.  A listed photo is still to do, being read, or packed, and*)
(* what was read of it is an image it had since it was listed.             *)
(***************************************************************************)
CompleteInv ==
    \A d \in Downloads :
        /\ phase[d] \in {"listed", "rowRead"} => Held \subseteq had[d]
        /\ phase[d] = "siteRead" => DOMAIN packed[d] = {}
        /\ phase[d] = "listed" => listed[d] = todo[d] \cup DOMAIN packed[d]
        /\ phase[d] = "rowRead" =>
              /\ listed[d] = todo[d] \cup DOMAIN packed[d] \cup {row[d].photo}
              /\ row[d].image # NoUuid => <<row[d].photo, row[d].image>> \in had[d]
        /\ phase[d] = "answered" => DOMAIN packed[d] = listed[d]
        /\ phase[d] \in {"listed", "rowRead", "answered"} =>
              \A p \in DOMAIN packed[d] : <<p, packed[d][p]>> \in had[d]

\* The store does a step: histories only grow.
LEMMA WatchComplete ==
    ASSUME ArchiveTypeInv, CompleteInv, Watch, UNCHANGED <<site, todo, row, packed, listed>>,
           \A d \in Downloads :
               phase'[d] = phase[d] \/ (UnderWay(d) /\ phase'[d] = "none")
    PROVE  CompleteInv'
<1> SUFFICES ASSUME NEW d \in Downloads,
                    phase'[d] # "none"
             PROVE  CompleteInv!(d)'
    BY DEF CompleteInv
<1>1. phase'[d] = phase[d]
    OBVIOUS
<1>2. had[d] \subseteq had'[d]
    BY DEF Watch
<1>3. phase[d] \in {"listed", "rowRead"} => Held' \subseteq had'[d]
    BY DEF Watch, UnderWay
<1> QED
    BY <1>1, <1>2, <1>3 DEF CompleteInv

LEMMA CompleteStep ==
    TypeOK /\ ArchiveTypeInv /\ CompleteInv /\ [ArchiveNext]_allVars => CompleteInv'
<1> SUFFICES ASSUME TypeOK, ArchiveTypeInv, CompleteInv, [ArchiveNext]_allVars
             PROVE  CompleteInv'
    OBVIOUS
<1> USE DEF ArchiveTypeInv
<1>1. CASE StoreStep
    BY <1>1, WatchComplete DEF StoreStep, request
<1>2. CASE ArchiveCrash
  <2>1. \A d \in Downloads : phase'[d] = phase[d] \/ (UnderWay(d) /\ phase'[d] = "none")
      BY <1>2 DEF ArchiveCrash
  <2> QED
      BY <1>2, <2>1, WatchComplete DEF ArchiveCrash
<1>3. UNCHANGED vars => Held' = Held
    BY DEF vars, tables, Held
<1>4. ASSUME NEW d \in Downloads, NEW s \in Sites, GetArchive(d, s) PROVE CompleteInv'
    BY <1>3, <1>4 DEF GetArchive, NoImages, ArchiveTypeOK, CompleteInv
<1>5. ASSUME NEW d \in Downloads, ListPhotos(d) PROVE CompleteInv'
    BY <1>3, <1>5 DEF ListPhotos, ArchiveTypeOK, CompleteInv
<1>6. ASSUME NEW d \in Downloads, ReadRow(d) PROVE CompleteInv'
  <2>1. PICK p \in todo[d] :
            /\ todo' = [todo EXCEPT ![d] = @ \ {p}]
            /\ row' = [row EXCEPT ![d] =
                  [photo |-> p,
                   image |-> IF p \in DOMAIN photos THEN photos[p].image ELSE NoUuid]]
      BY <1>6 DEF ReadRow
  <2>2. /\ phase' = [phase EXCEPT ![d] = "rowRead"] /\ phase[d] = "listed"
        /\ UNCHANGED <<vars, site, packed, listed, had, touched>>
      BY <1>6 DEF ReadRow
  <2>3. row'[d].photo = p /\ (row'[d].image # NoUuid => <<p, row'[d].image>> \in Held)
      BY <2>1 DEF ArchiveTypeOK, Held
  <2>4. todo'[d] \cup {p} = todo[d]
      BY <2>1 DEF ArchiveTypeOK
  <2>5. \A e \in Downloads \ {d} : todo'[e] = todo[e] /\ row'[e] = row[e] /\ phase'[e] = phase[e]
      BY <2>1, <2>2 DEF ArchiveTypeOK
  <2>6. phase'[d] = "rowRead"
      BY <2>2 DEF ArchiveTypeOK
  <2> QED
      BY <1>3, <2>2, <2>3, <2>4, <2>5, <2>6 DEF CompleteInv
<1>7. ASSUME NEW d \in Downloads, AddImage(d) PROVE CompleteInv'
  <2> DEFINE r == row[d]
  <2>1. /\ phase[d] = "rowRead" /\ r.image \in files /\ phase'[d] = "listed"
        /\ UNCHANGED <<vars, site, todo, listed, had, touched>>
      BY <1>7 DEF AddImage, ArchiveTypeOK
  <2>2. /\ DOMAIN packed'[d] = DOMAIN packed[d] \cup {r.photo}
        /\ \A p \in DOMAIN packed'[d] :
              packed'[d][p] = IF p = r.photo THEN r.image ELSE packed[d][p]
      BY <1>7 DEF AddImage, ArchiveTypeOK
  <2>3. \A e \in Downloads \ {d} :
            packed'[e] = packed[e] /\ row'[e] = row[e] /\ phase'[e] = phase[e]
      BY <1>7 DEF AddImage, ArchiveTypeOK
  <2>4. r.image # NoUuid
      BY <2>1, StoreAssumption DEF TypeOK
  <2>5. ASSUME NEW e \in Downloads \ {d} PROVE CompleteInv!(e)'
      BY <1>3, <2>1, <2>3 DEF CompleteInv
  <2>6. /\ Held' \subseteq had'[d] /\ listed'[d] = todo'[d] \cup DOMAIN packed'[d]
        /\ \A p \in DOMAIN packed'[d] : <<p, packed'[d][p]>> \in had'[d]
      BY <1>3, <2>1, <2>2, <2>4 DEF CompleteInv
  <2>7. CompleteInv!(d)'
      BY <2>1, <2>6
  <2> QED
      BY <2>5, <2>7 DEF CompleteInv
<1>8. ASSUME NEW d \in Downloads, Fail(d) \/ SendArchive(d) PROVE CompleteInv'
  <2>1. /\ UNCHANGED <<vars, site, todo, row, packed, listed, had, touched>>
        /\ \/ phase'[d] = "failed"
           \/ phase[d] = "listed" /\ todo[d] = {} /\ phase'[d] = "answered"
        /\ \A e \in Downloads \ {d} : phase'[e] = phase[e]
      BY <1>8 DEF Fail, SendArchive, ArchiveTypeOK
  <2>2. ASSUME NEW e \in Downloads \ {d} PROVE CompleteInv!(e)'
      BY <1>3, <2>1 DEF CompleteInv
  <2>3. CompleteInv!(d)'
      BY <1>3, <2>1 DEF CompleteInv
  <2> QED
      BY <2>2, <2>3 DEF CompleteInv
<1>9. CASE UNCHANGED allVars
    BY <1>3, <1>9 DEF allVars, archiveVars, request, CompleteInv
<1> QED
    BY <1>1, <1>2, <1>4, <1>5, <1>6, <1>7, <1>8, <1>9 DEF ArchiveNext

\* Whatever is uploaded, deleted or replaced meanwhile, with crashes and PUTs of
\* photos, an archive that is answered leaves no listed photo out and packs under
\* each an image that it had (GetSiteArchive).
THEOREM ArchivesAreComplete == ArchiveSpec => []ArchiveComplete
<1>1. ArchiveInit => CompleteInv
    BY DEF ArchiveInit, CompleteInv
<1>2. CompleteInv => ArchiveComplete
    BY DEF CompleteInv, ArchiveComplete
<1> QED
    BY <1>1, <1>2, CompleteStep, ArchiveTypeInvariance, PTL DEF ArchiveSpec

-----------------------------------------------------------------------------
(***************************************************************************)
(* Failures.                                                               *)
(***************************************************************************)

\* While nothing fails, the file of an image that a photo still has is missing
\* only while an upload replaces it (GetSiteArchive, ReplaceImage).
THEOREM ArchivesFailForAReason == ArchiveSpec => []ArchiveFailsForAReason
<1>1. TypeInv /\ LockInv /\ FilesInv => ArchiveFailsForAReason
  <2> SUFFICES ASSUME TypeInv, LockInv, FilesInv, Clean, NEW d \in Downloads,
                      row[d].image \notin files \cup {NoUuid},
                      row[d].photo \in DOMAIN photos,
                      row[d].photo \notin BusyWith,
                      photos[row[d].photo].image = row[d].image
               PROVE  FALSE
      BY DEF ArchiveFailsForAReason, Clean
  <2> QED
      BY ImageIsStored
<1> QED
    BY <1>1, ArchiveOverStore, PTL

-----------------------------------------------------------------------------
(***************************************************************************)
(* Quiet archives.  While nobody touches the site, what was listed, read   *)
(* and packed of it is still so.                                           *)
(***************************************************************************)
QuietInv ==
    \A d \in Downloads :
        UnderWay(d) /\ ~touched[d] =>
            /\ ~Uploading(site[d])
            /\ phase[d] \in {"listed", "rowRead"} => PhotosOf({site[d]}) = listed[d]
            /\ phase[d] = "rowRead" =>
                  /\ row[d].photo \in PhotosOf({site[d]})
                  /\ row[d].image = photos[row[d].photo].image
            /\ \A p \in DOMAIN packed[d] :
                  p \in PhotosOf({site[d]}) /\ packed[d][p] = photos[p].image

\* A site whose rows stay has the same photos with the same images.
LEMMA SameRows ==
    ASSUME NEW s, Rows(s)' = Rows(s)
    PROVE  /\ PhotosOf({s})' = PhotosOf({s})
           /\ \A p \in PhotosOf({s}) : photos'[p] = photos[p]
<1>1. {<<p, photos'[p]>> : p \in PhotosOf({s})'} = {<<p, photos[p]>> : p \in PhotosOf({s})}
    BY DEF Rows
<1>2. ASSUME NEW p \in PhotosOf({s})'
      PROVE  p \in PhotosOf({s}) /\ photos'[p] = photos[p]
  <2>1. <<p, photos'[p]>> \in {<<q, photos[q]>> : q \in PhotosOf({s})}
      BY <1>1
  <2>2. PICK q \in PhotosOf({s}) : <<p, photos'[p]>> = <<q, photos[q]>>
      BY <2>1
  <2> QED
      BY <2>2
<1>3. ASSUME NEW p \in PhotosOf({s}) PROVE p \in PhotosOf({s})'
  <2>1. <<p, photos[p]>> \in {<<q, photos'[q]>> : q \in PhotosOf({s})'}
      BY <1>1
  <2>2. PICK q \in PhotosOf({s})' : <<p, photos[p]>> = <<q, photos'[q]>>
      BY <2>1
  <2> QED
      BY <2>2
<1> QED
    BY <1>2, <1>3

LEMMA QuietStep ==
    TypeInv /\ LockInv /\ ArchiveTypeInv /\ CompleteInv /\ QuietInv /\ [ArchiveNext]_allVars
        => QuietInv'
<1> SUFFICES ASSUME TypeInv, LockInv, ArchiveTypeInv, CompleteInv, QuietInv,
                    [ArchiveNext]_allVars
             PROVE  QuietInv'
    OBVIOUS
<1> USE DEF ArchiveTypeInv
<1>0. ASSUME UNCHANGED vars, NEW d \in Downloads, \A e \in Downloads \ {d} :
                 /\ phase'[e] = phase[e] /\ site'[e] = site[e] /\ row'[e] = row[e]
                 /\ packed'[e] = packed[e] /\ listed'[e] = listed[e]
                 /\ touched'[e] = touched[e],
             QuietInv!(d)'
      PROVE  QuietInv'
  <2>1. /\ \A S : PhotosOf(S)' = PhotosOf(S)
        /\ BusyWith' = BusyWith /\ photos' = photos
      BY <1>0 DEF vars, tables, handler, PhotosOf, BusyWith
  <2>2. ASSUME NEW e \in Downloads \ {d} PROVE QuietInv!(e)'
    <3>1. /\ UnderWay(e)' <=> UnderWay(e)
          /\ Uploading(site[e])' <=> Uploading(site[e])
        BY <1>0, <2>1, <2>2 DEF UnderWay, Uploading
    <3> QED
        BY <1>0, <2>1, <2>2, <3>1 DEF QuietInv
  <2> QED
      BY <1>0, <2>2 DEF QuietInv
<1>1. CASE StoreStep
  <2> SUFFICES ASSUME NEW d \in Downloads, UnderWay(d)', ~touched'[d]
               PROVE  QuietInv!(d)!2'
      BY DEF QuietInv
  <2>1. UNCHANGED <<phase, site, todo, row, packed, listed>>
      BY <1>1 DEF StoreStep, request
  <2>2. UnderWay(d)
      BY <2>1 DEF UnderWay
  <2>3. ~touched[d] /\ Rows(site[d])' = Rows(site[d]) /\ ~Uploading(site[d])'
      BY <1>1, <2>2 DEF StoreStep, Watch, ArchiveTypeOK
  <2>4. /\ PhotosOf({site[d]})' = PhotosOf({site[d]})
        /\ \A p \in PhotosOf({site[d]}) : photos'[p] = photos[p]
      BY <2>1, <2>3, SameRows
  <2> QED
      BY <2>1, <2>2, <2>3, <2>4 DEF QuietInv
<1>2. CASE ArchiveCrash
    BY <1>2 DEF ArchiveCrash, QuietInv, UnderWay, ArchiveTypeOK
<1>3. Unlocked => BusyWith = {}
    BY StoreAssumption DEF Unlocked, LockInv, BusyWith
<1>4. ASSUME NEW d \in Downloads, NEW s \in Sites, GetArchive(d, s) PROVE QuietInv'
  <2>1. /\ UNCHANGED vars /\ Unlocked
        /\ packed'[d] = NoImages /\ phase'[d] \in {"siteRead", "answered"}
        /\ \A e \in Downloads \ {d} :
              /\ phase'[e] = phase[e] /\ site'[e] = site[e] /\ row'[e] = row[e]
              /\ packed'[e] = packed[e] /\ listed'[e] = listed[e]
              /\ touched'[e] = touched[e]
      BY <1>4 DEF GetArchive, ArchiveTypeOK
  <2>2. BusyWith' = {}
      BY <1>3, <2>1 DEF vars, handler, BusyWith
  <2>3. QuietInv!(d)'
      BY <2>1, <2>2 DEF Uploading, NoImages
  <2> QED
      BY <1>0, <2>1, <2>3
<1>5. ASSUME NEW d \in Downloads, ListPhotos(d) PROVE QuietInv'
  <2>1. /\ UNCHANGED <<vars, site, row, packed, touched>> /\ Unlocked
        /\ phase[d] = "siteRead" /\ phase'[d] = "listed"
        /\ listed'[d] = PhotosOf({site[d]})
        /\ \A e \in Downloads \ {d} : phase'[e] = phase[e] /\ listed'[e] = listed[e]
      BY <1>5 DEF ListPhotos, ArchiveTypeOK
  <2>2. BusyWith' = {} /\ \A S : PhotosOf(S)' = PhotosOf(S)
      BY <1>3, <2>1 DEF vars, tables, handler, BusyWith, PhotosOf
  <2>3. DOMAIN packed'[d] = {}
      BY <2>1 DEF CompleteInv
  <2>4. QuietInv!(d)'
      BY <2>1, <2>2, <2>3 DEF Uploading
  <2> QED
      BY <1>0, <2>1, <2>4
<1>6. ASSUME NEW d \in Downloads, ReadRow(d) PROVE QuietInv'
  <2>1. PICK p \in todo[d] :
            row' = [row EXCEPT ![d] =
                [photo |-> p,
                 image |-> IF p \in DOMAIN photos THEN photos[p].image ELSE NoUuid]]
      BY <1>6 DEF ReadRow
  <2>2. /\ UNCHANGED <<vars, site, packed, listed, touched>>
        /\ phase[d] = "listed" /\ phase'[d] = "rowRead"
        /\ \A e \in Downloads \ {d} : phase'[e] = phase[e] /\ row'[e] = row[e]
      BY <1>6, <2>1 DEF ReadRow, ArchiveTypeOK
  <2>3. /\ row'[d].photo = p
        /\ row'[d].image = IF p \in DOMAIN photos THEN photos[p].image ELSE NoUuid
      BY <2>1 DEF ArchiveTypeOK
  <2>4. photos' = photos /\ BusyWith' = BusyWith /\ \A S : PhotosOf(S)' = PhotosOf(S)
      BY <2>2 DEF vars, tables, handler, BusyWith, PhotosOf
  <2>5. UnderWay(d) /\ p \in listed[d]
      BY <2>1, <2>2 DEF UnderWay, CompleteInv
  <2>6. \A S : PhotosOf(S) \subseteq DOMAIN photos
      BY DEF PhotosOf
  <2>7. ASSUME ~touched[d]
        PROVE  /\ ~Uploading(site[d]) /\ PhotosOf({site[d]}) = listed[d]
               /\ p \in PhotosOf({site[d]}) /\ p \in DOMAIN photos
               /\ \A q \in DOMAIN packed[d] :
                     q \in PhotosOf({site[d]}) /\ packed[d][q] = photos[q].image
      BY <2>2, <2>5, <2>6, <2>7 DEF QuietInv
  <2>8. ASSUME ~touched[d]
        PROVE  ~Uploading(site[d])'
      BY <2>2, <2>4, <2>7, <2>8 DEF Uploading
  <2>9. QuietInv!(d)'
      BY <2>2, <2>3, <2>4, <2>7, <2>8
  <2> QED
      BY <1>0, <2>2, <2>9
<1>7. ASSUME NEW d \in Downloads, AddImage(d) PROVE QuietInv'
  <2>1. /\ UNCHANGED <<vars, site, listed, touched>>
        /\ phase[d] = "rowRead" /\ phase'[d] = "listed"
        /\ \A e \in Downloads \ {d} :
              phase'[e] = phase[e] /\ row'[e] = row[e] /\ packed'[e] = packed[e]
      BY <1>7 DEF AddImage, ArchiveTypeOK
  <2>2. /\ DOMAIN packed'[d] = DOMAIN packed[d] \cup {row[d].photo}
        /\ \A p \in DOMAIN packed'[d] :
              packed'[d][p] = IF p = row[d].photo THEN row[d].image ELSE packed[d][p]
      BY <1>7 DEF AddImage, ArchiveTypeOK
  <2>3. photos' = photos /\ BusyWith' = BusyWith /\ \A S : PhotosOf(S)' = PhotosOf(S)
      BY <2>1 DEF vars, tables, handler, BusyWith, PhotosOf
  <2>4. QuietInv!(d)'
      BY <2>1, <2>2, <2>3 DEF QuietInv, Uploading, UnderWay
  <2> QED
      BY <1>0, <2>1, <2>4
<1>8. ASSUME NEW d \in Downloads, Fail(d) \/ SendArchive(d) PROVE QuietInv'
  <2>1. /\ UNCHANGED <<vars, site, row, packed, listed, touched>>
        /\ phase'[d] \in {"failed", "answered"}
        /\ \A e \in Downloads \ {d} : phase'[e] = phase[e]
      BY <1>8 DEF Fail, SendArchive, ArchiveTypeOK
  <2>2. QuietInv!(d)'
      BY <2>1 DEF UnderWay
  <2> QED
      BY <1>0, <2>1, <2>2
<1>9. CASE UNCHANGED allVars
    BY <1>9 DEF allVars, vars, tables, handler, archiveVars, request, QuietInv, UnderWay,
                Uploading, PhotosOf, BusyWith
<1> QED
    BY <1>1, <1>2, <1>4, <1>5, <1>6, <1>7, <1>8, <1>9 DEF ArchiveNext

LEMMA QuietInvariance == ArchiveSpec => []QuietInv
<1>1. ArchiveInit => CompleteInv /\ QuietInv
    BY DEF ArchiveInit, CompleteInv, QuietInv, UnderWay
<1> QED
    BY <1>1, CompleteStep, QuietStep, ArchiveTypeInvariance, ArchiveOverStore, PTL
    DEF ArchiveSpec

\* What a quiet request has read is the row as it is.
LEMMA QuietRow ==
    ASSUME QuietInv, NEW d \in Downloads, ~touched[d], phase[d] = "rowRead"
    PROVE  /\ row[d].photo \in DOMAIN photos /\ row[d].photo \notin BusyWith
           /\ row[d].image = photos[row[d].photo].image
<1>1. UnderWay(d)
    BY DEF UnderWay
<1>2. row[d].photo \in PhotosOf({site[d]}) /\ ~Uploading(site[d])
    BY <1>1 DEF QuietInv
<1> QED
    BY <1>1, <1>2 DEF QuietInv, Uploading, PhotosOf

\* The archive of a site that nobody touches is the site, unless a photo has no
\* image, or lost it to an earlier failure (GetSiteArchive).
THEOREM QuietArchivesAreExact == ArchiveSpec => []QuietArchive
<1>1. QuietInv => QuietArchive
  <2> SUFFICES ASSUME QuietInv, NEW d \in Downloads, ~touched[d], UnderWay(d)
               PROVE  /\ (phase[d] = "rowRead" /\ row[d].image \notin files) =>
                            \/ photos[row[d].photo].image = NoUuid
                            \/ row[d].photo \in Damaged
                      /\ \A p \in DOMAIN packed[d] :
                            p \in PhotosOf({site[d]}) /\ packed[d][p] = photos[p].image
                      /\ (phase[d] \in {"listed", "rowRead"}) =>
                            PhotosOf({site[d]}) = listed[d]
      BY DEF QuietArchive, UnderWay
  <2>1. ASSUME phase[d] = "rowRead", row[d].image \notin files,
               photos[row[d].photo].image # NoUuid
        PROVE  row[d].photo \in Damaged
      BY <2>1, QuietRow DEF Damaged, BusyWith, Replacing
  <2> QED
      BY <2>1 DEF QuietInv
<1> QED
    BY <1>1, QuietInvariance, PTL

\* While nothing has failed and no photo is PUT, no image is lost: the archive of a
\* site that nobody touches fails only because a photo has no image yet.
THEOREM QuietArchivesAreWhole ==
    ArchiveSpec =>
        [](Clean => \A d \in Downloads :
              ~touched[d] /\ phase[d] = "rowRead" /\ row[d].image \notin files =>
                  photos[row[d].photo].image = NoUuid)
<1>1. TypeInv /\ LockInv /\ FilesInv /\ QuietInv
      => (Clean => \A d \in Downloads :
              ~touched[d] /\ phase[d] = "rowRead" /\ row[d].image \notin files =>
                  photos[row[d].photo].image = NoUuid)
    BY QuietRow, ImageIsStored
<1> QED
    BY <1>1, QuietInvariance, ArchiveOverStore, PTL
=============================================================================
