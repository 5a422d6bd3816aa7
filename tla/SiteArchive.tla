----------------------------- MODULE SiteArchive -----------------------------
(***************************************************************************)
(* GET /sites/{uuid}/archive (PhotoTrackApi.cpp, GetSiteArchive): a ZIP    *)
(* file with the images of a site, composed with PhotoStore.               *)
(*                                                                         *)
(* The handler reads the site, lists its photos, and then reads for each   *)
(* photo first its row, again, and then its file.  Every read of the       *)
(* database takes the mutex for itself; the files are read without it.     *)
(* Between any two of these the store may do any of its steps.  The result *)
(* of the second reading of the row is not looked at: the Photo object of  *)
(* a photo deleted by then is a new one, without an image.  A file that is *)
(* not there throws, and the whole request fails.                          *)
(*                                                                         *)
(* A definition marked "mutant" is a plausible mistake in the definition   *)
(* after it; the specification never uses it.                              *)
(***************************************************************************)
EXTENDS PhotoStore

CONSTANTS
    Downloads,  \* the requests of archives that are under way at once
    NoSite

ASSUME ArchiveAssumption == NoSite \notin Sites

VARIABLES
    phase,      \* how far the request is
    site,       \* the site it is for
    todo,       \* the photos listed and not yet read
    row,        \* the photo and the image of the Photo object
    packed,     \* the images written to the ZIP file, by photo
    listed,     \* history: the photos listed
    had,        \* history: the images the photos had since they were listed
    touched     \* history: whether the site or its photos changed meanwhile

request     == <<phase, site, todo, row, packed>>
archiveVars == <<request, listed, had, touched>>
allVars     == <<vars, archiveVars>>

-----------------------------------------------------------------------------
Phases == {"none", "siteRead", "listed", "rowRead", "answered", "failed"}

Images == [photo : Photos \cup {NoUuid}, image : Files \cup {NoUuid}]

NothingRead == [photo |-> NoUuid, image |-> NoUuid]

ArchiveTypeOK ==
    /\ phase \in [Downloads -> Phases]
    /\ site \in [Downloads -> Sites \cup {NoSite}]
    /\ todo \in [Downloads -> SUBSET Photos]
    /\ row \in [Downloads -> Images]
    /\ DOMAIN packed = Downloads
    /\ \A d \in Downloads : /\ DOMAIN packed[d] \subseteq Photos
                            /\ \A p \in DOMAIN packed[d] : packed[d][p] \in Files
    /\ listed \in [Downloads -> SUBSET Photos]
    /\ had \in [Downloads -> SUBSET (Photos \X (Files \cup {NoUuid}))]
    /\ touched \in [Downloads -> BOOLEAN]

NoImages == [p \in {} |-> NoUuid]

ArchiveInit ==
    /\ Init
    /\ phase = [d \in Downloads |-> "none"]
    /\ site = [d \in Downloads |-> NoSite]
    /\ todo = [d \in Downloads |-> {}]
    /\ row = [d \in Downloads |-> NothingRead]
    /\ packed = [d \in Downloads |-> NoImages]
    /\ listed = [d \in Downloads |-> {}]
    /\ had = [d \in Downloads |-> {}]
    /\ touched = [d \in Downloads |-> FALSE]

\* The images of all photos, by photo.
Held == {<<p, photos[p].image>> : p \in DOMAIN photos}

\* A new request; GetSite.  The archive of an unknown site is an empty one.
GetArchive(d, s) ==
    /\ phase[d] \in {"none", "answered", "failed"} /\ Unlocked
    /\ phase' = [phase EXCEPT ![d] = IF s \in sites THEN "siteRead" ELSE "answered"]
    /\ site' = [site EXCEPT ![d] = s]
    /\ todo' = [todo EXCEPT ![d] = {}]
    /\ row' = [row EXCEPT ![d] = NothingRead]
    /\ packed' = [packed EXCEPT ![d] = NoImages]
    /\ listed' = [listed EXCEPT ![d] = {}]
    /\ had' = [had EXCEPT ![d] = {}]
    /\ touched' = [touched EXCEPT ![d] = FALSE]
    /\ UNCHANGED vars

\* mutant: the photos without an image are left out
ListPhotosWithImage(d) ==
    /\ phase[d] = "siteRead" /\ Unlocked
    /\ phase' = [phase EXCEPT ![d] = "listed"]
    /\ LET found == {p \in PhotosOf({site[d]}) : photos[p].image # NoUuid} IN
          todo' = [todo EXCEPT ![d] = found] /\ listed' = [listed EXCEPT ![d] = found]
    /\ had' = [had EXCEPT ![d] = Held]
    /\ UNCHANGED <<vars, site, row, packed, touched>>

\* GetPhotos of the site
ListPhotos(d) ==
    /\ phase[d] = "siteRead" /\ Unlocked
    /\ phase' = [phase EXCEPT ![d] = "listed"]
    /\ todo' = [todo EXCEPT ![d] = PhotosOf({site[d]})]
    /\ listed' = [listed EXCEPT ![d] = PhotosOf({site[d]})]
    /\ had' = [had EXCEPT ![d] = Held]
    /\ UNCHANGED <<vars, site, row, packed, touched>>

\* mutant: the next photo's row is read before this one's file, into one object
ReadRowAnyTime(d) ==
    /\ phase[d] \in {"listed", "rowRead"} /\ Unlocked
    /\ \E p \in todo[d] :
          /\ todo' = [todo EXCEPT ![d] = @ \ {p}]
          /\ row' = [row EXCEPT ![d] =
                [photo |-> p,
                 image |-> IF p \in DOMAIN photos THEN photos[p].image ELSE NoUuid]]
    /\ phase' = [phase EXCEPT ![d] = "rowRead"]
    /\ UNCHANGED <<vars, site, packed, listed, had, touched>>

\* GetPhoto, for the next photo of the list
ReadRow(d) ==
    /\ phase[d] = "listed" /\ Unlocked
    /\ \E p \in todo[d] :
          /\ todo' = [todo EXCEPT ![d] = @ \ {p}]
          /\ row' = [row EXCEPT ![d] =
                [photo |-> p,
                 image |-> IF p \in DOMAIN photos THEN photos[p].image ELSE NoUuid]]
    /\ phase' = [phase EXCEPT ![d] = "rowRead"]
    /\ UNCHANGED <<vars, site, packed, listed, had, touched>>

\* ReadFile, and the entry in the ZIP file
AddImage(d) ==
    LET r == row[d] IN
    /\ phase[d] = "rowRead" /\ r.image \in files
    /\ packed' = [packed EXCEPT ![d] =
                     [p \in DOMAIN @ \cup {r.photo} |->
                         IF p = r.photo THEN r.image ELSE packed[d][p]]]
    /\ row' = [row EXCEPT ![d] = NothingRead]
    /\ phase' = [phase EXCEPT ![d] = "listed"]
    /\ UNCHANGED <<vars, site, todo, listed, had, touched>>

\* ReadFile throws.
Fail(d) ==
    /\ phase[d] = "rowRead" /\ row[d].image \notin files
    /\ phase' = [phase EXCEPT ![d] = "failed"]
    /\ UNCHANGED <<vars, site, todo, row, packed, listed, had, touched>>

\* AnswerFile
SendArchive(d) ==
    /\ phase[d] = "listed" /\ todo[d] = {}
    /\ phase' = [phase EXCEPT ![d] = "answered"]
    /\ UNCHANGED <<vars, site, todo, row, packed, listed, had, touched>>

-----------------------------------------------------------------------------
\* The site s and the rows of its photos, and whether an upload works on one.
Rows(s) == <<s \in sites, {<<p, photos[p]>> : p \in PhotosOf({s})}>>

Uploading(s) == BusyWith \cap PhotosOf({s}) # {}

UnderWay(d) == phase[d] \in {"siteRead", "listed", "rowRead"}

\* The store does a step while archives are made.
Watch ==
    /\ had' = [d \in Downloads |-> IF UnderWay(d) THEN had[d] \cup Held' ELSE had[d]]
    /\ touched' = [d \in Downloads |->
          \/ touched[d]
          \/ UnderWay(d) /\ (Rows(site[d])' # Rows(site[d]) \/ Uploading(site[d])')]

StoreStep ==
    /\ \E t \in Threads : Request(t) \/ Continue(t) \/ ReplaceImageFails(t)
    /\ UNCHANGED <<request, listed>>
    /\ Watch

\* The requests end with the server.
ArchiveCrash ==
    /\ Crash
    /\ phase' = [d \in Downloads |-> IF UnderWay(d) THEN "none" ELSE phase[d]]
    /\ UNCHANGED <<site, todo, row, packed, listed>>
    /\ Watch

ArchiveNext ==
    \/ StoreStep
    \/ ArchiveCrash
    \/ \E d \in Downloads :
          \/ \E s \in Sites : GetArchive(d, s)
          \/ ListPhotos(d) \/ ReadRow(d) \/ AddImage(d) \/ Fail(d) \/ SendArchive(d)

ArchiveSpec == ArchiveInit /\ [][ArchiveNext]_allVars

-----------------------------------------------------------------------------
(***************************************************************************)
(* Properties.                                                             *)
(***************************************************************************)

\* An archive that is answered has an image of every photo that was listed, and
\* one that the photo had while the archive was made: a photo deleted or replaced
\* meanwhile is never left out or given another one's image.
ArchiveComplete ==
    \A d \in Downloads : phase[d] = "answered" =>
        /\ DOMAIN packed[d] = listed[d]
        /\ \A p \in DOMAIN packed[d] : <<p, packed[d][p]>> \in had[d]

\* With no failure and no PUT of a photo: when the file of a photo that still has
\* the image which was read is not there, an upload is replacing it at this very
\* moment (GetSiteArchive, ReplaceImage).
ArchiveFailsForAReason ==
    ~PhotoPuts /\ failures = 0 => \A d \in Downloads :
        LET r == row[d] IN
        /\ phase[d] = "rowRead" /\ r.image \notin files \cup {NoUuid}
        /\ r.photo \in DOMAIN photos
        => r.photo \in BusyWith \/ photos[r.photo].image # r.image

\* As long as nobody touches the site and its photos, the archive is the site: it
\* is answered with the images of all its photos, or fails because one has no image
\* yet or was damaged by an earlier failure (see DamageBounded).
QuietArchive ==
    \A d \in Downloads :
        LET s == site[d] IN
        ~touched[d] =>
            /\ (phase[d] = "rowRead" /\ row[d].image \notin files) =>
                  photos[row[d].photo].image = NoUuid \/ row[d].photo \in Damaged
            /\ UnderWay(d) => \A p \in DOMAIN packed[d] :
                  p \in PhotosOf({s}) /\ packed[d][p] = photos[p].image
            /\ (phase[d] \in {"listed", "rowRead"}) => PhotosOf({s}) = listed[d]
=============================================================================
