---------------------------- MODULE PhotoLibrary ----------------------------
(***************************************************************************)
(* What the photo store promises to its clients, without files, statements *)
(* and the mutex: sites, photos that belong to them, for each photo at     *)
(* most one picture, and a number for each upload by which a client can    *)
(* tell what is new.                                                       *)
(***************************************************************************)
EXTENDS Integers

CONSTANTS Sites, Photos, Files, NoUuid

VARIABLES
    sites,
    photos,     \* uuid -> the site and the picture, if any
    pictures,   \* the pictures that are kept
    latest,     \* of each photo with a picture: the number of its upload
    uploads     \* how many uploads there have been

vars == <<sites, photos, pictures, latest, uploads>>

Without(f, P) == [p \in DOMAIN f \ P |-> f[p]]
With(f, p, v) == [x \in DOMAIN f \cup {p} |-> IF x = p THEN v ELSE f[x]]
Shown(P) == {photos[p].image : p \in P}

Init ==
    /\ sites = {} /\ pictures = {} /\ uploads = 0
    /\ photos = [p \in {} |-> 0] /\ latest = [p \in {} |-> 0]

\* Photos disappear with their pictures and their numbers, and nothing else.
Remove(P) ==
    /\ photos' = Without(photos, P)
    /\ pictures' = pictures \ Shown(P)
    /\ latest' = Without(latest, P)
    /\ UNCHANGED uploads

RemovePhoto(p) == Remove({p}) /\ UNCHANGED sites

\* A site is removed, created, or replaced: its photos disappear.
ChangeSite(s) ==
    /\ Remove({p \in DOMAIN photos : photos[p].site = s})
    /\ sites' \in {sites \ {s}, sites \cup {s}}

AddPhoto(p, s) ==
    /\ p \notin DOMAIN photos /\ s \in sites
    /\ photos' = With(photos, p, [site |-> s, image |-> NoUuid])
    /\ UNCHANGED <<sites, pictures, latest, uploads>>

\* An upload puts a new picture in the place of the old one.
Upload(p, f) ==
    /\ p \in DOMAIN photos /\ f \notin pictures
    /\ photos' = With(photos, p, [photos[p] EXCEPT !.image = f])
    /\ pictures' = (pictures \ {photos[p].image}) \cup {f}
    /\ uploads' = uploads + 1
    /\ latest' = With(latest, p, uploads')
    /\ UNCHANGED sites

Next ==
    \/ \E p \in DOMAIN photos : RemovePhoto(p)
    \/ \E s \in Sites : ChangeSite(s)
    \/ \E p \in Photos, s \in sites : AddPhoto(p, s)
    \/ \E p \in DOMAIN photos, f \in Files : Upload(p, f)

Spec == Init /\ [][Next]_vars
=============================================================================
