-------------------------- MODULE ChangesFeedProofs --------------------------
(***************************************************************************)
(* Proofs about ChangesFeed, for any clients, limits, width of int, size   *)
(* of pages, and everything that PhotoStore leaves open.                   *)
(***************************************************************************)
EXTENDS ChangesFeed, PhotoStoreProofs, FiniteSetTheorems

(***************************************************************************)
(* Conversions to int.                                                     *)
(***************************************************************************)
LEMMA RemainderSmall == ASSUME NEW m \in Nat, NEW n \in Nat, n < m PROVE n % m = n
    OBVIOUS

LEMMA RemainderNegative ==
    ASSUME NEW m \in Nat, m > 0, NEW n \in Int, n < 0, -m <= n PROVE n % m = n + m
    OBVIOUS

LEMMA RemainderLeq == ASSUME NEW m \in Nat, m > 0, NEW n \in Nat PROVE n % m <= n
    OBVIOUS

LEMMA RemainderRange ==
    ASSUME NEW m \in Nat, m > 0, NEW n \in Int PROVE n % m \in 0 .. m - 1
    OBVIOUS

\* What is converted fits an int, what fits is not changed, and no number gets
\* larger.
LEMMA CutFacts ==
    \A n \in Int :
        /\ Cut(n) \in -IntBound .. IntBound - 1
        /\ n \in -IntBound .. IntBound - 1 => Cut(n) = n
        /\ -IntBound <= n => Cut(n) <= n
<1> TAKE n \in Int
<1>1. 2 * IntBound \in Nat /\ 2 * IntBound > 0 /\ IntBound \in Nat /\ IntBound > 0
    BY FeedAssumption
<1> DEFINE r == n % (2 * IntBound)
<1>2. r \in 0 .. 2 * IntBound - 1
    BY <1>1, RemainderRange
<1>3. Cut(n) = IF r < IntBound THEN r ELSE r - 2 * IntBound
    BY DEF Cut
<1>4. n \in 0 .. IntBound - 1 => r = n
    BY <1>1, RemainderSmall
<1>5. n \in -IntBound .. -1 => r = n + 2 * IntBound
    BY <1>1, RemainderNegative
<1>6. n \in Nat => r <= n
    BY <1>1, RemainderLeq
<1> HIDE DEF r
<1> QED
    BY <1>1, <1>2, <1>3, <1>4, <1>5, <1>6

(***************************************************************************)
(* The table Changes only grows at its end.                                *)
(***************************************************************************)
RowsAtEnd ==
    /\ lastSeq' \in Nat /\ lastSeq <= lastSeq'
    /\ DOMAIN changes' \subseteq 1 .. lastSeq'
    /\ \A q \in DOMAIN changes' : q \in DOMAIN changes \/ q > lastSeq

LEMMA StatementsRemoveRows ==
    ASSUME TypeOK, lastSeq' = lastSeq,
           \/ \E P : DeletePhotoRows(P)
           \/ \E p, row : ReplacePhotoStatement(p, row)
           \/ UNCHANGED changes
    PROVE  RowsAtEnd
<1>1. \A P : DOMAIN ChangesWithout(P) \subseteq DOMAIN changes
    BY DEF ChangesWithout
<1>2. DOMAIN changes' \subseteq DOMAIN changes
  <2>1. CASE \E P : DeletePhotoRows(P)
      BY <2>1, <1>1 DEF DeletePhotoRows
  <2>2. CASE \E p, row : ReplacePhotoStatement(p, row)
      BY <2>2, <1>1 DEF ReplacePhotoStatement
  <2>3. CASE UNCHANGED changes
      BY <2>3
  <2> QED
      BY <2>1, <2>2, <2>3
<1> QED
    BY <1>2 DEF TypeOK, RowsAtEnd

LEMMA StoreGrows == ASSUME TypeInv, [Next]_vars PROVE RowsAtEnd
<1> USE DEF TypeInv, tables, handler
<1>1. ASSUME NEW t \in Threads, PostSite(t) PROVE RowsAtEnd
    BY <1>1, StatementsRemoveRows DEF PostSite, ReplaceSiteStatement
<1>2. ASSUME NEW t \in Threads, NEW s \in Sites, DeleteSite(t, s) PROVE RowsAtEnd
    BY <1>2, StatementsRemoveRows DEF DeleteSite, DeleteSiteStatement
<1>3. ASSUME NEW t \in Threads, NEW p \in Photos, DeletePhoto(t, p) PROVE RowsAtEnd
    BY <1>3, StatementsRemoveRows DEF DeletePhoto, DeletePhotoStatement
<1>4. ASSUME NEW t \in Threads, NEW s \in Sites, NEW withImage \in BOOLEAN,
             PostPhoto(t, s, withImage)
      PROVE  RowsAtEnd
  <2>1. PICK p : ReplacePhotoStatement(p, [site |-> s, image |-> NoUuid])
      BY <1>4 DEF PostPhoto
  <2>2. lastSeq' = lastSeq
      BY <2>1 DEF ReplacePhotoStatement
  <2> QED
      BY <2>1, <2>2, StatementsRemoveRows
<1>5. ASSUME NEW t \in Threads, UpdateSiteWrite(t) PROVE RowsAtEnd
    BY <1>5, StatementsRemoveRows DEF UpdateSiteWrite, ReplaceSiteStatement
<1>6. ASSUME NEW t \in Threads, UpdatePhotoWrite(t) PROVE RowsAtEnd
  <2>1. \/ UNCHANGED <<tables, files>>
        \/ \E p, row : ReplacePhotoStatement(p, row)
      BY <1>6 DEF UpdatePhotoWrite
  <2>2. lastSeq' = lastSeq
      BY <2>1 DEF ReplacePhotoStatement
  <2> QED
      BY <2>1, <2>2, StatementsRemoveRows
<1>7. ASSUME NEW t \in Threads, RecordImage(t) PROVE RowsAtEnd
  <2>1. \E p, row : ReplacePhotoStatement(p, row)
      BY <1>7 DEF RecordImage
  <2>2. lastSeq' = lastSeq
      BY <2>1 DEF ReplacePhotoStatement
  <2> QED
      BY <2>1, <2>2, StatementsRemoveRows
<1>8. ASSUME NEW t \in Threads, RecordChange(t) PROVE RowsAtEnd
    BY <1>8 DEF RecordChange, RowsAtEnd, TypeOK
<1>9. ASSUME UNCHANGED <<changes, lastSeq>> PROVE RowsAtEnd
    BY <1>9, StatementsRemoveRows
<1>10. ASSUME NEW t \in Threads, Request(t) PROVE RowsAtEnd
    BY <1>10, <1>1, <1>2, <1>3, <1>4, <1>9
    DEF Request, UpdateSiteRead, UpdatePhotoRead, GetImage, ReplaceImage
<1>11. ASSUME NEW t \in Threads, Continue(t) PROVE RowsAtEnd
    BY <1>11, <1>5, <1>6, <1>7, <1>8, <1>9
    DEF Continue, ReplaceImage, ReplaceImageInexistent, CreateFile, RemoveFile, ReadFile
<1>12. ASSUME NEW t \in Threads, ReplaceImageFails(t) PROVE RowsAtEnd
    BY <1>12, <1>9 DEF ReplaceImageFails
<1>13. ASSUME Crash PROVE RowsAtEnd
    BY <1>13, <1>9 DEF Crash
<1>14. ASSUME UNCHANGED vars PROVE RowsAtEnd
    BY <1>14, <1>9 DEF vars
<1> QED
    BY <1>10, <1>11, <1>12, <1>13, <1>14 DEF Next

(***************************************************************************)
(* Steps of the feed are steps of the store, or lose an answer.            *)
(***************************************************************************)
LEMMA FeedStepOfStore ==
    ASSUME [FeedNext]_allVars
    PROVE  [Next]_vars \/ \E c \in Clients : LoseAnswer(c)
    BY DEF FeedNext, StoreStep, FeedCrash, GetChanges, ReadRow, Answer,
           GetLastChange, Next, allVars

LEMMA FeedStoreStep ==
    ASSUME TypeInv, [FeedNext]_allVars PROVE TypeInv' /\ RowsAtEnd
<1>1. CASE [Next]_vars
    BY <1>1, TypeStep, StoreGrows
<1>2. CASE \E c \in Clients : LoseAnswer(c)
  <2>1. TypeInv'
      BY <1>2, StoreAssumption
      DEF LoseAnswer, TypeInv, TypeOK, LocalInv, tables, handler
  <2>2. RowsAtEnd
      BY <1>2, StatementsRemoveRows DEF LoseAnswer, TypeInv, tables
  <2> QED
      BY <2>1, <2>2
<1> QED
    BY <1>1, <1>2, FeedStepOfStore

(***************************************************************************)
(* Types.                                                                  *)
(***************************************************************************)
LEMMA FeedTypeInit == ASSUME FeedInit PROVE FeedTypeOK
<1>1. lastSeq = 0
    BY DEF FeedInit, Init
<1> QED
    BY <1>1, FeedAssumption DEF FeedInit, FeedTypeOK

\* What the store does leaves the variables of the feed well typed.
LEMMA FeedTypeGrows ==
    ASSUME TypeInv, FeedTypeOK, RowsAtEnd, UNCHANGED <<since, done, heard, from>>,
           UNCHANGED request \/ \E C : EndRequests(C)
    PROVE  FeedTypeOK'
<1>1. 1 .. lastSeq \subseteq 1 .. lastSeq' /\ 0 .. lastSeq \subseteq 0 .. lastSeq'
    BY DEF TypeInv, TypeOK, RowsAtEnd
<1>2. /\ reading' \in SUBSET Clients
      /\ limit' \in [Clients -> 0 .. 2 * IntBound - 1]
      /\ cursor' \in [Clients -> Int]
      /\ \A c \in Clients : page'[c] \in SUBSET (1 .. lastSeq)
      /\ DOMAIN page' = Clients
  <2>1. 0 \in 0 .. 2 * IntBound - 1
      BY FeedAssumption
  <2>2. CASE UNCHANGED request
      BY <2>2 DEF request, FeedTypeOK
  <2>3. CASE \E C : EndRequests(C)
      BY <2>1, <2>3 DEF EndRequests, FeedTypeOK
  <2> QED
      BY <2>2, <2>3
<1> QED
    BY <1>1, <1>2 DEF FeedTypeOK

LEMMA FeedTypeStep ==
    ASSUME TypeInv, FeedTypeOK, [FeedNext]_allVars PROVE FeedTypeOK'
<1>0. RowsAtEnd
    BY FeedStoreStep
<1>1. CASE StoreStep
    BY <1>0, <1>1, FeedTypeGrows DEF StoreStep, feedVars
<1>2. CASE FeedCrash
    BY <1>0, <1>2, FeedTypeGrows DEF FeedCrash
<1>3. ASSUME NEW c \in Clients, LoseAnswer(c) PROVE FeedTypeOK'
    BY <1>0, <1>3, FeedTypeGrows DEF LoseAnswer
<1>4. ASSUME NEW c \in Clients, NEW arg \in LimitArguments, GetChanges(c, arg)
      PROVE  FeedTypeOK'
  <2>1. PICK l \in Limits(arg) : limit' = [limit EXCEPT ![c] = l]
      BY <1>4 DEF GetChanges
  <2>2. l \in 0 .. 2 * IntBound - 1
      BY FeedAssumption DEF Limits
  <2> QED
      BY <1>4, <2>1, <2>2, FeedAssumption DEF GetChanges, FeedTypeOK, vars, tables
<1>5. ASSUME NEW c \in Clients, ReadRow(c) PROVE FeedTypeOK'
  <2>1. PICK q \in DOMAIN changes :
           /\ page' = [page EXCEPT ![c] = @ \cup {q}]
           /\ cursor' = [cursor EXCEPT ![c] = q]
      BY <1>5 DEF ReadRow, RowsAfter
  <2>2. q \in 1 .. lastSeq
      BY DEF TypeInv, TypeOK
  <2> QED
      BY <1>5, <2>1, <2>2 DEF ReadRow, FeedTypeOK, vars, tables
<1>6. ASSUME NEW c \in Clients, Answer(c) PROVE FeedTypeOK'
  <2>1. Cut(cursor[c]) \in -IntBound .. IntBound - 1
      BY CutFacts DEF FeedTypeOK
  <2>2. 0 \in 0 .. 2 * IntBound - 1
      BY FeedAssumption
  <2> QED
      BY <1>6, <2>1, <2>2
      DEF Answer, EndRequests, FeedTypeOK, vars, tables
<1>7. ASSUME NEW c \in Clients, GetLastChange(c) PROVE FeedTypeOK'
  <2>1. PICK q \in DOMAIN changes \cup {0} :
           /\ since' = [since EXCEPT ![c] = Cut(q)]
           /\ heard' = [heard EXCEPT ![c] = @ \cup ({q} \ {0})]
           /\ from' = [from EXCEPT ![c] = q]
      BY <1>7 DEF GetLastChange
  <2>2. q \in 0 .. lastSeq
      BY DEF TypeInv, TypeOK
  <2>3. Cut(q) \in -IntBound .. IntBound - 1
      BY <2>2, CutFacts
  <2> QED
      BY <1>7, <2>1, <2>2, <2>3
      DEF GetLastChange, request, FeedTypeOK, vars, tables
<1>8. CASE UNCHANGED allVars
    BY <1>8 DEF allVars, feedVars, request, vars, tables, FeedTypeOK
<1> QED
    BY <1>1, <1>2, <1>3, <1>4, <1>5, <1>6, <1>7, <1>8 DEF FeedNext

LEMMA FeedTypeInvariance == FeedSpec => [](TypeInv /\ FeedTypeOK)
<1>1. FeedInit => TypeInv /\ FeedTypeOK
    BY TypeInit, FeedTypeInit DEF FeedInit
<1>2. TypeInv /\ FeedTypeOK /\ [FeedNext]_allVars => (TypeInv /\ FeedTypeOK)'
    BY FeedStoreStep, FeedTypeStep
<1> QED
    BY <1>1, <1>2, PTL DEF FeedSpec

\* The variables of the feed keep their types: what a client is sent as Last
\* fits an int (GetChangesInternal), and no client was told a change that was
\* never inserted.
THEOREM FeedTypeCorrect == FeedSpec => []FeedTypeOK
    BY FeedTypeInvariance, PTL

(***************************************************************************)
(* What clients were told.  A page holds all rows between "since" and the  *)
(* cursor, and neither is beyond the last row that was ever inserted, so   *)
(* that new rows come behind them.                                         *)
(***************************************************************************)
FollowInv ==
    /\ NoChangeMissed
    /\ \A c \in Clients : since[c] <= lastSeq
    /\ \A c \in reading :
          /\ since[c] <= cursor[c] /\ cursor[c] <= lastSeq
          /\ \A q \in DOMAIN changes :
                from[c] < q /\ q <= cursor[c] => q \in heard[c] \cup page[c]

Typed == TypeInv /\ FeedTypeOK

LEMMA FollowInit == ASSUME FeedInit PROVE FollowInv
<1>1. DOMAIN changes = {}
    BY DEF FeedInit, Init
<1> QED
    BY <1>1 DEF FeedInit, Init, FollowInv, NoChangeMissed

\* Steps of the store, and the end of requests without an answer.
LEMMA FollowGrows ==
    ASSUME Typed, FollowInv, RowsAtEnd, UNCHANGED <<since, heard, from>>,
           UNCHANGED request \/ \E C : EndRequests(C)
    PROVE  FollowInv'
<1>1. \A c \in Clients : since[c] \in Int /\ from[c] \in Int /\ cursor[c] \in Int
    BY DEF Typed, FeedTypeOK
<1>2. lastSeq \in Nat /\ lastSeq' \in Nat /\ lastSeq <= lastSeq'
    BY DEF Typed, TypeInv, TypeOK, RowsAtEnd
<1>3. \A q \in DOMAIN changes' : q \in Int /\ (q \in DOMAIN changes \/ q > lastSeq)
    BY <1>2 DEF RowsAtEnd
<1>4. (\A c \in Clients : since[c] <= lastSeq)'
    BY <1>1, <1>2 DEF FollowInv
<1>5. NoChangeMissed'
    BY <1>1, <1>2, <1>3 DEF FollowInv, NoChangeMissed
<1>6. /\ reading' \subseteq reading /\ reading \subseteq Clients
      /\ \A c \in reading' : cursor'[c] = cursor[c] /\ page'[c] = page[c]
    BY DEF EndRequests, request, Typed, FeedTypeOK
<1> QED
    BY <1>1, <1>2, <1>3, <1>4, <1>5, <1>6 DEF FollowInv

LEMMA FollowStep ==
    ASSUME Typed, FollowInv, [FeedNext]_allVars PROVE FollowInv'
<1>0. /\ RowsAtEnd
      /\ lastSeq \in Nat /\ DOMAIN changes \subseteq 1 .. lastSeq
      /\ reading \subseteq Clients
      /\ \A c \in Clients : since[c] \in -IntBound .. IntBound - 1
                         /\ from[c] \in Int /\ cursor[c] \in Int
    BY FeedStoreStep DEF Typed, FeedTypeOK, TypeInv, TypeOK
<1>1. CASE StoreStep
    BY <1>0, <1>1, FollowGrows DEF StoreStep, feedVars
<1>2. CASE FeedCrash
    BY <1>0, <1>2, FollowGrows DEF FeedCrash
<1>3. ASSUME NEW c \in Clients, LoseAnswer(c) PROVE FollowInv'
    BY <1>0, <1>3, FollowGrows DEF LoseAnswer
<1>4. ASSUME NEW c \in Clients, NEW arg \in LimitArguments, GetChanges(c, arg)
      PROVE  FollowInv'
  <2>1. NoChangeMissed' /\ (\A d \in Clients : since[d] <= lastSeq)'
      BY <1>4 DEF GetChanges, FollowInv, NoChangeMissed, vars, tables
  <2>2. /\ reading' = reading \cup {c}
        /\ cursor'[c] = since[c] /\ UNCHANGED <<changes, lastSeq, since, heard, from>>
        /\ \A d \in reading : cursor'[d] = cursor[d] /\ page'[d] = page[d]
      BY <1>0, <1>4 DEF GetChanges, Typed, FeedTypeOK, vars, tables
  <2> QED
      BY <1>0, <2>1, <2>2, FeedAssumption DEF FollowInv, NoChangeMissed
<1>5. ASSUME NEW c \in Clients, ReadRow(c) PROVE FollowInv'
  <2>1. PICK q \in DOMAIN changes :
           /\ q > cursor[c]
           /\ \A r \in DOMAIN changes : r > cursor[c] => q <= r
           /\ page' = [page EXCEPT ![c] = @ \cup {q}]
           /\ cursor' = [cursor EXCEPT ![c] = q]
      BY <1>5 DEF ReadRow, RowsAfter
  <2>2. c \in reading /\ UNCHANGED <<changes, lastSeq, reading, since, heard, from>>
      BY <1>5 DEF ReadRow, vars, tables
  <2>3. NoChangeMissed' /\ (\A d \in Clients : since[d] <= lastSeq)'
      BY <2>2 DEF FollowInv, NoChangeMissed
  <2>4. cursor'[c] = q /\ page'[c] = page[c] \cup {q}
      BY <2>1 DEF Typed, FeedTypeOK
  <2>5. \A d \in Clients \ {c} : cursor'[d] = cursor[d] /\ page'[d] = page[d]
      BY <2>1 DEF Typed, FeedTypeOK
  <2>6. q \in 1 .. lastSeq
      BY <1>0
  <2>7. \A r \in DOMAIN changes : r <= q => r <= cursor[c] \/ r = q
      BY <1>0, <2>1, <2>6
  <2>8. /\ since[c] <= q /\ q <= lastSeq
        /\ \A r \in DOMAIN changes : from[c] < r /\ r <= q => r \in heard[c] \cup page'[c]
      BY <1>0, <2>1, <2>2, <2>4, <2>6, <2>7, FeedAssumption DEF FollowInv
  <2> QED
      BY <1>0, <2>2, <2>3, <2>4, <2>5, <2>8 DEF FollowInv
<1>6. ASSUME NEW c \in Clients, Answer(c) PROVE FollowInv'
  <2>1. /\ c \in reading /\ reading' = reading \ {c}
        /\ since' = [since EXCEPT ![c] = Cut(cursor[c])]
        /\ heard' = [heard EXCEPT ![c] = @ \cup page[c]]
        /\ UNCHANGED <<changes, lastSeq, from>>
        /\ \A d \in reading' : cursor'[d] = cursor[d] /\ page'[d] = page[d]
      BY <1>0, <1>6 DEF Answer, EndRequests, vars, tables
  <2>2. Cut(cursor[c]) \in Int /\ Cut(cursor[c]) <= cursor[c]
    <3>1. -IntBound <= cursor[c]
        BY <1>0, <2>1, FeedAssumption DEF FollowInv
    <3> QED
        BY <1>0, <3>1, CutFacts
  <2>3. since'[c] = Cut(cursor[c]) /\ heard'[c] = heard[c] \cup page[c]
      BY <2>1 DEF Typed, FeedTypeOK
  <2>4. \A d \in Clients \ {c} : since'[d] = since[d] /\ heard'[d] = heard[d]
      BY <2>1 DEF Typed, FeedTypeOK
  <2>5. \A r \in DOMAIN changes : from[c] < r /\ r <= since'[c] => r \in heard'[c]
      BY <1>0, <2>1, <2>2, <2>3 DEF FollowInv
  <2>6. NoChangeMissed'
      BY <2>1, <2>4, <2>5 DEF FollowInv, NoChangeMissed
  <2>7. (\A d \in Clients : since[d] <= lastSeq)'
      BY <1>0, <2>1, <2>2, <2>3, <2>4 DEF FollowInv
  <2> QED
      BY <1>0, <2>1, <2>4, <2>6, <2>7 DEF FollowInv
<1>7. ASSUME NEW c \in Clients, GetLastChange(c) PROVE FollowInv'
  <2>1. PICK q \in DOMAIN changes \cup {0} :
           /\ \A r \in DOMAIN changes : r <= q
           /\ since' = [since EXCEPT ![c] = Cut(q)]
           /\ heard' = [heard EXCEPT ![c] = @ \cup ({q} \ {0})]
           /\ from' = [from EXCEPT ![c] = q]
      BY <1>7 DEF GetLastChange
  <2>2. c \notin reading /\ UNCHANGED <<changes, lastSeq, reading, cursor, page>>
      BY <1>7 DEF GetLastChange, vars, tables, request
  <2>3. q \in 0 .. lastSeq /\ Cut(q) \in Int /\ Cut(q) <= q
      BY <1>0, CutFacts, FeedAssumption
  <2>4. since'[c] = Cut(q) /\ from'[c] = q
      BY <2>1 DEF Typed, FeedTypeOK
  <2>5. \A d \in Clients \ {c} :
           since'[d] = since[d] /\ heard'[d] = heard[d] /\ from'[d] = from[d]
      BY <2>1 DEF Typed, FeedTypeOK
  <2>6. NoChangeMissed'
      BY <1>0, <2>1, <2>2, <2>3, <2>4, <2>5 DEF FollowInv, NoChangeMissed
  <2>7. (\A d \in Clients : since[d] <= lastSeq)'
      BY <1>0, <2>2, <2>3, <2>4, <2>5 DEF FollowInv
  <2> QED
      BY <1>0, <2>2, <2>5, <2>6, <2>7 DEF FollowInv
<1>8. CASE UNCHANGED allVars
    BY <1>8 DEF allVars, feedVars, request, vars, tables, FollowInv, NoChangeMissed
<1> QED
    BY <1>1, <1>2, <1>3, <1>4, <1>5, <1>6, <1>7, <1>8 DEF FeedNext

LEMMA FollowInvariance == FeedSpec => [](Typed /\ FollowInv)
<1>1. FeedInit => FollowInv
    BY FollowInit
<1>2. Typed /\ FollowInv /\ [FeedNext]_allVars => FollowInv'
    BY FollowStep
<1>3. FeedSpec => []Typed
    BY FeedTypeInvariance DEF Typed
<1> QED
    BY <1>1, <1>2, <1>3, PTL DEF FeedSpec

\* A client that has come to Last was told every change up to it that is still
\* in the table, with crashes, lost answers and any limits (GetChanges,
\* GetChangesInternal).
THEOREM NoChangesMissed == FeedSpec => []NoChangeMissed
<1>1. FollowInv => NoChangeMissed
    BY DEF FollowInv
<1> QED
    BY <1>1, FollowInvariance, PTL

(***************************************************************************)
(* The answer "Done".  The limit of the statement exceeds a proper page by *)
(* one, so that it hides no row from a page, full or not.                  *)
(***************************************************************************)
LEMMA PagesAreFinite ==
    ASSUME Typed, NEW c \in Clients
    PROVE  IsFiniteSet(page[c]) /\ Cardinality(page[c]) \in Nat
<1>1. page[c] \subseteq 1 .. lastSeq /\ lastSeq \in Nat
    BY DEF Typed, FeedTypeOK, TypeInv, TypeOK
<1>2. IsFiniteSet(1 .. lastSeq)
    BY <1>1, FS_Interval
<1>3. IsFiniteSet(page[c])
    BY <1>1, <1>2, FS_Subset
<1> QED
    BY <1>3, FS_CardinalityType

LEMMA LimitHidesNothing ==
    ASSUME Typed, NEW c \in Clients, limit[c] \in 1 .. MaxResults,
           Cardinality(page[c]) <= limit[c]
    PROVE  WithinLimit(c)
<1>1. limit[c] + 1 \in 0 .. IntBound - 1
    BY FeedAssumption
<1>2. Cut(limit[c] + 1) = limit[c] + 1
    BY <1>1, CutFacts, FeedAssumption
<1> QED
    BY <1>1, <1>2, PagesAreFinite DEF WithinLimit

PagesInv ==
    \A c \in reading : ~done[c] /\ Cardinality(page[c]) <= limit[c]

LEMMA PagesStep ==
    ASSUME Typed, PagesInv, [FeedNext]_allVars PROVE PagesInv'
<1>0. reading \subseteq Clients
    BY DEF Typed, FeedTypeOK
<1>1. ASSUME UNCHANGED done, UNCHANGED request \/ \E C : EndRequests(C)
      PROVE  PagesInv'
  <2>1. /\ reading' \subseteq reading
        /\ \A c \in reading' : page'[c] = page[c] /\ limit'[c] = limit[c]
      BY <1>0, <1>1 DEF EndRequests, request
  <2> QED
      BY <1>1, <2>1 DEF PagesInv
<1>2. ASSUME NEW c \in Clients, NEW arg \in LimitArguments, GetChanges(c, arg)
      PROVE  PagesInv'
  <2>1. PICK l \in Limits(arg) : limit' = [limit EXCEPT ![c] = l]
      BY <1>2 DEF GetChanges
  <2>2. l \in Nat
      BY FeedAssumption DEF Limits
  <2>3. Cardinality({}) = 0
      BY FS_EmptySet
  <2>4. page'[c] = {} /\ ~done'[c] /\ limit'[c] = l
      BY <1>2, <2>1 DEF GetChanges, Typed, FeedTypeOK
  <2>5. Cardinality(page'[c]) <= limit'[c]
      BY <2>2, <2>3, <2>4
  <2>6. /\ reading' = reading \cup {c} /\ c \notin reading
        /\ \A d \in reading :
              page'[d] = page[d] /\ limit'[d] = limit[d] /\ done'[d] = done[d]
      BY <1>0, <1>2, <2>1 DEF GetChanges, Typed, FeedTypeOK
  <2> QED
      BY <2>4, <2>5, <2>6 DEF PagesInv
<1>3. ASSUME NEW c \in Clients, ReadRow(c) PROVE PagesInv'
  <2>1. PICK q : page' = [page EXCEPT ![c] = @ \cup {q}]
      BY <1>3 DEF ReadRow
  <2>2. page'[c] = page[c] \cup {q}
      BY <2>1 DEF Typed, FeedTypeOK
  <2>3. /\ Cardinality(page[c]) \in Nat
        /\ Cardinality(page[c] \cup {q}) \in {Cardinality(page[c]), Cardinality(page[c]) + 1}
      BY PagesAreFinite, FS_AddElement
  <2>4. limit[c] \in Nat /\ Cardinality(page[c]) < limit[c]
      BY <1>3, <2>3 DEF ReadRow, Full, Typed, FeedTypeOK
  <2>5. Cardinality(page'[c]) <= limit[c]
      BY <2>2, <2>3, <2>4
  <2>6. /\ UNCHANGED <<reading, limit, done>>
        /\ \A d \in Clients \ {c} : page'[d] = page[d]
      BY <1>3, <2>1 DEF ReadRow, Typed, FeedTypeOK
  <2> QED
      BY <1>0, <2>5, <2>6 DEF PagesInv
<1>4. ASSUME NEW c \in Clients, Answer(c) PROVE PagesInv'
  <2>1. /\ reading' = reading \ {c}
        /\ \A d \in reading' :
              page'[d] = page[d] /\ limit'[d] = limit[d] /\ done'[d] = done[d]
      BY <1>0, <1>4 DEF Answer, EndRequests, Typed, FeedTypeOK
  <2> QED
      BY <2>1 DEF PagesInv
<1>5. ASSUME NEW c \in Clients, GetLastChange(c) PROVE PagesInv'
  <2>1. /\ c \notin reading /\ UNCHANGED <<reading, page, limit>>
        /\ \A d \in reading : done'[d] = done[d]
      BY <1>0, <1>5 DEF GetLastChange, request, Typed, FeedTypeOK
  <2> QED
      BY <2>1 DEF PagesInv
<1> QED
    BY <1>1, <1>2, <1>3, <1>4, <1>5
    DEF FeedNext, StoreStep, FeedCrash, LoseAnswer, allVars, feedVars

DoneStep ==
    \A c \in Clients :
        c \in reading /\ done'[c] /\ limit[c] \in 1 .. MaxResults =>
            \A q \in DOMAIN changes : from[c] < q => q \in heard'[c]

LEMMA DoneOnlyByAnswer ==
    ASSUME Typed, PagesInv, [FeedNext]_allVars, NEW c \in Clients, c \in reading, done'[c]
    PROVE  Answer(c)
<1>1. ~done[c]
    BY DEF PagesInv
<1>2. ASSUME NEW d \in Clients, d # c \/ ~Answer(c),
             \/ \E arg \in LimitArguments : GetChanges(d, arg)
             \/ ReadRow(d) \/ Answer(d) \/ GetLastChange(d) \/ LoseAnswer(d)
      PROVE  FALSE
    BY <1>1, <1>2
    DEF GetChanges, ReadRow, Answer, GetLastChange, LoseAnswer, Typed, FeedTypeOK
<1>3. ~StoreStep /\ ~FeedCrash /\ ~UNCHANGED allVars
    BY <1>1 DEF StoreStep, FeedCrash, allVars, feedVars
<1> QED
    BY <1>2, <1>3 DEF FeedNext

LEMMA DoneStepRight ==
    ASSUME Typed, FollowInv, PagesInv, [FeedNext]_allVars PROVE DoneStep
<1> SUFFICES ASSUME NEW c \in Clients, c \in reading, done'[c],
                    limit[c] \in 1 .. MaxResults,
                    NEW q \in DOMAIN changes, from[c] < q
             PROVE  q \in heard'[c]
    BY DEF DoneStep
<1>1. ~done[c] /\ Cardinality(page[c]) <= limit[c]
    BY DEF PagesInv
<1>4. Answer(c)
    BY DoneOnlyByAnswer
<1>5. heard'[c] = heard[c] \cup page[c]
    BY <1>4 DEF Answer, Typed, FeedTypeOK
<1>6. ~Steps(c)
  <2>1. ~(Cardinality(page[c]) = limit[c] /\ Steps(c))
      BY <1>4 DEF Answer, Typed, FeedTypeOK
  <2>2. Full(c) => Cardinality(page[c]) = limit[c]
      BY <1>1, PagesAreFinite DEF Full
  <2> QED
      BY <1>4, <2>1, <2>2 DEF Answer
<1>7. RowsAfter(c) = {}
    BY <1>1, <1>6, LimitHidesNothing DEF Steps
<1>8. q <= cursor[c]
    BY <1>7 DEF RowsAfter, Typed, FeedTypeOK, TypeInv, TypeOK
<1> QED
    BY <1>5, <1>8 DEF FollowInv

LEMMA PagesInvariance == FeedSpec => []PagesInv
<1>1. FeedInit => PagesInv
    BY DEF FeedInit, PagesInv
<1>2. Typed /\ PagesInv /\ [FeedNext]_allVars => PagesInv'
    BY PagesStep
<1> QED
    BY <1>1, <1>2, FollowInvariance, PTL DEF FeedSpec

\* When an answer to a proper request says Done, the client has been told every
\* change in the table (GetChanges, GetChangesInternal).
THEOREM DonesAreRight == FeedSpec => DoneIsRight
<1>1. Typed /\ FollowInv /\ PagesInv /\ [FeedNext]_allVars => DoneStep
    BY DoneStepRight
<1>2. FeedSpec => [][DoneStep]_allVars
    BY <1>1, FollowInvariance, PagesInvariance, PTL DEF FeedSpec
<1> QED
    BY <1>2 DEF DoneIsRight, DoneStep

(***************************************************************************)
(* The store under the feed.  Reading the changes does nothing to it, and  *)
(* an answer that is lost only counts as a failure.                        *)
(***************************************************************************)
LEMMA LostAnswerIsSafe ==
    ASSUME StoreSafe, NEW c \in Clients, LoseAnswer(c) PROVE StoreSafe'
<1> USE DEF tables, handler
<1>1. /\ UNCHANGED <<recursiveTriggers, sites, photos, changes, lastSeq, files, used,
                      lock, pc, loc, created>>
      /\ failures' = failures + 1 /\ failures < MaxFailures
    BY DEF LoseAnswer
<1>2. failures \in Nat /\ failures' \in 0 .. MaxFailures
    BY <1>1, StoreAssumption DEF StoreSafe, TypeInv, TypeOK
<1>3. TypeInv' /\ LockInv' /\ TablesInv'
    BY <1>1, <1>2
    DEF StoreSafe, TypeInv, TypeOK, LocalInv, LockInv, TablesInv, ReferencesIntact,
        LatestChangeOnly
<1>4. FilesInv'
    BY <1>1, <1>2 DEF FilesInv, Clean
<1>5. OrphansInv'
  <2>1. Orphans' = Orphans /\ (OldFileGone => OldFileGone')
      BY <1>1 DEF Orphans, Pending, ImagesOf, OldFileGone
  <2>2. IsFiniteSet(Orphans) => Cardinality(Orphans) \in Nat
      BY FS_CardinalityType
  <2> QED
      BY <1>1, <1>2, <2>1, <2>2 DEF StoreSafe, OrphansInv
<1>6. OwnersInv'
    BY <1>1 DEF StoreSafe, OwnersInv, FileOwners, ImagesDiffer, UuidsUsed, Stored, ImagesOf
<1>7. DamageInv'
  <2>1. DamagedSites' = DamagedSites /\ Unannounced' = Unannounced
      BY <1>1 DEF DamagedSites, Damaged, Unannounced
  <2>2. DamageIs(failures) => DamageIs(failures)'
      BY <1>1, <1>2, <2>1, OneMoreDamage
  <2> QED
      BY <2>2 DEF StoreSafe, DamageInv
<1> QED
    BY <1>3, <1>4, <1>5, <1>6, <1>7 DEF StoreSafe

LEMMA StoreSafeInvariance == FeedSpec => []StoreSafe
<1>1. FeedInit => StoreSafe
    BY StoreSafeInit DEF FeedInit
<1>2. StoreSafe /\ [FeedNext]_allVars => StoreSafe'
    BY FeedStepOfStore, StoreSafeStep, LostAnswerIsSafe
<1> QED
    BY <1>1, <1>2, PTL DEF FeedSpec

\* What the store promises holds with clients that follow its changes, whatever
\* answers are lost (GetChanges, GetLastChange).
THEOREM FeedKeepsTheStore == FeedSpec => []StorePromise
    BY StoreSafeInvariance, SafeStoreKeepsPromise, PTL

\* With no failure and no PUT of a photo, the store that clients follow is a
\* library in which an upload is one step (ReplaceImage, GetChanges).
THEOREM FeedReadsALibrary ==
    ASSUME MaxFailures = 0, ~PhotoPuts PROVE FeedSpec => ImplementsLibrary
<1>1. FeedInit => Init
    BY DEF FeedInit
<1>2. TypeInv /\ [FeedNext]_allVars => [Next]_vars
  <2> SUFFICES ASSUME TypeInv, NEW c \in Clients, LoseAnswer(c) PROVE FALSE
      BY FeedStepOfStore
  <2> QED
      BY DEF LoseAnswer, TypeInv, TypeOK
<1>3. FeedSpec => []TypeInv
    BY StoreSafeInvariance, PTL DEF StoreSafe
<1> QED
    BY <1>1, <1>2, <1>3, StoreIsALibrary, PTL DEF FeedSpec, Spec

(***************************************************************************)
(* Images told.  What a client was not told of, when it is told that there *)
(* is nothing more, is what the store has not announced.                   *)
(***************************************************************************)
ToldStep ==
    ~PhotoPuts =>
        \A c \in Clients :
            c \in reading /\ done'[c] /\ limit[c] \in 1 .. MaxResults /\ from[c] = 0 =>
                Cardinality(ImagesUntold(c)') <= failures

LEMMA ToldStepRight ==
    ASSUME Typed, FollowInv, PagesInv, StoreSafe, [FeedNext]_allVars PROVE ToldStep
<1> SUFFICES ASSUME ~PhotoPuts, NEW c \in Clients, c \in reading, done'[c],
                    limit[c] \in 1 .. MaxResults, from[c] = 0
             PROVE  Cardinality(ImagesUntold(c)') <= failures
    BY DEF ToldStep
<1>1. UNCHANGED <<photos, changes, pc, loc>>
    BY DoneOnlyByAnswer DEF Answer, vars, tables, handler
<1>2. \A q \in DOMAIN changes : q \in heard'[c]
  <2>1. DoneStep
      BY DoneStepRight
  <2>2. \A q \in DOMAIN changes : from[c] < q
      BY DEF Typed, TypeInv, TypeOK
  <2> QED
      BY <2>1, <2>2 DEF DoneStep
<1>3. ImagesUntold(c)' \subseteq Unannounced
    BY <1>1, <1>2 DEF ImagesUntold, Unannounced, Late
<1>4. /\ IsFiniteSet(DamagedSites) /\ IsFiniteSet(Unannounced)
      /\ Cardinality(DamagedSites) + Cardinality(Unannounced) <= failures
    BY DEF StoreSafe, DamageInv, DamageIs
<1>5. IsFiniteSet(ImagesUntold(c)') /\ Cardinality(ImagesUntold(c)') <= Cardinality(Unannounced)
    BY <1>3, <1>4, FS_Subset
<1>6. /\ Cardinality(DamagedSites) \in Nat /\ Cardinality(Unannounced) \in Nat
      /\ Cardinality(ImagesUntold(c)') \in Nat /\ failures \in Nat
    BY <1>4, <1>5, FS_CardinalityType, StoreAssumption DEF Typed, TypeInv, TypeOK
<1> QED
    BY <1>4, <1>5, <1>6

\* The feed and the store together: a client that has followed all changes and is
\* told Done lacks one image for each crash or storage error at most, however
\* uploads, deletions and the reading of pages were interleaved (ReplaceImage,
\* GetChanges, GetChangesInternal).
THEOREM ImagesReachClients == FeedSpec => ImagesAreTold
<1>1. Typed /\ FollowInv /\ PagesInv /\ StoreSafe /\ [FeedNext]_allVars => ToldStep
    BY ToldStepRight
<1>2. FeedSpec => [][ToldStep]_allVars
    BY <1>1, FollowInvariance, PagesInvariance, StoreSafeInvariance, PTL DEF FeedSpec
<1> QED
    BY <1>2 DEF ImagesAreTold, ToldStep

(***************************************************************************)
(* No change twice.  What a client was told and is still in the table is   *)
(* not after "since", as long as the numbers fit an int.                   *)
(***************************************************************************)
OnceInv ==
    lastSeq < IntBound =>
        \A c \in Clients :
            /\ 0 <= since[c]
            /\ \A h \in heard[c] \cap DOMAIN changes : h <= since[c]
            /\ \A h \in page[c] : h <= cursor[c] /\ h \notin heard[c]
            /\ c \notin reading => page[c] = {}

LEMMA OnceGrows ==
    ASSUME Typed, OnceInv, RowsAtEnd, UNCHANGED <<since, heard>>,
           UNCHANGED request \/ \E C : EndRequests(C)
    PROVE  OnceInv'
<1> SUFFICES ASSUME lastSeq' < IntBound, NEW c \in Clients
             PROVE  /\ 0 <= since[c]
                    /\ \A h \in heard[c] \cap DOMAIN changes' : h <= since[c]
                    /\ \A h \in page'[c] : h <= cursor'[c] /\ h \notin heard[c]
                    /\ c \notin reading' => page'[c] = {}
    BY DEF OnceInv
<1>1. lastSeq < IntBound
    BY FeedAssumption DEF RowsAtEnd, Typed, TypeInv, TypeOK
<1>2. heard[c] \cap DOMAIN changes' \subseteq heard[c] \cap DOMAIN changes
    BY DEF RowsAtEnd, Typed, FeedTypeOK, TypeInv, TypeOK
<1>3. CASE UNCHANGED request
    BY <1>1, <1>2, <1>3 DEF OnceInv, request
<1>4. CASE \E C : EndRequests(C)
    BY <1>1, <1>2, <1>4 DEF OnceInv, EndRequests
<1> QED
    BY <1>3, <1>4

LEMMA OnceStep ==
    ASSUME Typed, FollowInv, OnceInv, [FeedNext]_allVars PROVE OnceInv'
<1>0. /\ RowsAtEnd
      /\ lastSeq \in Nat /\ DOMAIN changes \subseteq 1 .. lastSeq
      /\ reading \subseteq Clients
      /\ \A c \in Clients : since[c] \in Int /\ cursor[c] \in Int
                         /\ page[c] \subseteq 1 .. lastSeq
    BY FeedStoreStep DEF Typed, FeedTypeOK, TypeInv, TypeOK
<1>1. CASE StoreStep
    BY <1>0, <1>1, OnceGrows DEF StoreStep, feedVars
<1>2. CASE FeedCrash
    BY <1>0, <1>2, OnceGrows DEF FeedCrash
<1>3. ASSUME NEW c \in Clients, LoseAnswer(c) PROVE OnceInv'
    BY <1>0, <1>3, OnceGrows DEF LoseAnswer
<1>4. ASSUME NEW c \in Clients, NEW arg \in LimitArguments, GetChanges(c, arg)
      PROVE  OnceInv'
  <2>1. /\ reading' = reading \cup {c} /\ page'[c] = {}
        /\ UNCHANGED <<changes, lastSeq, since, heard>>
        /\ \A d \in Clients \ {c} : cursor'[d] = cursor[d] /\ page'[d] = page[d]
      BY <1>4 DEF GetChanges, Typed, FeedTypeOK, vars, tables
  <2> QED
      BY <2>1 DEF OnceInv
<1>5. ASSUME NEW c \in Clients, ReadRow(c) PROVE OnceInv'
  <2>1. PICK q \in DOMAIN changes :
           /\ q > cursor[c]
           /\ page' = [page EXCEPT ![c] = @ \cup {q}]
           /\ cursor' = [cursor EXCEPT ![c] = q]
      BY <1>5 DEF ReadRow, RowsAfter
  <2>2. c \in reading /\ UNCHANGED <<changes, lastSeq, reading, since, heard>>
      BY <1>5 DEF ReadRow, vars, tables
  <2>3. /\ cursor'[c] = q /\ page'[c] = page[c] \cup {q}
        /\ \A d \in Clients \ {c} : cursor'[d] = cursor[d] /\ page'[d] = page[d]
      BY <2>1 DEF Typed, FeedTypeOK
  <2>4. q \in Int /\ since[c] < q
      BY <1>0, <2>1, <2>2 DEF FollowInv
  <2>5. lastSeq < IntBound =>
           \A h \in page'[c] : h <= cursor'[c] /\ h \notin heard[c]
      BY <1>0, <2>1, <2>3, <2>4 DEF OnceInv
  <2> QED
      BY <2>2, <2>3, <2>5 DEF OnceInv
<1>6. ASSUME NEW c \in Clients, Answer(c) PROVE OnceInv'
  <2>1. /\ c \in reading /\ reading' = reading \ {c} /\ page'[c] = {}
        /\ UNCHANGED <<changes, lastSeq>>
        /\ \A d \in Clients \ {c} : cursor'[d] = cursor[d] /\ page'[d] = page[d]
      BY <1>6 DEF Answer, EndRequests, vars, tables
  <2>2. /\ since'[c] = Cut(cursor[c]) /\ heard'[c] = heard[c] \cup page[c]
        /\ \A d \in Clients \ {c} : since'[d] = since[d] /\ heard'[d] = heard[d]
      BY <1>6 DEF Answer, Typed, FeedTypeOK
  <2>3. ASSUME lastSeq < IntBound
        PROVE  /\ 0 <= since'[c]
               /\ \A h \in heard'[c] \cap DOMAIN changes : h <= since'[c]
    <3>1. 0 <= since[c] /\ since[c] <= cursor[c] /\ cursor[c] <= lastSeq
        BY <1>0, <2>1, <2>3 DEF FollowInv, OnceInv
    <3>2. Cut(cursor[c]) = cursor[c]
        BY <1>0, <2>3, <3>1, CutFacts, FeedAssumption
    <3> QED
        BY <1>0, <2>2, <2>3, <3>1, <3>2 DEF OnceInv
  <2> QED
      BY <2>1, <2>2, <2>3 DEF OnceInv
<1>7. ASSUME NEW c \in Clients, GetLastChange(c) PROVE OnceInv'
  <2>1. PICK q \in DOMAIN changes \cup {0} :
           /\ \A r \in DOMAIN changes : r <= q
           /\ since' = [since EXCEPT ![c] = Cut(q)]
           /\ heard' = [heard EXCEPT ![c] = @ \cup ({q} \ {0})]
      BY <1>7 DEF GetLastChange
  <2>2. /\ c \notin reading
        /\ UNCHANGED <<changes, lastSeq, reading, cursor, page>>
      BY <1>7 DEF GetLastChange, vars, tables, request
  <2>3. since'[c] = Cut(q)
      BY <2>1 DEF Typed, FeedTypeOK
  <2>4. \A d \in Clients \ {c} : since'[d] = since[d] /\ heard'[d] = heard[d]
      BY <2>1 DEF Typed, FeedTypeOK
  <2>5. lastSeq < IntBound => Cut(q) = q /\ 0 <= q
      BY <1>0, CutFacts, FeedAssumption
  <2> QED
      BY <1>0, <2>1, <2>2, <2>3, <2>4, <2>5 DEF OnceInv
<1>8. CASE UNCHANGED allVars
    BY <1>8 DEF allVars, feedVars, request, vars, tables, OnceInv
<1> QED
    BY <1>1, <1>2, <1>3, <1>4, <1>5, <1>6, <1>7, <1>8 DEF FeedNext

LEMMA OnceInvariance == FeedSpec => []OnceInv
<1>1. FeedInit => OnceInv
    BY DEF FeedInit, OnceInv
<1>2. Typed /\ FollowInv /\ OnceInv /\ [FeedNext]_allVars => OnceInv'
    BY OnceStep
<1> QED
    BY <1>1, <1>2, FollowInvariance, PTL DEF FeedSpec

\* No page repeats a change that the client was told, as long as the numbers
\* fit an int (GetChangesInternal).
THEOREM NoChangesTwice == FeedSpec => []NoChangeTwice
<1>1. OnceInv => NoChangeTwice
    BY DEF OnceInv, NoChangeTwice
<1> QED
    BY <1>1, OnceInvariance, PTL

(***************************************************************************)
(* The contract.  A page that is being read holds exactly the rows between *)
(* "since" and the cursor, but for some that were deleted since.           *)
(***************************************************************************)
SpanInv ==
    \A c \in reading :
        /\ \A h \in page[c] : since[c] < h /\ h <= cursor[c]
        /\ cursor[c] \in page[c] \cup {since[c]}
        /\ \A q \in DOMAIN changes : since[c] < q /\ q <= cursor[c] => q \in page[c]

LEMMA SpanGrows ==
    ASSUME Typed, FollowInv, SpanInv, RowsAtEnd, UNCHANGED since,
           UNCHANGED request \/ \E C : EndRequests(C)
    PROVE  SpanInv'
<1>1. /\ lastSeq \in Nat /\ reading \subseteq Clients
      /\ \A c \in Clients : cursor[c] \in Int
    BY DEF Typed, FeedTypeOK, TypeInv, TypeOK
<1>2. \A q \in DOMAIN changes' : q \in Int /\ (q \in DOMAIN changes \/ q > lastSeq)
    BY <1>1 DEF RowsAtEnd
<1>3. /\ reading' \subseteq reading
      /\ \A c \in reading' : cursor'[c] = cursor[c] /\ page'[c] = page[c]
    BY <1>1 DEF EndRequests, request
<1>4. \A c \in reading : cursor[c] <= lastSeq
    BY DEF FollowInv
<1>5. \A c \in reading : \A q \in DOMAIN changes' : q <= cursor[c] => q \in DOMAIN changes
    BY <1>1, <1>2, <1>4
<1> QED
    BY <1>3, <1>5 DEF SpanInv

LEMMA SpanStep ==
    ASSUME Typed, FollowInv, SpanInv, [FeedNext]_allVars PROVE SpanInv'
<1>0. /\ RowsAtEnd
      /\ lastSeq \in Nat /\ DOMAIN changes \subseteq 1 .. lastSeq
      /\ reading \subseteq Clients
      /\ \A c \in Clients : since[c] \in Int /\ cursor[c] \in Int
                         /\ page[c] \subseteq 1 .. lastSeq
    BY FeedStoreStep DEF Typed, FeedTypeOK, TypeInv, TypeOK
<1>1. CASE StoreStep
    BY <1>0, <1>1, SpanGrows DEF StoreStep, feedVars
<1>2. CASE FeedCrash
    BY <1>0, <1>2, SpanGrows DEF FeedCrash
<1>3. ASSUME NEW c \in Clients, LoseAnswer(c) PROVE SpanInv'
    BY <1>0, <1>3, SpanGrows DEF LoseAnswer
<1>4. ASSUME NEW c \in Clients, NEW arg \in LimitArguments, GetChanges(c, arg)
      PROVE  SpanInv'
  <2>1. /\ reading' = reading \cup {c} /\ page'[c] = {} /\ cursor'[c] = since[c]
        /\ UNCHANGED <<changes, since>>
        /\ \A d \in Clients \ {c} : cursor'[d] = cursor[d] /\ page'[d] = page[d]
        /\ c \notin reading
      BY <1>4 DEF GetChanges, Typed, FeedTypeOK, vars, tables
  <2>2. \A q \in DOMAIN changes : ~(since[c] < q /\ q <= since[c])
      BY <1>0
  <2> QED
      BY <1>0, <2>1, <2>2 DEF SpanInv
<1>5. ASSUME NEW c \in Clients, ReadRow(c) PROVE SpanInv'
  <2>1. PICK q \in DOMAIN changes :
           /\ q > cursor[c]
           /\ \A r \in DOMAIN changes : r > cursor[c] => q <= r
           /\ page' = [page EXCEPT ![c] = @ \cup {q}]
           /\ cursor' = [cursor EXCEPT ![c] = q]
      BY <1>5 DEF ReadRow, RowsAfter
  <2>2. c \in reading /\ UNCHANGED <<changes, reading, since>>
      BY <1>5 DEF ReadRow, vars, tables
  <2>3. /\ cursor'[c] = q /\ page'[c] = page[c] \cup {q}
        /\ \A d \in Clients \ {c} : cursor'[d] = cursor[d] /\ page'[d] = page[d]
      BY <2>1 DEF Typed, FeedTypeOK
  <2>4. q \in Int /\ since[c] <= cursor[c] /\ since[c] < q
      BY <1>0, <2>1, <2>2 DEF FollowInv
  <2>5. \A h \in page'[c] : since[c] < h /\ h <= q
      BY <1>0, <2>1, <2>2, <2>3, <2>4 DEF SpanInv
  <2>6. \A r \in DOMAIN changes : r <= q => r <= cursor[c] \/ r = q
      BY <1>0, <2>1, <2>4
  <2>7. \A r \in DOMAIN changes : since[c] < r /\ r <= q => r \in page'[c]
      BY <2>2, <2>3, <2>6 DEF SpanInv
  <2> QED
      BY <1>0, <2>2, <2>3, <2>5, <2>7 DEF SpanInv
<1>6. ASSUME NEW c \in Clients, Answer(c) PROVE SpanInv'
  <2>1. /\ reading' = reading \ {c} /\ UNCHANGED changes
        /\ \A d \in Clients \ {c} :
              cursor'[d] = cursor[d] /\ page'[d] = page[d] /\ since'[d] = since[d]
      BY <1>6 DEF Answer, EndRequests, vars, tables, Typed, FeedTypeOK
  <2> QED
      BY <1>0, <2>1 DEF SpanInv
<1>7. ASSUME NEW c \in Clients, GetLastChange(c) PROVE SpanInv'
  <2>1. /\ c \notin reading /\ UNCHANGED <<changes, reading, cursor, page>>
        /\ \A d \in Clients \ {c} : since'[d] = since[d]
      BY <1>7 DEF GetLastChange, vars, tables, request, Typed, FeedTypeOK
  <2> QED
      BY <1>0, <2>1 DEF SpanInv
<1>8. CASE UNCHANGED allVars
    BY <1>8 DEF allVars, feedVars, request, vars, tables, SpanInv
<1> QED
    BY <1>1, <1>2, <1>3, <1>4, <1>5, <1>6, <1>7, <1>8 DEF FeedNext

LEMMA SpanInvariance == FeedSpec => []SpanInv
<1>1. FeedInit => SpanInv
    BY DEF FeedInit, SpanInv
<1>2. Typed /\ FollowInv /\ SpanInv /\ [FeedNext]_allVars => SpanInv'
    BY SpanStep
<1> QED
    BY <1>1, <1>2, FollowInvariance, PTL DEF FeedSpec

\* What a client has asked for, in the contract's words
Asked(c) ==
    IF c \notin reading THEN "none"
    ELSE IF limit[c] \in 1 .. MaxResults THEN "proper" ELSE "any"

\* A number is sent as an int.
LEMMA CutSends ==
    ASSUME Typed, NEW c \in Clients, NEW n \in Int, -IntBound <= n,
           since' = [since EXCEPT ![c] = Cut(n)]
    PROVE  Feed!Send(c, n)
<1>1. /\ Cut(n) \in -IntBound .. IntBound - 1 /\ Cut(n) <= n
      /\ n < IntBound => Cut(n) = n
    BY CutFacts, FeedAssumption
<1> QED
    BY <1>1 DEF Feed!Send

\* The loop ends exactly when there is nothing after the cursor, or the page is
\* full; and then "Done" is exact.
LEMMA DoneIsExact ==
    ASSUME Typed, PagesInv, SpanInv, NEW c \in Clients, Answer(c),
           limit[c] \in 1 .. MaxResults
    PROVE  /\ done'[c] <=> RowsAfter(c) = {}
           /\ page[c] = {} => done'[c]
<1>1. c \in reading /\ Cardinality(page[c]) <= limit[c]
    BY DEF Answer, PagesInv
<1>2. Steps(c) <=> RowsAfter(c) # {}
    BY <1>1, LimitHidesNothing DEF Steps
<1>3. done'[c] <=> ~(Cardinality(page[c]) = limit[c] /\ Steps(c))
    BY DEF Answer, Typed, FeedTypeOK
<1>4. Full(c) <=> Cardinality(page[c]) = limit[c]
    BY <1>1, PagesAreFinite DEF Full
<1>5. Full(c) \/ ~Steps(c)
    BY DEF Answer
<1>6. page[c] = {} => Cardinality(page[c]) # limit[c]
    BY FS_EmptySet
<1> QED
    BY <1>2, <1>3, <1>4, <1>5, <1>6

LEMMA AnswerTells ==
    ASSUME Typed, FollowInv, PagesInv, SpanInv, NEW c \in Clients, Answer(c)
    PROVE  Feed!Tell(c)
<1>0. /\ lastSeq \in Nat /\ DOMAIN changes \subseteq 1 .. lastSeq
      /\ reading \subseteq Clients /\ page[c] \in SUBSET (1 .. lastSeq)
      /\ since[c] \in -IntBound .. IntBound - 1 /\ cursor[c] \in Int
      /\ IntBound \in Nat
    BY FeedAssumption DEF Typed, FeedTypeOK, TypeInv, TypeOK
<1>1. /\ c \in reading /\ reading' = reading \ {c}
      /\ limit' = [d \in Clients |-> IF d \in {c} THEN 0 ELSE limit[d]]
      /\ UNCHANGED <<changes, lastSeq>>
    BY DEF Answer, EndRequests, vars, tables
<1>2. PICK n : n = cursor[c]
    OBVIOUS
<1>3. PICK told : told = page[c]
    OBVIOUS
<1>4. PICK all \in BOOLEAN : done' = [done EXCEPT ![c] = all]
    BY DEF Answer
<1>5. done'[c] = all
    BY <1>4 DEF Typed, FeedTypeOK
<1>6. /\ n \in told \cup {since[c]}
      /\ \A q \in told : since[c] < q /\ q <= n
      /\ \A q \in DOMAIN changes : since[c] < q /\ q <= n => q \in told
    BY <1>1, <1>2, <1>3 DEF SpanInv
<1>7. n \in Int /\ -IntBound <= n
    BY <1>0, <1>1, <1>2 DEF FollowInv
<1>8. Feed!Send(c, n)
    BY <1>2, <1>7, CutSends DEF Answer
<1>9. heard' = [heard EXCEPT ![c] = @ \cup told]
    BY <1>3 DEF Answer
<1>10. Asked(c) = "proper" =>
          /\ all <=> \A q \in DOMAIN changes : q <= n
          /\ all \/ told # {}
  <2>1. RowsAfter(c) = {} <=> \A q \in DOMAIN changes : q <= n
      BY <1>0, <1>2 DEF RowsAfter
  <2> QED
      BY <1>1, <1>3, <1>5, <2>1, DoneIsExact DEF Asked
<1>11. \A d \in Clients : Asked(d)' = IF d = c THEN "none" ELSE Asked(d)
    BY <1>0, <1>1 DEF Asked
<1>12. [d \in Clients |-> Asked(d)]' = [[d \in Clients |-> Asked(d)] EXCEPT ![c] = "none"]
    BY <1>11
<1>13. [d \in Clients |-> Asked(d)][c] = Asked(c) /\ Asked(c) # "none"
    BY <1>1 DEF Asked
<1>14. \E t \in SUBSET (1 .. lastSeq), a \in BOOLEAN :
       \E m \in t \cup {since[c]} :
          /\ \A q \in t : since[c] < q /\ q <= m
          /\ \A q \in DOMAIN changes : since[c] < q /\ q <= m => q \in t
          /\ Asked(c) = "proper" =>
                /\ a <=> \A q \in DOMAIN changes : q <= m
                /\ a \/ t # {}
          /\ Feed!Send(c, m)
          /\ heard' = [heard EXCEPT ![c] = @ \cup t]
          /\ done' = [done EXCEPT ![c] = a]
    BY <1>0, <1>3, <1>4, <1>6, <1>8, <1>9, <1>10
<1> QED
    BY <1>1, <1>12, <1>13, <1>14 DEF Feed!Tell, Asked

LEMMA FirstRequestAsks ==
    ASSUME Typed, NEW c \in Clients, NEW arg \in LimitArguments, GetChanges(c, arg)
    PROVE  Feed!Ask(c)
<1>1. PICK l \in Limits(arg) : limit' = [limit EXCEPT ![c] = l]
    BY DEF GetChanges
<1>2. /\ c \notin reading /\ reading' = reading \cup {c}
      /\ done' = [done EXCEPT ![c] = FALSE]
      /\ UNCHANGED <<changes, lastSeq, since, heard>>
    BY DEF GetChanges, vars, tables
<1>3. limit'[c] = l /\ \A d \in Clients \ {c} : limit'[d] = limit[d]
    BY <1>1 DEF Typed, FeedTypeOK
<1>4. PICK r \in {"proper", "any"} : Asked(c)' = r
    BY <1>2 DEF Asked
<1>5. \A d \in Clients : Asked(d)' = IF d = c THEN r ELSE Asked(d)
    BY <1>2, <1>3, <1>4 DEF Asked
<1>6. [d \in Clients |-> Asked(d)]' = [[d \in Clients |-> Asked(d)] EXCEPT ![c] = r]
    BY <1>5
<1>7. [d \in Clients |-> Asked(d)][c] = "none"
    BY <1>2 DEF Asked
<1> QED
    BY <1>2, <1>6, <1>7 DEF Feed!Ask, Feed!Requests, Asked

LEMMA LastChangeBegins ==
    ASSUME Typed, NEW c \in Clients, GetLastChange(c) PROVE Feed!Begin(c)
<1>0. lastSeq \in Nat /\ DOMAIN changes \subseteq 1 .. lastSeq /\ IntBound \in Nat
    BY FeedAssumption DEF Typed, TypeInv, TypeOK
<1>1. PICK n \in DOMAIN changes \cup {0} :
         /\ \A r \in DOMAIN changes : r <= n
         /\ since' = [since EXCEPT ![c] = Cut(n)]
         /\ heard' = [heard EXCEPT ![c] = @ \cup ({n} \ {0})]
    BY DEF GetLastChange
<1>2. {n} \ {0} = DOMAIN changes \cap {n}
    BY <1>0, <1>1
<1>3. Feed!Send(c, n)
  <2>1. n \in Int /\ -IntBound <= n
      BY <1>0
  <2> QED
      BY <1>1, <2>1, CutSends
<1>4. \E m \in DOMAIN changes \cup {0} :
         /\ \A r \in DOMAIN changes : r <= m
         /\ Feed!Send(c, m)
         /\ heard' = [heard EXCEPT ![c] = @ \cup (DOMAIN changes \cap {m})]
    BY <1>1, <1>2, <1>3
<1>5. /\ done' = [done EXCEPT ![c] = TRUE] /\ c \notin reading
      /\ UNCHANGED <<changes, lastSeq, reading, limit>>
    BY DEF GetLastChange, vars, tables, request
<1>6. [d \in Clients |-> Asked(d)]' = [d \in Clients |-> Asked(d)]
    BY <1>5 DEF Asked
<1>7. [d \in Clients |-> Asked(d)][c] = "none"
    BY <1>5 DEF Asked
<1> QED
    BY <1>4, <1>5, <1>6, <1>7 DEF Feed!Begin, Asked

\* The requests of some clients end without an answer.
LEMMA EndedRequestsAreLost ==
    ASSUME Typed, NEW C \in SUBSET Clients, EndRequests(C),
           UNCHANGED <<changes, lastSeq, since, done, heard>>
    PROVE  Feed!Lose(C)
<1>1. \A d \in Clients : Asked(d)' = IF d \in C THEN "none" ELSE Asked(d)
    BY DEF EndRequests, Asked
<1>2. [d \in Clients |-> Asked(d)]' =
      [d \in Clients |-> IF d \in C THEN "none" ELSE [e \in Clients |-> Asked(e)][d]]
    BY <1>1
<1> QED
    BY <1>2 DEF Feed!Lose, Asked

LEMMA StoreStepsChange ==
    ASSUME Typed, RowsAtEnd, UNCHANGED feedVars PROVE Feed!Change
<1>1. lastSeq \in Nat /\ lastSeq' \in Nat
    BY DEF Typed, TypeInv, TypeOK, RowsAtEnd
<1>2. DOMAIN changes' \subseteq DOMAIN changes \cup (lastSeq + 1 .. lastSeq')
    BY <1>1 DEF RowsAtEnd
<1>3. [d \in Clients |-> Asked(d)]' = [d \in Clients |-> Asked(d)]
    BY DEF Asked, feedVars, request
<1> QED
    BY <1>2, <1>3 DEF Feed!Change, RowsAtEnd, feedVars, Asked

\* Reading a row cannot be seen.
LEMMA RowsAreReadUnseen ==
    ASSUME NEW c \in Clients, ReadRow(c) PROVE UNCHANGED Feed!vars
    BY DEF ReadRow, vars, tables, Feed!vars

LEMMA FeedContractStep ==
    ASSUME Typed, FollowInv, PagesInv, SpanInv, [FeedNext]_allVars
    PROVE  [Feed!Next]_(Feed!vars)
<1>1. CASE StoreStep
    BY <1>1, FeedStoreStep, StoreStepsChange DEF StoreStep, Feed!Next, Typed
<1>2. CASE FeedCrash
  <2>1. UNCHANGED <<changes, lastSeq, since, done, heard>> /\ EndRequests(Clients)
      BY <1>2 DEF FeedCrash, Crash, tables
  <2>2. Feed!Lose(Clients)
      BY <2>1, EndedRequestsAreLost
  <2> QED
      BY <2>2 DEF Feed!Next
<1>3. ASSUME NEW c \in Clients, LoseAnswer(c) PROVE [Feed!Next]_(Feed!vars)
  <2>1. UNCHANGED <<changes, lastSeq, since, done, heard>> /\ EndRequests({c})
      BY <1>3 DEF LoseAnswer, tables
  <2>2. {c} \in SUBSET Clients /\ Feed!Lose({c})
      BY <2>1, EndedRequestsAreLost
  <2> QED
      BY <2>2 DEF Feed!Next
<1>4. ASSUME NEW c \in Clients, NEW arg \in LimitArguments, GetChanges(c, arg)
      PROVE  [Feed!Next]_(Feed!vars)
    BY <1>4, FirstRequestAsks DEF Feed!Next
<1>5. ASSUME NEW c \in Clients, ReadRow(c) PROVE [Feed!Next]_(Feed!vars)
    BY <1>5, RowsAreReadUnseen
<1>6. ASSUME NEW c \in Clients, Answer(c) PROVE [Feed!Next]_(Feed!vars)
    BY <1>6, AnswerTells DEF Feed!Next
<1>7. ASSUME NEW c \in Clients, GetLastChange(c) PROVE [Feed!Next]_(Feed!vars)
    BY <1>7, LastChangeBegins DEF Feed!Next
<1>8. CASE UNCHANGED allVars
    BY <1>8 DEF allVars, feedVars, request, vars, tables, Feed!vars
<1> QED
    BY <1>1, <1>2, <1>3, <1>4, <1>5, <1>6, <1>7, <1>8 DEF FeedNext

\* The feed implements its contract, in which an answer is one look at the
\* table, for any clients, pages, limits and width of int, with crashes and lost
\* answers (GetChangesInternal, GetChanges, GetLastChange, GetSinceAndLimit).
THEOREM FeedKeepsItsContract == FeedSpec => ImplementsFeed
<1>1. FeedInit => Feed!Init
    BY DEF FeedInit, Init, Feed!Init
<1>2. Typed /\ FollowInv /\ PagesInv /\ SpanInv /\ [FeedNext]_allVars
      => [Feed!Next]_(Feed!vars)
    BY FeedContractStep
<1> QED
    BY <1>1, <1>2, FollowInvariance, PagesInvariance, SpanInvariance, PTL
    DEF FeedSpec, ImplementsFeed, Feed!Spec

(***************************************************************************)
(* The way of a request to its answer, and of a client to the end of the   *)
(* table.                                                                  *)
(***************************************************************************)
\* A step leaves the request of the client c as it is, reads one more of at most
\* limit rows, loses the answer, or gives one.  An answer to a proper request
\* that does not say Done sends the client forward, as long as the numbers fit.
NearsAnswer(c) ==
    c \in reading =>
        \/ /\ c \in reading' /\ limit'[c] = limit[c] /\ since'[c] = since[c]
           /\ page'[c] = page[c]
        \/ /\ c \in reading' /\ limit'[c] = limit[c] /\ since'[c] = since[c]
           /\ Cardinality(page'[c]) = Cardinality(page[c]) + 1
           /\ Cardinality(page'[c]) <= limit[c]
        \/ /\ c \notin reading' /\ since'[c] = since[c]
           /\ failures' = failures + 1
        \/ /\ c \notin reading'
           /\ limit[c] \in 1 .. MaxResults /\ lastSeq < IntBound =>
                  done'[c] \/ since[c] < since'[c]

LEMMA ReadingNearsAnswer ==
    ASSUME Typed, SpanInv, NEW c \in Clients, ReadRow(c) PROVE NearsAnswer(c)
<1>0. lastSeq \in Nat /\ DOMAIN changes \subseteq 1 .. lastSeq
      /\ cursor[c] \in Int /\ limit[c] \in Nat /\ DOMAIN page = Clients
    BY DEF Typed, FeedTypeOK, TypeInv, TypeOK
<1>1. PICK q \in RowsAfter(c) : page' = [page EXCEPT ![c] = @ \cup {q}]
    BY DEF ReadRow
<1>2. /\ c \in reading /\ Cardinality(page[c]) \in Nat /\ Cardinality(page[c]) < limit[c]
      /\ UNCHANGED <<reading, limit, since>>
    BY <1>0, PagesAreFinite DEF ReadRow, Full
<1>3. q \notin page[c]
  <2>1. q > cursor[c] /\ q \in Int
      BY <1>0, <1>1 DEF RowsAfter
  <2>2. page[c] \subseteq 1 .. lastSeq /\ \A h \in page[c] : h <= cursor[c]
      BY <1>2 DEF SpanInv, Typed, FeedTypeOK
  <2> QED
      BY <1>0, <2>1, <2>2
<1>4. Cardinality(page[c] \cup {q}) = Cardinality(page[c]) + 1
    BY <1>3, PagesAreFinite, FS_AddElement
<1>5. page'[c] = page[c] \cup {q}
    BY <1>0, <1>1
<1> QED
    BY <1>0, <1>2, <1>4, <1>5 DEF NearsAnswer

LEMMA AnswersGoForward ==
    ASSUME Typed, FollowInv, PagesInv, SpanInv, NEW c \in Clients, Answer(c)
    PROVE  NearsAnswer(c)
<1>0. /\ c \in reading /\ c \notin reading' /\ IntBound \in Nat
      /\ lastSeq \in Nat /\ cursor[c] \in Int
      /\ since[c] \in -IntBound .. IntBound - 1 /\ page[c] \subseteq 1 .. lastSeq
    BY FeedAssumption DEF Answer, EndRequests, Typed, FeedTypeOK, TypeInv, TypeOK
<1>1. ASSUME limit[c] \in 1 .. MaxResults, lastSeq < IntBound
      PROVE  done'[c] \/ since[c] < since'[c]
  <2>1. since'[c] = Cut(cursor[c])
      BY DEF Answer, Typed, FeedTypeOK
  <2>2. /\ \A h \in page[c] : since[c] < h /\ h <= cursor[c]
        /\ since[c] <= cursor[c] /\ cursor[c] <= lastSeq
      BY <1>0 DEF SpanInv, FollowInv
  <2>3. since'[c] = cursor[c]
      BY <1>0, <1>1, <2>1, <2>2, CutFacts
  <2>4. done'[c] \/ page[c] # {}
      BY <1>0, <1>1, DoneIsExact
  <2> QED
      BY <1>0, <2>2, <2>3, <2>4
<1> QED
    BY <1>0, <1>1 DEF NearsAnswer

LEMMA NearsAnswerStep ==
    ASSUME Typed, FollowInv, PagesInv, SpanInv, [FeedNext]_allVars, NEW c \in Clients
    PROVE  NearsAnswer(c)
<1>1. CASE UNCHANGED feedVars
    BY <1>1 DEF NearsAnswer, feedVars, request
<1>2. CASE FeedCrash
    BY <1>2 DEF FeedCrash, Crash, EndRequests, NearsAnswer
<1>3. ASSUME NEW d \in Clients, LoseAnswer(d) PROVE NearsAnswer(c)
    BY <1>3 DEF LoseAnswer, EndRequests, NearsAnswer, Typed, FeedTypeOK
<1>4. CASE ReadRow(c) \/ Answer(c)
    BY <1>4, ReadingNearsAnswer, AnswersGoForward
<1>5. ASSUME NEW d \in Clients \ {c}, ReadRow(d) \/ Answer(d) PROVE NearsAnswer(c)
    BY <1>5 DEF ReadRow, Answer, EndRequests, NearsAnswer, Typed, FeedTypeOK
<1>6. ASSUME NEW d \in Clients,
             (\E arg \in LimitArguments : GetChanges(d, arg)) \/ GetLastChange(d)
      PROVE  NearsAnswer(c)
    BY <1>6 DEF GetChanges, GetLastChange, request, NearsAnswer, Typed, FeedTypeOK
<1> QED
    BY <1>1, <1>2, <1>3, <1>4, <1>5, <1>6 DEF FeedNext, StoreStep, allVars

\* The safety half of EveryChangeHeard: however fast uploads add rows, a page ends
\* after limit of them, and a client that is told of more than it got stands
\* further on in the table (GetChangesInternal, GetChanges).
THEOREM PagesGoForward == FeedSpec => [][\A c \in Clients : NearsAnswer(c)]_allVars
<1>1. Typed /\ FollowInv /\ PagesInv /\ SpanInv /\ [FeedNext]_allVars
      => \A c \in Clients : NearsAnswer(c)
    BY NearsAnswerStep
<1> QED
    BY <1>1, FollowInvariance, PagesInvariance, SpanInvariance, PTL DEF FeedSpec
=============================================================================
