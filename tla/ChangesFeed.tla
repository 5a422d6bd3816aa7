----------------------------- MODULE ChangesFeed -----------------------------
(***************************************************************************)
(* GET /changes: clients follow the table Changes of PhotoStore, page by   *)
(* page (PhotoTrackApi.cpp: GetSinceAndLimit, ListChanges; Database.cpp:   *)
(* GetChangesInternal, GetChanges, GetLastChange).                         *)
(*                                                                         *)
(* These methods use the connection without its mutex: SQLite makes each   *)
(* Step of the statement atomic and finds the next row in the table as it  *)
(* is by then, between any two writes of an upload.                        *)
(*                                                                         *)
(* No client of the repository reads the changes.  Those modelled here use *)
(* the answers as they are meant: "Last" of one is "since" of the next     *)
(* request, and a client that never asked sends no "since".                *)
(***************************************************************************)
EXTENDS PhotoStore

CONSTANTS
    Clients,
    IntBound,   \* 2^31: the least number too large for an int
    MaxResults, \* MAX_RESULTS
    LimitArguments, \* values of the argument "limit" that clients send
    NotANumber  \* an argument that lexical_cast rejects

ASSUME FeedAssumption ==
    /\ MaxResults \in Nat \ {0} /\ IntBound \in Nat /\ MaxResults + 1 < IntBound
    /\ NotANumber \notin Nat
    /\ LimitArguments \subseteq 0 .. 2 * IntBound - 1 \cup {NotANumber}

VARIABLES
    reading,    \* the clients with a request of changes under way
    since,      \* per client: Last of its latest answer
    limit,      \* per request: maxResults
    cursor,     \* per request: last, the seq of the latest row read
    page,       \* per request: the changes read, by seq
    done,       \* per client: Done of its latest answer, FALSE while it waits
    heard,      \* history, per client: the changes it was ever told
    from        \* history, per client: the change it began to follow after

request  == <<reading, limit, cursor, page>>
feedVars == <<request, since, done, heard, from>>
allVars  == <<vars, feedVars>>

-----------------------------------------------------------------------------
\* static_cast<int>, and the conversion of unsigned int by the call of BindInt
Cut(n) ==
    LET r == n % (2 * IntBound) IN IF r < IntBound THEN r ELSE r - 2 * IntBound

FeedTypeOK ==
    /\ reading \in SUBSET Clients
    /\ since \in [Clients -> -IntBound .. IntBound - 1]
    /\ limit \in [Clients -> 0 .. 2 * IntBound - 1]
    /\ cursor \in [Clients -> Int]
    /\ \A c \in Clients : page[c] \in SUBSET (1 .. lastSeq)
    /\ DOMAIN page = Clients
    /\ done \in [Clients -> BOOLEAN]
    /\ \A c \in Clients : heard[c] \in SUBSET (1 .. lastSeq)
    /\ DOMAIN heard = Clients
    /\ from \in [Clients -> 0 .. lastSeq]

FeedInit ==
    /\ Init
    /\ reading = {}
    /\ since = [c \in Clients |-> 0]
    /\ limit = [c \in Clients |-> 0]
    /\ cursor = [c \in Clients |-> 0]
    /\ page = [c \in Clients |-> {}]
    /\ done = [c \in Clients |-> FALSE]
    /\ heard = [c \in Clients |-> {}]
    /\ from = [c \in Clients |-> 0]

\* mutant: zero, the value of an absent argument, is taken as it is
LimitsAsGiven(arg) ==
    IF arg = NotANumber THEN 0 .. 2 * IntBound - 1
    ELSE {IF arg > MaxResults THEN MaxResults ELSE arg}

\* The values "limit" may have: none is assigned when the argument does not
\* parse.  "since" was parsed before it.
Limits(arg) ==
    IF arg = NotANumber THEN 0 .. 2 * IntBound - 1
    ELSE {IF arg = 0 \/ arg > MaxResults THEN MaxResults ELSE arg}

\* mutant: LIMIT maxResults
WithinTightLimit(c) ==
    LET m == Cut(limit[c]) IN m < 0 \/ Cardinality(page[c]) < m

\* LIMIT maxResults + 1, computed as unsigned and bound as int: a negative
\* limit is no limit.
WithinLimit(c) ==
    LET m == Cut(limit[c] + 1) IN m < 0 \/ Cardinality(page[c]) < m

\* mutant: WHERE seq>=?
RowsFrom(c) == {q \in DOMAIN changes : q >= cursor[c] /\ q \notin page[c]}

\* The rows the statement has yet to return: WHERE seq>? ORDER BY seq.
RowsAfter(c) == {q \in DOMAIN changes : q > cursor[c]}

\* Whether s.Step() finds a row
Steps(c) == WithinLimit(c) /\ RowsAfter(c) # {}

Full(c) == Cardinality(page[c]) >= limit[c]

-----------------------------------------------------------------------------
\* The requests of the clients of C are over.
EndRequests(C) ==
    /\ reading' = reading \ C
    /\ limit'  = [c \in Clients |-> IF c \in C THEN 0 ELSE limit[c]]
    /\ cursor' = [c \in Clients |-> IF c \in C THEN 0 ELSE cursor[c]]
    /\ page'   = [c \in Clients |-> IF c \in C THEN {} ELSE page[c]]

GetChanges(c, arg) ==
    /\ c \notin reading
    /\ reading' = reading \cup {c}
    /\ \E l \in Limits(arg) : limit' = [limit EXCEPT ![c] = l]
    /\ cursor' = [cursor EXCEPT ![c] = since[c]]
    /\ page' = [page EXCEPT ![c] = {}]
    /\ done' = [done EXCEPT ![c] = FALSE]
    /\ UNCHANGED <<vars, since, heard, from>>

\* One turn of the loop
ReadRow(c) ==
    /\ c \in reading /\ ~Full(c) /\ Steps(c)
    /\ \E q \in RowsAfter(c) :
          /\ \A r \in RowsAfter(c) : q <= r
          /\ page' = [page EXCEPT ![c] = @ \cup {q}]
          /\ cursor' = [cursor EXCEPT ![c] = q]
    /\ UNCHANGED <<vars, reading, since, limit, done, heard, from>>

\* mutant: a full page is never the last one
AnswerFullIsNotDone(c) ==
    /\ c \in reading /\ (Full(c) \/ ~Steps(c))
    /\ done' = [done EXCEPT ![c] = Cardinality(page[c]) # limit[c]]
    /\ since' = [since EXCEPT ![c] = Cut(cursor[c])]
    /\ heard' = [heard EXCEPT ![c] = @ \cup page[c]]
    /\ EndRequests({c})
    /\ UNCHANGED <<vars, from>>

\* The loop ends; when the page is full, one more Step tells whether to go on.
Answer(c) ==
    /\ c \in reading /\ (Full(c) \/ ~Steps(c))
    /\ done' = [done EXCEPT ![c] = ~(Cardinality(page[c]) = limit[c] /\ Steps(c))]
    /\ since' = [since EXCEPT ![c] = Cut(cursor[c])]
    /\ heard' = [heard EXCEPT ![c] = @ \cup page[c]]
    /\ EndRequests({c})
    /\ UNCHANGED <<vars, from>>

\* GET /changes?last: a client begins to follow the changes after the last
\* one.  One Step reads the table; LIMIT 1 ends the statement after it.
GetLastChange(c) ==
    /\ c \notin reading
    /\ \E q \in DOMAIN changes \cup {0} :
          /\ \A r \in DOMAIN changes : r <= q
          /\ q = 0 => DOMAIN changes = {}
          /\ since' = [since EXCEPT ![c] = Cut(q)]
          /\ heard' = [heard EXCEPT ![c] = @ \cup ({q} \ {0})]
          /\ from' = [from EXCEPT ![c] = q]
    /\ done' = [done EXCEPT ![c] = TRUE]
    /\ UNCHANGED <<vars, request>>

\* The answer does not arrive.
LoseAnswer(c) ==
    /\ c \in reading
    /\ failures < MaxFailures
    /\ failures' = failures + 1
    /\ EndRequests({c})
    /\ UNCHANGED <<recursiveTriggers, tables, files, used, lock, handler,
                   since, done, heard, from>>

\* The server dies, and with it the requests.
FeedCrash ==
    /\ Crash
    /\ EndRequests(Clients)
    /\ UNCHANGED <<since, done, heard, from>>

StoreStep ==
    /\ \E t \in Threads : Request(t) \/ Continue(t) \/ ReplaceImageFails(t)
    /\ UNCHANGED feedVars

FeedNext ==
    \/ StoreStep
    \/ FeedCrash
    \/ \E c \in Clients :
          \/ \E arg \in LimitArguments : GetChanges(c, arg)
          \/ ReadRow(c)
          \/ Answer(c)
          \/ GetLastChange(c)
          \/ LoseAnswer(c)

FeedSpec == FeedInit /\ [][FeedNext]_allVars

\* Clients poll, and the threads that serve them and that replace images are
\* scheduled.
PollingSpec ==
    /\ FeedSpec
    /\ \A c \in Clients :
          /\ WF_allVars(\E arg \in LimitArguments : GetChanges(c, arg))
          /\ WF_allVars(ReadRow(c))
          /\ WF_allVars(Answer(c))
    /\ \A t \in Threads : WF_allVars(Continue(t) /\ UNCHANGED feedVars)

-----------------------------------------------------------------------------
\* A client that has come to "Last" was told every change up to it that is
\* still in the table, however uploads and deletions raced with its pages, the
\* answers lost and the limits sent: numbers never return (AUTOINCREMENT), rows
\* appear behind the cursors only, and "since" is parsed before "limit".
NoChangeMissed ==
    \A c \in Clients : \A q \in DOMAIN changes :
        from[c] < q /\ q <= since[c] => q \in heard[c]

\* No page repeats a change that the client was told, as long as the numbers
\* fit an int (GetChangesInternal).
NoChangeTwice == lastSeq < IntBound => \A c \in Clients : page[c] \cap heard[c] = {}

\* When an answer says "Done" to a client that sent a proper limit, the client
\* has been told every change in the table: LIMIT leaves room for the row that
\* tells whether there is more (GetChanges, GetChangesInternal).
DoneIsRight ==
    [][\A c \in Clients :
          c \in reading /\ done'[c] /\ limit[c] \in 1 .. MaxResults =>
              \A q \in DOMAIN changes : from[c] < q => q \in heard'[c]]_allVars

\* The images that the client c was not told of as they are now, apart from the
\* one that is being recorded.
ImagesUntold(c) ==
    {p \in DOMAIN photos :
        /\ photos[p].image # NoUuid
        /\ \A q \in DOMAIN changes : changes[q] = p => q \notin heard[c]}
        \ {loc[t].uuid : t \in Late}

\* When an answer says "Done" to a client that has followed all changes, it knows
\* the latest image of every photo, but for one for each crash or storage error at
\* most: the change that ReplaceImage inserts last is all that a client needs
\* (ReplaceImage, GetChanges).
ImagesAreTold ==
    [][~PhotoPuts =>
          \A c \in Clients :
              c \in reading /\ done'[c] /\ limit[c] \in 1 .. MaxResults /\ from[c] = 0 =>
                  Cardinality(ImagesUntold(c)') <= failures]_allVars

\* A client that polls is told of every change unless it is deleted first.
EveryChangeHeard ==
    \A c \in Clients : \A q \in 1 .. Cardinality(Files) :
        q \in DOMAIN changes ~>
            q \notin DOMAIN changes \/ q \in heard[c] \/ q <= from[c]

\* The feed keeps its contract: a page that is read row by row, without the
\* mutex, while uploads and deletions go on, is as good as one look at the table
\* (GetChangesInternal, GetChanges, GetLastChange).  See FeedContract.
Feed == INSTANCE FeedContract WITH
    TooLarge <- IntBound,
    table <- DOMAIN changes,
    last  <- lastSeq,
    asked <- [c \in Clients |-> IF c \notin reading THEN "none"
                               ELSE IF limit[c] \in 1 .. MaxResults THEN "proper"
                               ELSE "any"]

ImplementsFeed == Feed!Spec
=============================================================================
