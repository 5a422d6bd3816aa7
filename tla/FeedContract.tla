---------------------------- MODULE FeedContract ----------------------------
(***************************************************************************)
(* What GET /changes promises to clients that follow the changes, without  *)
(* statements, cursors and limits, and without what the changes are about: *)
(*   - numbers are given in order, and one that is gone never returns;     *)
(*   - an answer is as good as one look at the table: it tells exactly the *)
(*     changes between the number that was sent and the last number told,  *)
(*     but for some that were deleted while the answer was made;           *)
(*   - a client that says how much it takes is told something new or that  *)
(*     there is nothing, and whether there is more;                        *)
(*   - a client that loses its answer goes on from where it was;           *)
(*   - once numbers are too large to be sent, a client may be sent back    *)
(*     and told changes again, never ahead of changes it was not told.     *)
(***************************************************************************)
EXTENDS Integers

CONSTANTS
    Clients,
    TooLarge    \* the least number that cannot be sent

VARIABLES
    table,      \* the numbers of the changes there are
    last,       \* the last number given
    asked,      \* per client: its request under way, if any
    since,      \* per client: the number it was sent with its latest answer
    done,       \* per client: whether its latest answer said that it was all
    heard       \* per client: the changes it was told

vars == <<table, last, asked, since, done, heard>>

\* A client asks for a proper number of changes, or does not say how many.
Requests == {"proper", "any"}

Init ==
    /\ table = {} /\ last = 0
    /\ asked = [c \in Clients |-> "none"]
    /\ since = [c \in Clients |-> 0]
    /\ done = [c \in Clients |-> FALSE]
    /\ heard = [c \in Clients |-> {}]

\* Changes get numbers that nothing ever had, and changes disappear.
Change ==
    /\ last' \in Nat /\ last <= last'
    /\ table' \subseteq table \cup (last + 1 .. last')
    /\ UNCHANGED <<asked, since, done, heard>>

Ask(c) ==
    /\ asked[c] = "none"
    /\ \E r \in Requests : asked' = [asked EXCEPT ![c] = r]
    /\ done' = [done EXCEPT ![c] = FALSE]
    /\ UNCHANGED <<table, last, since, heard>>

\* The number n is sent.
Send(c, n) ==
    \E m \in -TooLarge .. TooLarge - 1 :
        /\ m <= n /\ (n < TooLarge => m = n)
        /\ since' = [since EXCEPT ![c] = m]

Tell(c) ==
    /\ asked[c] # "none"
    /\ \E told \in SUBSET (1 .. last), all \in BOOLEAN :
       \E n \in told \cup {since[c]} :
          /\ \A q \in told : since[c] < q /\ q <= n
          /\ \A q \in table : since[c] < q /\ q <= n => q \in told
          /\ asked[c] = "proper" =>
                /\ all <=> \A q \in table : q <= n
                /\ all \/ told # {}
          /\ Send(c, n)
          /\ heard' = [heard EXCEPT ![c] = @ \cup told]
          /\ done' = [done EXCEPT ![c] = all]
    /\ asked' = [asked EXCEPT ![c] = "none"]
    /\ UNCHANGED <<table, last>>

\* The answers of the clients of C are lost.
Lose(C) ==
    /\ asked' = [c \in Clients |-> IF c \in C THEN "none" ELSE asked[c]]
    /\ UNCHANGED <<table, last, since, done, heard>>

\* A client begins at the end of the table.
Begin(c) ==
    /\ asked[c] = "none"
    /\ \E n \in table \cup {0} :
          /\ \A q \in table : q <= n
          /\ Send(c, n)
          /\ heard' = [heard EXCEPT ![c] = @ \cup (table \cap {n})]
    /\ done' = [done EXCEPT ![c] = TRUE]
    /\ UNCHANGED <<table, last, asked>>

Next ==
    \/ Change
    \/ \E c \in Clients : Ask(c) \/ Tell(c) \/ Begin(c)
    \/ \E C \in SUBSET Clients : Lose(C)

Spec == Init /\ [][Next]_vars
=============================================================================
