-------------------------- MODULE SessionContract --------------------------
(***************************************************************************)
(* What the sessions of the server promise to its clients, without the     *)
(* mutex, the queue and the objects of ActiveSessions:                     *)
(*   - an identifier is granted once, by a login, and never again;         *)
(*   - a live session ends because its client closes it, because the       *)
(*     server stops, or because it is older than the limit, and in this    *)
(*     last case only while a request is checking the ages;                *)
(*   - the request is then told exactly the live sessions, none of which   *)
(*     was granted longer ago than the limit.                              *)
(* The age of a session counts from its birth, which may precede the grant.*)
(***************************************************************************)
EXTENDS Integers

CONSTANTS Uuids, Times, Ages

VARIABLES
    now,
    limit,      \* how old a session may become
    ever,       \* the identifiers granted so far
    live,       \* the open sessions
    born,       \* of each live session: when its age is 0
    granted,    \* of each live session: when its login succeeded
    request     \* "none", "checking" the ages, or "answered" with live

vars == <<now, limit, ever, live, born, granted, request>>

Keep(f, S) == [s \in S |-> f[s]]

Init ==
    /\ now \in Times
    /\ limit \in Ages
    /\ ever = {} /\ live = {}
    /\ born = [s \in {} |-> 0]
    /\ granted = [s \in {} |-> 0]
    /\ request = "none"

Grant(s, birth) ==
    /\ request = "none"
    /\ s \notin ever /\ birth <= now
    /\ ever' = ever \cup {s}
    /\ live' = live \cup {s}
    /\ born' = [x \in live \cup {s} |-> IF x = s THEN birth ELSE born[x]]
    /\ granted' = [x \in live \cup {s} |-> IF x = s THEN now ELSE granted[x]]
    /\ UNCHANGED <<now, limit, request>>

End(S) ==
    /\ live' = live \ S
    /\ born' = Keep(born, live')
    /\ granted' = Keep(granted, live')
    /\ UNCHANGED <<now, limit, ever, request>>

Logout   == request = "none" /\ \E s \in live : End({s})
Shutdown == request = "none" /\ End(live)
Expire   == request = "checking" /\ \E s \in live : now - born[s] > limit /\ End({s})

\* A request to read the sessions, or to change the limit
Check ==
    /\ request = "none"
    /\ request' = "checking"
    /\ limit' \in Ages
    /\ UNCHANGED <<now, ever, live, born, granted>>

Answer ==
    /\ request = "checking"
    /\ \A s \in live : now - granted[s] <= limit
    /\ request' = "answered"
    /\ UNCHANGED <<now, limit, ever, live, born, granted>>

Return ==
    /\ request = "answered"
    /\ request' = "none"
    /\ UNCHANGED <<now, limit, ever, live, born, granted>>

Tick ==
    /\ now' \in Times /\ now' > now
    /\ UNCHANGED <<limit, ever, live, born, granted, request>>

Next ==
    \/ \E s \in Uuids, birth \in Times : Grant(s, birth)
    \/ Logout \/ Expire \/ Shutdown
    \/ Check \/ Answer \/ Return
    \/ Tick

Spec == Init /\ [][Next]_vars
=============================================================================
