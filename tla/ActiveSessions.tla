--------------------------- MODULE ActiveSessions ---------------------------
(***************************************************************************)
(* The sessions of the PhotoTrack server                                   *)
(* (PhotoTrackServer/ApplicationSources/ActiveSessions.{h,cpp}) as the     *)
(* worker threads of the HTTP server use them.                             *)
(*                                                                         *)
(* Every method runs under mutex_, except that OpenSession authenticates   *)
(* the user and builds the session object, which records the current local *)
(* time, BEFORE it takes the mutex.  Sessions are closed by age lazily:    *)
(* there is no timer, the methods that read the sessions first run         *)
(* CloseExpiredSessions, a loop over the front of history_ that is         *)
(* modelled one iteration at a time because each one reads the clock anew. *)
(*                                                                         *)
(* A definition marked "mutant" is a plausible mistake in the definition   *)
(* after it; the specification never uses it.  It shows that some property *)
(* would notice the mistake.                                               *)
(***************************************************************************)
EXTENDS Integers, Sequences

CONSTANTS
    Threads,        \* worker threads of the HTTP server
    Uuids,          \* what Toolbox::GenerateUuid can return
    Users,          \* user names
    Ages,           \* values SetMaxAge is called with, and the initial one
    MaxTime,        \* bound: the local time stays in 0 .. MaxTime
    Jumps,          \* changes of the local time other than its flow (DST)
    Setback,        \* how far a jump can set the local time back
    Width,          \* 2^64 in the code: the age is an unsigned integer
    NoThread,
    NoUuid

ASSUME TimeAssumption ==
    /\ MaxTime \in Nat
    /\ Setback \in Nat
    /\ Jumps \subseteq Int
    /\ \A d \in Jumps : d >= -Setback
    /\ Width \in Nat
    /\ Width > MaxTime
    /\ Ages \subseteq 0 .. (Width - 1)

ASSUME NamesAssumption ==
    /\ NoThread \notin Threads
    /\ NoUuid \notin Uuids

VARIABLES
    phase,          \* main(): "setup", then "serving", then "stopped"
    authenticator,  \* authenticator_: the users it accepts, {} while it is NULL
    maxAge,         \* maxAge_
    history,        \* history_
    index,          \* the keys of index_, each pointing to the object of its uuid
    objects,        \* the ActiveSession objects that are allocated, by uuid
    lock,           \* the thread that holds mutex_
    clock,          \* Toolbox::Now(), the local time
    jumped,         \* the local time has jumped (at most once: a bound)
    issued,         \* the uuids generated so far
    inserted,       \* history variable: when the uuid entered history_
    pc, user, arg, checked  \* per thread: control point and local variables

settings == <<phase, authenticator>>
time     == <<clock, jumped>>
threads  == <<pc, user, arg, checked>>
vars     == <<settings, time, threads, maxAge, history, index, objects, lock,
              issued, inserted>>

-----------------------------------------------------------------------------
Times == 0 .. MaxTime

ControlPoints == {"idle", "authenticated", "constructed", "sweeping", "swept"}

Session == [time : Times, user : Users]

TypeOK ==
    /\ phase \in {"setup", "serving", "stopped"}
    /\ authenticator \in SUBSET Users
    /\ maxAge \in Ages
    /\ history \in Seq(Uuids)
    /\ index \in SUBSET Uuids
    /\ DOMAIN objects \in SUBSET Uuids
    /\ \A s \in DOMAIN objects : objects[s] \in Session
    /\ lock \in Threads \cup {NoThread}
    /\ clock \in Times
    /\ jumped \in BOOLEAN
    /\ issued \in SUBSET Uuids
    /\ inserted \in [Uuids -> Times]
    /\ pc \in [Threads -> ControlPoints]
    /\ user \in [Threads -> Users]
    /\ arg \in [Threads -> Uuids \cup {NoUuid}]
    /\ checked \in [Threads -> Times]

Init ==
    /\ phase = "setup"
    /\ authenticator = {}
    /\ maxAge \in Ages
    /\ history = <<>>
    /\ index = {}
    /\ objects = [s \in {} |-> 0]
    /\ lock = NoThread
    /\ clock = 0
    /\ jumped = FALSE
    /\ issued = {}
    /\ inserted = [s \in Uuids |-> 0]
    /\ pc = [t \in Threads |-> "idle"]
    /\ user \in [Threads -> Users]
    /\ arg = [t \in Threads |-> NoUuid]
    /\ checked = [t \in Threads |-> 0]

-----------------------------------------------------------------------------
(***************************************************************************)
(* Helpers.                                                                *)
(***************************************************************************)

\* The difference of two times, as the uint64_t GetAge returns: a negative
\* difference (the clock was set back) becomes a huge age.
ToUnsigned(d) == IF d >= 0 THEN d ELSE d + Width

GetAge(s) == ToUnsigned(clock - objects[s].time)

\* delete it->second, for every object of a set
Delete(S) == [s \in DOMAIN objects \ S |-> objects[s]]


\* scoped_lock on mutex_ by an idle worker thread; the methods that neither
\* loop nor read the clock take and release it within one action.
CanLock(t) == phase = "serving" /\ pc[t] = "idle" /\ lock = NoThread

InHistory == {history[i] : i \in DOMAIN history}

-----------------------------------------------------------------------------
(***************************************************************************)
(* main(): the authenticator is set, once, before the server starts; the   *)
(* ActiveSessions object is destroyed after the HTTP server has stopped    *)
(* and joined its threads.                                                 *)
(***************************************************************************)

\* Closing all the sessions empties history_ and frees the objects, but
\* leaves the entries of index_.
CloseAllSessions ==
    /\ objects' = Delete(index)
    /\ history' = <<>>
    /\ UNCHANGED index

SetAuthenticator(accepted) ==
    /\ phase = "setup" /\ authenticator = {}
    /\ lock = NoThread
    /\ authenticator' = accepted
    /\ CloseAllSessions
    /\ UNCHANGED <<phase, time, threads, maxAge, lock, issued, inserted>>

Start ==
    /\ phase = "setup" /\ authenticator # {}
    /\ phase' = "serving"
    /\ UNCHANGED <<authenticator, time, threads, maxAge, history, index,
                   objects, lock, issued, inserted>>

Stop ==
    /\ phase = "serving"
    /\ \A t \in Threads : pc[t] = "idle"
    /\ phase' = "stopped"
    /\ CloseAllSessions
    /\ UNCHANGED <<authenticator, time, threads, maxAge, lock, issued, inserted>>

-----------------------------------------------------------------------------
(***************************************************************************)
(* OpenSession.  It throws when there is no authenticator and returns      *)
(* false, changing nothing, when the credentials are refused.              *)
(***************************************************************************)
OpenSession(t, u) ==
    /\ phase = "serving" /\ pc[t] = "idle"
    /\ u \in authenticator
    /\ pc' = [pc EXCEPT ![t] = "authenticated"]
    /\ user' = [user EXCEPT ![t] = u]
    /\ UNCHANGED <<settings, time, arg, checked, maxAge, history, index,
                   objects, lock, issued, inserted>>

\* new ActiveSession: the mutex is not held here.
NewSession(t) ==
    /\ pc[t] = "authenticated"
    /\ \E s \in Uuids \ issued :
          /\ issued' = issued \cup {s}
          /\ arg' = [arg EXCEPT ![t] = s]
          /\ objects' = [x \in DOMAIN objects \cup {s} |->
                            IF x = s THEN [time |-> clock, user |-> user[t]]
                                     ELSE objects[x]]
    /\ pc' = [pc EXCEPT ![t] = "constructed"]
    /\ UNCHANGED <<settings, time, user, checked, maxAge, history, index,
                   lock, inserted>>

\* mutant: the newest session goes to the front of history_
InsertSessionInFront(t) ==
    /\ pc[t] = "constructed" /\ lock = NoThread
    /\ history' = <<arg[t]>> \o history
    /\ index' = index \cup {arg[t]}
    /\ inserted' = [inserted EXCEPT ![arg[t]] = clock]
    /\ pc' = [pc EXCEPT ![t] = "idle"]
    /\ arg' = [arg EXCEPT ![t] = NoUuid]
    /\ UNCHANGED <<settings, time, user, checked, maxAge, objects, lock, issued>>

\* mutant: the session is not queued
InsertSessionUnqueued(t) ==
    /\ pc[t] = "constructed" /\ lock = NoThread
    /\ index' = index \cup {arg[t]}
    /\ inserted' = [inserted EXCEPT ![arg[t]] = clock]
    /\ pc' = [pc EXCEPT ![t] = "idle"]
    /\ arg' = [arg EXCEPT ![t] = NoUuid]
    /\ UNCHANGED <<settings, time, user, checked, maxAge, history, objects,
                   lock, issued>>

\* The critical section of OpenSession, and its return to the handler.
InsertSession(t) ==
    /\ pc[t] = "constructed" /\ lock = NoThread
    /\ history' = Append(history, arg[t])
    /\ index' = index \cup {arg[t]}
    /\ inserted' = [inserted EXCEPT ![arg[t]] = clock]
    /\ pc' = [pc EXCEPT ![t] = "idle"]
    /\ arg' = [arg EXCEPT ![t] = NoUuid]
    /\ UNCHANGED <<settings, time, user, checked, maxAge, objects, lock, issued>>

\* An unknown or already closed session is left alone (early return).  The
\* entry of the session in history_ stays.
CloseSession(t, s) ==
    /\ CanLock(t)
    /\ s \in index
    /\ objects' = Delete({s})
    /\ index' = index \ {s}
    /\ UNCHANGED <<settings, time, threads, maxAge, history, lock, issued,
                   inserted>>

-----------------------------------------------------------------------------
(***************************************************************************)
(* IsActive, GetPayload, ListSessions and SetMaxAge: lock, run             *)
(* CloseExpiredSessions, read index_, unlock.                              *)
(***************************************************************************)
BeginRead(t, s) ==
    /\ CanLock(t)
    /\ lock' = t
    /\ pc' = [pc EXCEPT ![t] = "sweeping"]
    /\ arg' = [arg EXCEPT ![t] = s]
    /\ UNCHANGED <<settings, time, user, checked, maxAge, history, index,
                   objects, issued, inserted>>

SetMaxAge(t, age) ==
    /\ CanLock(t)
    /\ lock' = t
    /\ maxAge' = age
    /\ pc' = [pc EXCEPT ![t] = "sweeping"]
    /\ UNCHANGED <<settings, time, user, arg, checked, history, index,
                   objects, issued, inserted>>

\* mutant: a closed session is not removed from history_
SkipClosedInPlace(t) ==
    /\ pc[t] = "sweeping"
    /\ history # <<>> /\ Head(history) \notin index
    /\ UNCHANGED vars

\* One iteration of CloseExpiredSessions that meets a closed session ...
SkipClosed(t) ==
    /\ pc[t] = "sweeping"
    /\ history # <<>> /\ Head(history) \notin index
    /\ history' = Tail(history)
    /\ UNCHANGED <<settings, time, threads, maxAge, index, objects, lock,
                   issued, inserted>>

\* mutant: the pointer to the deleted session stays in index_
CloseExpiredInPlace(t) ==
    /\ pc[t] = "sweeping"
    /\ history # <<>> /\ Head(history) \in index
    /\ GetAge(Head(history)) > maxAge
    /\ objects' = Delete({Head(history)})
    /\ history' = Tail(history)
    /\ UNCHANGED <<settings, time, threads, maxAge, index, lock, issued, inserted>>

\* mutant: a session of the very age maxAge_ is too old
CloseExpiredEarly(t) ==
    /\ pc[t] = "sweeping"
    /\ history # <<>> /\ Head(history) \in index
    /\ GetAge(Head(history)) >= maxAge
    /\ objects' = Delete({Head(history)})
    /\ index' = index \ {Head(history)}
    /\ history' = Tail(history)
    /\ UNCHANGED <<settings, time, threads, maxAge, lock, issued, inserted>>

\* ... or one that is too old ...
CloseExpired(t) ==
    /\ pc[t] = "sweeping"
    /\ history # <<>> /\ Head(history) \in index
    /\ GetAge(Head(history)) > maxAge
    /\ objects' = Delete({Head(history)})
    /\ index' = index \ {Head(history)}
    /\ history' = Tail(history)
    /\ UNCHANGED <<settings, time, threads, maxAge, lock, issued, inserted>>

\* mutant: the sweep gives up at a session that was closed by hand
EndSweepAtClosed(t) ==
    /\ pc[t] = "sweeping"
    /\ history # <<>> /\ Head(history) \in index =>
          GetAge(Head(history)) <= maxAge
    /\ pc' = [pc EXCEPT ![t] = "swept"]
    /\ checked' = [checked EXCEPT ![t] = clock]
    /\ UNCHANGED <<settings, time, user, arg, maxAge, history, index, objects,
                   lock, issued, inserted>>

\* ... or finds nothing more to do.
EndSweep(t) ==
    /\ pc[t] = "sweeping"
    /\ history # <<>> =>
          Head(history) \in index /\ GetAge(Head(history)) <= maxAge
    /\ pc' = [pc EXCEPT ![t] = "swept"]
    /\ checked' = [checked EXCEPT ![t] = clock]
    /\ UNCHANGED <<settings, time, user, arg, maxAge, history, index, objects,
                   lock, issued, inserted>>

\* The answer, read before the mutex is released: all the keys of index_.
\* IsActive and GetPayload look one up.
ListSessions == index

Return(t) ==
    /\ pc[t] = "swept"
    /\ lock' = NoThread
    /\ pc' = [pc EXCEPT ![t] = "idle"]
    /\ arg' = [arg EXCEPT ![t] = NoUuid]
    /\ checked' = [checked EXCEPT ![t] = 0]
    /\ UNCHANGED <<settings, time, user, maxAge, history, index, objects,
                   issued, inserted>>

-----------------------------------------------------------------------------
Tick ==
    /\ clock < MaxTime
    /\ clock' = clock + 1
    /\ UNCHANGED <<settings, jumped, threads, maxAge, history, index, objects,
                   lock, issued, inserted>>

\* Toolbox::Now() is local time: it leaves its flow when daylight saving
\* starts or ends.
Jump(d) ==
    /\ ~jumped
    /\ clock + d \in Times
    /\ clock' = clock + d
    /\ jumped' = TRUE
    /\ UNCHANGED <<settings, threads, maxAge, history, index, objects, lock,
                   issued, inserted>>

\* The steps of a thread inside a method
Inside(t) ==
    \/ NewSession(t)
    \/ InsertSession(t)
    \/ SkipClosed(t)
    \/ CloseExpired(t)
    \/ EndSweep(t)
    \/ Return(t)

\* A request reaches an idle thread
Request(t) ==
    \/ \E u \in Users : OpenSession(t, u)
    \/ \E s \in Uuids : CloseSession(t, s)
    \/ \E s \in Uuids \cup {NoUuid} : BeginRead(t, s)
    \/ \E age \in Ages : SetMaxAge(t, age)

Next ==
    \/ \E accepted \in SUBSET Users \ {{}} : SetAuthenticator(accepted)
    \/ Start
    \/ Stop
    \/ \E t \in Threads : Request(t) \/ Inside(t)
    \/ Tick
    \/ \E d \in Jumps : Jump(d)

Spec == Init /\ [][Next]_vars

\* The threads are scheduled by the operating system, and no method waits for
\* anything but mutex_.
FairSpec == Spec /\ \A t \in Threads : WF_vars(Inside(t))

-----------------------------------------------------------------------------
(***************************************************************************)
(* Properties.                                                             *)
(***************************************************************************)
Holding(t) == pc[t] = "constructed"
Sweeping(t) == pc[t] \in {"sweeping", "swept"}

\* Every allocated session object is reachable from index_ or held by exactly
\* one OpenSession in progress, and every pointer of index_ is to an allocated
\* object: nothing leaks, nothing is freed twice or used after it is freed,
\* whichever of CloseSession, the sweep and the insertion comes first
\* (CloseSession, CloseExpiredSessions, OpenSession).
ObjectsOwned ==
    phase # "stopped" =>
        /\ DOMAIN objects = index \cup {arg[t] : t \in {u \in Threads : Holding(u)}}
        /\ \A t \in Threads : Holding(t) => arg[t] \notin index
        /\ \A t, u \in Threads :
              Holding(t) /\ Holding(u) /\ arg[t] = arg[u] => t = u

\* A session that index_ knows is queued in history_, once, and queued in the
\* order of insertion: CloseExpiredSessions, which only looks at the front of
\* history_, is able to close it when its time comes.
EverySessionCanExpire ==
    phase # "stopped" =>
        /\ index \subseteq InHistory
        /\ \A i, j \in DOMAIN history : history[i] = history[j] => i = j

\* What a reader is told: a session is reported active no longer than maxAge_
\* after OpenSession inserted it, give or take the change of daylight saving.
\* The age is counted from an earlier instant, the construction of the object,
\* and history_ is in the order of insertion: this is what the sweep promises
\* under concurrent logins (OpenSession, CloseExpiredSessions).
Slack == IF jumped THEN Setback ELSE 0

ActiveIsRecent ==
    \A t \in Threads : pc[t] = "swept" =>
        \A s \in ListSessions : checked[t] - inserted[s] <= maxAge + Slack

\* ActiveSessions.h says of history_ "Ordered by age".
OrderedByAge ==
    phase # "stopped" =>
        \A i, j \in DOMAIN history :
            i < j /\ history[i] \in index /\ history[j] \in index =>
                objects[history[i]].time <= objects[history[j]].time

\* What a reader is told when that is so, as it is when logins do not overlap and
\* the clock is not set back: no session older than maxAge_ is reported active,
\* even by a clock that jumps (CloseExpiredSessions).
ActiveIsUnexpired ==
    OrderedByAge =>
        \A t \in Threads : pc[t] = "swept" =>
            \A s \in ListSessions : checked[t] - objects[s].time <= maxAge

\* The sessions implement their contract while local time only flows: see
\* SessionContract.  A login that has built its object but not inserted it has
\* not been granted yet, and Stop ends all sessions although CloseAllSessions
\* leaves the entries of index_ behind.
Live == IF phase = "stopped" THEN {} ELSE index

Contract == INSTANCE SessionContract WITH
    now     <- clock,
    limit   <- maxAge,
    ever    <- {s \in issued : \A t \in Threads : Holding(t) => arg[t] # s},
    live    <- Live,
    born    <- [s \in Live |-> objects[s].time],
    granted <- [s \in Live |-> inserted[s]],
    request <- IF \E t \in Threads : pc[t] = "sweeping" THEN "checking"
               ELSE IF \E t \in Threads : pc[t] = "swept" THEN "answered"
               ELSE "none"

ImplementsContract == Contract!Spec

\* The mutex is always released: the loop of CloseExpiredSessions ends, even
\* while the clock moves under it.
LockReleased == \A t \in Threads : lock = t ~> lock = NoThread
=============================================================================
