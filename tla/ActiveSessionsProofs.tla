------------------------ MODULE ActiveSessionsProofs ------------------------
(***************************************************************************)
(* Proofs about ActiveSessions, for any threads, identifiers, users, ages, *)
(* length of time and daylight saving.                                     *)
(***************************************************************************)
EXTENDS ActiveSessions, TLAPS

\* What a sequence becomes at its two ends.
LEMMA TailFacts ==
    ASSUME NEW S, NEW q \in Seq(S), q # <<>>
    PROVE  /\ Head(q) \in S /\ Head(q) = q[1]
           /\ Tail(q) \in Seq(S)
           /\ Len(q) \in Nat \ {0}
           /\ DOMAIN q = 1 .. Len(q)
           /\ DOMAIN Tail(q) = 1 .. (Len(q) - 1)
           /\ \A i \in 1 .. (Len(q) - 1) : Tail(q)[i] = q[i + 1]
    OBVIOUS

LEMMA AppendFacts ==
    ASSUME NEW S, NEW q \in Seq(S), NEW e \in S
    PROVE  /\ Append(q, e) \in Seq(S)
           /\ Len(q) \in Nat
           /\ DOMAIN q = 1 .. Len(q)
           /\ DOMAIN Append(q, e) = 1 .. (Len(q) + 1)
           /\ \A i \in 1 .. Len(q) : Append(q, e)[i] = q[i]
           /\ Append(q, e)[Len(q) + 1] = e
    OBVIOUS

-----------------------------------------------------------------------------
(***************************************************************************)
(* Types.  An OpenSession that is about to insert its session holds the    *)
(* identifier of one.                                                      *)
(***************************************************************************)
TypeInv ==
    /\ TypeOK
    /\ \A t \in Threads : Holding(t) => arg[t] \in Uuids

LEMMA TypeInit == Init => TypeInv
<1> SUFFICES ASSUME Init PROVE TypeInv
    OBVIOUS
<1>1. 0 \in Times
    BY TimeAssumption DEF Times
<1>2. history \in Seq(Uuids)
    BY DEF Init
<1>3. DOMAIN objects = {}
    BY DEF Init
<1> QED
    BY <1>1, <1>2, <1>3 DEF Init, TypeInv, TypeOK, ControlPoints, Holding

LEMMA TypeStep == TypeInv /\ [Next]_vars => TypeInv'
<1> SUFFICES ASSUME TypeInv, [Next]_vars PROVE TypeInv'
    OBVIOUS
<1> USE DEF TypeInv, TypeOK, Holding, Times, ControlPoints, settings, time, threads
<1>1. ASSUME NEW accepted \in SUBSET Users \ {{}}, SetAuthenticator(accepted)
      PROVE  TypeInv'
    BY <1>1 DEF SetAuthenticator, CloseAllSessions, Delete
<1>2. CASE Start
    BY <1>2 DEF Start
<1>3. CASE Stop
    BY <1>3 DEF Stop, CloseAllSessions, Delete
<1>4. ASSUME NEW t \in Threads, NEW u \in Users, OpenSession(t, u)
      PROVE  TypeInv'
    BY <1>4 DEF OpenSession
<1>5. ASSUME NEW t \in Threads, NewSession(t) PROVE TypeInv'
    BY <1>5 DEF NewSession, Session
<1>6. ASSUME NEW t \in Threads, InsertSession(t) PROVE TypeInv'
    BY <1>6, AppendFacts DEF InsertSession
<1>7. ASSUME NEW t \in Threads, NEW s \in Uuids, CloseSession(t, s)
      PROVE  TypeInv'
    BY <1>7 DEF CloseSession, Delete
<1>8. ASSUME NEW t \in Threads, NEW s \in Uuids \cup {NoUuid}, BeginRead(t, s)
      PROVE  TypeInv'
    BY <1>8 DEF BeginRead
<1>9. ASSUME NEW t \in Threads, NEW age \in Ages, SetMaxAge(t, age)
      PROVE  TypeInv'
    BY <1>9 DEF SetMaxAge
<1>10. ASSUME NEW t \in Threads, SkipClosed(t) PROVE TypeInv'
    BY <1>10, TailFacts DEF SkipClosed
<1>11. ASSUME NEW t \in Threads, CloseExpired(t) PROVE TypeInv'
    BY <1>11, TailFacts DEF CloseExpired, Delete
<1>12. ASSUME NEW t \in Threads, EndSweep(t) PROVE TypeInv'
    BY <1>12 DEF EndSweep
<1>13. ASSUME NEW t \in Threads, Return(t) PROVE TypeInv'
    BY <1>13, TimeAssumption DEF Return
<1>14. CASE Tick
    BY <1>14, TimeAssumption DEF Tick
<1>15. ASSUME NEW d \in Jumps, Jump(d) PROVE TypeInv'
    BY <1>15 DEF Jump
<1>16. CASE UNCHANGED vars
    BY <1>16 DEF vars
<1> QED
    BY <1>1, <1>2, <1>3, <1>4, <1>5, <1>6, <1>7, <1>8, <1>9, <1>10, <1>11,
       <1>12, <1>13, <1>14, <1>15, <1>16
    DEF Next, Request, Inside

LEMMA TypeInvariance == Spec => []TypeInv
    BY TypeInit, TypeStep, PTL DEF Spec

\* Every variable of the session component keeps its type, in every run.
THEOREM TypeCorrect == Spec => []TypeOK
<1>1. TypeInv => TypeOK
    BY DEF TypeInv
<1> QED
    BY <1>1, TypeInvariance, PTL

-----------------------------------------------------------------------------
(***************************************************************************)
(* Ownership of the session objects and the queue.                         *)
(***************************************************************************)

\* What the two properties need beside themselves: a sweep runs with mutex_, methods
\* run only while the server serves, no session exists before, and the identifier
\* that an OpenSession holds has never been in history_.
MutualExclusion == \A t \in Threads : Sweeping(t) <=> lock = t
Quiet == phase # "serving" => \A t \in Threads : pc[t] = "idle"
NotYetUsed == phase = "setup" => index = {}
Fresh ==
    /\ InHistory \subseteq issued
    /\ DOMAIN objects \subseteq issued
    /\ \A t \in Threads : Holding(t) => arg[t] \notin InHistory

OwnershipInv ==
    /\ MutualExclusion
    /\ Quiet
    /\ NotYetUsed
    /\ Fresh
    /\ ObjectsOwned
    /\ EverySessionCanExpire

LEMMA OwnershipInit == Init => OwnershipInv
<1> SUFFICES ASSUME Init PROVE OwnershipInv
    OBVIOUS
<1>1. InHistory = {} /\ DOMAIN history = {}
    BY DEF Init, InHistory
<1>2. DOMAIN objects = {}
    BY DEF Init
<1>3. \A t \in Threads : lock # t
    BY NamesAssumption DEF Init
<1> QED
    BY <1>1, <1>2, <1>3
    DEF Init, OwnershipInv, MutualExclusion, Quiet, NotYetUsed, Fresh,
        ObjectsOwned, EverySessionCanExpire, Holding, Sweeping

\* The queue after its front has been removed.
LEMMA InHistoryTail ==
    ASSUME TypeInv, history # <<>>, history' = Tail(history),
           \A i, j \in DOMAIN history : history[i] = history[j] => i = j
    PROVE  /\ InHistory' = InHistory \ {Head(history)}
           /\ Head(history) \in InHistory
           /\ (\A i, j \in DOMAIN history : history[i] = history[j] => i = j)'
<1> DEFINE n == Len(history)
<1>1. /\ n \in Nat \ {0} /\ DOMAIN history = 1 .. n
      /\ DOMAIN history' = 1 .. (n - 1)
      /\ \A i \in 1 .. (n - 1) : history'[i] = history[i + 1]
      /\ Head(history) = history[1]
    BY TailFacts DEF TypeInv, TypeOK
<1> HIDE DEF n
<1>2. ASSUME NEW x \in InHistory' PROVE x \in InHistory \ {Head(history)}
  <2>1. PICK i \in 1 .. (n - 1) : x = history[i + 1]
      BY <1>1, <1>2 DEF InHistory
  <2>2. i + 1 \in DOMAIN history /\ 1 \in DOMAIN history /\ i + 1 # 1
      BY <1>1, <2>1
  <2> QED
      BY <1>1, <2>1, <2>2 DEF InHistory
<1>3. ASSUME NEW x \in InHistory, x # Head(history) PROVE x \in InHistory'
  <2>1. PICK i \in 1 .. n : x = history[i]
      BY <1>1, <1>3 DEF InHistory
  <2>2. i - 1 \in 1 .. (n - 1) /\ history'[i - 1] = history[i]
      BY <1>1, <1>3, <2>1
  <2> QED
      BY <1>1, <2>1, <2>2 DEF InHistory
<1>4. Head(history) \in InHistory
  <2>1. 1 \in DOMAIN history
      BY <1>1
  <2> QED
      BY <1>1, <2>1 DEF InHistory
<1>5. ASSUME NEW i \in 1 .. (n - 1), NEW j \in 1 .. (n - 1),
             history'[i] = history'[j]
      PROVE  i = j
  <2>1. history[i + 1] = history[j + 1]
      BY <1>1, <1>5
  <2>2. i + 1 \in DOMAIN history /\ j + 1 \in DOMAIN history
      BY <1>1
  <2>3. i + 1 = j + 1
      BY <2>1, <2>2
  <2> QED
      BY <2>3
<1> QED
    BY <1>1, <1>2, <1>3, <1>4, <1>5

\* The queue after a fresh identifier has been appended.
LEMMA InHistoryAppend ==
    ASSUME TypeInv, NEW s \in Uuids \ InHistory, history' = Append(history, s),
           \A i, j \in DOMAIN history : history[i] = history[j] => i = j
    PROVE  /\ InHistory' = InHistory \cup {s}
           /\ (\A i, j \in DOMAIN history : history[i] = history[j] => i = j)'
<1> DEFINE n == Len(history)
<1>1. /\ n \in Nat /\ DOMAIN history = 1 .. n
      /\ DOMAIN history' = 1 .. (n + 1)
      /\ \A i \in 1 .. n : history'[i] = history[i]
      /\ history'[n + 1] = s
    BY AppendFacts DEF TypeInv, TypeOK
<1> HIDE DEF n
<1>2. \A i \in 1 .. n : history[i] \in InHistory
    BY <1>1 DEF InHistory
<1>3. ASSUME NEW x \in InHistory' PROVE x \in InHistory \cup {s}
  <2>1. PICK i \in 1 .. (n + 1) : x = history'[i]
      BY <1>1, <1>3 DEF InHistory
  <2> QED
      BY <1>1, <1>2, <2>1
<1>4. ASSUME NEW x \in InHistory PROVE x \in InHistory'
  <2>1. PICK i \in 1 .. n : x = history[i]
      BY <1>1, <1>4 DEF InHistory
  <2>2. i \in DOMAIN history' /\ history'[i] = x
      BY <1>1, <2>1
  <2> QED
      BY <2>2 DEF InHistory
<1>5. s \in InHistory'
  <2>1. n + 1 \in DOMAIN history'
      BY <1>1
  <2> QED
      BY <1>1, <2>1 DEF InHistory
<1>6. ASSUME NEW i \in 1 .. (n + 1), NEW j \in 1 .. (n + 1),
             history'[i] = history'[j]
      PROVE  i = j
    BY <1>1, <1>2, <1>6
<1> QED
    BY <1>1, <1>3, <1>4, <1>5, <1>6

\* A step that touches neither the queue nor the sessions.
LEMMA OwnershipFrame ==
    ASSUME TypeInv, OwnershipInv, UNCHANGED <<history, index, objects, issued>>,
           MutualExclusion', Quiet', NotYetUsed',
           phase = "stopped" => phase' = "stopped",
           \A t \in Threads : Holding(t)' <=> Holding(t),
           \A t \in Threads : Holding(t) => arg'[t] = arg[t]
    PROVE  OwnershipInv'
<1>1. InHistory' = InHistory
    BY DEF InHistory
<1>2. Fresh'
    BY <1>1 DEF OwnershipInv, Fresh
<1>3. EverySessionCanExpire'
    BY <1>1 DEF OwnershipInv, EverySessionCanExpire
<1>4. ObjectsOwned'
    BY DEF OwnershipInv, ObjectsOwned, Holding
<1> QED
    BY <1>2, <1>3, <1>4 DEF OwnershipInv

LEMMA OwnershipStep == TypeInv /\ OwnershipInv /\ [Next]_vars => OwnershipInv'
<1> SUFFICES ASSUME TypeInv, OwnershipInv, [Next]_vars PROVE OwnershipInv'
    OBVIOUS
<1> USE NamesAssumption DEF settings, time, threads
<1>0. /\ \A t \in Threads : t # NoThread
      /\ pc \in [Threads -> ControlPoints]
      /\ arg \in [Threads -> Uuids \cup {NoUuid}]
      /\ \A t \in Threads : Sweeping(t) <=> lock = t
      /\ \A t \in Threads : Holding(t) => arg[t] \in Uuids
      /\ index \subseteq Uuids /\ DOMAIN objects \subseteq Uuids
    BY DEF TypeInv, TypeOK, OwnershipInv, MutualExclusion
<1>1. ASSUME NEW accepted \in SUBSET Users \ {{}}, SetAuthenticator(accepted)
      PROVE  OwnershipInv'
  <2>1. index = {} /\ index' = {} /\ objects' = [s \in DOMAIN objects |-> objects[s]]
      BY <1>1 DEF SetAuthenticator, CloseAllSessions, Delete, OwnershipInv,
                  NotYetUsed
  <2>2. InHistory' = {} /\ DOMAIN history' = {}
      BY <1>1 DEF SetAuthenticator, CloseAllSessions, InHistory
  <2>3. DOMAIN objects' = DOMAIN objects
      BY <2>1
  <2> QED
      BY <1>1, <2>1, <2>2, <2>3
      DEF SetAuthenticator, OwnershipInv, MutualExclusion, Quiet, NotYetUsed,
          Fresh, ObjectsOwned, EverySessionCanExpire, Holding, Sweeping
<1>2. CASE Start
    BY <1>2, OwnershipFrame
    DEF Start, OwnershipInv, MutualExclusion, Quiet, NotYetUsed, Holding, Sweeping
<1>3. CASE Stop
  <2>1. InHistory' = {} /\ DOMAIN objects' \subseteq DOMAIN objects
      BY <1>3 DEF Stop, CloseAllSessions, InHistory, Delete
  <2> QED
      BY <1>3, <2>1
      DEF Stop, OwnershipInv, MutualExclusion, Quiet, NotYetUsed, Fresh,
          ObjectsOwned, EverySessionCanExpire, Holding, Sweeping
<1>4. ASSUME NEW t \in Threads, NEW u \in Users, OpenSession(t, u)
      PROVE  OwnershipInv'
  <2>1. MutualExclusion'
      BY <1>0, <1>4 DEF OpenSession, MutualExclusion, Sweeping
  <2>2. \A v \in Threads : Holding(v)' <=> Holding(v)
      BY <1>0, <1>4 DEF OpenSession, Holding
  <2> QED
      BY <1>4, <2>1, <2>2, OwnershipFrame
      DEF OpenSession, OwnershipInv, Quiet, NotYetUsed
<1>5. ASSUME NEW t \in Threads, NewSession(t) PROVE OwnershipInv'
  <2>1. PICK s \in Uuids \ issued :
           /\ issued' = issued \cup {s}
           /\ arg' = [arg EXCEPT ![t] = s]
           /\ DOMAIN objects' = DOMAIN objects \cup {s}
      BY <1>5 DEF NewSession
  <2>2. phase = "serving" /\ phase' = phase /\ InHistory' = InHistory
      BY <1>5 DEF NewSession, OwnershipInv, Quiet, InHistory
  <2>3. s \notin index /\ s \notin InHistory /\ s \notin DOMAIN objects
      BY <2>1, <2>2 DEF OwnershipInv, Fresh, ObjectsOwned
  <2>4. \A v \in Threads : Holding(v)' <=> Holding(v) \/ v = t
      BY <1>0, <1>5 DEF NewSession, Holding
  <2>5. \A v \in Threads : arg'[v] = IF v = t THEN s ELSE arg[v]
      BY <1>0, <2>1
  <2>6. ~Holding(t) /\ \A v \in Threads : Holding(v) => arg[v] # s
      BY <1>5, <2>2, <2>3 DEF NewSession, OwnershipInv, ObjectsOwned, Holding
  <2>7. MutualExclusion'
      BY <1>0, <1>5 DEF NewSession, MutualExclusion, Sweeping
  <2>8. Quiet' /\ NotYetUsed'
      BY <2>2 DEF Quiet, NotYetUsed
  <2>9. Fresh'
      BY <2>1, <2>2, <2>3, <2>4, <2>5 DEF OwnershipInv, Fresh
  <2>10. ObjectsOwned'
    <3>1. index' = index
        BY <1>5 DEF NewSession
    <3>2. DOMAIN objects' = index' \cup {arg'[v] : v \in {u \in Threads : Holding(u)'}}
        BY <2>1, <2>2, <2>4, <2>5, <2>6, <3>1 DEF OwnershipInv, ObjectsOwned
    <3>3. \A v \in Threads : Holding(v)' => arg'[v] \notin index'
        BY <2>2, <2>3, <2>4, <2>5, <3>1 DEF OwnershipInv, ObjectsOwned
    <3>4. \A v, u \in Threads : Holding(v)' /\ Holding(u)' /\ arg'[v] = arg'[u] => v = u
        BY <2>2, <2>4, <2>5, <2>6 DEF OwnershipInv, ObjectsOwned
    <3> QED
        BY <3>2, <3>3, <3>4 DEF ObjectsOwned
  <2>11. EverySessionCanExpire'
      BY <1>5, <2>2 DEF NewSession, OwnershipInv, EverySessionCanExpire
  <2> QED
      BY <2>7, <2>8, <2>9, <2>10, <2>11 DEF OwnershipInv
<1>6. ASSUME NEW t \in Threads, InsertSession(t) PROVE OwnershipInv'
  <2>1. /\ phase = "serving" /\ phase' = phase
        /\ index' = index \cup {arg[t]} /\ objects' = objects /\ issued' = issued
      BY <1>6 DEF InsertSession, OwnershipInv, Quiet
  <2>2. arg[t] \in Uuids \ InHistory /\ arg[t] \notin index
      BY <1>0, <1>6, <2>1 DEF InsertSession, Holding, OwnershipInv, Fresh, ObjectsOwned
  <2>3. /\ InHistory' = InHistory \cup {arg[t]}
        /\ (\A i, j \in DOMAIN history : history[i] = history[j] => i = j)'
    <3>1. \A i, j \in DOMAIN history : history[i] = history[j] => i = j
        BY <2>1 DEF OwnershipInv, EverySessionCanExpire
    <3>2. history' = Append(history, arg[t])
        BY <1>6 DEF InsertSession
    <3> QED
        BY <2>2, <3>1, <3>2, InHistoryAppend
  <2>4. \A v \in Threads : Holding(v)' <=> Holding(v) /\ v # t
      BY <1>0, <1>6 DEF InsertSession, Holding
  <2>5. Holding(t) /\ \A v \in Threads : v # t => arg'[v] = arg[v]
      BY <1>0, <1>6 DEF InsertSession, Holding
  <2>6. arg[t] \in DOMAIN objects
      BY <2>1, <2>5 DEF OwnershipInv, ObjectsOwned
  <2>7. MutualExclusion'
      BY <1>0, <1>6 DEF InsertSession, MutualExclusion, Sweeping
  <2>8. Quiet' /\ NotYetUsed'
      BY <2>1 DEF Quiet, NotYetUsed
  <2>9. Fresh'
      BY <2>1, <2>3, <2>4, <2>5, <2>6 DEF OwnershipInv, Fresh, ObjectsOwned
  <2>10. ObjectsOwned'
      BY <2>1, <2>4, <2>5 DEF OwnershipInv, ObjectsOwned
  <2>11. EverySessionCanExpire'
      BY <2>1, <2>3 DEF OwnershipInv, EverySessionCanExpire
  <2> QED
      BY <2>7, <2>8, <2>9, <2>10, <2>11 DEF OwnershipInv
<1>7. ASSUME NEW t \in Threads, NEW s \in Uuids, CloseSession(t, s)
      PROVE  OwnershipInv'
  <2>1. /\ phase = "serving" /\ phase' = phase /\ issued' = issued
        /\ history' = history /\ pc' = pc /\ arg' = arg /\ lock' = lock
        /\ index' = index \ {s} /\ DOMAIN objects' = DOMAIN objects \ {s}
        /\ s \in index
      BY <1>7 DEF CloseSession, CanLock, Delete
  <2>2. InHistory' = InHistory
      BY <2>1 DEF InHistory
  <2>3. ObjectsOwned'
      BY <2>1 DEF OwnershipInv, ObjectsOwned, Holding
  <2>4. EverySessionCanExpire'
      BY <2>1, <2>2 DEF OwnershipInv, EverySessionCanExpire
  <2> QED
      BY <2>1, <2>2, <2>3, <2>4
      DEF OwnershipInv, MutualExclusion, Quiet, NotYetUsed, Fresh, Holding, Sweeping
<1>8. ASSUME NEW t \in Threads, NEW s \in Uuids \cup {NoUuid}, BeginRead(t, s)
      PROVE  OwnershipInv'
  <2>1. MutualExclusion'
      BY <1>0, <1>8 DEF BeginRead, CanLock, MutualExclusion, Sweeping
  <2>2. \A v \in Threads : Holding(v)' <=> Holding(v)
      BY <1>0, <1>8 DEF BeginRead, CanLock, Holding
  <2>3. \A v \in Threads : Holding(v) => arg'[v] = arg[v]
      BY <1>0, <1>8 DEF BeginRead, CanLock, Holding
  <2> QED
      BY <1>8, <2>1, <2>2, <2>3, OwnershipFrame
      DEF BeginRead, CanLock, OwnershipInv, Quiet, NotYetUsed
<1>9. ASSUME NEW t \in Threads, NEW age \in Ages, SetMaxAge(t, age)
      PROVE  OwnershipInv'
  <2>1. MutualExclusion'
      BY <1>0, <1>9 DEF SetMaxAge, CanLock, MutualExclusion, Sweeping
  <2>2. \A v \in Threads : Holding(v)' <=> Holding(v)
      BY <1>0, <1>9 DEF SetMaxAge, CanLock, Holding
  <2> QED
      BY <1>9, <2>1, <2>2, OwnershipFrame
      DEF SetMaxAge, CanLock, OwnershipInv, Quiet, NotYetUsed
<1>10. ASSUME NEW t \in Threads, SkipClosed(t) PROVE OwnershipInv'
  <2>1. phase = "serving"
      BY <1>10 DEF SkipClosed, OwnershipInv, Quiet
  <2>2. /\ InHistory' = InHistory \ {Head(history)}
        /\ (\A i, j \in DOMAIN history : history[i] = history[j] => i = j)'
      BY <1>10, <2>1, InHistoryTail DEF SkipClosed, OwnershipInv, EverySessionCanExpire
  <2> QED
      BY <1>10, <2>1, <2>2
      DEF SkipClosed, OwnershipInv, MutualExclusion, Quiet, NotYetUsed, Fresh,
          ObjectsOwned, EverySessionCanExpire, Holding, Sweeping
<1>11. ASSUME NEW t \in Threads, CloseExpired(t) PROVE OwnershipInv'
  <2> DEFINE s == Head(history)
  <2>1. /\ phase = "serving" /\ phase' = phase /\ issued' = issued
        /\ pc' = pc /\ arg' = arg /\ lock' = lock
        /\ index' = index \ {s} /\ DOMAIN objects' = DOMAIN objects \ {s}
        /\ s \in index
      BY <1>11 DEF CloseExpired, Delete, OwnershipInv, Quiet
  <2>2. /\ InHistory' = InHistory \ {s}
        /\ (\A i, j \in DOMAIN history : history[i] = history[j] => i = j)'
      BY <1>11, <2>1, InHistoryTail DEF CloseExpired, OwnershipInv, EverySessionCanExpire
  <2> HIDE DEF s
  <2>3. ObjectsOwned'
      BY <2>1 DEF OwnershipInv, ObjectsOwned, Holding
  <2>4. EverySessionCanExpire'
      BY <2>1, <2>2 DEF OwnershipInv, EverySessionCanExpire
  <2> QED
      BY <2>1, <2>2, <2>3, <2>4
      DEF OwnershipInv, MutualExclusion, Quiet, NotYetUsed, Fresh, Holding, Sweeping
<1>12. ASSUME NEW t \in Threads, EndSweep(t) PROVE OwnershipInv'
  <2>1. MutualExclusion'
      BY <1>0, <1>12 DEF EndSweep, MutualExclusion, Sweeping
  <2>2. \A v \in Threads : Holding(v)' <=> Holding(v)
      BY <1>0, <1>12 DEF EndSweep, Holding
  <2>3. phase = "serving"
      BY <1>12 DEF EndSweep, OwnershipInv, Quiet
  <2> QED
      BY <1>12, <2>1, <2>2, <2>3, OwnershipFrame
      DEF EndSweep, OwnershipInv, Quiet, NotYetUsed
<1>13. ASSUME NEW t \in Threads, Return(t) PROVE OwnershipInv'
  <2>1. MutualExclusion'
      BY <1>0, <1>13 DEF Return, MutualExclusion, Sweeping
  <2>2. \A v \in Threads : Holding(v)' <=> Holding(v)
      BY <1>0, <1>13 DEF Return, Holding
  <2>3. \A v \in Threads : Holding(v) => arg'[v] = arg[v]
      BY <1>0, <1>13 DEF Return, Holding
  <2>4. phase = "serving"
      BY <1>13 DEF Return, OwnershipInv, Quiet
  <2> QED
      BY <1>13, <2>1, <2>2, <2>3, <2>4, OwnershipFrame
      DEF Return, OwnershipInv, Quiet, NotYetUsed
<1>14. ASSUME Tick \/ \E d \in Jumps : Jump(d) PROVE OwnershipInv'
    BY <1>14, OwnershipFrame
    DEF Tick, Jump, OwnershipInv, MutualExclusion, Quiet, NotYetUsed, Holding,
        Sweeping
<1>15. CASE UNCHANGED vars
    BY <1>15, OwnershipFrame
    DEF vars, OwnershipInv, MutualExclusion, Quiet, NotYetUsed, Holding, Sweeping
<1> QED
    BY <1>1, <1>2, <1>3, <1>4, <1>5, <1>6, <1>7, <1>8, <1>9, <1>10, <1>11,
       <1>12, <1>13, <1>14, <1>15
    DEF Next, Request, Inside

LEMMA OwnershipInvariance == Spec => []OwnershipInv
    BY TypeInvariance, OwnershipInit, OwnershipStep, PTL DEF Spec

\* Session objects neither leak nor dangle, in every run of any number of
\* threads.
THEOREM ObjectsAreOwned == Spec => []ObjectsOwned
<1>1. OwnershipInv => ObjectsOwned
    BY DEF OwnershipInv
<1> QED
    BY <1>1, OwnershipInvariance, PTL

\* The sweep can reach every session, in every run of any number of threads.
THEOREM SessionsCanExpire == Spec => []EverySessionCanExpire
<1>1. OwnershipInv => EverySessionCanExpire
    BY DEF OwnershipInv
<1> QED
    BY <1>1, OwnershipInvariance, PTL

-----------------------------------------------------------------------------
(***************************************************************************)
(* The way to the release of mutex_.  Turns are counted: the ones a sweep  *)
(* still has are one more than the sessions in history_, which nobody else *)
(* can add to meanwhile.                                                   *)
(***************************************************************************)
TurnsLeft(t) == IF pc[t] = "sweeping" THEN Len(history) + 1 ELSE 0

NearsRelease(t) ==
    lock = t =>
        \/ lock' = NoThread
        \/ lock' = t /\ UNCHANGED history /\ pc'[t] = pc[t]
        \/ lock' = t /\ TurnsLeft(t)' < TurnsLeft(t)

LEMMA NearsReleaseStep ==
    ASSUME TypeInv, OwnershipInv, [Next]_vars, NEW t \in Threads, lock = t
    PROVE  NearsRelease(t)
<1> USE DEF settings, time, threads
<1>0. /\ pc \in [Threads -> ControlPoints] /\ history \in Seq(Uuids)
      /\ lock # NoThread /\ pc[t] \in {"sweeping", "swept"}
      /\ \A u \in Threads \ {t} : pc[u] \notin {"sweeping", "swept"}
    BY NamesAssumption
    DEF TypeInv, TypeOK, OwnershipInv, MutualExclusion, Sweeping
\* A session leaves history_.
<1>1. CASE SkipClosed(t) \/ CloseExpired(t)
  <2>1. /\ pc[t] = "sweeping" /\ history # <<>> /\ history' = Tail(history)
        /\ UNCHANGED <<pc, lock>>
      BY <1>1 DEF SkipClosed, CloseExpired
  <2>2. Len(history) \in Nat /\ Len(history') = Len(history) - 1
      BY <1>0, <2>1, TailFacts
  <2>3. TurnsLeft(t) = Len(history) + 1 /\ TurnsLeft(t)' = Len(history') + 1
      BY <2>1 DEF TurnsLeft
  <2>4. TurnsLeft(t)' < TurnsLeft(t) /\ lock' = t
      BY <2>1, <2>2, <2>3
  <2> QED
      BY <2>4 DEF NearsRelease
<1>2. CASE EndSweep(t)
  <2>1. pc[t] = "sweeping" /\ pc'[t] = "swept" /\ lock' = lock /\ Len(history) \in Nat
      BY <1>0, <1>2 DEF EndSweep
  <2> QED
      BY <2>1 DEF NearsRelease, TurnsLeft
<1>3. CASE Return(t)
    BY <1>3 DEF Return, NearsRelease
\* Nobody else takes the mutex, adds to history_ or moves the thread.
<1>4. ASSUME NEW u \in Threads, Request(u) PROVE NearsRelease(t)
  <2>1. u # t
      BY <1>0, <1>4 DEF Request, OpenSession, CloseSession, BeginRead, SetMaxAge, CanLock
  <2>2. UNCHANGED <<lock, history>> /\ pc'[t] = pc[t]
      BY <1>0, <1>4, <2>1
      DEF Request, OpenSession, CloseSession, BeginRead, SetMaxAge, CanLock
  <2> QED
      BY <2>2 DEF NearsRelease
<1>5. ASSUME NEW u \in Threads, NewSession(u) \/ InsertSession(u) PROVE NearsRelease(t)
  <2>1. u # t /\ NewSession(u)
      BY <1>0, <1>5 DEF NewSession, InsertSession
  <2>2. UNCHANGED <<lock, history>> /\ pc'[t] = pc[t]
      BY <1>0, <2>1 DEF NewSession
  <2> QED
      BY <2>2 DEF NearsRelease
<1>6. ASSUME NEW u \in Threads \ {t},
             SkipClosed(u) \/ CloseExpired(u) \/ EndSweep(u) \/ Return(u)
      PROVE  FALSE
    BY <1>0, <1>6 DEF SkipClosed, CloseExpired, EndSweep, Return
<1>7. CASE \/ \E accepted \in SUBSET Users \ {{}} : SetAuthenticator(accepted)
           \/ Stop
  <2>1. FALSE
      BY <1>0, <1>7 DEF SetAuthenticator, Stop
  <2> QED
      BY <2>1
<1>8. CASE Start \/ Tick \/ (\E d \in Jumps : Jump(d)) \/ UNCHANGED vars
    BY <1>8 DEF Start, Tick, Jump, vars, NearsRelease
<1> QED
    BY <1>1, <1>2, <1>3, <1>4, <1>5, <1>6, <1>7, <1>8 DEF Next, Inside

\* The safety half of LockReleased: while a thread holds mutex_, no step of any
\* thread moves it away from the release, and each of its own brings it nearer.
\* Logins and reads, however many, cannot prolong a sweep (CloseExpiredSessions).
THEOREM SweepsNearTheirEnd == Spec => [][\A t \in Threads : NearsRelease(t)]_vars
<1>1. TypeInv /\ OwnershipInv /\ [Next]_vars => \A t \in Threads : NearsRelease(t)
    BY NearsReleaseStep DEF NearsRelease
<1> QED
    BY <1>1, TypeInvariance, OwnershipInvariance, PTL DEF Spec

-----------------------------------------------------------------------------
(***************************************************************************)
(* Ages.  ActiveIsRecent is not inductive: that the session at the front   *)
(* of history_ is young enough says something about the sessions behind    *)
(* it only because none of them was inserted before the front was built,   *)
(* up to the change of daylight saving.                                    *)
(***************************************************************************)
BuiltInThePast == \A s \in DOMAIN objects : objects[s].time <= clock + Slack

FrontBuiltFirst ==
    phase # "stopped" =>
        \A i, j \in DOMAIN history :
            i <= j /\ history[i] \in index =>
                objects[history[i]].time <= inserted[history[j]] + Slack

AgeInv == BuiltInThePast /\ FrontBuiltFirst /\ ActiveIsRecent

\* The queue keeps its order when its front is removed and sessions leave.
LEMMA FrontTail ==
    ASSUME TypeInv, FrontBuiltFirst, phase # "stopped",
           history # <<>>, history' = Tail(history),
           index' \subseteq index, UNCHANGED <<inserted, jumped>>,
           \A s \in index' : objects'[s] = objects[s]
    PROVE  FrontBuiltFirst'
<1> DEFINE n == Len(history)
<1>1. /\ n \in Nat \ {0} /\ DOMAIN history = 1 .. n
      /\ DOMAIN history' = 1 .. (n - 1)
      /\ \A i \in 1 .. (n - 1) : history'[i] = history[i + 1]
    BY TailFacts DEF TypeInv, TypeOK
<1> HIDE DEF n
<1>2. ASSUME NEW i \in 1 .. (n - 1), NEW j \in 1 .. (n - 1),
             i <= j, history'[i] \in index'
      PROVE  objects'[history'[i]].time <= inserted'[history'[j]] + Slack'
  <2>1. /\ i + 1 \in DOMAIN history /\ j + 1 \in DOMAIN history
        /\ i + 1 <= j + 1 /\ history[i + 1] \in index
      BY <1>1, <1>2
  <2>2. objects[history[i + 1]].time <= inserted[history[j + 1]] + Slack
      BY <2>1 DEF FrontBuiltFirst
  <2>3. Slack' = Slack /\ objects'[history'[i]] = objects[history'[i]]
      BY <1>2 DEF Slack
  <2> QED
      BY <1>1, <2>2, <2>3
<1> QED
    BY <1>1, <1>2 DEF FrontBuiltFirst

LEMMA AgeInit == Init => AgeInv
  BY DEF Init, AgeInv, BuiltInThePast, FrontBuiltFirst, ActiveIsRecent

\* A step that leaves the clock and the sessions alone, and makes no reader
\* ready to answer.
LEMMA AgeFrame ==
    ASSUME AgeInv,
           UNCHANGED <<history, index, objects, inserted, clock, jumped>>,
           phase = "stopped" => phase' = "stopped",
           \A t \in Threads : pc'[t] = "swept" =>
               pc[t] = "swept" /\ checked'[t] = checked[t] /\ maxAge' = maxAge
    PROVE  AgeInv'
<1>1. Slack' = Slack
    BY DEF Slack
<1> QED
    BY <1>1 DEF AgeInv, BuiltInThePast, FrontBuiltFirst, ActiveIsRecent, ListSessions

LEMMA AgeStep ==
    TypeInv /\ OwnershipInv /\ OwnershipInv' /\ AgeInv /\ [Next]_vars => AgeInv'
<1> SUFFICES ASSUME TypeInv, OwnershipInv, OwnershipInv', AgeInv, [Next]_vars
             PROVE  AgeInv'
    OBVIOUS
<1> USE DEF settings, time, threads
<1>0. /\ pc \in [Threads -> ControlPoints]
      /\ checked \in [Threads -> Times] /\ inserted \in [Uuids -> Times]
      /\ clock \in Int /\ maxAge \in Int /\ Slack \in Int /\ Slack >= 0
      /\ Times \subseteq Int
      /\ \A s \in Uuids : inserted[s] \in Int
      /\ \A s \in DOMAIN objects : objects[s].time \in Int
    BY TimeAssumption DEF TypeInv, TypeOK, Times, Session, Slack
<1>1. ASSUME NEW accepted \in SUBSET Users \ {{}}, SetAuthenticator(accepted)
      PROVE  AgeInv'
  <2>1. /\ DOMAIN objects' \subseteq DOMAIN objects
        /\ \A s \in DOMAIN objects' : objects'[s] = objects[s]
        /\ DOMAIN history' = {} /\ Slack' = Slack
      BY <1>1 DEF SetAuthenticator, CloseAllSessions, Delete, Slack
  <2>2. \A t \in Threads : pc'[t] # "swept"
      BY <1>1 DEF SetAuthenticator, OwnershipInv, Quiet
  <2> QED
      BY <1>1, <2>1, <2>2
      DEF SetAuthenticator, AgeInv, BuiltInThePast, FrontBuiltFirst, ActiveIsRecent
<1>2. CASE Start
    BY <1>2, AgeFrame DEF Start
<1>3. CASE Stop
  <2>1. /\ DOMAIN objects' \subseteq DOMAIN objects
        /\ \A s \in DOMAIN objects' : objects'[s] = objects[s]
        /\ Slack' = Slack
      BY <1>3 DEF Stop, CloseAllSessions, Delete, Slack
  <2> QED
      BY <1>3, <2>1
      DEF Stop, AgeInv, BuiltInThePast, FrontBuiltFirst, ActiveIsRecent
<1>4. ASSUME NEW t \in Threads, NEW u \in Users, OpenSession(t, u)
      PROVE  AgeInv'
    BY <1>0, <1>4, AgeFrame DEF OpenSession
<1>5. ASSUME NEW t \in Threads, NewSession(t) PROVE AgeInv'
  <2>1. PICK s \in Uuids \ issued :
           objects' = [x \in DOMAIN objects \cup {s} |->
                          IF x = s THEN [time |-> clock, user |-> user[t]]
                                   ELSE objects[x]]
      BY <1>5 DEF NewSession
  <2>2. /\ DOMAIN objects' = DOMAIN objects \cup {s}
        /\ objects'[s].time = clock
        /\ \A x \in DOMAIN objects \ {s} : objects'[x] = objects[x]
      BY <2>1
  <2>3. Slack' = Slack /\ phase = "serving"
      BY <1>5 DEF NewSession, Slack, OwnershipInv, Quiet
  <2>4. BuiltInThePast'
      BY <1>0, <1>5, <2>2, <2>3 DEF NewSession, AgeInv, BuiltInThePast
  <2>5. \A x \in index : x \in DOMAIN objects /\ objects'[x] = objects[x]
      BY <2>2, <2>3 DEF OwnershipInv, ObjectsOwned, Fresh
  <2>6. FrontBuiltFirst'
      BY <1>5, <2>3, <2>5 DEF NewSession, AgeInv, FrontBuiltFirst
  <2>7. ActiveIsRecent'
      BY <1>0, <1>5, <2>3 DEF NewSession, AgeInv, ActiveIsRecent, ListSessions
  <2> QED
      BY <2>4, <2>6, <2>7 DEF AgeInv
<1>6. ASSUME NEW t \in Threads, InsertSession(t) PROVE AgeInv'
  <2> DEFINE n == Len(history)
             s == arg[t]
  <2>1. s \in Uuids /\ Holding(t) /\ phase = "serving" /\ Slack' = Slack
      BY <1>6 DEF InsertSession, TypeInv, Holding, OwnershipInv, Quiet, Slack
  <2>2. /\ n \in Nat /\ DOMAIN history = 1 .. n
        /\ DOMAIN history' = 1 .. (n + 1)
        /\ \A i \in 1 .. n : history'[i] = history[i]
        /\ history'[n + 1] = s
      BY <1>6, <2>1, AppendFacts DEF InsertSession, TypeInv, TypeOK
  <2>3. /\ \A x \in Uuids \ {s} : inserted'[x] = inserted[x]
        /\ inserted'[s] = clock
        /\ objects' = objects /\ index' = index \cup {s} /\ clock' = clock
      BY <1>0, <1>6, <2>1 DEF InsertSession
  <2>4. \A i \in 1 .. n : history[i] \in Uuids \ {s}
      BY <2>1, <2>2 DEF OwnershipInv, Fresh, InHistory, TypeInv, TypeOK
  <2>5. s \in DOMAIN objects /\ index \subseteq DOMAIN objects
      BY <2>1 DEF OwnershipInv, ObjectsOwned
  <2> HIDE DEF n, s
  <2>6. BuiltInThePast'
      BY <2>1, <2>3 DEF AgeInv, BuiltInThePast
  <2>7. ASSUME NEW i \in 1 .. (n + 1), NEW j \in 1 .. (n + 1), i <= j,
               history'[i] \in index'
        PROVE  objects'[history'[i]].time <= inserted'[history'[j]] + Slack'
    <3>1. CASE j = n + 1
      <4>1. history'[i] \in DOMAIN objects
          BY <2>3, <2>5, <2>7
      <4> QED
          BY <2>1, <2>2, <2>3, <3>1, <4>1 DEF AgeInv, BuiltInThePast
    <3>2. CASE j # n + 1
      <4>1. i \in 1 .. n /\ j \in 1 .. n
          BY <2>2, <2>7, <3>2
      <4>2. history[i] \in index
          BY <2>2, <2>3, <2>4, <2>7, <4>1
      <4>3. objects[history[i]].time <= inserted[history[j]] + Slack
          BY <2>1, <2>2, <2>7, <4>1, <4>2 DEF AgeInv, FrontBuiltFirst
      <4> QED
          BY <2>1, <2>2, <2>3, <2>4, <4>1, <4>3
    <3> QED
        BY <3>1, <3>2
  <2>8. ActiveIsRecent'
    <3>1. \A v \in Threads : pc'[v] # "swept"
        BY <1>0, <1>6, NamesAssumption
        DEF InsertSession, OwnershipInv, MutualExclusion, Sweeping
    <3> QED
        BY <3>1 DEF ActiveIsRecent
  <2> QED
      BY <2>2, <2>6, <2>7, <2>8 DEF AgeInv, FrontBuiltFirst
<1>7. ASSUME NEW t \in Threads, NEW s \in Uuids, CloseSession(t, s)
      PROVE  AgeInv'
  <2>1. /\ phase = "serving" /\ history' = history /\ clock' = clock
        /\ inserted' = inserted /\ Slack' = Slack
        /\ index' = index \ {s} /\ DOMAIN objects' = DOMAIN objects \ {s}
        /\ \A x \in DOMAIN objects' : objects'[x] = objects[x]
      BY <1>7 DEF CloseSession, CanLock, Delete, Slack
  <2>2. \A x \in index' : objects'[x] = objects[x]
      BY <2>1 DEF OwnershipInv, ObjectsOwned
  <2>3. BuiltInThePast' /\ FrontBuiltFirst'
      BY <2>1, <2>2 DEF AgeInv, BuiltInThePast, FrontBuiltFirst
  <2>4. ActiveIsRecent'
      BY <1>7, <2>1 DEF CloseSession, AgeInv, ActiveIsRecent, ListSessions
  <2> QED
      BY <2>3, <2>4 DEF AgeInv
<1>8. ASSUME NEW t \in Threads, NEW s \in Uuids \cup {NoUuid}, BeginRead(t, s)
      PROVE  AgeInv'
    BY <1>0, <1>8, AgeFrame DEF BeginRead, CanLock
<1>9. ASSUME NEW t \in Threads, NEW age \in Ages, SetMaxAge(t, age)
      PROVE  AgeInv'
  <2>1. \A v \in Threads : pc'[v] # "swept"
      BY <1>0, <1>9, NamesAssumption
      DEF SetMaxAge, CanLock, OwnershipInv, MutualExclusion, Sweeping
  <2> QED
      BY <1>9, <2>1, AgeFrame DEF SetMaxAge
<1>10. ASSUME NEW t \in Threads, SkipClosed(t) PROVE AgeInv'
  <2>1. phase = "serving" /\ Slack' = Slack
      BY <1>10 DEF SkipClosed, OwnershipInv, Quiet, Slack
  <2>2. FrontBuiltFirst'
      BY <1>10, <2>1, FrontTail DEF SkipClosed, AgeInv
  <2> QED
      BY <1>10, <2>1, <2>2
      DEF SkipClosed, AgeInv, BuiltInThePast, ActiveIsRecent, ListSessions
<1>11. ASSUME NEW t \in Threads, CloseExpired(t) PROVE AgeInv'
  <2>1. /\ phase = "serving" /\ Slack' = Slack
        /\ index' \subseteq index
        /\ \A x \in DOMAIN objects' : x \in DOMAIN objects /\ objects'[x] = objects[x]
        /\ DOMAIN objects' = DOMAIN objects \ {Head(history)}
        /\ index' = index \ {Head(history)}
      BY <1>11 DEF CloseExpired, Delete, OwnershipInv, Quiet, Slack
  <2>2. \A x \in index' : objects'[x] = objects[x]
      BY <2>1 DEF OwnershipInv, ObjectsOwned
  <2>3. FrontBuiltFirst'
      BY <1>11, <2>1, <2>2, FrontTail DEF CloseExpired, AgeInv
  <2>4. BuiltInThePast'
      BY <1>11, <2>1 DEF CloseExpired, AgeInv, BuiltInThePast
  <2>5. ActiveIsRecent'
      BY <1>11, <2>1 DEF CloseExpired, AgeInv, ActiveIsRecent, ListSessions
  <2> QED
      BY <2>3, <2>4, <2>5 DEF AgeInv
<1>12. ASSUME NEW t \in Threads, EndSweep(t) PROVE AgeInv'
  <2>1. /\ phase = "serving" /\ Slack' = Slack
        /\ UNCHANGED <<phase, clock, history, index, objects, inserted, maxAge>>
        /\ checked'[t] = clock
        /\ \A v \in Threads : v # t => pc'[v] = pc[v] /\ checked'[v] = checked[v]
      BY <1>0, <1>12 DEF EndSweep, OwnershipInv, Quiet, Slack
  <2>2. ASSUME NEW s \in index PROVE clock - inserted[s] <= maxAge + Slack
    <3> DEFINE f == history[1]
    <3>1. PICK j \in DOMAIN history : history[j] = s
        BY <2>1, <2>2 DEF OwnershipInv, EverySessionCanExpire, InHistory
    <3>2. /\ history # <<>> /\ 1 \in DOMAIN history /\ 1 <= j
          /\ f = Head(history)
        BY <3>1 DEF TypeInv, TypeOK
    <3>3. f \in index /\ GetAge(f) <= maxAge
        BY <1>12, <3>2 DEF EndSweep
    <3>4. f \in DOMAIN objects /\ s \in Uuids
        BY <2>1, <2>2, <3>3 DEF OwnershipInv, ObjectsOwned, TypeInv, TypeOK
    <3>5. objects[f].time \in Times
        BY <3>4 DEF TypeInv, TypeOK, Session
    <3>6. clock - objects[f].time <= maxAge
        BY <1>0, <3>3, <3>5, TimeAssumption
        DEF GetAge, ToUnsigned, Times, TypeInv, TypeOK
    <3>7. objects[f].time <= inserted[s] + Slack
        BY <2>1, <3>1, <3>2, <3>3 DEF AgeInv, FrontBuiltFirst
    <3> HIDE DEF f
    <3> QED
        BY <1>0, <3>4, <3>6, <3>7
  <2>3. BuiltInThePast' /\ FrontBuiltFirst'
      BY <2>1 DEF AgeInv, BuiltInThePast, FrontBuiltFirst
  <2>4. ActiveIsRecent'
    <3> SUFFICES ASSUME NEW v \in Threads, pc'[v] = "swept", NEW s \in index
                 PROVE  checked'[v] - inserted[s] <= maxAge + Slack
        BY <2>1 DEF ActiveIsRecent, ListSessions
    <3> QED
        BY <2>1, <2>2 DEF AgeInv, ActiveIsRecent, ListSessions
  <2> QED
      BY <2>3, <2>4 DEF AgeInv
<1>13. ASSUME NEW t \in Threads, Return(t) PROVE AgeInv'
  <2>1. \A v \in Threads : pc'[v] # "swept"
      BY <1>0, <1>13, NamesAssumption
      DEF Return, OwnershipInv, MutualExclusion, Sweeping
  <2> QED
      BY <1>13, <2>1, AgeFrame DEF Return
<1>14. ASSUME \/ Tick
              \/ \E d \in Jumps : Jump(d)
       PROVE  AgeInv'
  <2>1. /\ UNCHANGED <<phase, pc, checked, maxAge, history, index, objects, inserted>>
        /\ Slack' \in Int /\ Slack' >= Slack
        /\ clock' \in Int /\ clock' + Slack' >= clock + Slack
    <3>1. CASE Tick
        BY <1>0, <3>1 DEF Tick, Slack
    <3>2. ASSUME NEW d \in Jumps, Jump(d)
          PROVE  /\ Slack = 0 /\ Slack' = Setback /\ clock' = clock + d
        BY <3>2 DEF Jump, Slack, TypeInv, TypeOK
    <3>3. ASSUME NEW d \in Jumps PROVE d \in Int /\ d + Setback >= 0 /\ Setback \in Nat
        BY TimeAssumption
    <3>4. CASE \E d \in Jumps : Jump(d)
        BY <1>0, <3>2, <3>3, <3>4 DEF Jump
    <3> QED
        BY <1>14, <3>1, <3>4
  <2>2. BuiltInThePast'
      BY <1>0, <2>1 DEF AgeInv, BuiltInThePast
  <2>3. FrontBuiltFirst'
    <3> SUFFICES ASSUME phase # "stopped",
                        NEW i \in DOMAIN history, NEW j \in DOMAIN history,
                        i <= j, history[i] \in index
                 PROVE  objects[history[i]].time <= inserted[history[j]] + Slack'
        BY <2>1 DEF FrontBuiltFirst
    <3>1. /\ objects[history[i]].time \in Int /\ inserted[history[j]] \in Int
        BY <1>0 DEF OwnershipInv, ObjectsOwned, TypeInv, TypeOK
    <3> QED
        BY <1>0, <2>1, <3>1 DEF AgeInv, FrontBuiltFirst
  <2>4. ActiveIsRecent'
    <3> SUFFICES ASSUME NEW v \in Threads, pc[v] = "swept", NEW s \in index
                 PROVE  checked[v] - inserted[s] <= maxAge + Slack'
        BY <2>1 DEF ActiveIsRecent, ListSessions
    <3>1. checked[v] - inserted[s] <= maxAge + Slack
        BY DEF AgeInv, ActiveIsRecent, ListSessions
    <3>2. checked[v] \in Int /\ inserted[s] \in Int
        BY <1>0 DEF TypeInv, TypeOK
    <3> QED
        BY <1>0, <2>1, <3>1, <3>2
  <2> QED
      BY <2>2, <2>3, <2>4 DEF AgeInv
<1>15. CASE UNCHANGED vars
    BY <1>15, AgeFrame DEF vars
<1> QED
    BY <1>1, <1>2, <1>3, <1>4, <1>5, <1>6, <1>7, <1>8, <1>9, <1>10, <1>11,
       <1>12, <1>13, <1>14, <1>15
    DEF Next, Request, Inside

\* No session is reported active longer than maxAge_ after its insertion, give
\* or take the change of daylight saving, however many logins run at once.
THEOREM ReportsAreRecent == Spec => []ActiveIsRecent
<1>1. AgeInv => ActiveIsRecent
    BY DEF AgeInv
<1> QED
    BY <1>1, TypeInvariance, OwnershipInvariance, AgeInit, AgeStep, PTL DEF Spec

-----------------------------------------------------------------------------
(***************************************************************************)
(* What the reader of the sessions relies on: since its sweep ended, the   *)
(* session at the front of history_ is the one it found young enough.      *)
(***************************************************************************)
FrontIsYoung ==
    \A t \in Threads : pc[t] = "swept" /\ index # {} =>
        /\ history # <<>> /\ Head(history) \in index
        /\ checked[t] - objects[Head(history)].time <= maxAge

LEMMA FrontInit == Init => FrontIsYoung
    BY DEF Init, FrontIsYoung

LEMMA FrontStep == TypeInv /\ OwnershipInv /\ FrontIsYoung /\ [Next]_vars => FrontIsYoung'
<1> SUFFICES ASSUME TypeInv, OwnershipInv, FrontIsYoung, [Next]_vars
             PROVE  FrontIsYoung'
    OBVIOUS
<1> USE DEF settings, time, threads
<1>0. pc \in [Threads -> ControlPoints] /\ checked \in [Threads -> Times]
    BY DEF TypeInv, TypeOK
\* Steps that no reader ready to answer survives ...
<1>1. ASSUME \A v \in Threads : pc'[v] # "swept" PROVE FrontIsYoung'
    BY <1>1 DEF FrontIsYoung
\* ... and steps that do not concern it.
<1>2. ASSUME UNCHANGED <<history, index, maxAge>>,
             \A s \in index : objects'[s] = objects[s],
             \A v \in Threads : pc'[v] = "swept" =>
                 pc[v] = "swept" /\ checked'[v] = checked[v]
      PROVE  FrontIsYoung'
    BY <1>2 DEF FrontIsYoung
<1>3. ASSUME NEW accepted \in SUBSET Users \ {{}}, SetAuthenticator(accepted)
      PROVE  FrontIsYoung'
    BY <1>1, <1>3 DEF SetAuthenticator, OwnershipInv, Quiet
<1>4. CASE Start
    BY <1>2, <1>4 DEF Start
<1>5. CASE Stop
    BY <1>1, <1>5 DEF Stop
<1>6. ASSUME NEW t \in Threads, NEW u \in Users, OpenSession(t, u)
      PROVE  FrontIsYoung'
    BY <1>0, <1>2, <1>6 DEF OpenSession
<1>7. ASSUME NEW t \in Threads, NewSession(t) PROVE FrontIsYoung'
  <2>1. phase = "serving"
      BY <1>7 DEF NewSession, OwnershipInv, Quiet
  <2>2. \A s \in index : objects'[s] = objects[s]
    <3>1. PICK x \in Uuids \ issued :
             objects' = [y \in DOMAIN objects \cup {x} |->
                            IF y = x THEN [time |-> clock, user |-> user[t]]
                                     ELSE objects[y]]
        BY <1>7 DEF NewSession
    <3>2. index \subseteq DOMAIN objects /\ x \notin DOMAIN objects
        BY <2>1 DEF OwnershipInv, ObjectsOwned, Fresh
    <3> QED
        BY <3>1, <3>2
  <2>3. /\ UNCHANGED <<history, index, maxAge, checked>>
        /\ \A v \in Threads : pc'[v] = "swept" => pc[v] = "swept"
      BY <1>0, <1>7 DEF NewSession
  <2> QED
      BY <1>2, <2>2, <2>3
<1>8. ASSUME NEW t \in Threads,
             \/ InsertSession(t)
             \/ \E s \in Uuids : CloseSession(t, s)
             \/ \E s \in Uuids \cup {NoUuid} : BeginRead(t, s)
             \/ \E age \in Ages : SetMaxAge(t, age)
      PROVE  FrontIsYoung'
  <2>1. lock = NoThread
      BY <1>8 DEF InsertSession, CloseSession, BeginRead, SetMaxAge, CanLock
  <2>2. \A v \in Threads : pc[v] # "swept"
      BY <2>1, NamesAssumption DEF OwnershipInv, MutualExclusion, Sweeping
  <2> QED
      BY <1>0, <1>1, <1>8, <2>2
      DEF InsertSession, CloseSession, BeginRead, SetMaxAge
<1>9. ASSUME NEW t \in Threads, SkipClosed(t) \/ CloseExpired(t) \/ Return(t)
      PROVE  FrontIsYoung'
  <2>1. \A v \in Threads \ {t} : pc[v] # "swept"
      BY <1>9 DEF SkipClosed, CloseExpired, Return, OwnershipInv, MutualExclusion, Sweeping
  <2> QED
      BY <1>0, <1>1, <1>9, <2>1 DEF SkipClosed, CloseExpired, Return
<1>10. ASSUME NEW t \in Threads, EndSweep(t) PROVE FrontIsYoung'
  <2>1. /\ UNCHANGED <<history, index, objects, maxAge, clock>>
        /\ phase = "serving" /\ checked'[t] = clock
        /\ \A v \in Threads \ {t} : pc'[v] = pc[v] /\ checked'[v] = checked[v]
      BY <1>0, <1>10 DEF EndSweep, OwnershipInv, Quiet
  <2>2. ASSUME index # {}
        PROVE  /\ history # <<>> /\ Head(history) \in index
               /\ clock - objects[Head(history)].time <= maxAge
    <3>1. history # <<>>
        BY <2>1, <2>2 DEF OwnershipInv, EverySessionCanExpire, InHistory
    <3>2. Head(history) \in index /\ GetAge(Head(history)) <= maxAge
        BY <1>10, <3>1 DEF EndSweep
    <3>3. objects[Head(history)].time \in Times
        BY <2>1, <3>2 DEF OwnershipInv, ObjectsOwned, TypeInv, TypeOK, Session
    <3> QED
        BY <3>1, <3>2, <3>3, TimeAssumption
        DEF GetAge, ToUnsigned, Times, TypeInv, TypeOK
  <2> QED
      BY <2>1, <2>2 DEF FrontIsYoung
<1>11. CASE Tick \/ \E d \in Jumps : Jump(d)
    BY <1>2, <1>11 DEF Tick, Jump
<1>12. CASE UNCHANGED vars
    BY <1>2, <1>12 DEF vars
<1> QED
    BY <1>3, <1>4, <1>5, <1>6, <1>7, <1>8, <1>9, <1>10, <1>11, <1>12
    DEF Next, Request, Inside

\* A reader is told of no session older than maxAge_ while history_ is ordered by
\* age, in every run of any number of threads.
THEOREM ReportsAreUnexpired == Spec => []ActiveIsUnexpired
<1>1. TypeInv /\ OwnershipInv /\ FrontIsYoung => ActiveIsUnexpired
  <2> SUFFICES ASSUME TypeInv, OwnershipInv, FrontIsYoung, OrderedByAge,
                      NEW t \in Threads, pc[t] = "swept", NEW s \in index
               PROVE  checked[t] - objects[s].time <= maxAge
      BY DEF ActiveIsUnexpired, ListSessions
  <2>1. phase = "serving"
      BY DEF OwnershipInv, Quiet
  <2>2. PICK j \in DOMAIN history : history[j] = s
      BY <2>1 DEF OwnershipInv, EverySessionCanExpire, InHistory
  <2>3. /\ 1 \in DOMAIN history /\ 1 <= j /\ j \in Nat
        /\ history[1] = Head(history) /\ Head(history) \in index
        /\ checked[t] - objects[history[1]].time <= maxAge
      BY <2>2 DEF FrontIsYoung, TypeInv, TypeOK
  <2>4. objects[history[1]].time <= objects[s].time
    <3>1. objects[s].time \in Times
        BY <2>1 DEF OwnershipInv, ObjectsOwned, TypeInv, TypeOK, Session
    <3>2. CASE j = 1
        BY <2>2, <3>1, <3>2 DEF Times
    <3>3. CASE j # 1
        BY <2>1, <2>2, <2>3, <3>3 DEF OrderedByAge
    <3> QED
        BY <3>2, <3>3
  <2>5. /\ objects[history[1]].time \in Int /\ objects[s].time \in Int
        /\ checked[t] \in Int /\ maxAge \in Int
      BY <2>1, <2>3, TimeAssumption
      DEF OwnershipInv, ObjectsOwned, TypeInv, TypeOK, Session, Times
  <2> QED
      BY <2>3, <2>4, <2>5
<1> QED
    BY <1>1, TypeInvariance, OwnershipInvariance, FrontInit, FrontStep, PTL DEF Spec

-----------------------------------------------------------------------------
(***************************************************************************)
(* The sessions implement SessionContract while local time only flows.     *)
(* The names below are what the mapping gives the variables of the         *)
(* contract.                                                               *)
(***************************************************************************)
Ever    == {s \in issued : \A t \in Threads : Holding(t) => arg[t] # s}
Born    == [s \in Live |-> objects[s].time]
Granted == [s \in Live |-> inserted[s]]
Asked   == IF \E t \in Threads : pc[t] = "sweeping" THEN "checking"
           ELSE IF \E t \in Threads : pc[t] = "swept" THEN "answered"
           ELSE "none"

NeverJumped == ~jumped

LEMMA JumpedStep == Jumps = {} /\ NeverJumped /\ [Next]_vars => NeverJumped'
    BY DEF NeverJumped, Next, Request, Inside, vars, settings, time, threads,
           SetAuthenticator, Start, Stop, OpenSession, NewSession, InsertSession,
           CloseSession, BeginRead, SetMaxAge, SkipClosed, CloseExpired, EndSweep,
           Return, Tick

\* The mutex makes the threads look like one request.
LEMMA OneRequest ==
    ASSUME OwnershipInv
    PROVE  /\ lock = NoThread => Asked = "none"
           /\ (\A t \in Threads : pc[t] = "idle") => Asked = "none"
           /\ \A t \in Threads : pc[t] = "sweeping" => Asked = "checking"
           /\ \A t \in Threads : pc[t] = "swept" => Asked = "answered"
    BY NamesAssumption DEF OwnershipInv, MutualExclusion, Sweeping, Asked

\* A step that the contract does not see.
LEMMA ContractFrame ==
    ASSUME UNCHANGED <<clock, maxAge>>, Ever' = Ever, Live' = Live, Asked' = Asked,
           \A s \in Live : objects'[s].time = objects[s].time /\ inserted'[s] = inserted[s]
    PROVE  UNCHANGED Contract!vars
<1>1. Born' = Born /\ Granted' = Granted
    BY DEF Born, Granted
<1> QED
    BY <1>1 DEF Contract!vars, Ever, Born, Granted, Asked

LEMMA ContractInit == Init => Contract!Init
<1> SUFFICES ASSUME Init PROVE Contract!Init
    OBVIOUS
<1>1. clock \in Times /\ Live = {} /\ Ever = {} /\ Asked = "none"
    BY TimeAssumption DEF Init, Live, Ever, Asked, Times
<1>2. Born = [s \in {} |-> 0] /\ Granted = [s \in {} |-> 0]
    BY <1>1 DEF Born, Granted
<1> QED
    BY <1>1, <1>2 DEF Init, Contract!Init, Ever, Born, Granted, Asked

LEMMA ContractStep ==
    Jumps = {} /\ TypeInv /\ TypeInv' /\ OwnershipInv /\ OwnershipInv' /\ AgeInv
        /\ AgeInv' /\ NeverJumped /\ [Next]_vars
    => [Contract!Next]_Contract!vars
<1> SUFFICES ASSUME Jumps = {}, TypeInv, TypeInv', OwnershipInv, OwnershipInv', AgeInv,
                    AgeInv', NeverJumped, [Next]_vars
             PROVE  Contract!Next \/ UNCHANGED Contract!vars
    OBVIOUS
<1> USE NamesAssumption DEF settings, time, threads
<1>0. /\ pc \in [Threads -> ControlPoints] /\ arg \in [Threads -> Uuids \cup {NoUuid}]
      /\ inserted \in [Uuids -> Times] /\ checked \in [Threads -> Times]
      /\ Slack = 0 /\ clock \in Times /\ maxAge \in Ages /\ index \subseteq Uuids
      /\ Times \subseteq Int /\ Ages \subseteq Int
    BY TimeAssumption DEF TypeInv, TypeOK, Times, NeverJumped, Slack
\* Steps outside the critical sections
<1>1. ASSUME NEW accepted \in SUBSET Users \ {{}}, SetAuthenticator(accepted)
      PROVE  UNCHANGED Contract!vars
  <2>1. Live = {} /\ Live' = {} /\ Asked' = Asked /\ Ever' = Ever
      BY <1>1 DEF SetAuthenticator, CloseAllSessions, OwnershipInv, NotYetUsed, Live,
                  Asked, Ever, Holding
  <2> QED
      BY <1>1, <2>1, ContractFrame DEF SetAuthenticator
<1>2. CASE Start
  <2>1. Live' = Live /\ Asked' = Asked /\ Ever' = Ever
      BY <1>2 DEF Start, Live, Asked, Ever, Holding
  <2> QED
      BY <1>2, <2>1, ContractFrame DEF Start
<1>3. CASE Stop
  <2>1. /\ Live' = Live \ Live /\ Asked = "none" /\ Asked' = Asked /\ Ever' = Ever
      BY <1>3, OneRequest DEF Stop, Live, Asked, Ever, Holding
  <2>2. Born' = Contract!Keep(Born, Live') /\ Granted' = Contract!Keep(Granted, Live')
      BY <2>1 DEF Born, Granted, Contract!Keep
  <2>3. Contract!Shutdown
      BY <1>3, <2>1, <2>2
      DEF Stop, Contract!Shutdown, Contract!End, Ever, Born, Granted, Asked
  <2> QED
      BY <2>3 DEF Contract!Next
<1>4. ASSUME NEW t \in Threads, NEW u \in Users, OpenSession(t, u)
      PROVE  UNCHANGED Contract!vars
  <2>1. Live' = Live /\ Asked' = Asked /\ Ever' = Ever
      BY <1>0, <1>4 DEF OpenSession, Live, Asked, Ever, Holding
  <2> QED
      BY <1>4, <2>1, ContractFrame DEF OpenSession
<1>5. ASSUME NEW t \in Threads, NewSession(t) PROVE UNCHANGED Contract!vars
  <2>1. PICK s \in Uuids \ issued :
           /\ issued' = issued \cup {s}
           /\ arg' = [arg EXCEPT ![t] = s]
           /\ objects' = [x \in DOMAIN objects \cup {s} |->
                             IF x = s THEN [time |-> clock, user |-> user[t]]
                                      ELSE objects[x]]
      BY <1>5 DEF NewSession
  <2>2. phase = "serving" /\ ~Holding(t)
      BY <1>5 DEF NewSession, OwnershipInv, Quiet, Holding
  <2>3. \A v \in Threads : /\ Holding(v)' <=> Holding(v) \/ v = t
                           /\ arg'[v] = IF v = t THEN s ELSE arg[v]
      BY <1>0, <1>5, <2>1 DEF NewSession, Holding
  <2>4. Ever' = Ever
      BY <2>1, <2>2, <2>3 DEF Ever
  <2>5. Live' = Live /\ Asked' = Asked
      BY <1>0, <1>5 DEF NewSession, Live, Asked
  <2>6. \A x \in Live : objects'[x] = objects[x]
      BY <2>1, <2>2 DEF Live, OwnershipInv, ObjectsOwned, Fresh
  <2> QED
      BY <1>5, <2>4, <2>5, <2>6, ContractFrame DEF NewSession
\* A login is granted when its session is inserted.
<1>6. ASSUME NEW t \in Threads, InsertSession(t) PROVE Contract!Next
  <2>0. arg[t] \in Uuids
      BY <1>6 DEF InsertSession, Holding, TypeInv
  <2>s. PICK s \in Uuids : s = arg[t]
      BY <2>0
  <2>b. PICK birth : birth = objects[s].time
      OBVIOUS
  <2>1. phase = "serving" /\ Holding(t) /\ Asked = "none"
      BY <1>6, OneRequest DEF InsertSession, OwnershipInv, Quiet, Holding
  <2>2. s \in DOMAIN objects /\ s \in issued /\ s \notin index
      BY <2>1, <2>s, <2>b DEF OwnershipInv, ObjectsOwned, Fresh
  <2>3. birth \in Times /\ birth <= clock
      BY <1>0, <2>2, <2>s, <2>b DEF TypeInv, TypeOK, Session, AgeInv, BuiltInThePast
  <2>4. s \notin Ever
      BY <2>1, <2>s, <2>b DEF Ever
  <2>5. \A v \in Threads : /\ Holding(v)' <=> Holding(v) /\ v # t
                           /\ v # t => arg'[v] = arg[v]
      BY <1>0, <1>6 DEF InsertSession, Holding
  <2>6. \A v \in Threads : Holding(v) /\ arg[v] = s => v = t
      BY <2>1, <2>s, <2>b DEF OwnershipInv, ObjectsOwned
  <2>7. Ever' = Ever \cup {s}
      BY <1>6, <2>s, <2>b, <2>2, <2>5, <2>6 DEF InsertSession, Ever
  <2>8. /\ Live = index /\ Live' = Live \cup {s} /\ objects' = objects
        /\ inserted'[s] = clock
        /\ \A x \in Uuids \ {s} : inserted'[x] = inserted[x]
      BY <1>0, <1>6, <2>s, <2>b, <2>1 DEF InsertSession, Live
  <2>9. Asked' = Asked
      BY <1>0, <1>6 DEF InsertSession, Asked
  <2>10. Born' = [x \in Live \cup {s} |-> IF x = s THEN birth ELSE Born[x]]
      BY <2>s, <2>b, <2>8 DEF Born
  <2>11. Granted' = [x \in Live \cup {s} |-> IF x = s THEN clock ELSE Granted[x]]
      BY <1>0, <2>8, <2>2 DEF Granted
  <2>12. Contract!Grant(s, birth)
      BY <1>6, <2>1, <2>3, <2>4, <2>7, <2>8, <2>9, <2>10, <2>11
      DEF InsertSession, Contract!Grant, Ever, Born, Granted, Asked
  <2> QED
      BY <2>1, <2>3, <2>12 DEF Contract!Next
<1>7. ASSUME NEW t \in Threads, NEW s \in Uuids, CloseSession(t, s)
      PROVE  Contract!Next
  <2>1. /\ phase = "serving" /\ phase' = phase /\ Asked = "none" /\ s \in index
        /\ index' = index \ {s}
      BY <1>7, OneRequest DEF CloseSession, CanLock
  <2>2. /\ Live' = Live \ {s} /\ Asked' = Asked /\ Ever' = Ever /\ s \in Live
      BY <1>7, <2>1 DEF CloseSession, Live, Asked, Ever, Holding
  <2>3. \A x \in Live' : objects'[x] = objects[x] /\ inserted'[x] = inserted[x]
      BY <1>7, <2>1 DEF CloseSession, Live, Delete, OwnershipInv, ObjectsOwned
  <2>4. Born' = Contract!Keep(Born, Live') /\ Granted' = Contract!Keep(Granted, Live')
      BY <2>2, <2>3 DEF Born, Granted, Contract!Keep
  <2>5. Contract!End({s})
      BY <1>7, <2>2, <2>4
      DEF CloseSession, Contract!End, Ever, Born, Granted, Asked
  <2>6. Contract!Logout
      BY <2>1, <2>2, <2>5 DEF Contract!Logout, Asked
  <2> QED
      BY <2>6 DEF Contract!Next
\* A request to read the sessions, or to change the limit
<1>8. ASSUME NEW t \in Threads,
             \/ \E s \in Uuids \cup {NoUuid} : BeginRead(t, s)
             \/ \E age \in Ages : SetMaxAge(t, age)
      PROVE  Contract!Next
  <2>1. /\ lock = NoThread /\ pc[t] = "idle" /\ pc' = [pc EXCEPT ![t] = "sweeping"]
        /\ UNCHANGED <<phase, index, objects, inserted, issued, clock>>
        /\ maxAge' \in Ages
        /\ \A v \in Threads : v # t => arg'[v] = arg[v]
      BY <1>0, <1>8 DEF BeginRead, SetMaxAge, CanLock
  <2>2. Asked = "none" /\ Asked' = "checking"
      BY <1>0, <2>1, OneRequest DEF Asked
  <2>3. Live' = Live /\ Ever' = Ever
      BY <1>0, <2>1 DEF Live, Ever, Holding
  <2>4. Born' = Born /\ Granted' = Granted
      BY <2>1, <2>3 DEF Born, Granted
  <2>5. Contract!Check
      BY <2>1, <2>2, <2>3, <2>4 DEF Contract!Check, Ever, Born, Granted, Asked
  <2> QED
      BY <2>5 DEF Contract!Next
<1>9. ASSUME NEW t \in Threads, SkipClosed(t) PROVE UNCHANGED Contract!vars
  <2>1. Live' = Live /\ Asked' = Asked /\ Ever' = Ever
      BY <1>9 DEF SkipClosed, Live, Asked, Ever, Holding
  <2> QED
      BY <1>9, <2>1, ContractFrame DEF SkipClosed
<1>10. ASSUME NEW t \in Threads, CloseExpired(t) PROVE Contract!Next
  <2>p. PICK s \in index : s = Head(history)
      BY <1>10 DEF CloseExpired
  <2>1. /\ phase = "serving" /\ phase' = phase /\ Asked = "checking" /\ s \in index
        /\ index' = index \ {s} /\ GetAge(s) > maxAge
        /\ UNCHANGED <<clock, maxAge, inserted, issued, pc, arg>>
        /\ objects' = Delete({s})
      BY <1>10, <2>p, OneRequest DEF CloseExpired, OwnershipInv, Quiet
  <2>2. Live' = Live \ {s} /\ Asked' = Asked /\ Ever' = Ever /\ s \in Live
      BY <2>1 DEF Live, Asked, Ever, Holding
  <2>3. \A x \in Live' : objects'[x] = objects[x] /\ inserted'[x] = inserted[x]
      BY <2>1 DEF Live, Delete, OwnershipInv, ObjectsOwned
  <2>4. Born' = Contract!Keep(Born, Live') /\ Granted' = Contract!Keep(Granted, Live')
      BY <2>2, <2>3 DEF Born, Granted, Contract!Keep
  <2>5. clock - Born[s] > maxAge
    <3>1. s \in DOMAIN objects /\ Born[s] = objects[s].time
        BY <2>1, <2>2 DEF OwnershipInv, ObjectsOwned, Born
    <3>2. objects[s].time \in Times /\ objects[s].time <= clock
        BY <1>0, <3>1 DEF TypeInv, TypeOK, Session, AgeInv, BuiltInThePast
    <3>3. clock \in Int /\ maxAge \in Int /\ objects[s].time \in Int
        BY <1>0, <3>2
    <3>4. GetAge(s) = clock - objects[s].time
        BY <3>2, <3>3 DEF GetAge, ToUnsigned
    <3> QED
        BY <2>1, <3>1, <3>3, <3>4
  <2>6. Contract!End({s})
      BY <2>1, <2>2, <2>4 DEF Contract!End, Ever, Born, Granted, Asked
  <2>7. Contract!Expire
      BY <2>1, <2>2, <2>5, <2>6 DEF Contract!Expire, Born, Asked
  <2> QED
      BY <2>7 DEF Contract!Next
<1>11. ASSUME NEW t \in Threads, EndSweep(t) PROVE Contract!Next
  <2>1. /\ phase = "serving" /\ pc[t] = "sweeping" /\ pc' = [pc EXCEPT ![t] = "swept"]
        /\ UNCHANGED <<phase, clock, maxAge, index, objects, inserted, issued, arg, jumped>>
        /\ checked'[t] = clock
      BY <1>0, <1>11 DEF EndSweep, OwnershipInv, Quiet
  <2>2. Asked = "checking" /\ Asked' = "answered"
    <3>1. pc'[t] = "swept"
        BY <1>0, <2>1
    <3>2. \A v \in Threads : pc'[v] # "sweeping"
        BY <1>0, <2>1 DEF OwnershipInv, MutualExclusion, Sweeping
    <3> QED
        BY <2>1, <3>1, <3>2, OneRequest DEF Asked
  <2>3. Live' = Live /\ Ever' = Ever
      BY <1>0, <2>1 DEF Live, Ever, Holding
  <2>4. Born' = Born /\ Granted' = Granted
      BY <2>1, <2>3 DEF Born, Granted
  <2>5. \A s \in Live : clock - Granted[s] <= maxAge
    <3>1. Slack' = 0 /\ Live = index /\ index' = index /\ inserted' = inserted
        BY <1>0, <2>1 DEF Slack, Live
    <3>2. pc'[t] = "swept"
        BY <1>0, <2>1
    <3>3. \A s \in index : checked'[t] - inserted[s] <= maxAge' + 0
        BY <3>1, <3>2 DEF AgeInv, ActiveIsRecent, ListSessions
    <3> QED
        BY <1>0, <2>1, <3>1, <3>3 DEF Granted
  <2>6. Contract!Answer
      BY <2>1, <2>2, <2>3, <2>4, <2>5 DEF Contract!Answer, Ever, Born, Granted, Asked
  <2> QED
      BY <2>6 DEF Contract!Next
<1>12. ASSUME NEW t \in Threads, Return(t) PROVE Contract!Next
  <2>1. /\ pc[t] = "swept" /\ pc' = [pc EXCEPT ![t] = "idle"] /\ lock' = NoThread
        /\ UNCHANGED <<phase, clock, maxAge, index, objects, inserted, issued>>
        /\ \A v \in Threads : v # t => arg'[v] = arg[v]
      BY <1>0, <1>12 DEF Return
  <2>2. Asked = "answered" /\ Asked' = "none"
    <3>1. \A v \in Threads : pc'[v] # "sweeping" /\ pc'[v] # "swept"
        BY <2>1 DEF OwnershipInv, MutualExclusion, Sweeping
    <3> QED
        BY <2>1, <3>1, OneRequest DEF Asked
  <2>3. Live' = Live /\ Ever' = Ever
      BY <1>0, <2>1 DEF Live, Ever, Holding
  <2>4. Born' = Born /\ Granted' = Granted
      BY <2>1, <2>3 DEF Born, Granted
  <2>5. Contract!Return
      BY <2>1, <2>2, <2>3, <2>4 DEF Contract!Return, Ever, Born, Granted, Asked
  <2> QED
      BY <2>5 DEF Contract!Next
<1>13. CASE Tick
  <2>1. clock' \in Times /\ clock' > clock
      BY <1>0, <1>13 DEF Tick, TypeInv, TypeOK
  <2>2. Live' = Live /\ Asked' = Asked /\ Ever' = Ever
      BY <1>13 DEF Tick, Live, Asked, Ever, Holding
  <2>3. Born' = Born /\ Granted' = Granted
      BY <1>13, <2>2 DEF Tick, Born, Granted
  <2>4. Contract!Tick
      BY <1>13, <2>1, <2>2, <2>3 DEF Tick, Contract!Tick, Ever, Born, Granted, Asked
  <2> QED
      BY <2>4 DEF Contract!Next
<1>14. CASE UNCHANGED vars
  <2>1. Live' = Live /\ Asked' = Asked /\ Ever' = Ever
      BY <1>14 DEF vars, Live, Asked, Ever, Holding
  <2> QED
      BY <1>14, <2>1, ContractFrame DEF vars
<1> QED
    BY <1>1, <1>2, <1>3, <1>4, <1>5, <1>6, <1>7, <1>8, <1>9, <1>10, <1>11, <1>12,
       <1>13, <1>14
    DEF Next, Request, Inside

\* The sessions keep the contract of SessionContract when the local time does not
\* jump: every step of the threads, the mutex, the queue and the objects is a step
\* of the contract or changes nothing in it.
THEOREM SessionsKeepTheirContract ==
    ASSUME Jumps = {} PROVE Spec => ImplementsContract
<1>1. Init => NeverJumped
    BY DEF Init, NeverJumped
<1>2. NeverJumped /\ [Next]_vars => NeverJumped'
    BY JumpedStep
<1>3. TypeInv /\ TypeInv' /\ OwnershipInv /\ OwnershipInv' /\ AgeInv /\ AgeInv'
          /\ NeverJumped /\ [Next]_vars
      => [Contract!Next]_Contract!vars
    BY ContractStep
<1> QED
    BY <1>1, <1>2, <1>3, TypeInvariance, OwnershipInvariance, AgeInit, AgeStep,
       ContractInit, PTL
    DEF Spec, ImplementsContract, Contract!Spec
=============================================================================
