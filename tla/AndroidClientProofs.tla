------------------------- MODULE AndroidClientProofs -------------------------
(***************************************************************************)
(* Proofs about AndroidClient, for any sites, lists and pictures, and any  *)
(* bounds on requests and intents.                                         *)
(***************************************************************************)
EXTENDS AndroidClient, SequenceTheorems, TLAPS

(***************************************************************************)
(* The activities.                                                         *)
(***************************************************************************)
StackTypeOK ==
    /\ stack \in Seq(Activities) /\ "Login" \in Open
    /\ \A m, n \in DOMAIN stack : stack[m] = stack[n] => m = n

\* Without takes one activity off and leaves the others, none of them twice.
LEMMA WithoutOne ==
    ASSUME StackTypeOK, NEW a \in Activities
    PROVE  /\ Without(a) \in Seq(Activities)
           /\ {Without(a)[n] : n \in DOMAIN Without(a)} = Open \ {a}
           /\ \A m, n \in DOMAIN Without(a) : Without(a)[m] = Without(a)[n] => m = n
<1> DEFINE w == Without(a)
<1>s. /\ stack \in Seq(Activities)
      /\ Len(stack) \in Nat /\ DOMAIN stack = 1 .. Len(stack)
      /\ \A n \in 1 .. Len(stack) : stack[n] \in Activities
      /\ \A m, n \in 1 .. Len(stack) : stack[m] = stack[n] => m = n
  BY LenProperties DEF StackTypeOK
<1>1. CASE ~\E n \in DOMAIN stack : stack[n] = a
  <2>1. w = stack  BY <1>1 DEF Without
  <2> QED  BY <1>1, <2>1, <1>s DEF Open
<1>2. CASE \E n \in DOMAIN stack : stack[n] = a
  <2> DEFINE p == CHOOSE n \in DOMAIN stack : stack[n] = a
             before == SubSeq(stack, 1, p - 1)
             after  == SubSeq(stack, p + 1, Len(stack))
  <2>1. p \in 1 .. Len(stack) /\ stack[p] = a  BY <1>2, <1>s
  <2>2. w = before \o after  BY <1>2 DEF Without, RemoveAt
  <2> HIDE DEF p
  <2>3. /\ before \in Seq(Activities) /\ Len(before) = p - 1
        /\ \A n \in 1 .. p - 1 : before[n] = stack[n]
    <3>1. 1 \in Int /\ p - 1 \in Int /\ \A i \in 1 .. p - 1 : stack[i] \in Activities
      BY <2>1, <1>s
    <3>2. /\ before \in Seq(Activities)
          /\ Len(before) = IF 1 <= p - 1 THEN p - 1 - 1 + 1 ELSE 0
          /\ \A i \in 1 .. p - 1 - 1 + 1 : before[i] = stack[1 + i - 1]
      BY <3>1, SubSeqProperties
    <3> HIDE DEF before
    <3> QED  BY <3>2, <2>1, <1>s
  <2>4. /\ after \in Seq(Activities) /\ Len(after) = Len(stack) - p
        /\ \A n \in 1 .. Len(stack) - p : after[n] = stack[p + n]
    <3>1. p + 1 \in Int /\ Len(stack) \in Int
          /\ \A i \in p + 1 .. Len(stack) : stack[i] \in Activities
      BY <2>1, <1>s
    <3>2. /\ after \in Seq(Activities)
          /\ Len(after) = IF p + 1 <= Len(stack) THEN Len(stack) - (p + 1) + 1 ELSE 0
          /\ \A i \in 1 .. Len(stack) - (p + 1) + 1 : after[i] = stack[p + 1 + i - 1]
      BY <3>1, SubSeqProperties
    <3> HIDE DEF after
    <3>3. Len(after) = Len(stack) - p
      <4>1. Len(after) = IF p + 1 <= Len(stack) THEN Len(stack) - (p + 1) + 1 ELSE 0
        BY <3>2
      <4>2. CASE p + 1 <= Len(stack)
        <5>1. Len(stack) - (p + 1) + 1 = Len(stack) - p  BY <2>1, <1>s
        <5> QED  BY <4>1, <4>2, <5>1
      <4>3. CASE ~(p + 1 <= Len(stack))
        <5>1. p \in Int /\ Len(stack) \in Int /\ p <= Len(stack)  BY <2>1, <1>s
        <5>2. Len(stack) - p = 0  BY <4>3, <5>1
        <5> QED  BY <4>1, <4>3, <5>2
      <4> QED  BY <4>2, <4>3
    <3>4. ASSUME NEW n \in 1 .. Len(stack) - p
          PROVE  after[n] = stack[p + n]
      <4>1. n \in 1 .. Len(stack) - (p + 1) + 1 /\ p + 1 + n - 1 = p + n
        BY <2>1, <1>s
      <4>2. after[n] = stack[p + 1 + n - 1]  BY <4>1, <3>2
      <4> QED  BY <4>1, <4>2
    <3> QED  BY <3>2, <3>3, <3>4
  <2> HIDE DEF before, after
  <2>5. /\ w \in Seq(Activities) /\ Len(w) = Len(stack) - 1
        /\ \A n \in 1 .. Len(stack) - 1 : w[n] = IF n < p THEN stack[n] ELSE stack[n + 1]
    <3>1. /\ w \in Seq(Activities) /\ Len(w) = Len(before) + Len(after)
          /\ \A i \in 1 .. Len(before) + Len(after) :
                w[i] = IF i <= Len(before) THEN before[i] ELSE after[i - Len(before)]
      BY <2>2, <2>3, <2>4, ConcatProperties
    <3> HIDE DEF w
    <3>2. Len(w) = Len(stack) - 1  BY <3>1, <2>1, <2>3, <2>4, <1>s
    <3>3. ASSUME NEW n \in 1 .. Len(stack) - 1
          PROVE  w[n] = IF n < p THEN stack[n] ELSE stack[n + 1]
      <4>1. w[n] = IF n <= p - 1 THEN before[n] ELSE after[n - (p - 1)]
        BY <3>1, <3>2, <2>1, <2>3, <1>s
      <4>2. CASE n < p
        <5>1. n <= p - 1 /\ n \in 1 .. p - 1  BY <4>2, <2>1, <1>s
        <5> QED  BY <4>1, <4>2, <5>1, <2>3
      <4>3. CASE ~(n < p)
        <5>1. /\ ~(n <= p - 1) /\ n - (p - 1) \in 1 .. Len(stack) - p
              /\ p + (n - (p - 1)) = n + 1
          BY <4>3, <2>1, <1>s
        <5>2. after[n - (p - 1)] = stack[p + (n - (p - 1))]  BY <5>1, <2>4
        <5> QED  BY <4>1, <4>3, <5>1, <5>2
      <4> QED  BY <4>2, <4>3
    <3> QED  BY <3>1, <3>2, <3>3
  <2> HIDE DEF w
  <2>6. DOMAIN w = 1 .. Len(stack) - 1  BY <2>5, LenProperties
  <2>7. \A m, n \in DOMAIN w : w[m] = w[n] => m = n
    BY <2>1, <2>5, <2>6, <1>s
  <2>8. \A n \in DOMAIN w : w[n] \in Open \ {a}
    <3> SUFFICES ASSUME NEW n \in 1 .. Len(stack) - 1
                 PROVE  w[n] \in Open /\ w[n] # a
      BY <2>6
    <3>1. PICK k \in 1 .. Len(stack) : k # p /\ w[n] = stack[k]
      <4>1. CASE n < p
        <5>1. n \in 1 .. Len(stack) /\ n # p /\ w[n] = stack[n]
          BY <4>1, <2>1, <2>5, <1>s
        <5> QED  BY <5>1
      <4>2. CASE ~(n < p)
        <5>1. n + 1 \in 1 .. Len(stack) /\ n + 1 # p /\ w[n] = stack[n + 1]
          BY <4>2, <2>1, <2>5, <1>s
        <5> QED  BY <5>1
      <4> QED  BY <4>1, <4>2
    <3> QED  BY <3>1, <2>1, <1>s DEF Open
  <2>9. \A x \in Open \ {a} : \E n \in DOMAIN w : w[n] = x
    <3> SUFFICES ASSUME NEW k \in 1 .. Len(stack), stack[k] # a
                 PROVE  \E n \in DOMAIN w : w[n] = stack[k]
      BY <1>s DEF Open
    <3>1. k # p  BY <2>1
    <3>2. CASE k < p
      <4>1. k \in DOMAIN w /\ w[k] = stack[k]  BY <3>2, <2>1, <2>5, <2>6, <1>s
      <4> QED  BY <4>1
    <3>3. CASE k > p
      <4>1. k - 1 \in DOMAIN w /\ w[k - 1] = stack[k]
        BY <3>3, <2>1, <2>5, <2>6, <1>s
      <4> QED  BY <4>1
    <3> QED  BY <3>1, <3>2, <3>3, <2>1
  <2>10. {w[n] : n \in DOMAIN w} = Open \ {a}  BY <2>8, <2>9
  <2> QED  BY <2>5, <2>7, <2>10 DEF w
<1> QED  BY <1>1, <1>2

LEMMA FrontIsOpen ==
    ASSUME StackTypeOK
    PROVE  Len(stack) \in Nat \ {0} /\ InFront \in Open /\ Open \subseteq Activities
<1>1. Len(stack) \in Nat /\ DOMAIN stack = 1 .. Len(stack)
      /\ \A n \in 1 .. Len(stack) : stack[n] \in Activities
  BY LenProperties DEF StackTypeOK
<1>2. Len(stack) # 0  BY <1>1 DEF StackTypeOK, Open
<1>3. Len(stack) \in DOMAIN stack  BY <1>1, <1>2
<1> QED  BY <1>1, <1>2, <1>3 DEF Open, InFront

LEMMA ComingToFront ==
    ASSUME StackTypeOK, NEW a \in Activities, ToFront(a)
    PROVE  StackTypeOK' /\ InFront' = a /\ Open' = Open \cup {a}
<1> DEFINE w == Without(a)
<1>1. /\ w \in Seq(Activities)
      /\ {w[n] : n \in DOMAIN w} = Open \ {a}
      /\ \A m, n \in DOMAIN w : w[m] = w[n] => m = n
  BY WithoutOne
<1>2. stack' = Append(w, a)  BY DEF ToFront
<1> HIDE DEF w
<1>3. /\ stack' \in Seq(Activities) /\ Len(stack') = Len(w) + 1
      /\ \A n \in 1 .. Len(w) : stack'[n] = w[n]
      /\ stack'[Len(w) + 1] = a
      /\ Len(w) \in Nat /\ DOMAIN w = 1 .. Len(w) /\ DOMAIN stack' = 1 .. Len(stack')
  BY <1>1, <1>2, AppendProperties, LenProperties
<1>4. Open' = Open \cup {a}
  <2>1. ASSUME NEW n \in DOMAIN stack'  PROVE  stack'[n] \in Open \cup {a}
    <3>1. CASE n = Len(w) + 1  BY <3>1, <1>3
    <3>2. CASE n # Len(w) + 1
      <4>1. n \in DOMAIN w  BY <3>2, <1>3
      <4>2. w[n] \in Open \ {a}  BY <4>1, <1>1
      <4> QED  BY <4>1, <4>2, <1>3
    <3> QED  BY <3>1, <3>2
  <2>2. ASSUME NEW x \in Open \cup {a}  PROVE  \E n \in DOMAIN stack' : stack'[n] = x
    <3>1. CASE x = a
      <4>1. Len(w) + 1 \in DOMAIN stack'  BY <1>3
      <4> QED  BY <4>1, <3>1, <1>3
    <3>2. CASE x # a
      <4>1. PICK n \in DOMAIN w : w[n] = x  BY <3>2, <1>1
      <4>2. n \in DOMAIN stack'  BY <4>1, <1>3
      <4> QED  BY <4>1, <4>2, <1>3
    <3> QED  BY <3>1, <3>2
  <2> QED  BY <2>1, <2>2 DEF Open
<1>5. \A m, n \in DOMAIN stack' : stack'[m] = stack'[n] => m = n
  <2> SUFFICES ASSUME NEW m \in DOMAIN stack', NEW n \in DOMAIN stack',
                      stack'[m] = stack'[n]
               PROVE  m = n
    OBVIOUS
  <2>1. \A k \in DOMAIN w : w[k] # a  BY <1>1
  <2>2. CASE m = Len(w) + 1 /\ n = Len(w) + 1  BY <2>2
  <2>3. CASE m = Len(w) + 1 /\ n # Len(w) + 1
    <3>1. n \in DOMAIN w  BY <2>3, <1>3
    <3> QED  BY <3>1, <2>1, <2>3, <1>3
  <2>4. CASE m # Len(w) + 1 /\ n = Len(w) + 1
    <3>1. m \in DOMAIN w  BY <2>4, <1>3
    <3> QED  BY <3>1, <2>1, <2>4, <1>3
  <2>5. CASE m # Len(w) + 1 /\ n # Len(w) + 1
    <3>1. m \in DOMAIN w /\ n \in DOMAIN w  BY <2>5, <1>3
    <3> QED  BY <3>1, <1>1, <1>3
  <2> QED  BY <2>2, <2>3, <2>4, <2>5
<1> QED  BY <1>3, <1>4, <1>5 DEF StackTypeOK, InFront

LEMMA FinishingPhoto ==
    ASSUME StackTypeOK, NEW front, FinishPhoto(front)
    PROVE  StackTypeOK' /\ Open' = Open \ {"Photo"}
<1>1. stack' = Without("Photo")  BY DEF FinishPhoto
<1>2. "Photo" \in Activities  BY DEF Activities
<1>3. /\ stack' \in Seq(Activities)
      /\ {stack'[n] : n \in DOMAIN stack'} = Open \ {"Photo"}
      /\ \A m, n \in DOMAIN stack' : stack'[m] = stack'[n] => m = n
  BY <1>1, <1>2, WithoutOne
<1>4. Open' = Open \ {"Photo"}  BY <1>3 DEF Open
<1> QED  BY <1>3, <1>4 DEF StackTypeOK

(***************************************************************************)
(* Requests, answers and intents.                                          *)
(***************************************************************************)
LEMMA Executing ==
    ASSUME ClientTypeOK, NEW kind \in Kinds, NEW s \in Ids,
           NEW where \in Sites \cup {NoSite}, NEW what \in Pictures \cup {NoPicture},
           Execute(Request(kind, s, where, what))
    PROVE  /\ \A r \in tasks' : r \in Task
           /\ sent' \in Ids /\ sent' >= sent
           /\ \A r \in tasks' : r \in tasks \/ r = Request(kind, s, where, what)
<1>1. sent \in Nat /\ MaxRequests \in Nat /\ sent <= MaxRequests
  BY ClientAssumption DEF ClientTypeOK, Ids
<1>2. CASE sent < MaxRequests
  <2>1. sent + 1 \in Ids  BY <1>1, <1>2 DEF Ids
  <2>2. Request(kind, s, where, what) \in Task  BY <2>1 DEF Request, Task
  <2>3. tasks' = tasks \cup {Request(kind, s, where, what)} /\ sent' = sent + 1
    BY <1>2 DEF Execute
  <2>4. sent' >= sent  BY <2>3, <1>1
  <2> QED  BY <2>1, <2>2, <2>3, <2>4 DEF ClientTypeOK
<1>3. CASE ~(sent < MaxRequests)
  <2>1. tasks' = tasks /\ sent' = sent  BY <1>3 DEF Execute
  <2> QED  BY <2>1, <1>1 DEF ClientTypeOK
<1> QED  BY <1>2, <1>3

LEMMA NothingExecuted ==
    ASSUME ClientTypeOK, UNCHANGED <<tasks, sent>>
    PROVE  (\A r \in tasks' : r \in Task) /\ sent' \in Ids /\ sent' >= sent
BY ClientAssumption DEF ClientTypeOK, Ids

LEMMA Names ==
    /\ Activities = {"Login", "ListSites", "Photo"}
    /\ Kinds = {"login", "logout", "sites", "send-photo"}
    /\ 0 \in Ids /\ NoSite \in Sites \cup {NoSite} /\ NoPicture \in Pictures \cup {NoPicture}
BY ClientAssumption DEF Activities, Kinds, Ids

LEMMA Intents ==
    ASSUME ClientTypeOK
    PROVE  /\ \A r \in Task, json \in BOOLEAN : Answered(r, json) \in Intent
           /\ \A s \in Ids : Starting(s) \in Intent
           /\ \A s \in Sites : Tapped(s) \in Intent
<1>1. ASSUME NEW r \in Task, NEW json \in BOOLEAN  PROVE  Answered(r, json) \in Intent
  <2>1. /\ r.id \in Ids /\ r.kind \in Kinds /\ r.list \in Lists \cup {<<>>}  BY DEF Task
  <2>2. Callee(r.kind) \in Activities  BY <2>1, Names DEF Callee
  <2>3. (IF r.kind = "login" THEN r.id ELSE 0) \in Ids  BY <2>1, Names
  <2> QED  BY <2>1, <2>2, <2>3, Names DEF Answered, Intent
<1>2. ASSUME NEW s \in Ids  PROVE  Starting(s) \in Intent
  BY Names DEF Starting, Intent, ClientTypeOK
<1>3. ASSUME NEW s \in Sites  PROVE  Tapped(s) \in Intent
  <2>1. session["ListSites"] \in Ids  BY DEF ClientTypeOK
  <2> QED  BY <2>1, Names DEF Tapped, Intent, ClientTypeOK
<1> QED  BY <1>1, <1>2, <1>3

\* What the head of the intents is, and the rest
LEMMA Delivered ==
    ASSUME ClientTypeOK, intents # <<>>
    PROVE  /\ Head(intents) \in Intent /\ Tail(intents) \in Seq(Intent)
           /\ Len(intents) \in Nat \ {0} /\ Head(intents) = intents[1]
           /\ DOMAIN intents = 1 .. Len(intents)
           /\ Len(Tail(intents)) = Len(intents) - 1
           /\ DOMAIN Tail(intents) = 1 .. Len(intents) - 1
           /\ \A n \in 1 .. Len(intents) - 1 : Tail(intents)[n] = intents[n + 1]
<1>1. intents \in Seq(Intent)  BY DEF ClientTypeOK
<1>2. Len(intents) \in Nat \ {0} /\ DOMAIN intents = 1 .. Len(intents)
  BY <1>1, EmptySeq, LenProperties
<1>3. /\ Head(intents) \in Intent /\ Tail(intents) \in Seq(Intent)
      /\ Head(intents) = intents[1]
      /\ Len(Tail(intents)) = Len(intents) - 1
      /\ \A n \in 1 .. Len(intents) - 1 : Tail(intents)[n] = intents[n + 1]
  BY <1>1, <1>2, HeadTailProperties
<1>4. DOMAIN Tail(intents) = 1 .. Len(intents) - 1  BY <1>3, LenProperties
<1> QED  BY <1>2, <1>3, <1>4

\* What the intents are when one is added
LEMMA Added ==
    ASSUME NEW q \in Seq(Intent), NEW i \in Intent
    PROVE  /\ Append(q, i) \in Seq(Intent)
           /\ DOMAIN q = 1 .. Len(q) /\ Len(q) \in Nat
           /\ DOMAIN Append(q, i) = 1 .. Len(q) + 1
           /\ \A n \in 1 .. Len(q) : Append(q, i)[n] = q[n]
           /\ Append(q, i)[Len(q) + 1] = i
BY AppendProperties, LenProperties

(***************************************************************************)
(* Type correctness.                                                       *)
(***************************************************************************)
LEMMA TypeInit == Init => ClientTypeOK
<1> SUFFICES ASSUME Init  PROVE  ClientTypeOK  OBVIOUS
<1>1. StackTypeOK
  <2>1. stack = <<"Login">> /\ "Login" \in Activities  BY Names DEF Init
  <2>2. stack \in Seq(Activities) /\ Len(stack) = 1 /\ DOMAIN stack = {1} /\ stack[1] = "Login"
    BY <2>1
  <2> QED  BY <2>2 DEF StackTypeOK, Open
<1>2. intents \in Seq(Intent)  BY EmptySeq DEF Init
<1>3. session \in [{"ListSites", "Photo"} -> Ids]  BY Names DEF Init
<1> QED  BY <1>1, <1>2, <1>3, Names DEF Init, ClientTypeOK, StackTypeOK

LEMMA TypeTapLogin == ClientTypeOK /\ TapLogin => ClientTypeOK'
<1> SUFFICES ASSUME ClientTypeOK, TapLogin  PROVE  ClientTypeOK'  OBVIOUS
<1>1. (\A r \in tasks' : r \in Task) /\ sent' \in Ids
  BY Names, Executing DEF TapLogin
<1> QED  BY <1>1 DEF ClientTypeOK, TapLogin, screen, server, history, Open

LEMMA TypeTapSite ==
    ASSUME ClientTypeOK, NEW n \in DOMAIN list, TapSite(n)
    PROVE  ClientTypeOK'
<1>1. list[n] \in Sites
  <2>1. list # <<>>  OBVIOUS
  <2>2. list \in Seq(Sites)  BY <2>1, ClientAssumption DEF ClientTypeOK
  <2> QED  BY <2>2, ElementOfSeq, LenProperties
<1>2. intents' \in Seq(Intent)
  BY <1>1, Intents, Added DEF TapSite, ClientTypeOK
<1>3. crowded' \in BOOLEAN  BY DEF TapSite
<1> QED  BY <1>2, <1>3 DEF ClientTypeOK, TapSite, screen, server, Open

LEMMA TypeTakePicture == ClientTypeOK /\ TakePicture => ClientTypeOK'
<1> SUFFICES ASSUME ClientTypeOK, TakePicture  PROVE  ClientTypeOK'  OBVIOUS
<1>1. "Photo" \in Open  BY FrontIsOpen DEF TakePicture, ClientTypeOK, StackTypeOK
<1> QED  BY <1>1 DEF ClientTypeOK, TakePicture, server, Open

LEMMA TypeTapUpload == ClientTypeOK /\ TapUpload => ClientTypeOK'
<1> SUFFICES ASSUME ClientTypeOK, TapUpload  PROVE  ClientTypeOK'  OBVIOUS
<1>1. session["Photo"] \in Ids /\ sent + 1 \in Ids
  BY ClientAssumption DEF ClientTypeOK, TapUpload, Ids
<1>2. (\A r \in tasks' : r \in Task) /\ sent' \in Ids
  BY <1>1, Names, Executing DEF TapUpload, ClientTypeOK
<1>3. [id |-> sent + 1, site |-> site, title |-> title, picture |-> picture,
       takenAt |-> takenAt, chosen |-> chosen] \in Upload
  BY <1>1 DEF Upload, ClientTypeOK, TapUpload
<1>4. uploads' \subseteq Upload  BY <1>3 DEF ClientTypeOK, TapUpload
<1> QED  BY <1>2, <1>4 DEF ClientTypeOK, TapUpload, screen, server, Open

LEMMA TypeTapLogout == ClientTypeOK /\ TapLogout => ClientTypeOK'
<1> SUFFICES ASSUME ClientTypeOK, TapLogout  PROVE  ClientTypeOK'  OBVIOUS
<1>1. InFront \in {"ListSites", "Photo"}
  BY Names, FrontIsOpen DEF ClientTypeOK, StackTypeOK, TapLogout
<1>2. session[InFront] \in Ids  BY <1>1 DEF ClientTypeOK
<1>3. (\A r \in tasks' : r \in Task) /\ sent' \in Ids
  BY <1>2, Names, Executing DEF TapLogout
<1> QED  BY <1>3 DEF ClientTypeOK, TapLogout, screen, server, history, Open

\* What the end of the Photo screen does to the types
LEMMA TypeFinishPhoto ==
    ASSUME ClientTypeOK, NEW front \in BOOLEAN, FinishPhoto(front)
    PROVE  /\ StackTypeOK' /\ (\A r \in tasks' : r \in Task) /\ sent' \in Ids
           /\ session' \in [{"ListSites", "Photo"} -> Ids] /\ list' \in Lists \cup {<<>>}
           /\ site' = NoSite /\ title' = NoSite /\ picture' = NoPicture
           /\ atLogin' \in Ids
<1>1. StackTypeOK'  BY FinishingPhoto DEF ClientTypeOK, StackTypeOK
<1>2. session["ListSites"] \in Ids  BY DEF ClientTypeOK
<1>3. (\A r \in tasks' : r \in Task) /\ sent' \in Ids
  <2>1. \/ StartListSites(session["ListSites"])
        \/ UNCHANGED <<tasks, sent>>
    BY DEF FinishPhoto
  <2>2. CASE StartListSites(session["ListSites"])
    BY <2>2, <1>2, Names, Executing DEF StartListSites
  <2>3. CASE UNCHANGED <<tasks, sent>>  BY <2>3, NothingExecuted
  <2> QED  BY <2>1, <2>2, <2>3
<1>4. session' \in [{"ListSites", "Photo"} -> Ids]
  BY Names DEF FinishPhoto, ClientTypeOK
<1>5. atLogin' \in Ids  BY DEF FinishPhoto, ClientTypeOK
<1> QED  BY <1>1, <1>3, <1>4, <1>5 DEF FinishPhoto, ClientTypeOK

LEMMA TypeBack == ClientTypeOK /\ Back => ClientTypeOK'
<1> SUFFICES ASSUME ClientTypeOK, Back  PROVE  ClientTypeOK'  OBVIOUS
<1>1. FinishPhoto(TRUE)  BY DEF Back
<1>2. /\ StackTypeOK' /\ (\A r \in tasks' : r \in Task) /\ sent' \in Ids
      /\ session' \in [{"ListSites", "Photo"} -> Ids] /\ list' \in Lists \cup {<<>>}
      /\ site' = NoSite /\ title' = NoSite /\ picture' = NoPicture
      /\ atLogin' \in Ids
  BY <1>1, TypeFinishPhoto
<1> QED  BY <1>2, Names DEF ClientTypeOK, StackTypeOK, Back, server

LEMMA TypeHandle ==
    ASSUME ClientTypeOK, NEW r \in tasks, Handle(r)
    PROVE  ClientTypeOK'
<1>1. r \in Task /\ r.id \in Ids /\ r.kind \in Kinds  BY DEF ClientTypeOK, Task
<1>2. sessions' \subseteq Ids /\ stored' \subseteq Ids
  <2>1. sessions' \subseteq sessions \cup {r.id}  BY <1>1, Names DEF Handle
  <2>2. stored' \subseteq stored \cup {r.id}  BY DEF Handle
  <2> QED  BY <2>1, <2>2, <1>1 DEF ClientTypeOK
<1>3. \A x \in tasks' : x \in Task
  <2>1. PICK l \in (IF r.kind = "sites" THEN Lists ELSE {<<>>}) :
          tasks' = (tasks \ {r}) \cup
              {[r EXCEPT !.list = l,
                         !.answer = IF r.kind = "send-photo" /\ r.site = NoSite
                                    THEN "error" ELSE "json"]}
    BY DEF Handle
  <2>2. l \in Lists \cup {<<>>}  OBVIOUS
  <2>3. [r EXCEPT !.list = l,
                  !.answer = IF r.kind = "send-photo" /\ r.site = NoSite
                             THEN "error" ELSE "json"] \in Task
    BY <1>1, <2>2 DEF Task
  <2> QED  BY <2>1, <2>3 DEF ClientTypeOK
<1> QED  BY <1>2, <1>3 DEF ClientTypeOK, Handle, screen, history, Open

LEMMA TypeEnd ==
    ASSUME ClientTypeOK, NEW r \in tasks, End(r)
    PROVE  ClientTypeOK'
<1>1. PICK json \in {FALSE} \cup {r.answer = "json"} :
        intents' = Append(intents, Answered([r EXCEPT !.list = IF json THEN @ ELSE <<>>], json))
  BY DEF End
<1>2. json \in BOOLEAN  OBVIOUS
<1>3. r \in Task /\ r.list \in Lists \cup {<<>>}  BY DEF ClientTypeOK, Task
<1>4. [r EXCEPT !.list = IF json THEN @ ELSE <<>>] \in Task  BY <1>3 DEF Task
<1>5. intents' \in Seq(Intent)  BY <1>1, <1>2, <1>4, Intents, Added DEF ClientTypeOK
<1>6. \A x \in tasks' : x \in Task  BY DEF End, ClientTypeOK
<1> QED  BY <1>5, <1>6 DEF ClientTypeOK, End, screen, server, history, Open

LEMMA TypeDeliver == ClientTypeOK /\ Deliver => ClientTypeOK'
<1> SUFFICES ASSUME ClientTypeOK, Deliver  PROVE  ClientTypeOK'  OBVIOUS
<1> DEFINE i == Head(intents)  rest == Tail(intents)
<1>i. /\ i \in Intent /\ i.session \in Ids /\ i.id \in Ids /\ i.site \in Sites \cup {NoSite}
      /\ i.list \in Lists \cup {<<>>} /\ rest \in Seq(Intent)
  BY Delivered DEF Deliver, Intent
<1>s. StackTypeOK  BY DEF ClientTypeOK, StackTypeOK
<1>u. ASSUME UNCHANGED <<tasks, sent>>
      PROVE  \A r \in tasks' : r \in Task
  BY <1>u DEF ClientTypeOK
<1>f. ASSUME NEW a \in Activities, ToFront(a)
      PROVE  /\ StackTypeOK' /\ Open' = Open \cup {a} /\ atLogin' \in Ids
  <2>1. atLogin' \in Ids  BY <1>f DEF ToFront, ClientTypeOK
  <2> QED  BY <2>1, <1>f, <1>s, ComingToFront
<1> HIDE DEF i, rest
<1>1. CASE LoginAnswer(i, rest)
  <2>1. StackTypeOK' /\ Open' = Open \cup {"Login"} /\ atLogin' \in Ids
    BY <1>1, <1>f, Names DEF LoginAnswer
  <2>2. intents' \in Seq(Intent)
    BY <1>1, <1>i, Intents, Added DEF LoginAnswer
  <2> QED
    BY <1>1, <1>u, <2>1, <2>2 DEF LoginAnswer, ClientTypeOK, StackTypeOK, screen, server
<1>2. CASE LogoutAnswer(i, rest)
  <2>1. StackTypeOK' /\ Open' = Open \cup {"Login"} /\ atLogin' \in Ids
    BY <1>2, <1>f, Names DEF LogoutAnswer
  <2> QED
    BY <1>2, <1>i, <1>u, <2>1 DEF LogoutAnswer, ClientTypeOK, StackTypeOK, screen, server
<1>3. CASE ShowSites(i, rest)
  <2> DEFINE s == IF i.kind = "start" THEN i.session ELSE session["ListSites"]
  <2>1. StackTypeOK' /\ Open' = Open \cup {"ListSites"} /\ atLogin' \in Ids
    BY <1>3, <1>f, Names DEF ShowSites
  <2>2. s \in Ids  BY <1>i DEF ClientTypeOK
  <2>3. (\A r \in tasks' : r \in Task) /\ sent' \in Ids
    <3>1. StartListSites(s) \/ UNCHANGED <<tasks, sent>>  BY <1>3 DEF ShowSites
    <3> HIDE DEF s
    <3>2. CASE StartListSites(s)  BY <3>2, <2>2, Names, Executing DEF StartListSites
    <3>3. CASE UNCHANGED <<tasks, sent>>  BY <3>3, NothingExecuted
    <3> QED  BY <3>1, <3>2, <3>3
  <2>4. list' \in Lists \cup {<<>>}  BY <1>3, <1>i DEF ShowSites, ClientTypeOK
  <2>5. session' \in [{"ListSites", "Photo"} -> Ids]
    BY <1>3, <2>2 DEF ShowSites, ClientTypeOK
  <2> QED
    BY <1>3, <1>i, <2>1, <2>3, <2>4, <2>5 DEF ShowSites, ClientTypeOK, StackTypeOK, server
<1>4. CASE ShowPhoto(i, rest)
  <2>1. StackTypeOK' /\ Open' = Open \cup {"Photo"} /\ atLogin' \in Ids
    BY <1>4, <1>f, Names DEF ShowPhoto
  <2>2. session' \in [{"ListSites", "Photo"} -> Ids]
    BY <1>4, <1>i DEF ShowPhoto, ClientTypeOK
  <2>3. site' \in Sites \cup {NoSite} /\ title' \in Sites \cup {NoSite}
    BY <1>4, <1>i DEF ShowPhoto, ClientTypeOK
  <2> QED
    BY <1>4, <1>i, <1>u, <2>1, <2>2, <2>3 DEF ShowPhoto, ClientTypeOK, StackTypeOK, server
<1>5. CASE PhotoSent(i, rest)
  <2>1. /\ StackTypeOK' /\ (\A r \in tasks' : r \in Task) /\ sent' \in Ids
        /\ session' \in [{"ListSites", "Photo"} -> Ids] /\ list' \in Lists \cup {<<>>}
        /\ site' = NoSite /\ title' = NoSite /\ picture' = NoPicture
        /\ atLogin' \in Ids
    <3>1. FinishPhoto(InFront = "Photo")  BY <1>5 DEF PhotoSent
    <3>2. (InFront = "Photo") \in BOOLEAN  OBVIOUS
    <3> QED  BY <3>1, <3>2, TypeFinishPhoto
  <2> QED
    BY <1>5, <1>i, <2>1, Names DEF PhotoSent, ClientTypeOK, StackTypeOK, server
<1>6. CASE PhotoNotSent(i, rest)
  <2>1. StackTypeOK' /\ Open' = Open \cup {"Photo"} /\ atLogin' \in Ids
    BY <1>6, <1>f, Names DEF PhotoNotSent
  <2>2. title' \in Sites \cup {NoSite}  BY <1>6 DEF PhotoNotSent, ClientTypeOK
  <2> QED
    BY <1>6, <1>i, <1>u, <2>1, <2>2 DEF PhotoNotSent, ClientTypeOK, StackTypeOK, server
<1> QED  BY <1>1, <1>2, <1>3, <1>4, <1>5, <1>6 DEF Deliver, i, rest

LEMMA TypeStep == ClientTypeOK /\ [Next]_vars => ClientTypeOK'
<1> SUFFICES ASSUME ClientTypeOK, [Next]_vars  PROVE  ClientTypeOK'  OBVIOUS
<1>1. CASE TapLogin  BY <1>1, TypeTapLogin
<1>2. CASE \E n \in DOMAIN list : TapSite(n)  BY <1>2, TypeTapSite
<1>3. CASE TakePicture  BY <1>3, TypeTakePicture
<1>4. CASE TapUpload  BY <1>4, TypeTapUpload
<1>5. CASE TapLogout  BY <1>5, TypeTapLogout
<1>6. CASE Back  BY <1>6, TypeBack
<1>7. CASE Deliver  BY <1>7, TypeDeliver
<1>8. CASE \E r \in tasks : Handle(r)  BY <1>8, TypeHandle
<1>9. CASE \E r \in tasks : End(r)  BY <1>9, TypeEnd
<1>10. CASE UNCHANGED vars
  BY <1>10 DEF ClientTypeOK, Open, vars, screen, server, history
<1> QED
  BY <1>1, <1>2, <1>3, <1>4, <1>5, <1>6, <1>7, <1>8, <1>9, <1>10 DEF Next, User

\* The variables of the client keep their types: no activity exists twice, and a
\* picture and a site are kept by a Photo screen only (AndroidClient).
THEOREM ClientTypeCorrect == Spec => []ClientTypeOK
BY TypeInit, TypeStep, PTL DEF Spec

(***************************************************************************)
(* What a step adds to the requests and to the intents.                    *)
(***************************************************************************)
Made(r) ==
    /\ r.id = sent + 1 /\ sent' = sent + 1 /\ r.answer = "none"
    /\ r.kind \in {"sites", "send-photo"} => InFront' # "Login"

HandledFrom(r, q) ==
    /\ r.id = q.id /\ r.kind = q.kind
    /\ r.kind = "send-photo" /\ r.answer = "json" => r.id \in stored'

LEMMA Making ==
    ASSUME NEW kind, NEW s, NEW where, NEW what, Execute(Request(kind, s, where, what)),
           kind \in {"sites", "send-photo"} => InFront' # "Login"
    PROVE  \A r \in tasks' : r \in tasks \/ Made(r)
BY DEF Execute, Request, Made

LEMMA FinishingMakes ==
    ASSUME NEW front, FinishPhoto(front)
    PROVE  \A r \in tasks' : r \in tasks \/ Made(r)
<1>1. CASE front /\ Without("Photo")[Len(Without("Photo"))] = "ListSites"
  <2>1. InFront' = "ListSites"  BY <1>1 DEF FinishPhoto, InFront
  <2>2. Execute(Request("sites", session["ListSites"], NoSite, NoPicture))
    BY <1>1 DEF FinishPhoto, StartListSites
  <2> QED  BY <2>1, <2>2, Making
<1>2. CASE ~(front /\ Without("Photo")[Len(Without("Photo"))] = "ListSites")
  BY <1>2 DEF FinishPhoto
<1> QED  BY <1>1, <1>2

LEMMA StepOnTasks ==
    ASSUME ClientTypeOK, [Next]_vars
    PROVE  \A r \in tasks' :
              r \in tasks \/ Made(r) \/ \E q \in tasks : HandledFrom(r, q)
<1>1. CASE TapLogin
  <2>1. Execute(Request("login", 0, NoSite, NoPicture))  BY <1>1 DEF TapLogin
  <2> QED  BY <2>1, Making
<1>2. CASE \E n \in DOMAIN list : TapSite(n)  BY <1>2 DEF TapSite
<1>3. CASE TakePicture  BY <1>3 DEF TakePicture
<1>4. CASE TapUpload
  <2>1. InFront' # "Login"  BY <1>4 DEF TapUpload, InFront
  <2>2. Execute(Request("send-photo", session["Photo"], site, picture))
    BY <1>4 DEF TapUpload
  <2> QED  BY <2>1, <2>2, Making
<1>5. CASE TapLogout
  <2>1. Execute(Request("logout", session[InFront], NoSite, NoPicture))
    BY <1>5 DEF TapLogout
  <2> QED  BY <2>1, Making
<1>6. CASE Back
  <2>1. FinishPhoto(TRUE)  BY <1>6 DEF Back
  <2> QED  BY <2>1, FinishingMakes
<1>7. CASE Deliver
  <2> DEFINE i == Head(intents)  rest == Tail(intents)
  <2>s. StackTypeOK  BY DEF ClientTypeOK, StackTypeOK
  <2>0. \/ LoginAnswer(i, rest) \/ LogoutAnswer(i, rest) \/ ShowSites(i, rest)
        \/ ShowPhoto(i, rest) \/ PhotoSent(i, rest) \/ PhotoNotSent(i, rest)
    BY <1>7 DEF Deliver
  <2> HIDE DEF i, rest
  <2>1. CASE LoginAnswer(i, rest)  BY <2>1 DEF LoginAnswer
  <2>2. CASE LogoutAnswer(i, rest)  BY <2>2 DEF LogoutAnswer
  <2>3. CASE ShowSites(i, rest)
    <3> DEFINE s == IF i.kind = "start" THEN i.session ELSE session["ListSites"]
    <3>1. InFront' = "ListSites"  BY <2>3, <2>s, ComingToFront, Names DEF ShowSites
    <3>2. StartListSites(s) \/ UNCHANGED <<tasks, sent>>  BY <2>3 DEF ShowSites
    <3> HIDE DEF s
    <3>3. CASE StartListSites(s)
      <4>1. Execute(Request("sites", s, NoSite, NoPicture))  BY <3>3 DEF StartListSites
      <4> QED  BY <4>1, <3>1, Making
    <3> QED  BY <3>2, <3>3
  <2>4. CASE ShowPhoto(i, rest)  BY <2>4 DEF ShowPhoto
  <2>5. CASE PhotoSent(i, rest)
    <3>1. FinishPhoto(InFront = "Photo")  BY <2>5 DEF PhotoSent
    <3> QED  BY <3>1, FinishingMakes
  <2>6. CASE PhotoNotSent(i, rest)  BY <2>6 DEF PhotoNotSent
  <2> QED  BY <2>0, <2>1, <2>2, <2>3, <2>4, <2>5, <2>6
<1>8. ASSUME NEW q \in tasks, Handle(q), NEW r \in tasks'
      PROVE  r \in tasks \/ HandledFrom(r, q)
  <2>1. q \in Task  BY DEF ClientTypeOK
  <2>2. PICK l : tasks' = (tasks \ {q}) \cup
          {[q EXCEPT !.list = l,
                     !.answer = IF q.kind = "send-photo" /\ q.site = NoSite
                                THEN "error" ELSE "json"]}
    BY <1>8 DEF Handle
  <2>3. CASE r = [q EXCEPT !.list = l,
                     !.answer = IF q.kind = "send-photo" /\ q.site = NoSite
                                THEN "error" ELSE "json"]
    <3>1. /\ r.id = q.id /\ r.kind = q.kind
          /\ r.answer = IF q.kind = "send-photo" /\ q.site = NoSite THEN "error" ELSE "json"
      BY <2>1, <2>3 DEF Task
    <3>2. q.kind = "send-photo" /\ q.site # NoSite => q.id \in stored'
      BY <1>8 DEF Handle
    <3> QED  BY <3>1, <3>2 DEF HandledFrom
  <2> QED  BY <2>2, <2>3
<1>9. CASE \E r \in tasks : End(r)  BY <1>9 DEF End
<1>10. CASE UNCHANGED vars  BY <1>10 DEF vars
<1> QED
  BY <1>1, <1>2, <1>3, <1>4, <1>5, <1>6, <1>7, <1>8, <1>9, <1>10 DEF Next, User

\* An intent is an old one, a tap, an answer or the start of ListSites.
Ended(i, r) ==
    /\ i.kind = r.kind /\ i.id = r.id /\ i.to = Callee(r.kind)
    /\ i.ok => r.answer = "json"
    /\ i.session = IF r.kind = "login" THEN r.id ELSE 0

Starts(i) ==
    /\ intents # <<>> /\ Head(intents).kind = "login" /\ Head(intents).ok
    /\ i = Starting(Head(intents).session)

LEMMA StepOnIntents ==
    ASSUME ClientTypeOK, [Next]_vars
    PROVE  \A n \in DOMAIN intents' :
              \/ \E k \in DOMAIN intents : intents'[n] = intents[k]
              \/ InFront = "ListSites" /\ InFront' = InFront
                 /\ \E s : intents'[n] = Tapped(s)
              \/ \E r \in tasks : Ended(intents'[n], r)
              \/ Starts(intents'[n])
<1> SUFFICES ASSUME NEW n \in DOMAIN intents'
             PROVE  \/ \E k \in DOMAIN intents : intents'[n] = intents[k]
                    \/ InFront = "ListSites" /\ InFront' = InFront
                       /\ \E s : intents'[n] = Tapped(s)
                    \/ \E r \in tasks : Ended(intents'[n], r)
                    \/ Starts(intents'[n])
  OBVIOUS
<1>q. intents \in Seq(Intent)  BY DEF ClientTypeOK
<1>u. CASE UNCHANGED intents  BY <1>u
<1>1. ASSUME NEW m \in DOMAIN list, TapSite(m)
      PROVE  \/ \E k \in DOMAIN intents : intents'[n] = intents[k]
             \/ InFront = "ListSites" /\ InFront' = InFront
                /\ \E s : intents'[n] = Tapped(s)
  <2>1. intents' = Append(intents, Tapped(list[m])) /\ InFront = "ListSites"
        /\ InFront' = InFront
    BY <1>1 DEF TapSite, InFront
  <2>2. list[m] \in Sites
    <3>1. list # <<>>  OBVIOUS
    <3>2. list \in Seq(Sites)  BY <3>1, ClientAssumption DEF ClientTypeOK
    <3> QED  BY <3>2, ElementOfSeq, LenProperties
  <2>3. Tapped(list[m]) \in Intent  BY <2>2, Intents
  <2>4. /\ DOMAIN intents = 1 .. Len(intents) /\ Len(intents) \in Nat
        /\ DOMAIN intents' = 1 .. Len(intents) + 1
        /\ \A k \in 1 .. Len(intents) : intents'[k] = intents[k]
        /\ intents'[Len(intents) + 1] = Tapped(list[m])
    BY <2>1, <2>3, <1>q, Added
  <2> QED  BY <2>1, <2>4
<1>2. ASSUME NEW r \in tasks, End(r)
      PROVE  \/ \E k \in DOMAIN intents : intents'[n] = intents[k]
             \/ Ended(intents'[n], r)
  <2>1. PICK json \in {FALSE} \cup {r.answer = "json"} :
        intents' = Append(intents, Answered([r EXCEPT !.list = IF json THEN @ ELSE <<>>], json))
    BY <1>2 DEF End
  <2> DEFINE a == Answered([r EXCEPT !.list = IF json THEN @ ELSE <<>>], json)
  <2>2. r \in Task /\ r.list \in Lists \cup {<<>>}  BY DEF ClientTypeOK, Task
  <2>3. [r EXCEPT !.list = IF json THEN @ ELSE <<>>] \in Task  BY <2>2 DEF Task
  <2>4. a \in Intent /\ json \in BOOLEAN  BY <2>3, Intents
  <2>5. Ended(a, r)
    <3>1. json => r.answer = "json"  OBVIOUS
    <3> QED  BY <3>1, <2>2 DEF Ended, Answered, Task
  <2> HIDE DEF a
  <2>6. /\ DOMAIN intents = 1 .. Len(intents) /\ Len(intents) \in Nat
        /\ DOMAIN intents' = 1 .. Len(intents) + 1
        /\ \A k \in 1 .. Len(intents) : intents'[k] = intents[k]
        /\ intents'[Len(intents) + 1] = a
    BY <2>1, <2>4, <1>q, Added DEF a
  <2> QED  BY <2>5, <2>6
<1>3. CASE Deliver
  <2> DEFINE i == Head(intents)  rest == Tail(intents)
  <2>0. \/ LoginAnswer(i, rest) \/ LogoutAnswer(i, rest) \/ ShowSites(i, rest)
        \/ ShowPhoto(i, rest) \/ PhotoSent(i, rest) \/ PhotoNotSent(i, rest)
    BY <1>3 DEF Deliver
  <2>1. /\ i \in Intent /\ i.session \in Ids /\ rest \in Seq(Intent)
        /\ DOMAIN intents = 1 .. Len(intents) /\ Len(intents) \in Nat
        /\ Len(rest) = Len(intents) - 1 /\ DOMAIN rest = 1 .. Len(intents) - 1
        /\ \A k \in 1 .. Len(intents) - 1 : rest[k] = intents[k + 1]
    BY <1>3, Delivered DEF Deliver, Intent
  <2> HIDE DEF i, rest
  <2>2. CASE intents' = rest
    <3>1. n + 1 \in DOMAIN intents /\ intents'[n] = intents[n + 1]  BY <2>1, <2>2
    <3> QED  BY <3>1
  <2>3. CASE LoginAnswer(i, rest) /\ i.ok
    <3>1. intents' = Append(rest, Starting(i.session)) /\ i.kind = "login"
      BY <2>3 DEF LoginAnswer
    <3>2. Starting(i.session) \in Intent  BY <2>1, Intents
    <3>3. /\ DOMAIN intents' = 1 .. Len(rest) + 1
          /\ \A k \in 1 .. Len(rest) : intents'[k] = rest[k]
          /\ intents'[Len(rest) + 1] = Starting(i.session)
      BY <2>1, <3>1, <3>2, Added
    <3>4. CASE n \in 1 .. Len(rest)
      <4>1. n + 1 \in DOMAIN intents /\ intents'[n] = intents[n + 1]
        BY <2>1, <3>3, <3>4
      <4> QED  BY <4>1
    <3>5. CASE n = Len(rest) + 1
      <4>1. Starts(intents'[n])  BY <1>3, <2>3, <3>1, <3>3, <3>5 DEF Starts, Deliver, i
      <4> QED  BY <4>1
    <3> QED  BY <3>3, <3>4, <3>5, <2>1
  <2>4. intents' = rest \/ (LoginAnswer(i, rest) /\ i.ok)
    <3>1. CASE LoginAnswer(i, rest) /\ ~i.ok  BY <3>1 DEF LoginAnswer
    <3>2. CASE LogoutAnswer(i, rest)  BY <3>2 DEF LogoutAnswer
    <3>3. CASE ShowSites(i, rest)  BY <3>3 DEF ShowSites
    <3>4. CASE ShowPhoto(i, rest)  BY <3>4 DEF ShowPhoto
    <3>5. CASE PhotoSent(i, rest)  BY <3>5 DEF PhotoSent
    <3>6. CASE PhotoNotSent(i, rest)  BY <3>6 DEF PhotoNotSent
    <3> QED  BY <2>0, <3>1, <3>2, <3>3, <3>4, <3>5, <3>6
  <2> QED  BY <2>2, <2>3, <2>4
<1>4. CASE TapLogin \/ TakePicture \/ TapUpload \/ TapLogout \/ Back
  BY <1>u, <1>4 DEF TapLogin, TakePicture, TapUpload, TapLogout, Back
<1>5. CASE \E r \in tasks : Handle(r)  BY <1>u, <1>5 DEF Handle
<1>6. CASE UNCHANGED vars  BY <1>u, <1>6 DEF vars
<1> QED  BY <1>1, <1>2, <1>3, <1>4, <1>5, <1>6 DEF Next, User

(***************************************************************************)
(* Requests are numbered, an intent goes to the activity of its kind, and  *)
(* the session that a login brings is not the empty one.                   *)
(***************************************************************************)
Formed(i) ==
    /\ i.id <= sent
    /\ i.kind \in {"tap", "send-photo"} => i.to = "Photo"
    /\ i.to = "ListSites" => i.kind \in {"start", "sites"}
    /\ i.kind = "start" \/ (i.kind = "login" /\ i.ok) => i.session > 0

FormedInv ==
    /\ \A r \in tasks : r.id > 0 /\ r.id <= sent
    /\ \A n \in DOMAIN intents : Formed(intents[n])

LEMMA SentGrows == ClientTypeOK /\ [Next]_vars => sent' \in Nat /\ sent \in Nat /\ sent' >= sent
<1> SUFFICES ASSUME ClientTypeOK, [Next]_vars
             PROVE  sent' \in Nat /\ sent \in Nat /\ sent' >= sent
  OBVIOUS
<1>n. sent \in Nat  BY ClientAssumption DEF ClientTypeOK, Ids
<1>s. ASSUME NEW x, StartListSites(x)  PROVE  sent' \in Nat /\ sent' >= sent
  BY <1>s, <1>n DEF StartListSites, Execute
<1>f. ASSUME NEW front, FinishPhoto(front)  PROVE  sent' \in Nat /\ sent' >= sent
  BY <1>f, <1>n DEF FinishPhoto, StartListSites, Execute
<1>u. ASSUME UNCHANGED sent  PROVE  sent' \in Nat /\ sent' >= sent
  BY <1>u, <1>n
<1>1. CASE TapLogin  BY <1>1, <1>n DEF TapLogin, Execute
<1>2. CASE TapUpload  BY <1>2, <1>n DEF TapUpload, Execute
<1>3. CASE TapLogout  BY <1>3, <1>n DEF TapLogout, Execute
<1>4. CASE Back
  <2>1. FinishPhoto(TRUE)  BY <1>4 DEF Back
  <2> QED  BY <2>1, <1>f, <1>n
<1>5. CASE (\E n \in DOMAIN list : TapSite(n)) \/ TakePicture
  BY <1>5, <1>u, <1>n DEF TapSite, TakePicture
<1>6. CASE Deliver
  <2> DEFINE i == Head(intents)  rest == Tail(intents)
  <2>0. \/ LoginAnswer(i, rest) \/ LogoutAnswer(i, rest) \/ ShowSites(i, rest)
        \/ ShowPhoto(i, rest) \/ PhotoSent(i, rest) \/ PhotoNotSent(i, rest)
    BY <1>6 DEF Deliver
  <2> HIDE DEF i, rest
  <2>1. CASE ShowSites(i, rest)
    <3>1. StartListSites(IF i.kind = "start" THEN i.session ELSE session["ListSites"])
          \/ UNCHANGED sent
      BY <2>1 DEF ShowSites
    <3> QED  BY <3>1, <1>u, <1>n DEF StartListSites, Execute
  <2>2. CASE PhotoSent(i, rest)
    <3>1. FinishPhoto(InFront = "Photo")  BY <2>2 DEF PhotoSent
    <3> QED  BY <3>1, <1>n DEF FinishPhoto, StartListSites, Execute
  <2>3. CASE LoginAnswer(i, rest)  BY <2>3, <1>u, <1>n DEF LoginAnswer
  <2>4. CASE LogoutAnswer(i, rest)  BY <2>4, <1>u, <1>n DEF LogoutAnswer
  <2>5. CASE ShowPhoto(i, rest)  BY <2>5, <1>u, <1>n DEF ShowPhoto
  <2>6. CASE PhotoNotSent(i, rest)  BY <2>6, <1>u, <1>n DEF PhotoNotSent
  <2> QED  BY <2>0, <2>1, <2>2, <2>3, <2>4, <2>5, <2>6
<1>7. CASE \E r \in tasks : Handle(r) \/ End(r)  BY <1>7, <1>u, <1>n DEF Handle, End
<1>8. CASE UNCHANGED vars  BY <1>8, <1>u, <1>n DEF vars
<1> QED
  BY <1>1, <1>2, <1>3, <1>4, <1>5, <1>6, <1>7, <1>8 DEF Next, User

LEMMA FormedStep ==
    ClientTypeOK /\ FormedInv /\ [Next]_vars => FormedInv'
<1> SUFFICES ASSUME ClientTypeOK, FormedInv, [Next]_vars  PROVE  FormedInv'  OBVIOUS
<1>s. sent' \in Nat /\ sent \in Nat /\ sent' >= sent  BY SentGrows
<1>t. \A r \in Task : r.id \in Int  BY DEF Task, Ids
<1>i. \A i \in Intent : i.id \in Int /\ i.session \in Int  BY DEF Intent, Ids
<1>1. \A r \in tasks' : r.id > 0 /\ r.id <= sent'
  <2> SUFFICES ASSUME NEW r \in tasks'  PROVE  r.id > 0 /\ r.id <= sent'  OBVIOUS
  <2>1. CASE r \in tasks
    <3>1. r.id > 0 /\ r.id <= sent /\ r.id \in Int
      BY <2>1, <1>t DEF FormedInv, ClientTypeOK
    <3> QED  BY <3>1, <1>s
  <2>2. CASE Made(r)  BY <2>2, <1>s DEF Made
  <2>3. CASE \E q \in tasks : HandledFrom(r, q)
    <3>1. PICK q \in tasks : r.id = q.id  BY <2>3 DEF HandledFrom
    <3>2. q.id > 0 /\ q.id <= sent /\ q.id \in Int
      BY <1>t DEF FormedInv, ClientTypeOK
    <3> QED  BY <3>1, <3>2, <1>s
  <2> QED  BY <2>1, <2>2, <2>3, StepOnTasks
<1>2. ASSUME NEW n \in DOMAIN intents', NEW j, j = intents'[n]
      PROVE  /\ j.id <= sent'
             /\ j.kind \in {"tap", "send-photo"} => j.to = "Photo"
             /\ j.to = "ListSites" => j.kind \in {"start", "sites"}
             /\ j.kind = "start" \/ (j.kind = "login" /\ j.ok) => j.session > 0
  <2>1. CASE \E k \in DOMAIN intents : j = intents[k]
    <3>1. PICK k \in DOMAIN intents : j = intents[k]  BY <2>1
    <3>2. j \in Intent  BY <3>1, ElementOfSeq, LenProperties DEF ClientTypeOK
    <3>3. Formed(j)  BY <3>1 DEF FormedInv
    <3> QED  BY <3>2, <3>3, <1>s, <1>i DEF Formed
  <2>2. CASE \E s : j = Tapped(s)  BY <2>2, <1>s DEF Tapped
  <2>3. CASE \E r \in tasks : Ended(j, r)
    <3>1. PICK r \in tasks : Ended(j, r)  BY <2>3
    <3>2. r.id > 0 /\ r.id <= sent /\ r.id \in Int /\ r.kind \in Kinds
      BY <1>t DEF FormedInv, ClientTypeOK, Task
    <3>3. r.kind # "tap" /\ r.kind # "start"  BY <3>2, Names
    <3>4. /\ r.kind \in {"tap", "send-photo"} => Callee(r.kind) = "Photo"
          /\ Callee(r.kind) = "ListSites" => r.kind = "sites"
      BY <3>2, <3>3, Names DEF Callee
    <3> QED  BY <3>1, <3>2, <3>3, <3>4, <1>s DEF Ended
  <2>4. CASE Starts(j)
    <3>1. /\ Head(intents) = intents[1] /\ 1 \in DOMAIN intents
      BY <2>4, Delivered DEF Starts
    <3>2. Formed(Head(intents))  BY <3>1 DEF FormedInv
    <3>3. Head(intents).session > 0  BY <2>4, <3>2 DEF Starts, Formed
    <3> QED  BY <2>4, <3>3, <1>s DEF Starts, Starting
  <2> QED  BY <1>2, <2>1, <2>2, <2>3, <2>4, StepOnIntents
<1> QED  BY <1>1, <1>2 DEF FormedInv, Formed

LEMMA FormedCorrect == Spec => []FormedInv
<1>1. Init => FormedInv  BY DEF Init, FormedInv
<1> QED  BY <1>1, FormedStep, ClientTypeCorrect, PTL DEF Spec

(***************************************************************************)
(* Toasts: an answer to an upload, in a request or in an intent, stands    *)
(* for a photo that the server has stored, and the server keeps photos.    *)
(***************************************************************************)
StoredInv ==
    /\ \A r \in tasks : r.kind = "send-photo" /\ r.answer = "json" => r.id \in stored
    /\ \A n \in DOMAIN intents :
          intents[n].kind = "send-photo" /\ intents[n].ok => intents[n].id \in stored
    /\ ToastMeansStored

LEMMA StoredStep ==
    ClientTypeOK /\ StoredInv /\ [Next]_vars => StoredInv'
<1> SUFFICES ASSUME ClientTypeOK, StoredInv, [Next]_vars  PROVE  StoredInv'  OBVIOUS
<1>0. \/ stored \subseteq stored' /\ toasts' = toasts
      \/ /\ stored' = stored /\ intents # <<>>
         /\ Head(intents).kind = "send-photo" /\ Head(intents).ok
         /\ toasts' = toasts \cup {Head(intents).id}
  <2>1. CASE User
    BY <2>1
    DEF User, TapLogin, TapSite, TakePicture, TapUpload, TapLogout, Back, server, history
  <2>2. CASE Deliver
    <3> DEFINE i == Head(intents)  rest == Tail(intents)
    <3>0. /\ intents # <<>>
          /\ \/ LoginAnswer(i, rest) \/ LogoutAnswer(i, rest) \/ ShowSites(i, rest)
             \/ ShowPhoto(i, rest) \/ PhotoSent(i, rest) \/ PhotoNotSent(i, rest)
      BY <2>2 DEF Deliver
    <3>1. CASE LoginAnswer(i, rest)  BY <3>1 DEF LoginAnswer, server
    <3>2. CASE LogoutAnswer(i, rest)  BY <3>2 DEF LogoutAnswer, server
    <3>3. CASE ShowSites(i, rest)  BY <3>3 DEF ShowSites, server
    <3>4. CASE ShowPhoto(i, rest)  BY <3>4 DEF ShowPhoto, server
    <3>5. CASE PhotoSent(i, rest)  BY <3>0, <3>5 DEF PhotoSent, server
    <3>6. CASE PhotoNotSent(i, rest)  BY <3>6 DEF PhotoNotSent, server
    <3> QED  BY <3>0, <3>1, <3>2, <3>3, <3>4, <3>5, <3>6
  <2>3. CASE \E r \in tasks : Handle(r) \/ End(r)
    BY <2>3 DEF Handle, End, server, history
  <2>4. CASE UNCHANGED vars  BY <2>4 DEF vars, server, history
  <2> QED  BY <2>1, <2>2, <2>3, <2>4 DEF Next
<1>g. stored \subseteq stored'  BY <1>0
<1>1. ASSUME NEW r \in tasks', r.kind = "send-photo", r.answer = "json"
      PROVE  r.id \in stored'
  <2>1. r \in tasks \/ Made(r) \/ \E q \in tasks : HandledFrom(r, q)  BY StepOnTasks
  <2> QED  BY <1>1, <1>g, <2>1 DEF StoredInv, Made, HandledFrom
<1>2. ASSUME NEW n \in DOMAIN intents', NEW j, j = intents'[n],
             j.kind = "send-photo", j.ok
      PROVE  j.id \in stored'
  <2>1. CASE \E k \in DOMAIN intents : j = intents[k]  BY <1>2, <1>g, <2>1 DEF StoredInv
  <2>2. CASE \E s : j = Tapped(s)  BY <1>2, <2>2 DEF Tapped
  <2>3. CASE \E r \in tasks : Ended(j, r)  BY <1>2, <1>g, <2>3 DEF StoredInv, Ended
  <2>4. CASE Starts(j)  BY <1>2, <2>4 DEF Starts, Starting
  <2> QED  BY <1>2, <2>1, <2>2, <2>3, <2>4, StepOnIntents
<1>3. toasts' \subseteq stored'
  <2>1. CASE intents # <<>> /\ Head(intents).kind = "send-photo" /\ Head(intents).ok
             /\ toasts' = toasts \cup {Head(intents).id}
    <3>1. Head(intents) = intents[1] /\ 1 \in DOMAIN intents  BY <2>1, Delivered
    <3>2. Head(intents).id \in stored  BY <2>1, <3>1 DEF StoredInv
    <3> QED  BY <2>1, <3>2, <1>g DEF StoredInv, ToastMeansStored
  <2> QED  BY <1>0, <1>g, <2>1 DEF StoredInv, ToastMeansStored
<1> QED  BY <1>1, <1>2, <1>3 DEF StoredInv, ToastMeansStored

\* The user is told that an upload has succeeded only when the photo is on the
\* server (Photo.ProcessIntent).
THEOREM ToastsMeanStored == Spec => []ToastMeansStored
<1>1. Init => StoredInv  BY DEF Init, StoredInv, ToastMeansStored
<1>2. StoredInv => ToastMeansStored  BY DEF StoredInv
<1> QED  BY <1>1, <1>2, StoredStep, ClientTypeCorrect, PTL DEF Spec

(***************************************************************************)
(* Pictures: the site changes under a picture by a tap only.               *)
(***************************************************************************)
PictureInv ==
    /\ picture # NoPicture => site = takenAt \/ chosen
    /\ PictureFollowsTaps

LEMMA PictureStep == PictureInv /\ [Next]_vars => PictureInv'
<1> SUFFICES ASSUME PictureInv, [Next]_vars  PROVE  PictureInv'  OBVIOUS
<1> USE DEF PictureInv, PictureFollowsTaps
<1>u. ASSUME UNCHANGED <<picture, site, takenAt, chosen, uploads>>  PROVE  PictureInv'
  BY <1>u
<1>1. CASE TapLogin \/ TapLogout \/ (\E n \in DOMAIN list : TapSite(n))
  BY <1>1, <1>u DEF TapLogin, TapLogout, TapSite, screen, history
<1>2. CASE TakePicture  BY <1>2 DEF TakePicture
<1>3. CASE TapUpload  BY <1>3 DEF TapUpload, screen
<1>4. CASE Back  BY <1>4 DEF Back, FinishPhoto
<1>5. CASE Deliver
  <2> DEFINE i == Head(intents)  rest == Tail(intents)
  <2>0. \/ LoginAnswer(i, rest) \/ LogoutAnswer(i, rest) \/ ShowSites(i, rest)
        \/ ShowPhoto(i, rest) \/ PhotoSent(i, rest) \/ PhotoNotSent(i, rest)
    BY <1>5 DEF Deliver
  <2> HIDE DEF i, rest
  <2>1. CASE LoginAnswer(i, rest)  BY <2>1, <1>u DEF LoginAnswer, screen
  <2>2. CASE LogoutAnswer(i, rest)  BY <2>2, <1>u DEF LogoutAnswer, screen
  <2>3. CASE ShowSites(i, rest)  BY <2>3, <1>u DEF ShowSites
  <2>4. CASE ShowPhoto(i, rest)  BY <2>4 DEF ShowPhoto
  <2>5. CASE PhotoSent(i, rest)  BY <2>5 DEF PhotoSent, FinishPhoto
  <2>6. CASE PhotoNotSent(i, rest)  BY <2>6, <1>u DEF PhotoNotSent
  <2> QED  BY <2>0, <2>1, <2>2, <2>3, <2>4, <2>5, <2>6
<1>6. CASE \E r \in tasks : Handle(r) \/ End(r)
  BY <1>6, <1>u DEF Handle, End, screen, history
<1>7. CASE UNCHANGED vars  BY <1>7, <1>u DEF vars, screen, history
<1> QED  BY <1>1, <1>2, <1>3, <1>4, <1>5, <1>6, <1>7 DEF Next, User

\* A picture goes to the site that was open when it was taken, unless the user
\* has opened a site from the list since (Photo.Upload, Photo.ProcessIntent).
THEOREM PicturesFollowTaps == Spec => []PictureFollowsTaps
<1>1. Init => PictureInv  BY DEF Init, PictureInv, PictureFollowsTaps
<1>2. PictureInv => PictureFollowsTaps  BY DEF PictureInv
<1> QED  BY <1>1, <1>2, PictureStep, PTL DEF Spec

(***************************************************************************)
(* Titles: until a tap was on its way with another intent for Photo, a tap *)
(* finds Photo covered, and onStart shows the name of its site.            *)
(***************************************************************************)
AloneOnItsWay ==
    \A n \in DOMAIN intents : intents[n].kind = "tap" =>
        InFront # "Photo" /\ \A k \in 1 .. n - 1 : intents[k].to # "Photo"

TitleInv ==
    /\ ~crowded => (InFront = "Photo" => site = title) /\ AloneOnItsWay
    /\ TitleTellsSite

\* The activity in front changes only when an intent is delivered, or Photo ends.
LEMMA FrontStays ==
    ASSUME UNCHANGED stack
    PROVE  InFront' = InFront
BY DEF InFront

LEMMA TitleUser == ClientTypeOK /\ FormedInv /\ TitleInv /\ User => TitleInv'
<1> SUFFICES ASSUME ClientTypeOK, FormedInv, TitleInv, User  PROVE  TitleInv'  OBVIOUS
<1>1. CASE TapLogin \/ TapLogout
  BY <1>1, FrontStays
  DEF TapLogin, TapLogout, TitleInv, AloneOnItsWay, TitleTellsSite, screen, history
<1>2. ASSUME NEW m \in DOMAIN list, TapSite(m)  PROVE  TitleInv'
  <2>1. /\ intents' = Append(intents, Tapped(list[m])) /\ InFront = "ListSites"
        /\ InFront' = InFront
    BY <1>2, FrontStays DEF TapSite
  <2>2. list[m] \in Sites
    <3>1. list # <<>>  OBVIOUS
    <3>2. list \in Seq(Sites)  BY <3>1, ClientAssumption DEF ClientTypeOK
    <3> QED  BY <3>2, ElementOfSeq, LenProperties
  <2>3. /\ DOMAIN intents = 1 .. Len(intents) /\ Len(intents) \in Nat
        /\ DOMAIN intents' = 1 .. Len(intents) + 1
        /\ \A k \in 1 .. Len(intents) : intents'[k] = intents[k]
    BY <2>1, <2>2, Intents, Added DEF ClientTypeOK
  <2>4. ASSUME ~crowded'  PROVE  AloneOnItsWay'
    <3>1. \A k \in DOMAIN intents : intents[k].to # "Photo"  BY <1>2, <2>4 DEF TapSite
    <3>2. ASSUME NEW n \in DOMAIN intents', NEW k \in 1 .. n - 1
          PROVE  intents'[k].to # "Photo"
      <4>1. k \in 1 .. Len(intents)  BY <2>3
      <4> QED  BY <4>1, <3>1, <2>3
    <3> QED  BY <3>2, <2>1 DEF AloneOnItsWay
  <2>5. TitleTellsSite'  BY <1>2 DEF TapSite, TitleInv, TitleTellsSite
  <2> QED  BY <2>1, <2>4, <2>5 DEF TitleInv
<1>3. CASE TakePicture
  BY <1>3, FrontStays DEF TakePicture, TitleInv, AloneOnItsWay, TitleTellsSite
<1>4. CASE TapUpload
  BY <1>4, FrontStays DEF TapUpload, TitleInv, AloneOnItsWay, TitleTellsSite, screen
<1>5. CASE Back
  <2>1. site' = title' /\ TitleTellsSite'
    BY <1>5 DEF Back, FinishPhoto, TitleInv, TitleTellsSite
  <2>2. ~crowded => \A n \in DOMAIN intents : intents[n].kind # "tap"
    BY <1>5 DEF Back, TitleInv, AloneOnItsWay
  <2>3. intents' = intents /\ crowded' = crowded  BY <1>5 DEF Back
  <2> QED  BY <2>1, <2>2, <2>3 DEF TitleInv, AloneOnItsWay
<1> QED  BY <1>1, <1>2, <1>3, <1>4, <1>5 DEF User

LEMMA TitleDeliver == ClientTypeOK /\ FormedInv /\ TitleInv /\ Deliver => TitleInv'
<1> SUFFICES ASSUME ClientTypeOK, FormedInv, TitleInv, Deliver  PROVE  TitleInv'  OBVIOUS
<1> DEFINE i == Head(intents)  rest == Tail(intents)
<1>0. \/ LoginAnswer(i, rest) \/ LogoutAnswer(i, rest) \/ ShowSites(i, rest)
      \/ ShowPhoto(i, rest) \/ PhotoSent(i, rest) \/ PhotoNotSent(i, rest)
  BY DEF Deliver
<1>i. /\ intents # <<>> /\ Len(intents) \in Nat \ {0} /\ i = intents[1]
      /\ DOMAIN intents = 1 .. Len(intents)
      /\ rest \in Seq(Intent) /\ Len(rest) = Len(intents) - 1
      /\ DOMAIN rest = 1 .. Len(intents) - 1
      /\ \A n \in 1 .. Len(intents) - 1 : rest[n] = intents[n + 1]
      /\ i \in Intent /\ i.session \in Ids
  BY Delivered DEF Deliver, Intent
<1>s. StackTypeOK  BY DEF ClientTypeOK, StackTypeOK
<1>k. i.kind \in {"tap", "send-photo"} => i.to = "Photo"
  BY <1>i DEF FormedInv, Formed
<1> HIDE DEF i, rest
\* Taps behind an intent for Photo were counted as crowded.
<1>b. ASSUME ~crowded, i.to = "Photo", NEW n \in DOMAIN rest  PROVE  rest[n].kind # "tap"
  <2>1. n + 1 \in DOMAIN intents /\ rest[n] = intents[n + 1] /\ 1 \in 1 .. (n + 1) - 1
    BY <1>i
  <2> QED  BY <1>b, <1>i, <2>1 DEF TitleInv, AloneOnItsWay
\* Those behind another intent are alone still.
<1>a. ASSUME ~crowded, NEW n \in DOMAIN rest, rest[n].kind = "tap",
             NEW k \in 1 .. n - 1
      PROVE  rest[k].to # "Photo"
  <2>1. /\ n + 1 \in DOMAIN intents /\ rest[n] = intents[n + 1]
        /\ k + 1 \in 1 .. (n + 1) - 1 /\ rest[k] = intents[k + 1]
    BY <1>i
  <2> QED  BY <1>a, <2>1 DEF TitleInv, AloneOnItsWay
<1>1. CASE LoginAnswer(i, rest)
  <2>1. InFront' = "Login"  BY <1>1, <1>s, ComingToFront, Names DEF LoginAnswer
  <2>2. /\ crowded' = crowded /\ TitleTellsSite'
        /\ intents' = IF i.ok THEN Append(rest, Starting(i.session)) ELSE rest
    BY <1>1 DEF LoginAnswer, TitleInv, TitleTellsSite
  <2>3. ~crowded => AloneOnItsWay'
    <3>1. CASE i.ok
      <4>1. /\ DOMAIN intents' = 1 .. Len(rest) + 1 /\ Len(rest) \in Nat
            /\ \A k \in 1 .. Len(rest) : intents'[k] = rest[k]
            /\ intents'[Len(rest) + 1] = Starting(i.session)
        BY <3>1, <2>2, <1>i, Intents, Added
      <4>2. Starting(i.session).kind # "tap"  BY DEF Starting
      <4> SUFFICES ASSUME ~crowded, NEW n \in DOMAIN intents', intents'[n].kind = "tap"
                   PROVE  \A k \in 1 .. n - 1 : intents'[k].to # "Photo"
        BY <2>1 DEF AloneOnItsWay
      <4>3. n # Len(rest) + 1  BY <4>1, <4>2
      <4>4. n \in DOMAIN rest /\ rest[n].kind = "tap"  BY <4>1, <4>3, <1>i
      <4>5. ASSUME NEW k \in 1 .. n - 1  PROVE  intents'[k] = rest[k]
        BY <4>1, <4>4, <1>i
      <4> QED  BY <4>4, <4>5, <1>a
    <3>2. CASE ~i.ok
      <4>1. intents' = rest  BY <3>2, <2>2
      <4> QED  BY <4>1, <2>1, <1>a DEF AloneOnItsWay
    <3> QED  BY <3>1, <3>2
  <2> QED  BY <2>1, <2>2, <2>3 DEF TitleInv
<1>2. CASE LogoutAnswer(i, rest)
  <2>1. InFront' = "Login"  BY <1>2, <1>s, ComingToFront, Names DEF LogoutAnswer
  <2>2. crowded' = crowded /\ TitleTellsSite' /\ intents' = rest
    BY <1>2 DEF LogoutAnswer, TitleInv, TitleTellsSite
  <2>3. ~crowded => AloneOnItsWay'  BY <2>1, <2>2, <1>a DEF AloneOnItsWay
  <2> QED  BY <2>1, <2>2, <2>3 DEF TitleInv
<1>3. CASE ShowSites(i, rest)
  <2>1. InFront' = "ListSites"  BY <1>3, <1>s, ComingToFront, Names DEF ShowSites
  <2>2. crowded' = crowded /\ TitleTellsSite' /\ intents' = rest
    BY <1>3 DEF ShowSites, TitleInv, TitleTellsSite
  <2>3. ~crowded => AloneOnItsWay'  BY <2>1, <2>2, <1>a DEF AloneOnItsWay
  <2> QED  BY <2>1, <2>2, <2>3 DEF TitleInv
<1>4. CASE ShowPhoto(i, rest)
  <2>1. /\ crowded' = crowded /\ TitleTellsSite' /\ intents' = rest /\ i.kind = "tap"
        /\ InFront # "Photo" => site' = title'
    BY <1>4 DEF ShowPhoto, TitleInv, TitleTellsSite
  <2>2. ~crowded => InFront # "Photo"  BY <2>1, <1>i DEF TitleInv, AloneOnItsWay
  <2>3. ~crowded => AloneOnItsWay'  BY <2>1, <1>b, <1>k DEF AloneOnItsWay
  <2> QED  BY <2>1, <2>2, <2>3 DEF TitleInv
<1>5. CASE PhotoSent(i, rest)
  <2>1. /\ crowded' = crowded /\ TitleTellsSite' /\ intents' = rest
        /\ i.kind = "send-photo" /\ site' = title'
    BY <1>5 DEF PhotoSent, FinishPhoto, TitleInv, TitleTellsSite
  <2>2. ~crowded => AloneOnItsWay'  BY <2>1, <1>b, <1>k DEF AloneOnItsWay
  <2> QED  BY <2>1, <2>2 DEF TitleInv
<1>6. CASE PhotoNotSent(i, rest)
  <2>1. /\ crowded' = crowded /\ TitleTellsSite' /\ intents' = rest
        /\ i.kind = "send-photo"
        /\ site' = site /\ title' = IF InFront # "Photo" THEN site ELSE title
    BY <1>6 DEF PhotoNotSent, TitleInv, TitleTellsSite
  <2>2. ~crowded => site' = title'  BY <2>1 DEF TitleInv
  <2>3. ~crowded => AloneOnItsWay'  BY <2>1, <1>b, <1>k DEF AloneOnItsWay
  <2> QED  BY <2>1, <2>2, <2>3 DEF TitleInv
<1> QED  BY <1>0, <1>1, <1>2, <1>3, <1>4, <1>5, <1>6

LEMMA TitleEnd ==
    ASSUME ClientTypeOK, TitleInv, NEW r \in tasks, End(r)
    PROVE  TitleInv'
<1>1. PICK json \in {FALSE} \cup {r.answer = "json"} :
        intents' = Append(intents, Answered([r EXCEPT !.list = IF json THEN @ ELSE <<>>], json))
  BY DEF End
<1> DEFINE a == Answered([r EXCEPT !.list = IF json THEN @ ELSE <<>>], json)
<1>2. r \in Task /\ r.list \in Lists \cup {<<>>} /\ r.kind \in Kinds
  BY DEF ClientTypeOK, Task
<1>3. [r EXCEPT !.list = IF json THEN @ ELSE <<>>] \in Task  BY <1>2 DEF Task
<1>4. a \in Intent  BY <1>3, Intents
<1>5. a.kind # "tap"  BY <1>2, Names DEF Answered, Task
<1> HIDE DEF a
<1>6. /\ DOMAIN intents = 1 .. Len(intents) /\ Len(intents) \in Nat
      /\ DOMAIN intents' = 1 .. Len(intents) + 1
      /\ \A k \in 1 .. Len(intents) : intents'[k] = intents[k]
      /\ intents'[Len(intents) + 1] = a
  BY <1>1, <1>4, Added DEF ClientTypeOK, a
<1>7. /\ InFront' = InFront /\ crowded' = crowded /\ site' = site /\ title' = title
      /\ uploads' = uploads
  BY FrontStays DEF End, screen, history
<1>8. ~crowded => AloneOnItsWay'
  <2> SUFFICES ASSUME ~crowded, NEW n \in DOMAIN intents', intents'[n].kind = "tap"
               PROVE  InFront # "Photo" /\ \A k \in 1 .. n - 1 : intents'[k].to # "Photo"
    BY <1>7 DEF AloneOnItsWay
  <2>1. n \in DOMAIN intents /\ intents[n].kind = "tap"
    <3>1. n # Len(intents) + 1  BY <1>5, <1>6
    <3> QED  BY <3>1, <1>6
  <2>2. ASSUME NEW k \in 1 .. n - 1  PROVE  intents'[k] = intents[k]
    BY <2>1, <1>6
  <2> QED  BY <2>1, <2>2 DEF TitleInv, AloneOnItsWay
<1> QED  BY <1>7, <1>8 DEF TitleInv, TitleTellsSite

LEMMA TitleStep == ClientTypeOK /\ FormedInv /\ TitleInv /\ [Next]_vars => TitleInv'
<1> SUFFICES ASSUME ClientTypeOK, FormedInv, TitleInv, [Next]_vars
             PROVE  TitleInv'
  OBVIOUS
<1>1. CASE User  BY <1>1, TitleUser
<1>2. CASE Deliver  BY <1>2, TitleDeliver
<1>3. CASE \E r \in tasks : End(r)  BY <1>3, TitleEnd
<1>4. CASE (\E r \in tasks : Handle(r)) \/ UNCHANGED vars
  <2>1. UNCHANGED <<stack, intents, screen, history>>  BY <1>4 DEF Handle, vars
  <2>2. InFront' = InFront  BY <2>1, FrontStays
  <2> QED
    BY <2>1, <2>2 DEF screen, history, TitleInv, AloneOnItsWay, TitleTellsSite
<1> QED  BY <1>1, <1>2, <1>3, <1>4 DEF Next

\* The site an upload names is the one whose name Photo shows, until a tap was on
\* its way together with another intent for Photo (Photo.ProcessIntent, onStart).
THEOREM TitlesTellSites == Spec => []TitleTellsSite
<1>1. Init => TitleInv  BY DEF Init, TitleInv, AloneOnItsWay, TitleTellsSite
<1>2. TitleInv => TitleTellsSite  BY DEF TitleInv
<1> QED  BY <1>1, <1>2, TitleStep, ClientTypeCorrect, FormedCorrect, PTL DEF Spec

(***************************************************************************)
(* Login: while it is in front, what was asked for by the other activities *)
(* was asked for before.                                                   *)
(***************************************************************************)
Late(kind) == kind \in {"sites", "send-photo", "tap"}

AskedBefore ==
    InFront = "Login" =>
        /\ \A r \in tasks : Late(r.kind) => r.id <= atLogin
        /\ \A n \in DOMAIN intents : Late(intents[n].kind) => intents[n].id <= atLogin

\* Login comes to the front, or was there and nothing late is added.
LEMMA AtLoginStep ==
    ASSUME ClientTypeOK, [Next]_vars, InFront' = "Login"
    PROVE  IF InFront = "Login" THEN atLogin' = atLogin ELSE atLogin' = sent /\ sent' = sent
<1>f. ASSUME NEW front, FinishPhoto(front)
      PROVE  IF InFront = "Login" THEN atLogin' = atLogin ELSE atLogin' = sent /\ sent' = sent
  <2>1. Without("Photo")[Len(Without("Photo"))] = "Login"
    BY <1>f DEF FinishPhoto, InFront
  <2> QED  BY <1>f, <2>1 DEF FinishPhoto
<1>s. StackTypeOK  BY DEF ClientTypeOK, StackTypeOK
<1>u. ASSUME UNCHANGED <<stack, atLogin>>
      PROVE  IF InFront = "Login" THEN atLogin' = atLogin ELSE atLogin' = sent /\ sent' = sent
  BY <1>u, FrontStays
<1>1. CASE TapLogin \/ TapLogout \/ TakePicture \/ TapUpload
           \/ (\E n \in DOMAIN list : TapSite(n))
  <2>1. UNCHANGED <<stack, atLogin>>
    BY <1>1 DEF TapLogin, TapLogout, TakePicture, TapUpload, TapSite, history
  <2> QED  BY <2>1, <1>u
<1>2. CASE Back
  <2>1. FinishPhoto(TRUE)  BY <1>2 DEF Back
  <2> QED  BY <2>1, <1>f
<1>3. CASE Deliver
  <2> DEFINE i == Head(intents)  rest == Tail(intents)
  <2>0. \/ LoginAnswer(i, rest) \/ LogoutAnswer(i, rest) \/ ShowSites(i, rest)
        \/ ShowPhoto(i, rest) \/ PhotoSent(i, rest) \/ PhotoNotSent(i, rest)
    BY <1>3 DEF Deliver
  <2> HIDE DEF i, rest
  <2>1. CASE LoginAnswer(i, rest)  BY <2>1 DEF LoginAnswer, ToFront
  <2>2. CASE LogoutAnswer(i, rest)  BY <2>2 DEF LogoutAnswer, ToFront
  <2>3. CASE ShowSites(i, rest)
    <3>1. InFront' = "ListSites"  BY <2>3, <1>s, ComingToFront, Names DEF ShowSites
    <3> QED  BY <3>1
  <2>4. CASE ShowPhoto(i, rest)
    <3>1. InFront' = "Photo"  BY <2>4, <1>s, ComingToFront, Names DEF ShowPhoto
    <3> QED  BY <3>1
  <2>5. CASE PhotoSent(i, rest)
    <3>1. FinishPhoto(InFront = "Photo")  BY <2>5 DEF PhotoSent
    <3>2. Without("Photo")[Len(Without("Photo"))] = "Login"
      BY <3>1 DEF FinishPhoto, InFront
    <3> QED  BY <3>1, <3>2 DEF FinishPhoto
  <2>6. CASE PhotoNotSent(i, rest)
    <3>1. InFront' = "Photo"  BY <2>6, <1>s, ComingToFront, Names DEF PhotoNotSent
    <3> QED  BY <3>1
  <2> QED  BY <2>0, <2>1, <2>2, <2>3, <2>4, <2>5, <2>6
<1>4. CASE \E r \in tasks : Handle(r) \/ End(r)
  <2>1. UNCHANGED <<stack, atLogin>>  BY <1>4 DEF Handle, End, history
  <2> QED  BY <2>1, <1>u
<1>5. CASE UNCHANGED vars
  <2>1. UNCHANGED <<stack, atLogin>>  BY <1>5 DEF vars, history
  <2> QED  BY <2>1, <1>u
<1> QED  BY <1>1, <1>2, <1>3, <1>4, <1>5 DEF Next, User

LEMMA AskedStep ==
    ClientTypeOK /\ FormedInv /\ FormedInv' /\ AskedBefore /\ [Next]_vars => AskedBefore'
<1> SUFFICES ASSUME ClientTypeOK, FormedInv, FormedInv', AskedBefore, [Next]_vars,
                    InFront' = "Login"
             PROVE  /\ \A r \in tasks' : Late(r.kind) => r.id <= atLogin'
                    /\ \A n \in DOMAIN intents' :
                          Late(intents'[n].kind) => intents'[n].id <= atLogin'
  BY DEF AskedBefore, Late
<1>1. IF InFront = "Login" THEN atLogin' = atLogin ELSE atLogin' = sent /\ sent' = sent
  BY AtLoginStep
<1>2. CASE InFront # "Login"
  BY <1>1, <1>2 DEF FormedInv, Formed
<1>3. CASE InFront = "Login"
  <2>1. ASSUME NEW r \in tasks', Late(r.kind)  PROVE  r.id <= atLogin'
    <3>1. r \in tasks \/ Made(r) \/ \E q \in tasks : HandledFrom(r, q)  BY StepOnTasks
    <3>2. ASSUME NEW q \in tasks  PROVE  q.kind # "tap"
      BY Names DEF ClientTypeOK, Task
    <3>3. CASE Made(r)
      <4>1. r.kind \in Kinds  BY TypeStep DEF ClientTypeOK, Task
      <4> QED  BY <2>1, <3>3, <4>1, Names DEF Made, Late
    <3> QED  BY <1>1, <1>3, <2>1, <3>1, <3>3 DEF AskedBefore, HandledFrom
  <2>2. ASSUME NEW n \in DOMAIN intents', NEW j, j = intents'[n], Late(j.kind)
        PROVE  j.id <= atLogin'
    <3>1. CASE \E k \in DOMAIN intents : j = intents[k]
      BY <1>1, <1>3, <2>2, <3>1 DEF AskedBefore
    <3>2. CASE \E r \in tasks : Ended(j, r)
      BY <1>1, <1>3, <2>2, <3>2 DEF AskedBefore, Ended
    <3>3. CASE Starts(j)  BY <2>2, <3>3 DEF Starts, Starting, Late
    <3> QED  BY <1>3, <2>2, <3>1, <3>2, <3>3, StepOnIntents
  <2> QED  BY <2>1, <2>2
<1> QED  BY <1>2, <1>3

LEMMA LoginLeft ==
    ASSUME ClientTypeOK, FormedInv, AskedBefore, [Next]_vars,
           InFront = "Login", InFront' # "Login"
    PROVE  LET i == Head(intents) IN
           IF i.kind = "start" THEN i.session > 0 ELSE i.id <= atLogin
<1>s. StackTypeOK  BY DEF ClientTypeOK, StackTypeOK
<1>1. Deliver
  <2>1. CASE UNCHANGED stack  BY <2>1, FrontStays
  <2>2. UNCHANGED stack \/ Back \/ Deliver
    BY DEF Next, User, TapLogin, TapSite, TakePicture, TapUpload, TapLogout, Handle, End,
           vars
  <2> QED  BY <2>1, <2>2 DEF Back
<1> DEFINE i == Head(intents)  rest == Tail(intents)
<1>2. i = intents[1] /\ 1 \in DOMAIN intents  BY <1>1, Delivered DEF Deliver
<1>3. Formed(i) /\ (Late(i.kind) => i.id <= atLogin)
  BY <1>2 DEF FormedInv, AskedBefore
<1>4. \/ LoginAnswer(i, rest) \/ LogoutAnswer(i, rest) \/ ShowSites(i, rest)
      \/ ShowPhoto(i, rest) \/ PhotoSent(i, rest) \/ PhotoNotSent(i, rest)
  BY <1>1 DEF Deliver
<1> HIDE DEF i, rest
<1>5. CASE LoginAnswer(i, rest) \/ LogoutAnswer(i, rest)
  <2>1. ToFront("Login")  BY <1>5 DEF LoginAnswer, LogoutAnswer
  <2>2. InFront' = "Login"  BY <2>1, <1>s, ComingToFront, Names
  <2> QED  BY <2>2
<1>6. CASE ShowSites(i, rest)
  <2>1. i.kind \in {"start", "sites"}  BY <1>6, <1>3 DEF ShowSites, Formed
  <2> QED  BY <2>1, <1>3 DEF Formed, Late, i
<1>7. CASE ShowPhoto(i, rest) \/ PhotoSent(i, rest) \/ PhotoNotSent(i, rest)
  <2>1. i.kind \in {"tap", "send-photo"}
    BY <1>7 DEF ShowPhoto, PhotoSent, PhotoNotSent
  <2> QED  BY <2>1, <1>3 DEF Late, i
<1> QED  BY <1>4, <1>5, <1>6, <1>7

\* Login leaves the front for a session that a login has made, or for something
\* asked for before it came there (Login.onNewIntent, DoHttpTask).
THEOREM LoginLeftForAReason == Spec => LoginIsLeftForAReason
<1>1. Init => AskedBefore  BY DEF Init, AskedBefore
<1>2. ClientTypeOK /\ FormedInv /\ AskedBefore /\ [Next]_vars =>
         [InFront = "Login" /\ InFront' # "Login" =>
             LET i == Head(intents) IN
             IF i.kind = "start" THEN i.session > 0 ELSE i.id <= atLogin]_vars
  BY LoginLeft
<1> QED
  BY <1>1, <1>2, AskedStep, ClientTypeCorrect, FormedCorrect, PTL
  DEF Spec, LoginIsLeftForAReason
=============================================================================
