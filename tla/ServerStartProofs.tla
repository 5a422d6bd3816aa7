-------------------------- MODULE ServerStartProofs --------------------------
(***************************************************************************)
(* Proofs about ServerStart, for any command lines, configuration files,   *)
(* worker threads and number of deaths.                                    *)
(***************************************************************************)
EXTENDS ServerStart, FiniteSetTheorems, TLAPS

(***************************************************************************)
(* The objects of main.  How far main is tells which of them exist; the    *)
(* worker threads run handlers only while the server does.                 *)
(***************************************************************************)
Up == {"ready"} \cup Serving \cup {"draining"}

ObjectsInv ==
    /\ busy \in [Workers -> {"idle", "api", "assets"}]
    /\ \A w \in Workers : busy[w] # "idle" => pc \in Serving \cup {"draining"}
    /\ \A w \in Workers : busy[w] = "assets" => HasParameter("Assets")
    /\ pc \in {"stored", "creating", "opened", "wrapped", "prepared", "listening"} \cup Up =>
          "storage" \in objects
    /\ pc \in {"wrapped", "prepared", "listening"} \cup Up => "database" \in objects
    /\ pc \in {"prepared", "listening"} \cup Up => {"api", "authenticator"} \subseteq objects
    /\ pc \in {"listening"} \cup Up => "server" \in objects
    /\ pc \in {"ready", "running", "stopping"} /\ HasParameter("Assets") =>
          "assets" \in objects

LEMMA ObjectsInit == Init => ObjectsInv
    BY DEF Init, Idle, ObjectsInv, Up, Serving

LEMMA GoneObjects == Gone => ObjectsInv'
    BY DEF Gone, Idle, ObjectsInv, Up, Serving

LEMMA ObjectsStep == ObjectsInv /\ [Next]_vars => ObjectsInv'
<1> SUFFICES ASSUME ObjectsInv, [Next]_vars PROVE ObjectsInv'
    OBVIOUS
<1> USE DEF loops, settings, resources
<1>1. CASE Gone
    BY <1>1, GoneObjects
<1>2. ASSUME NEW a \in CommandLines, Launch(a) PROVE ObjectsInv'
    BY <1>2 DEF Launch, ObjectsInv, HasParameter, Members, Up, Serving
<1>3. CASE (ReadOption \/ ReadConfiguration) /\ ~Gone
    BY <1>3 DEF ReadOption, ReadConfiguration, Initialize, Exit, ObjectsInv, Up, Serving
<1>4. CASE (OpenStorage \/ OpenDatabase \/ Execute \/ WrapDatabase) /\ ~Gone
    BY <1>4 DEF OpenStorage, OpenDatabase, Execute, WrapDatabase, Exit, Construct,
                ObjectsInv, HasParameter, Members, Up, Serving
<1>5. CASE (PrepareApi \/ PrepareServer \/ PrepareAssets) /\ ~Gone
    BY <1>5 DEF PrepareApi, PrepareServer, PrepareAssets, Exit, Construct,
                ObjectsInv, HasParameter, Members, Up, Serving
<1>6. CASE Start \/ Interrupt \/ DestroyAssets \/ StopServer
    BY <1>6 DEF Start, Interrupt, DestroyAssets, StopServer, Destroy,
                ObjectsInv, HasParameter, Members, Up, Serving
<1>7. CASE DestroyServer \/ DestroyApi
    BY <1>7 DEF DestroyServer, DestroyApi, Destroy, Idle,
                ObjectsInv, HasParameter, Members, Up, Serving
<1>8. ASSUME NEW w \in Workers, NEW h \in {"api", "assets"}, Accept(w, h)
      PROVE  ObjectsInv'
    BY <1>8 DEF Accept, ObjectsInv, HasParameter, Members, Up, Serving
<1>9. ASSUME NEW w \in Workers, Answer(w) PROVE ObjectsInv'
    BY <1>9 DEF Answer, ObjectsInv, HasParameter, Members, Up, Serving
<1>10. Return \/ Die \/ (\E w \in Workers : UseDestroyed(w)) => Gone
    BY DEF Return, Die, UseDestroyed, Exit
<1>11. CASE UNCHANGED vars
    BY <1>11 DEF vars, ObjectsInv, HasParameter, Members
<1> QED
    BY <1>1, <1>2, <1>3, <1>4, <1>5, <1>6, <1>7, <1>8, <1>9, <1>10, <1>11 DEF Next, Main

(***************************************************************************)
(* The tables.  A database holds the whole schema, unless its creation was *)
(* cut short or is under way; then it holds the first statements of it.    *)
(***************************************************************************)
Prefix(k) == {Script[n] : n \in 1 .. k}

HasDatabase ==
    {"creating", "opened", "wrapped", "prepared", "listening", "ready"}
        \cup Serving \cup {"draining", "stopped", "closing"}

CreationInv ==
    /\ cut \subseteq DOMAIN disk
    /\ pc \in HasDatabase => path \in DOMAIN disk
    /\ pc = "creating" =>
          path \notin cut /\ \E k \in 0 .. Len(Script) - 1 : disk[path] = Prefix(k)
    /\ \A p \in DOMAIN disk :
          p \in cut \/ (pc = "creating" /\ p = path) \/ disk[p] = Schema

LEMMA ScriptLength == Len(Script) = 7
    BY DEF Script

\* The statements are distinct, so their number tells which comes next.
LEMMA PrefixSize ==
    ASSUME NEW k \in 0 .. Len(Script) - 1
    PROVE  Cardinality(Prefix(k)) = k
<1> DEFINE Size(n) == IsFiniteSet(Prefix(n)) /\ Cardinality(Prefix(n)) = n
<1>0. Size(0)
  <2>1. Prefix(0) = {}
      BY DEF Prefix
  <2> QED
      BY <2>1, FS_EmptySet
<1>1. ASSUME NEW n \in 0 .. 5, Size(n) PROVE Size(n + 1)
  <2>1. Prefix(n + 1) = Prefix(n) \cup {Script[n + 1]}
      BY DEF Prefix
  <2>2. Script[n + 1] \notin Prefix(n)
      BY DEF Prefix, Script
  <2> QED
      BY <1>1, <2>1, <2>2, FS_AddElement
<1> HIDE DEF Size
<1>2. Size(1) /\ Size(2) /\ Size(3)
    BY <1>0, <1>1
<1>3. Size(4) /\ Size(5) /\ Size(6)
    BY <1>1, <1>2
<1> QED
    BY <1>0, <1>2, <1>3, ScriptLength DEF Size

LEMMA CreationInit == Init => CreationInv
    BY DEF Init, CreationInv, HasDatabase, Serving

\* A step after which no process is there.
LEMMA GoneCreation ==
    ASSUME CreationInv, Gone, UNCHANGED disk,
           \/ cut' = cut /\ pc # "creating"
           \/ cut' = cut \cup {path} /\ pc \in HasDatabase
    PROVE  CreationInv'
    BY DEF Gone, CreationInv, HasDatabase, Serving

\* A step that leaves the disk alone.
LEMMA QuietCreation ==
    ASSUME CreationInv, UNCHANGED <<disk, path, cut>>, pc # "creating", pc' # "creating",
           pc' \in HasDatabase => pc \in HasDatabase
    PROVE  CreationInv'
    BY DEF CreationInv

LEMMA CreationStep == CreationInv /\ ObjectsInv /\ [Next]_vars => CreationInv'
<1> SUFFICES ASSUME CreationInv, ObjectsInv, [Next]_vars PROVE CreationInv'
    OBVIOUS
<1> USE DEF loops, settings, resources
<1>1. CASE Exit /\ pc # "creating"
  <2>1. Gone /\ disk' = disk /\ cut' = cut /\ pc # "creating"
      BY <1>1 DEF Exit
  <2> QED
      BY <2>1, GoneCreation
<1>2. CASE Die
  <2>0. /\ Gone /\ disk' = disk
        /\ cut' = IF pc = "creating" THEN cut \cup {path} ELSE cut
      BY <1>2 DEF Die
  <2>1. CASE pc = "creating"
    <3>1. cut' = cut \cup {path} /\ pc \in HasDatabase
        BY <2>0, <2>1 DEF HasDatabase
    <3> QED
        BY <2>0, <3>1, GoneCreation
  <2>2. CASE pc # "creating"
    <3>1. cut' = cut /\ pc # "creating"
        BY <2>0, <2>2
    <3> QED
        BY <2>0, <3>1, GoneCreation
  <2> QED
      BY <2>1, <2>2
<1>3. CASE OpenDatabase /\ ~Exit
  <2>1. /\ pc' = IF path' \in DOMAIN disk THEN "opened" ELSE "creating"
        /\ disk' = [p \in DOMAIN disk \cup {path'} |->
                       IF p \in DOMAIN disk THEN disk[p] ELSE {}]
        /\ cut' = cut /\ pc = "stored"
      BY <1>3 DEF OpenDatabase
  <2>2. CASE path' \in DOMAIN disk
      BY <2>1, <2>2 DEF CreationInv, HasDatabase, Serving
  <2>3. CASE path' \notin DOMAIN disk
    <3>1. disk'[path'] = Prefix(0) /\ 0 \in 0 .. Len(Script) - 1
        BY <2>1, <2>3, ScriptLength DEF Prefix
    <3> QED
        BY <2>1, <2>3, <3>1 DEF CreationInv, HasDatabase, Serving
  <2> QED
      BY <2>2, <2>3
<1>4. CASE Execute
  <2>1. PICK k \in 0 .. Len(Script) - 1 : disk[path] = Prefix(k)
      BY <1>4 DEF Execute, CreationInv
  <2>2. Cardinality(disk[path]) + 1 = k + 1
      BY <2>1, PrefixSize
  <2>3. /\ disk' = [disk EXCEPT ![path] = @ \cup {Script[k + 1]}]
        /\ pc' = IF k + 1 = Len(Script) THEN "opened" ELSE pc
        /\ pc = "creating" /\ path' = path /\ cut' = cut
      BY <1>4, <2>2 DEF Execute
  <2>4. path \in DOMAIN disk /\ path \notin cut
      BY <2>3 DEF CreationInv, HasDatabase
  <2>5. disk'[path] = Prefix(k + 1)
      BY <2>1, <2>3, <2>4, ScriptLength DEF Prefix
  <2>6. CASE k + 1 = Len(Script)
    <3>1. disk'[path] = Schema
        BY <2>5, <2>6 DEF Prefix, Schema
    <3> QED
        BY <2>3, <2>4, <2>6, <3>1 DEF CreationInv, HasDatabase
  <2>7. CASE k + 1 # Len(Script)
    <3>1. k + 1 \in 0 .. Len(Script) - 1
        BY <2>7, ScriptLength
    <3> QED
        BY <2>3, <2>4, <2>5, <2>7, <3>1 DEF CreationInv, HasDatabase
  <2> QED
      BY <2>6, <2>7
<1>5. ASSUME NEW a \in CommandLines, Launch(a) PROVE CreationInv'
    BY <1>5, QuietCreation DEF Launch, HasDatabase, Serving
<1>6. CASE (ReadOption \/ ReadConfiguration \/ OpenStorage) /\ ~Exit
    BY <1>6, QuietCreation
    DEF ReadOption, ReadConfiguration, OpenStorage, HasDatabase, Serving
<1>7. CASE WrapDatabase \/ PrepareApi \/ (PrepareServer /\ ~Exit) \/ PrepareAssets
    BY <1>7, QuietCreation
    DEF WrapDatabase, PrepareApi, PrepareServer, PrepareAssets, HasDatabase
<1>8. CASE Start \/ Interrupt \/ DestroyAssets \/ StopServer \/ DestroyServer \/ DestroyApi
    BY <1>8, QuietCreation
    DEF Start, Interrupt, DestroyAssets, StopServer, DestroyServer, DestroyApi,
        HasDatabase, Serving
<1>9. ASSUME NEW w \in Workers, (\E h \in {"api", "assets"} : Accept(w, h)) \/ Answer(w)
      PROVE  CreationInv'
    BY <1>9 DEF Accept, Answer, CreationInv
<1>10. CASE UNCHANGED vars
    BY <1>10 DEF vars, CreationInv
<1>11. CASE Main
  <2>1. Main /\ Exit => pc # "creating"
      BY DEF Main, Exit, Gone, ReadOption, ReadConfiguration, OpenStorage, OpenDatabase,
             Execute, WrapDatabase, PrepareApi, PrepareServer, PrepareAssets, Start,
             DestroyAssets, StopServer, DestroyServer, DestroyApi, Return
  <2>2. Return => Exit
      BY DEF Return
  <2> QED
      BY <1>1, <1>3, <1>4, <1>6, <1>7, <1>8, <1>11, <2>1, <2>2 DEF Main
<1>12. ASSUME NEW w \in Workers, UseDestroyed(w) PROVE CreationInv'
  <2>1. Exit /\ pc # "creating"
      BY <1>12 DEF UseDestroyed, ObjectsInv, Up, Serving
  <2> QED
      BY <1>1, <2>1
<1> QED
    BY <1>2, <1>5, <1>8, <1>9, <1>10, <1>11, <1>12 DEF Next

(***************************************************************************)
(* The arguments.  Each loop has looked at the arguments before i.         *)
(***************************************************************************)
Help == {"--help", "--version"}

FilesUpTo(k) == {n \in 1 .. k : args[n] \notin Options}

ReadUpTo(k) ==
    IF FilesUpTo(k) = {} THEN config = NoFile /\ dir = NoPath
    ELSE /\ \A n \in FilesUpTo(k) : Content[args[n]] \notin {Missing, Malformed}
         /\ \E last \in FilesUpTo(k) :
               /\ \A n \in FilesUpTo(k) : n <= last
               /\ config = args[last] /\ dir = Parent[args[last]]

ArgumentsInv ==
    /\ args \in Seq(Options \cup DOMAIN Content) /\ i \in 1 .. Len(args) + 1
    /\ pc = "off" => args = <<>>
    /\ pc \in {"off", "options"} =>
          objects = {} /\ path = NoPath /\ config = NoFile /\ dir = NoPath
    /\ pc = "options" => \A n \in 1 .. i - 1 : args[n] \notin Help
    /\ pc \notin {"off", "options"} => \A n \in 1 .. Len(args) : args[n] \notin Help
    /\ pc = "files" => ReadUpTo(i - 1)
    /\ pc \notin {"off", "options", "files"} => ReadUpTo(Len(args))

LEMMA ArgumentsInit == Init => ArgumentsInv
    BY DEF Init, ArgumentsInv

LEMMA GoneArguments == Gone => ArgumentsInv'
    BY DEF Gone, ArgumentsInv

\* One more file is read.
LEMMA ReadOneMore ==
    ASSUME args \in Seq(Options \cup DOMAIN Content), i \in 1 .. Len(args),
           ReadUpTo(i - 1), args[i] \notin Options, Initialize(args[i]),
           args' = args, i' = i + 1
    PROVE  ReadUpTo(i - 1)'
<1>1. /\ FilesUpTo(i - 1)' = FilesUpTo(i - 1) \cup {i}
      /\ \A n \in FilesUpTo(i - 1) : n \in Int /\ n <= i
    BY DEF FilesUpTo
<1>2. \A n \in FilesUpTo(i - 1) : Content[args[n]] \notin {Missing, Malformed}
    BY DEF ReadUpTo
<1>3. /\ Content[args[i]] \notin {Missing, Malformed}
      /\ config' = args[i] /\ dir' = Parent[args[i]]
    BY DEF Initialize
<1> QED
    BY <1>1, <1>2, <1>3 DEF ReadUpTo

\* The steps after the loops leave arguments and configuration alone.
LEMMA QuietArguments ==
    ASSUME ArgumentsInv, UNCHANGED <<args, i, config, dir>>,
           pc \notin {"off", "options", "files"}, pc' \notin {"off", "options", "files"}
    PROVE  ArgumentsInv'
<1>1. ReadUpTo(Len(args)) /\ \A n \in 1 .. Len(args) : args[n] \notin Help
    BY DEF ArgumentsInv
<1>2. ReadUpTo(Len(args))'
    BY <1>1 DEF ReadUpTo, FilesUpTo
<1> QED
    BY <1>1, <1>2 DEF ArgumentsInv

LEMMA ArgumentsStep == ArgumentsInv /\ ObjectsInv /\ [Next]_vars => ArgumentsInv'
<1> SUFFICES ASSUME ArgumentsInv, ObjectsInv, [Next]_vars PROVE ArgumentsInv'
    OBVIOUS
<1> USE DEF loops, settings, resources
<1>1. CASE Gone
    BY <1>1, GoneArguments
<1>2. ASSUME NEW a \in CommandLines, Launch(a) PROVE ArgumentsInv'
    BY <1>2, StartAssumption DEF Launch, ArgumentsInv
<1>3. CASE ReadOption /\ ~Gone
  <2>1. /\ pc = "options" /\ ~(i <= Len(args) /\ args[i] \in Help)
        /\ UNCHANGED <<args, settings, resources>>
      BY <1>3 DEF ReadOption, Exit, Help
  <2>2. CASE i <= Len(args)
    <3>1. i' = i + 1 /\ pc' = pc
        BY <1>3, <2>2 DEF ReadOption, Exit
    <3>2. \A n \in 1 .. i : args[n] \notin Help
        BY <2>1, <2>2 DEF ArgumentsInv
    <3> QED
        BY <2>1, <2>2, <3>1, <3>2 DEF ArgumentsInv
  <2>3. CASE ~(i <= Len(args))
    <3>1. i' = 1 /\ pc' = "files"
        BY <1>3, <2>3 DEF ReadOption, Exit
    <3>2. i = Len(args) + 1 /\ Len(args) \in Nat
        BY <2>3 DEF ArgumentsInv
    <3>3. ReadUpTo(0)'
        BY <2>1 DEF ArgumentsInv, ReadUpTo, FilesUpTo
    <3>4. ReadUpTo(i - 1)'
        BY <3>1, <3>3 DEF ReadUpTo, FilesUpTo
    <3> QED
        BY <2>1, <3>1, <3>2, <3>4 DEF ArgumentsInv
  <2> QED
      BY <2>2, <2>3
<1>4. CASE ReadConfiguration /\ ~Gone
  <2>0. /\ pc = "files" /\ UNCHANGED <<args, resources>> /\ ReadUpTo(i - 1)
        /\ args \in Seq(Options \cup DOMAIN Content) /\ i \in 1 .. Len(args) + 1
        /\ Len(args) \in Nat /\ \A n \in 1 .. Len(args) : args[n] \notin Help
      BY <1>4 DEF ReadConfiguration, Exit, ArgumentsInv
  <2>1. CASE i <= Len(args)
    <3>1. i' = i + 1 /\ pc' = "files"
        BY <1>4, <2>0, <2>1 DEF ReadConfiguration, Exit
    <3>2. CASE args[i] \in Options
      <4>1. UNCHANGED settings
          BY <1>4, <2>1, <3>2 DEF ReadConfiguration, Exit
      <4>2. FilesUpTo(i - 1)' = FilesUpTo(i - 1)
          BY <2>0, <3>1, <3>2 DEF FilesUpTo
      <4>3. ReadUpTo(i - 1)'
          BY <2>0, <4>1, <4>2 DEF ReadUpTo
      <4> QED
          BY <2>0, <2>1, <3>1, <4>3 DEF ArgumentsInv
    <3>3. CASE args[i] \notin Options
      <4>1. Initialize(args[i])
          BY <1>4, <2>1, <3>3 DEF ReadConfiguration, Exit
      <4>2. ReadUpTo(i - 1)'
          BY <2>0, <2>1, <3>1, <3>3, <4>1, ReadOneMore
      <4> QED
          BY <2>0, <2>1, <3>1, <4>2 DEF ArgumentsInv
    <3> QED
        BY <3>2, <3>3
  <2>2. CASE ~(i <= Len(args))
    <3>1. pc' = "configured" /\ UNCHANGED <<i, settings>>
        BY <1>4, <2>2 DEF ReadConfiguration, Exit
    <3>2. i - 1 = Len(args)
        BY <2>0, <2>2
    <3>3. ReadUpTo(Len(args))'
        BY <2>0, <3>1, <3>2 DEF ReadUpTo, FilesUpTo
    <3> QED
        BY <2>0, <3>1, <3>3 DEF ArgumentsInv
  <2> QED
      BY <2>1, <2>2
<1>5. CASE (OpenStorage \/ OpenDatabase \/ Execute \/ WrapDatabase \/ PrepareApi
              \/ PrepareServer \/ PrepareAssets) /\ ~Gone
  <2>1. /\ UNCHANGED <<args, i, config, dir>>
        /\ pc \notin {"off", "options", "files"} /\ pc' \notin {"off", "options", "files"}
      BY <1>5 DEF OpenStorage, OpenDatabase, Execute, WrapDatabase, PrepareApi,
                  PrepareServer, PrepareAssets, Exit
  <2> QED
      BY <2>1, QuietArguments
<1>6. CASE Start \/ Interrupt \/ DestroyAssets \/ StopServer \/ DestroyServer \/ DestroyApi
  <2>1. /\ UNCHANGED <<args, i, config, dir>>
        /\ pc \notin {"off", "options", "files"} /\ pc' \notin {"off", "options", "files"}
      BY <1>6 DEF Start, Interrupt, DestroyAssets, StopServer, DestroyServer, DestroyApi
  <2> QED
      BY <2>1, QuietArguments
<1>7. ASSUME NEW w \in Workers, (\E h \in {"api", "assets"} : Accept(w, h)) \/ Answer(w)
      PROVE  ArgumentsInv'
  <2>1. /\ UNCHANGED <<args, i, config, dir, pc>>
        /\ pc \notin {"off", "options", "files"}
      BY <1>7 DEF Accept, Answer, ObjectsInv, Serving
  <2> QED
      BY <2>1, QuietArguments
<1>8. Return \/ Die \/ (\E w \in Workers : UseDestroyed(w)) => Gone
    BY DEF Return, Die, UseDestroyed, Exit
<1>9. CASE UNCHANGED vars
    BY <1>9 DEF vars, ArgumentsInv, ReadUpTo, FilesUpTo
<1> QED
    BY <1>1, <1>2, <1>3, <1>4, <1>5, <1>6, <1>7, <1>8, <1>9 DEF Next, Main

LEMMA StartInvariance == Spec => [](ObjectsInv /\ CreationInv /\ ArgumentsInv)
<1>1. Init => ObjectsInv /\ CreationInv /\ ArgumentsInv
    BY ObjectsInit, CreationInit, ArgumentsInit
<1>2. ObjectsInv /\ CreationInv /\ ArgumentsInv /\ [Next]_vars =>
          (ObjectsInv /\ CreationInv /\ ArgumentsInv)'
    BY ObjectsStep, CreationStep, ArgumentsStep
<1> QED
    BY <1>1, <1>2, PTL DEF Spec

(***************************************************************************)
(* Types.  A port is a number because the file the configuration was read  *)
(* from has one there, or nothing that converts.                           *)
(***************************************************************************)
RangesInv ==
    /\ pc \in Starting \cup Serving \cup Ending \cup {"off"}
    /\ \A p \in DOMAIN disk : disk[p] \subseteq Schema
    /\ args \in CommandLines \cup {<<>>}
    /\ config = NoFile \/ (config \in DOMAIN Content /\ Content[config] \notin {Missing, Malformed})
    /\ pc \in {"listening", "ready"} \cup Serving => port \in Int
    /\ objects \subseteq Objects
    /\ deaths \in 0 .. MaxDeaths

LEMMA RangesInit == Init => RangesInv
    BY StartAssumption DEF Init, RangesInv, Serving

LEMMA GoneRanges ==
    ASSUME RangesInv, Gone, UNCHANGED disk, deaths' \in 0 .. MaxDeaths
    PROVE  RangesInv'
BY DEF Gone, RangesInv, Serving

LEMMA RangesStep == RangesInv /\ CreationInv /\ ArgumentsInv /\ [Next]_vars => RangesInv'
<1> SUFFICES ASSUME RangesInv, CreationInv, ArgumentsInv, [Next]_vars PROVE RangesInv'
    OBVIOUS
<1> USE DEF loops, settings, resources
<1>1. CASE Exit
    BY <1>1, GoneRanges DEF Exit, RangesInv
<1>2. CASE Die
  <2>1. deaths \in Nat /\ MaxDeaths \in Nat /\ deaths < MaxDeaths /\ deaths' = deaths + 1
      BY <1>2, StartAssumption DEF Die, RangesInv
  <2> QED
      BY <1>2, <2>1, GoneRanges DEF Die
<1>3. ASSUME NEW a \in CommandLines, Launch(a) PROVE RangesInv'
    BY <1>3 DEF Launch, RangesInv, Starting, Serving
<1>4. CASE ReadOption /\ ~Exit
    BY <1>4 DEF ReadOption, RangesInv, Starting, Serving
<1>5. CASE ReadConfiguration /\ ~Exit
  <2>1. /\ UNCHANGED <<disk, args, port, objects, deaths>> /\ pc = "files"
        /\ pc' \in {"files", "configured"}
      BY <1>5 DEF ReadConfiguration
  <2>2. \/ UNCHANGED config
        \/ i <= Len(args) /\ args[i] \notin Options /\ Initialize(args[i])
      BY <1>5 DEF ReadConfiguration
  <2>3. CASE i <= Len(args) /\ args[i] \notin Options /\ Initialize(args[i])
    <3>1. i \in 1 .. Len(args) /\ args \in Seq(Options \cup DOMAIN Content)
        BY <2>3 DEF ArgumentsInv
    <3>2. args[i] \in DOMAIN Content
        BY <2>3, <3>1
    <3> QED
        BY <2>1, <2>3, <3>2 DEF Initialize, RangesInv, Starting, Serving
  <2> QED
      BY <2>1, <2>2, <2>3 DEF RangesInv, Starting, Serving
<1>6. CASE (OpenStorage \/ OpenDatabase) /\ ~Exit
    BY <1>6 DEF OpenStorage, OpenDatabase, Construct, RangesInv, Starting, Serving, Objects
<1>7. CASE Execute
  <2>1. PICK k \in 0 .. Len(Script) - 1 : disk[path] = Prefix(k)
      BY <1>7 DEF Execute, CreationInv
  <2>2. Cardinality(disk[path]) + 1 = k + 1 /\ Script[k + 1] \in Schema
      BY <2>1, PrefixSize, ScriptLength DEF Schema
  <2>3. /\ disk' = [disk EXCEPT ![path] = @ \cup {Script[k + 1]}]
        /\ pc' \in {"opened", "creating"}
        /\ UNCHANGED <<args, config, objects, deaths>>
      BY <1>7, <2>2 DEF Execute
  <2> QED
      BY <2>2, <2>3 DEF RangesInv, Starting, Serving
<1>8. CASE WrapDatabase \/ PrepareApi
    BY <1>8 DEF WrapDatabase, PrepareApi, Construct, RangesInv, Starting, Serving, Objects
<1>9. CASE PrepareServer /\ ~Exit
  <2>1. GetInteger("HttpPort", 8000) \in Int \cup {Bad}
      BY StartAssumption DEF GetInteger, HasParameter, Members, RangesInv
  <2>2. port' \in Int
      BY <1>9, <2>1 DEF PrepareServer
  <2>3. /\ pc' = "listening" /\ objects' = objects \cup {"server"}
        /\ UNCHANGED <<disk, args, config, deaths>>
      BY <1>9 DEF PrepareServer, Construct
  <2> QED
      BY <2>2, <2>3 DEF RangesInv, Starting, Objects
<1>10. CASE PrepareAssets \/ Start \/ Interrupt \/ DestroyAssets
    BY <1>10
    DEF PrepareAssets, Start, Interrupt, DestroyAssets, Construct, Destroy, RangesInv,
        Starting, Serving, Objects
<1>11. CASE StopServer \/ DestroyServer \/ DestroyApi
    BY <1>11 DEF StopServer, DestroyServer, DestroyApi, Destroy, RangesInv, Ending, Serving
<1>12. ASSUME NEW w \in Workers, (\E h \in {"api", "assets"} : Accept(w, h)) \/ Answer(w)
       PROVE  RangesInv'
    BY <1>12 DEF Accept, Answer, RangesInv
<1>13. CASE UNCHANGED vars
    BY <1>13 DEF vars, RangesInv
<1>14. Return \/ (\E w \in Workers : UseDestroyed(w)) => Exit
    BY DEF Return, UseDestroyed
<1> QED
    BY <1>1, <1>2, <1>3, <1>4, <1>5, <1>6, <1>7, <1>8, <1>9, <1>10, <1>11, <1>12, <1>13,
       <1>14
    DEF Next, Main

\* Whatever the command lines and files, the disk holds statements of the script
\* only, and a server that serves has a port and a database (main,
\* Configuration::GetInteger).
THEOREM StartTypeCorrect == Spec => []StartTypeOK
<1>1. RangesInv /\ ObjectsInv /\ CreationInv /\ ArgumentsInv => StartTypeOK
    BY DEF RangesInv, ObjectsInv, CreationInv, ArgumentsInv, StartTypeOK, HasDatabase, Serving
<1>2. Init => RangesInv
    BY RangesInit
<1> QED
    BY <1>1, <1>2, RangesStep, StartInvariance, PTL DEF Spec

\* For any arguments in any order, --help and --version leave no trace (the first
\* loop of main).
THEOREM HelpNeverHasEffects == Spec => []HelpHasNoEffect
<1>1. ArgumentsInv => HelpHasNoEffect
    BY DEF ArgumentsInv, HelpHasNoEffect, Help
<1> QED
    BY <1>1, StartInvariance, PTL

\* For any arguments, the configuration is that of the last file (the second loop
\* of main, Configuration::Initialize).
THEOREM ConfigurationIsConsistent == Spec => []ConfigurationConsistent
<1>1. ArgumentsInv => ConfigurationConsistent
    BY DEF ArgumentsInv, ConfigurationConsistent, ReadUpTo, FilesUpTo, FileArguments
<1> QED
    BY <1>1, StartInvariance, PTL

\* Whatever the order in which main constructs and destroys its objects, and
\* whenever it is interrupted or dies, no handler of the interface runs without
\* the objects it uses (the block of main, MongooseServer::Stop).
THEOREM RequestsAlwaysFindTheirObjects == Spec => []RequestsFindTheirObjects
<1>1. ObjectsInv => RequestsFindTheirObjects
    BY DEF ObjectsInv, RequestsFindTheirObjects, Up, Serving
<1> QED
    BY <1>1, StartInvariance, PTL

\* A database that is served has the whole schema, unless its creation was cut
\* short (the constructor of DatabaseWrapper).
THEOREM SchemasAreComplete == Spec => []SchemaComplete
<1>1. CreationInv => SchemaComplete
    BY DEF CreationInv, SchemaComplete, HasDatabase, Serving
<1> QED
    BY <1>1, StartInvariance, PTL

\* No start of the server changes a database it did not create itself (the
\* constructor of DatabaseWrapper).
THEOREM RestartsKeepTables == Spec => RestartKeepsTables
<1> DEFINE Kept == \A p \in DOMAIN disk :
          /\ p \in DOMAIN disk'
          /\ disk'[p] # disk[p] => /\ disk[p] \subseteq disk'[p]
                                   /\ p \notin cut /\ pc = "creating" /\ p = path
<1>1. CreationInv /\ [Next]_vars => Kept
  <2> SUFFICES ASSUME CreationInv, [Next]_vars PROVE Kept
      OBVIOUS
  <2>1. CASE UNCHANGED disk
      BY <2>1
  <2>2. CASE OpenDatabase /\ ~Exit
      BY <2>2 DEF OpenDatabase
  <2>3. CASE Execute
      BY <2>3 DEF Execute, CreationInv
  <2>4. \/ UNCHANGED disk \/ (OpenDatabase /\ ~Exit) \/ Execute
      BY DEF Next, Main, vars, Exit, Launch, ReadOption, ReadConfiguration, OpenStorage,
             WrapDatabase, PrepareApi, PrepareServer, PrepareAssets, Start, Interrupt,
             DestroyAssets, StopServer, DestroyServer, DestroyApi, Return, Accept,
             Answer, UseDestroyed, Die
  <2> QED
      BY <2>1, <2>2, <2>3, <2>4
<1> QED
    BY <1>1, StartInvariance, PTL DEF Spec, RestartKeepsTables

(***************************************************************************)
(* The way of a process to its end.  The phases of main are passed in one  *)
(* order, the loops over the arguments and over the script are bounded,    *)
(* and the worker threads can only leave when the server is drained.       *)
(***************************************************************************)
PhasesLeft ==
    [options |-> 16, files |-> 15, configured |-> 14, stored |-> 13, creating |-> 12,
     opened |-> 11, wrapped |-> 10, prepared |-> 9, listening |-> 8, ready |-> 7,
     running |-> 6, stopping |-> 5, unserved |-> 4, draining |-> 3, stopped |-> 2,
     closing |-> 1, off |-> 0]

Advances ==
    \/ PhasesLeft[pc'] < PhasesLeft[pc]
    \/ /\ pc \in {"options", "files"} /\ UNCHANGED <<pc, args>>
       /\ i \in 1 .. Len(args) /\ i' = i + 1
    \/ /\ pc = "creating" /\ UNCHANGED <<pc, path>>
       /\ \E k \in 0 .. Len(Script) - 2 :
             disk[path] = Prefix(k) /\ disk'[path] = Prefix(k + 1)

Waits ==
    /\ UNCHANGED <<pc, args, i, path, disk>>
    /\ pc = "draining" => \A w \in Workers : busy'[w] \in {busy[w], "idle"}

NearsEnd == (Main => Advances) /\ (pc # "off" => Advances \/ Waits)

LEMMA NearsEndStep ==
    ASSUME ObjectsInv, CreationInv, ArgumentsInv, RangesInv, [Next]_vars PROVE NearsEnd
<1> USE DEF loops, settings, resources
<1>0. pc \in Starting \cup Serving \cup Ending \cup {"off"} /\ (Main => pc # "off")
    BY DEF RangesInv, Main, ReadOption, ReadConfiguration, OpenStorage, OpenDatabase,
           Execute, WrapDatabase, PrepareApi, PrepareServer, PrepareAssets, Start,
           DestroyAssets, StopServer, DestroyServer, DestroyApi, Return
\* The process ends.
<1>1. CASE Gone /\ pc # "off"
  <2>1. PhasesLeft[pc'] = 0
      BY <1>1 DEF Gone, PhasesLeft
  <2>2. PhasesLeft[pc] > 0
      BY <1>0, <1>1 DEF PhasesLeft, Starting, Serving, Ending
  <2> QED
      BY <2>1, <2>2 DEF NearsEnd, Advances
\* Turns of the loops
<1>2. CASE (ReadOption \/ ReadConfiguration) /\ ~Gone
  <2>1. CASE i <= Len(args)
    <3>1. /\ pc \in {"options", "files"} /\ UNCHANGED <<pc, args>>
          /\ i \in 1 .. Len(args) /\ i' = i + 1
        BY <1>2, <2>1 DEF ReadOption, ReadConfiguration, Exit, ArgumentsInv
    <3> QED
        BY <3>1 DEF NearsEnd, Advances
  <2>2. CASE ~(i <= Len(args))
    <3>1. \/ pc = "options" /\ pc' = "files"
          \/ pc = "files" /\ pc' = "configured"
        BY <1>2, <2>2 DEF ReadOption, ReadConfiguration, Exit
    <3> QED
        BY <3>1 DEF NearsEnd, Advances, PhasesLeft
  <2> QED
      BY <2>1, <2>2
<1>3. CASE Execute
  <2>1. PICK k \in 0 .. Len(Script) - 1 : disk[path] = Prefix(k)
      BY <1>3 DEF Execute, CreationInv
  <2>2. Cardinality(disk[path]) + 1 = k + 1
      BY <2>1, PrefixSize
  <2>3. /\ disk' = [disk EXCEPT ![path] = @ \cup {Script[k + 1]}]
        /\ pc' = IF k + 1 = Len(Script) THEN "opened" ELSE pc
        /\ pc = "creating" /\ path' = path /\ path \in DOMAIN disk
      BY <1>3, <2>2 DEF Execute, CreationInv, HasDatabase
  <2>4. disk'[path] = Prefix(k + 1)
      BY <2>1, <2>3, ScriptLength DEF Prefix
  <2>5. CASE k + 1 = Len(Script)
    <3>1. pc = "creating" /\ pc' = "opened"
        BY <2>3, <2>5
    <3> QED
        BY <3>1 DEF NearsEnd, Advances, PhasesLeft
  <2>6. CASE k + 1 # Len(Script)
    <3>1. k \in 0 .. Len(Script) - 2
        BY <2>6, ScriptLength
    <3> QED
        BY <2>1, <2>3, <2>4, <2>6, <3>1 DEF NearsEnd, Advances
  <2> QED
      BY <2>5, <2>6
\* The phases
<1>4. CASE (OpenStorage \/ OpenDatabase \/ PrepareServer) /\ ~Gone
  <2>1. \/ pc = "configured" /\ pc' = "stored"
        \/ pc = "stored" /\ pc' \in {"opened", "creating"}
        \/ pc = "prepared" /\ pc' = "listening"
      BY <1>4 DEF OpenStorage, OpenDatabase, PrepareServer, Exit
  <2> QED
      BY <2>1 DEF NearsEnd, Advances, PhasesLeft
<1>5. CASE \/ WrapDatabase \/ PrepareApi \/ PrepareAssets \/ Start \/ Interrupt
           \/ DestroyAssets \/ StopServer \/ DestroyServer \/ DestroyApi
  <2>1. \/ pc = "opened" /\ pc' = "wrapped"
        \/ pc = "wrapped" /\ pc' = "prepared"
        \/ pc = "listening" /\ pc' = "ready"
        \/ pc = "ready" /\ pc' = "running"
        \/ pc = "running" /\ pc' = "stopping"
        \/ pc = "stopping" /\ pc' = "unserved"
        \/ pc = "unserved" /\ pc' = "draining"
        \/ pc = "draining" /\ pc' = "stopped"
        \/ pc = "stopped" /\ pc' = "closing"
      BY <1>5 DEF WrapDatabase, PrepareApi, PrepareAssets, Start, Interrupt,
                  DestroyAssets, StopServer, DestroyServer, DestroyApi
  <2> QED
      BY <2>1 DEF NearsEnd, Advances, PhasesLeft
\* What is not main
<1>6. ASSUME NEW w \in Workers, (\E h \in {"api", "assets"} : Accept(w, h)) \/ Answer(w)
      PROVE  Waits
  <2>1. CASE \E h \in {"api", "assets"} : Accept(w, h)
      BY <2>1 DEF Accept, Serving, Waits
  <2>2. CASE Answer(w)
      BY <2>2 DEF Answer, ObjectsInv, Waits
  <2> QED
      BY <1>6, <2>1, <2>2
<1>7. UNCHANGED vars => Waits
    BY DEF vars, Waits
<1>8. (Die \/ \E w \in Workers : UseDestroyed(w)) => Gone /\ pc # "off"
    BY DEF Die, UseDestroyed, Exit, ObjectsInv, Serving
<1>9. Return => Gone /\ pc # "off"
    BY DEF Return, Exit
<1>10. (\E a \in CommandLines : Launch(a)) => pc = "off"
    BY DEF Launch
<1> QED
    BY <1>0, <1>1, <1>2, <1>3, <1>4, <1>5, <1>6, <1>7, <1>8, <1>9, <1>10
    DEF Next, Main, NearsEnd

\* The safety half of InterruptEnds, for any command line and any number of worker
\* threads: every step of main advances it, nothing else sets it back, and no
\* request is accepted while the server drains (main, MongooseServer::Stop).
THEOREM MainNearsItsEnd == Spec => [][NearsEnd]_vars
<1>1. ObjectsInv /\ CreationInv /\ ArgumentsInv /\ RangesInv /\ [Next]_vars => NearsEnd
    BY NearsEndStep
<1> QED
    BY <1>1, RangesInit, RangesStep, StartInvariance, PTL DEF Spec
=============================================================================
