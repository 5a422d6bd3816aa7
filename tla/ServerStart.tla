----------------------------- MODULE ServerStart -----------------------------
(***************************************************************************)
(* The life of the server process: its arguments and its configuration,    *)
(* the objects that main constructs and destroys, the creation of the      *)
(* tables, the requests it serves, and its end (main.cpp,                  *)
(* Configuration.cpp, the constructor of DatabaseWrapper in Database.cpp). *)
(*                                                                         *)
(* main has no exception handler: whatever throws ends the process.  The   *)
(* process may also die at any moment, and is started again, with the same *)
(* or with other arguments, on what it left on the disk.                   *)
(*                                                                         *)
(* The Web server and SQLite are not in the repository.  Of them is        *)
(* assumed: stopping the server waits for its worker threads; opening a    *)
(* database creates its file; the script runs statement by statement, each *)
(* completely or not at all.                                               *)
(*                                                                         *)
(* A definition marked "mutant" is a plausible mistake in the definition   *)
(* after it; the specification never uses it.                              *)
(***************************************************************************)
EXTENDS Integers, Sequences, FiniteSets

CONSTANTS
    CommandLines,   \* the sequences of arguments to consider
    Options,    \* the arguments that start with a "-"
    Content,    \* configuration file -> Missing, Malformed or its members
    Parent,     \* configuration file -> its directory
    Absolute,   \* the absolute paths
    Missing, Malformed,
    Bad,        \* a member of a type that does not convert
    NoFile, NoPath, NoPort,
    Workers,    \* threads of the Web server
    MaxDeaths   \* bound on the deaths of the process

ASSUME StartAssumption ==
    /\ NoFile \notin DOMAIN Content /\ DOMAIN Parent = DOMAIN Content
    /\ Options \cap DOMAIN Content = {}
    /\ \A args \in CommandLines : args \in Seq(Options \cup DOMAIN Content)
    /\ \A file \in DOMAIN Content :
          Content[file] \notin {Missing, Malformed} /\ "HttpPort" \in DOMAIN Content[file]
          => Content[file]["HttpPort"].number \in Int \cup {Bad}
    /\ MaxDeaths \in Nat

VARIABLES
    disk,       \* the databases: path -> the statements of the script executed
    pc,         \* how far main is; "off" without a process
    args, i,    \* the arguments and the index of the loops over them
    config,     \* the file globalConfiguration was read from, or NoFile
    dir,        \* defaultDirectory
    path,       \* of the database
    port,       \* of the Web server
    objects,    \* the objects that exist
    busy,       \* per worker thread: the handler it runs
    deaths,     \* how often the process died
    cut         \* history: the databases whose creation was cut short

loops     == <<args, i>>
settings  == <<config, dir>>
resources == <<path, port, objects>>
vars      == <<disk, pc, loops, settings, resources, busy, deaths, cut>>

-----------------------------------------------------------------------------
\* JOURNAL_MODE=WAL stays with the file.  The other PRAGMAs are settings of the
\* connection and are left out.
Script == <<"WAL", "Sites", "Photos", "Users", "UserSiteMap", "Changes", "PhotoDeleted">>

Schema == {Script[n] : n \in 1 .. Len(Script)}

\* The objects of main, in the order of their construction.
Objects == {"storage", "database", "authenticator", "api", "server", "assets"}

Starting == {"options", "files", "configured", "stored", "creating", "opened",
             "wrapped", "prepared", "listening", "ready"}
Serving  == {"running", "stopping", "unserved"}
Ending   == {"draining", "stopped", "closing"}

StartTypeOK ==
    /\ pc \in Starting \cup Serving \cup Ending \cup {"off"}
    /\ \A p \in DOMAIN disk : disk[p] \subseteq Schema
    /\ args \in CommandLines \cup {<<>>} /\ i \in 1 .. Len(args) + 1
    /\ config \in DOMAIN Content \cup {NoFile}
    /\ pc \in Serving => port \in Int /\ path \in DOMAIN disk
    /\ objects \subseteq Objects
    /\ busy \in [Workers -> {"idle", "api", "assets"}]
    /\ deaths \in 0 .. MaxDeaths
    /\ cut \subseteq DOMAIN disk

Idle == [w \in Workers |-> "idle"]

Init ==
    /\ disk = [p \in {} |-> {}] /\ cut = {} /\ deaths = 0
    /\ pc = "off" /\ args = <<>> /\ i = 1
    /\ config = NoFile /\ dir = NoPath
    /\ path = NoPath /\ port = NoPort /\ objects = {} /\ busy = Idle

\* What is left of a process that ended
Gone ==
    /\ pc' = "off" /\ args' = <<>> /\ i' = 1
    /\ config' = NoFile /\ dir' = NoPath
    /\ path' = NoPath /\ port' = NoPort /\ objects' = {} /\ busy' = Idle

\* It returns from main, calls exit, or an exception ends it.
Exit == Gone /\ UNCHANGED <<disk, deaths, cut>>

-----------------------------------------------------------------------------
(***************************************************************************)
(* Configuration.                                                          *)
(***************************************************************************)
Members == IF config = NoFile THEN [m \in {} |-> Bad] ELSE Content[config]

HasParameter(name) == name \in DOMAIN Members

GetString(name, default) == IF HasParameter(name) THEN Members[name] ELSE default

InterpretRelativePath(base, relative) ==
    IF relative \in Absolute THEN relative ELSE <<base, relative>>

GetPath(name, default) == InterpretRelativePath(dir, GetString(name, default))

\* A JSON number or the text of one; Bad when the text does not convert
GetInteger(name, default) ==
    IF HasParameter(name) THEN Members[name].number ELSE default

\* mutant: the directory of an earlier file is kept
InitializeOnce(file) ==
    /\ Content[file] \notin {Missing, Malformed}
    /\ config' = file
    /\ dir' = IF dir = NoPath THEN Parent[file] ELSE dir

Initialize(file) ==
    /\ Content[file] \notin {Missing, Malformed}
    /\ config' = file
    /\ dir' = Parent[file]

-----------------------------------------------------------------------------
(***************************************************************************)
(* main.                                                                   *)
(***************************************************************************)
Launch(a) ==
    /\ pc = "off"
    /\ pc' = "options" /\ args' = a /\ i' = 1
    /\ UNCHANGED <<disk, settings, resources, busy, deaths, cut>>

\* mutant: the options are looked for before the first file only
ReadOptionsFirst ==
    /\ pc = "options"
    /\ IF i <= Len(args) /\ args[i] \in {"--help", "--version"} THEN Exit
       ELSE /\ IF i <= Len(args) /\ args[i] \in Options
               THEN i' = i + 1 /\ UNCHANGED pc
               ELSE i' = 1 /\ pc' = "files"
            /\ UNCHANGED <<disk, args, settings, resources, busy, deaths, cut>>

\* The first loop.  --verbose, --trace and --logdir are about the log.
ReadOption ==
    /\ pc = "options"
    /\ IF i <= Len(args) /\ args[i] \in {"--help", "--version"} THEN Exit
       ELSE /\ IF i <= Len(args)
               THEN i' = i + 1 /\ UNCHANGED pc
               ELSE i' = 1 /\ pc' = "files"
            /\ UNCHANGED <<disk, args, settings, resources, busy, deaths, cut>>

\* The second loop, and Initialize(NULL) after it when there was no file.  A file
\* that cannot be read throws, one that cannot be parsed calls exit.
ReadConfiguration ==
    /\ pc = "files"
    /\ IF i <= Len(args) /\ args[i] \notin Options /\ Content[args[i]] \in {Missing, Malformed}
       THEN Exit
       ELSE /\ IF i <= Len(args)
               THEN /\ IF args[i] \in Options THEN UNCHANGED settings
                       ELSE Initialize(args[i])
                    /\ i' = i + 1 /\ UNCHANGED pc
               ELSE pc' = "configured" /\ UNCHANGED <<i, settings>>
            /\ UNCHANGED <<disk, args, resources, busy, deaths, cut>>

Construct(object) == objects' = objects \cup {object}
Destroy(object)   == objects' = objects \ {object}

\* GetPath of the assets, for the log, and FileStorage
OpenStorage ==
    /\ pc = "configured"
    /\ IF Bad \in {GetString("Assets", NoPath), GetString("FileStorage", NoPath)}
       THEN Exit
       ELSE /\ pc' = "stored" /\ Construct("storage")
            /\ UNCHANGED <<disk, loops, settings, path, port, busy, deaths, cut>>

\* mutant: the file is opened, and with that created, before it is looked for
OpenDatabaseFirst ==
    /\ pc = "stored"
    /\ IF GetString("Database", "index.db") = Bad THEN Exit
       ELSE /\ path' = GetPath("Database", "index.db")
            /\ pc' = "opened"
            /\ disk' = [p \in DOMAIN disk \cup {path'} |->
                           IF p \in DOMAIN disk THEN disk[p] ELSE {}]
            /\ UNCHANGED <<loops, settings, port, objects, busy, deaths, cut>>

\* mutant: the script is run on every start
OpenDatabaseAnew ==
    /\ pc = "stored"
    /\ IF GetString("Database", "index.db") = Bad THEN Exit
       ELSE /\ path' = GetPath("Database", "index.db")
            /\ pc' = "creating"
            /\ disk' = [p \in DOMAIN disk \cup {path'} |->
                           IF p = path' THEN {} ELSE disk[p]]
            /\ UNCHANGED <<loops, settings, port, objects, busy, deaths, cut>>

\* DatabaseWrapper: IsExistingFile and Open
OpenDatabase ==
    /\ pc = "stored"
    /\ IF GetString("Database", "index.db") = Bad THEN Exit
       ELSE /\ path' = GetPath("Database", "index.db")
            /\ pc' = IF path' \in DOMAIN disk THEN "opened" ELSE "creating"
            /\ disk' = [p \in DOMAIN disk \cup {path'} |->
                           IF p \in DOMAIN disk THEN disk[p] ELSE {}]
            /\ UNCHANGED <<loops, settings, port, objects, busy, deaths, cut>>

\* The next statement of the script
Execute ==
    LET n == Cardinality(disk[path]) + 1 IN
    /\ pc = "creating"
    /\ disk' = [disk EXCEPT ![path] = @ \cup {Script[n]}]
    /\ pc' = IF n = Len(Script) THEN "opened" ELSE pc
    /\ UNCHANGED <<loops, settings, resources, busy, deaths, cut>>

\* Register, and the end of the constructor
WrapDatabase ==
    /\ pc = "opened"
    /\ pc' = "wrapped" /\ Construct("database")
    /\ UNCHANGED <<disk, loops, settings, path, port, busy, deaths, cut>>

\* authenticator, api, SetAuthenticator, SetDatabaseWrapper
PrepareApi ==
    /\ pc = "wrapped"
    /\ pc' = "prepared" /\ objects' = objects \cup {"authenticator", "api"}
    /\ UNCHANGED <<disk, loops, settings, path, port, busy, deaths, cut>>

\* httpServer, RegisterHandler and SetPortNumber
PrepareServer ==
    /\ pc = "prepared"
    /\ IF GetInteger("HttpPort", 8000) = Bad THEN Exit
       ELSE /\ port' = GetInteger("HttpPort", 8000)
            /\ pc' = "listening" /\ Construct("server")
            /\ UNCHANGED <<disk, loops, settings, path, busy, deaths, cut>>

PrepareAssets ==
    /\ pc = "listening"
    /\ pc' = "ready"
    /\ IF HasParameter("Assets") THEN Construct("assets") ELSE UNCHANGED objects
    /\ UNCHANGED <<disk, loops, settings, path, port, busy, deaths, cut>>

Start ==
    /\ pc = "ready"
    /\ pc' = "running"
    /\ UNCHANGED <<disk, loops, settings, resources, busy, deaths, cut>>

\* ServerBarrier returns.
Interrupt ==
    /\ pc = "running"
    /\ pc' = "stopping"
    /\ UNCHANGED <<disk, loops, settings, resources, busy, deaths, cut>>

\* The end of the block: the objects go in the reverse of their order.  The
\* assets go first: the server, which still serves, has been given them.
DestroyAssets ==
    /\ pc = "stopping"
    /\ pc' = "unserved" /\ Destroy("assets")
    /\ UNCHANGED <<disk, loops, settings, path, port, busy, deaths, cut>>

StopServer ==
    /\ pc = "unserved"
    /\ pc' = "draining"
    /\ UNCHANGED <<disk, loops, settings, resources, busy, deaths, cut>>

\* mutant: nobody waits for the worker threads
DestroyServerAtOnce ==
    /\ pc = "draining"
    /\ pc' = "stopped" /\ Destroy("server")
    /\ UNCHANGED <<disk, loops, settings, path, port, busy, deaths, cut>>

DestroyServer ==
    /\ pc = "draining" /\ busy = Idle
    /\ pc' = "stopped" /\ Destroy("server")
    /\ UNCHANGED <<disk, loops, settings, path, port, busy, deaths, cut>>

DestroyApi ==
    /\ pc = "stopped"
    /\ pc' = "closing" /\ objects' = objects \ {"api", "authenticator"}
    /\ UNCHANGED <<disk, loops, settings, path, port, busy, deaths, cut>>

\* Finalize, and the return from main, which destroys database and storage
Return == pc = "closing" /\ Exit

Main ==
    \/ ReadOption \/ ReadConfiguration \/ OpenStorage \/ OpenDatabase \/ Execute
    \/ WrapDatabase \/ PrepareApi \/ PrepareServer \/ PrepareAssets \/ Start
    \/ DestroyAssets \/ StopServer \/ DestroyServer \/ DestroyApi \/ Return

-----------------------------------------------------------------------------
(***************************************************************************)
(* Worker threads, and deaths.                                             *)
(***************************************************************************)
Accept(w, handler) ==
    /\ pc \in Serving /\ busy[w] = "idle"
    /\ handler = "assets" => HasParameter("Assets")
    /\ busy' = [busy EXCEPT ![w] = handler]
    /\ UNCHANGED <<disk, pc, loops, settings, resources, deaths, cut>>

\* mutant: a handler whose object is gone never comes back
AnswerWhileAlive(w) ==
    /\ busy[w] # "idle" /\ busy[w] \in objects
    /\ busy' = [busy EXCEPT ![w] = "idle"]
    /\ UNCHANGED <<disk, pc, loops, settings, resources, deaths, cut>>

Answer(w) ==
    /\ busy[w] # "idle"
    /\ busy' = [busy EXCEPT ![w] = "idle"]
    /\ UNCHANGED <<disk, pc, loops, settings, resources, deaths, cut>>

\* A handler whose object is gone may do anything: it answers, or brings the
\* process down.
UseDestroyed(w) == busy[w] = "assets" /\ "assets" \notin objects /\ Exit

Die ==
    /\ pc # "off" /\ deaths < MaxDeaths
    /\ deaths' = deaths + 1
    /\ cut' = IF pc = "creating" THEN cut \cup {path} ELSE cut
    /\ Gone
    /\ UNCHANGED disk

Next ==
    \/ \E a \in CommandLines : Launch(a)
    \/ Main
    \/ Interrupt
    \/ \E w \in Workers :
          \/ \E handler \in {"api", "assets"} : Accept(w, handler)
          \/ Answer(w) \/ UseDestroyed(w)
    \/ Die

Spec == Init /\ [][Next]_vars

\* main runs and the handlers come back; nobody has to launch or interrupt it.
FairSpec == Spec /\ WF_vars(Main) /\ \A w \in Workers : WF_vars(Answer(w))

-----------------------------------------------------------------------------
(***************************************************************************)
(* Properties.                                                             *)
(***************************************************************************)

\* A server that serves has all its tables and its trigger, unless the process
\* that created the file died while it ran the script: nothing ever completes
\* such a database (DatabaseWrapper).
SchemaComplete ==
    pc \in Serving /\ path \notin cut => disk[path] = Schema

\* A start never alters a database that was there before: statements run only
\* on the file that this very process created (DatabaseWrapper).
RestartKeepsTables ==
    [][\A p \in DOMAIN disk :
          /\ p \in DOMAIN disk'
          /\ disk'[p] # disk[p] => /\ disk[p] \subseteq disk'[p]
                                   /\ p \notin cut /\ pc = "creating" /\ p = path]_vars

\* --help and --version, wherever they are among the arguments, come before
\* every effect: no database is created and no object constructed (main).
HelpHasNoEffect ==
    (\E n \in 1 .. Len(args) : args[n] \in {"--help", "--version"}) =>
        pc = "options" /\ objects = {} /\ path = NoPath

\* The members and the directory that relative paths start from are those of one
\* file, the last of the arguments, and every file before it could be read and
\* parsed; no file means no members and the working directory (main,
\* Initialize).
FileArguments == {n \in 1 .. Len(args) : args[n] \notin Options}

ConfigurationConsistent ==
    pc \notin {"off", "options", "files"} =>
        IF FileArguments = {} THEN config = NoFile /\ dir = NoPath
        ELSE /\ \A n \in FileArguments : Content[args[n]] \notin {Missing, Malformed}
             /\ \E last \in FileArguments :
                   /\ \A n \in FileArguments : n <= last
                   /\ config = args[last] /\ dir = Parent[args[last]]

\* A request of the interface runs only while the api, the authenticator, the
\* database and the storage it uses exist; one for an asset while the assets
\* exist, except when the server is stopping (the order of the objects in main).
RequestsFindTheirObjects ==
    \A w \in Workers :
        /\ busy[w] # "idle" => "server" \in objects
        /\ busy[w] = "api" => {"api", "authenticator", "database", "storage"} \subseteq objects
        /\ busy[w] = "assets" => "assets" \in objects \/ pc \in {"unserved", "draining"}

\* An interrupted server ends: its requests are answered and its threads do not
\* keep it (main, MongooseServer).
InterruptEnds == pc = "stopping" ~> pc = "off"
=============================================================================
