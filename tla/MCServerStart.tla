---------------------------- MODULE MCServerStart ----------------------------
(***************************************************************************)
(* TLC instances of ServerStart: two good configuration files, of which    *)
(* one has every member, and three that end the process.                   *)
(***************************************************************************)
EXTENDS ServerStart, TLC

CONSTANTS one, two, broken, absent, badPort, badPath, etc, srv, abs, rel

MCOptions == {"--help", "--version", "--verbose"}
MCContent ==
    (one     :> [m \in {"HttpPort", "Database", "Assets"} |->
                    CASE m = "HttpPort" -> [type |-> "int", number |-> 8080]
                      [] m = "Database" -> abs [] m = "Assets" -> rel])
 @@ (two     :> [m \in {"HttpPort"} |-> [type |-> "string", number |-> 8081]])
 @@ (broken  :> Malformed)
 @@ (absent  :> Missing)
 @@ (badPort :> [m \in {"HttpPort"} |-> [type |-> "string", number |-> Bad]])
 @@ (badPath :> [m \in {"Database"} |-> Bad])
MCParent == [f \in {one, two, broken, absent, badPort, badPath} |->
                IF f \in {one, broken} THEN etc ELSE srv]
MCCommandLines ==
    {<<>>, <<one>>, <<two, "--verbose">>, <<two, one>>, <<one, two>>, <<one, "--help">>,
     <<"--version", two>>, <<one, broken>>, <<absent>>, <<badPort>>, <<badPath>>}
=============================================================================
