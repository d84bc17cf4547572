---------------------------- MODULE MCWorldSave ----------------------------
(***************************************************************************)
(* Small instances of WorldSave: mobiles in objects, items in items, and   *)
(* guilds, the file that stands for those committed after storage.         *)
(***************************************************************************)
EXTENDS WorldSave

CONSTANTS mobile, item, guild

OneFileEach == <<"objects", "items", "storage", "guilds">>

Homes == [t \in {mobile, item, guild} |->
  CASE t = mobile -> "objects" [] t = guild -> "guilds" [] OTHER -> "items"]

AllStops == Phases \ {"down", "refused"}

\* A stop that a restart notices, or that leaves the files as they were.
GuardedStops == {"running", "writing", "switching"}

\* Full saves only.
Full ==
  [initial |-> {mobile, item}, others |-> {guild}, flags |-> {TRUE, FALSE},
   full |-> TRUE, incremental |-> FALSE,
   stops |-> AllStops, failures |-> {"writing"}, changes |-> 3]

\* Incremental saves only.
Incremental ==
  [initial |-> {mobile}, others |-> {}, flags |-> {TRUE},
   full |-> FALSE, incremental |-> TRUE,
   stops |-> AllStops, failures |-> {"recording"}, changes |-> 3]

\* Either kind.
Both ==
  [initial |-> {item}, others |-> {}, flags |-> {TRUE},
   full |-> TRUE, incremental |-> TRUE,
   stops |-> GuardedStops, failures |-> {"writing"}, changes |-> 2]

OneKind == {Full, Incremental}
BothKinds == {Both}
BothKindsStopped == {[Both EXCEPT !.stops = AllStops, !.failures = {}]}
=============================================================================
