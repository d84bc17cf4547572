------------------------- MODULE MCScriptScheduler -------------------------
(***************************************************************************)
(* Small instances of ScriptScheduler for TLC: which script may execute    *)
(* which kinds of instruction.                                             *)
(***************************************************************************)
EXTENDS ScriptScheduler, TLC

CONSTANTS s1, s2, s3

\* A sender, and a receiver that empties its queue or changes the queue's size.
EventProgram ==
  s1 :> {"send", "compute"}
    @@ s2 :> {"wait", "clear", "qsize", "exit"}

\* Scripts that run and kill one another.
FamilyProgram ==
  s1 :> {"run", "compute", "exit"}
    @@ s2 :> {"run", "kill", "sleep", "exit", "fail"}
    @@ s3 :> {"client", "kill", "compute", "exit"}

\* A parent, a child that waits for a client or fails, and a critical script that
\* debugs and kills the child.
ListsProgram ==
  s1 :> {"run", "sleep", "exit"}
    @@ s2 :> {"client", "compute", "fail"}
    @@ s3 :> {"debug", "kill", "critical", "compute"}

\* No script wakes another, so passes are finite; one may run a child.
ProgressProgram ==
  s1 :> {"run", "kill", "exit", "compute"}
    @@ s2 :> {"sleep", "exit", "compute", "priority"}
    @@ s3 :> {"start", "wait", "compute"}

\* A script that sleeps, fails and ends, and one that starts or runs it.
DebugProgram ==
  s1 :> {"compute", "sleep", "fail", "exit"}
    @@ s2 :> {"start", "run", "wait", "exit"}
=============================================================================
