----------------------- MODULE SchedulerFamilyProofs -----------------------
(***************************************************************************)
(* Proofs about what ScriptScheduler promises of the scripts it holds and  *)
(* of parents and children: what a hold list says of a script is so, links *)
(* between parents and children are mutual, and which hypotheses exclude   *)
(* each of the faults of the model.                                        *)
(***************************************************************************)
EXTENDS ScriptSchedulerProofs

-----------------------------------------------------------------------------
(* The flags of an executor *)

\* calcrunnable() and the debugger: a runnable script has no error, one that is not has
\* an error, is done or was halted, and only an attached script is halted.  A script that
\* no debugger attaches to is not runnable after its end.
FlagsOK(s) ==
  /\ ex[s].run_ok => ~ex[s].error
  /\ ~ex[s].run_ok => Finished(s) \/ ex[s].halt
  /\ ex[s].halt => ex[s].debug_state # "NONE"
  /\ ex[s].done => "exit" \in Program[s]
  /\ s \notin Debuggable => ex[s].debug_state = "NONE" /\ (ex[s].run_ok => ~ex[s].done)

FlagsInv ==
  /\ \A s \in Scripts : FlagsOK(s)
  /\ dbg.script \in Debuggable \cup {NoScript}

USE DEF Live

\* The ways a step may change the flags of a script.
FlagsStep(s) ==
  LET e == ex[s]  f == ex'[s] IN
  \/ UNCHANGED <<e.error, e.halt, e.done, e.run_ok, e.debug_state>>
  \/ /\ f.error /\ ~f.run_ok                              \* seterror( true )
     /\ UNCHANGED <<e.done, e.halt, e.debug_state>>
  \/ /\ "exit" \in Program[s] /\ f.done /\ ~f.run_ok      \* it ends
     /\ UNCHANGED <<e.error, e.halt, e.debug_state>>
  \/ /\ s \in Debuggable /\ f.halt /\ ~f.run_ok /\ f.debug_state # "NONE"
     /\ \/ UNCHANGED <<e.error, e.done>>                  \* it is halted
        \/ e.error = f.error /\ f.done /\ "exit" \in Program[s]
        \/ f.error /\ e.done = f.done
  \/ /\ s \in Debuggable /\ f.debug_state # "NONE"        \* attached, or told to break
     /\ UNCHANGED <<e.error, e.halt, e.done, e.run_ok>>
  \/ /\ s \in Debuggable /\ ~f.halt /\ f.run_ok = ~e.error  \* sethalt( false )
     /\ UNCHANGED <<e.error, e.done>>
  \/ f = NewExecutor /\ status'[s] = "deleted"

LEMMA FlagsStepKeeps ==
  ASSUME TypeOK, TypeOK', NEW s \in Scripts, FlagsOK(s), FlagsStep(s)
  PROVE  FlagsOK(s)'
<1>1. ex[s] \in Executor /\ ex'[s] \in Executor
  BY DEF TypeOK
<1> QED
  BY <1>1 DEF FlagsOK, FlagsStep, Finished, NewExecutor, Executor

\* What the functions that actions apply to ex do to the flags.
LEMMA TracedFlags ==
  ASSUME TypeOK, \A s \in Scripts : FlagsOK(s), NEW s \in Scripts
  PROVE  /\ Traced(s) \in [Scripts -> Executor]
         /\ \A t \in Scripts \ {s} : Traced(s)[t] = ex[t]
         /\ \A t \in Scripts : /\ Traced(s)[t].error = ex[t].error
                               /\ Traced(s)[t].done = ex[t].done
                               /\ Traced(s)[t].pChild = ex[t].pChild
                               /\ Traced(s)[t].pParent = ex[t].pParent
                               /\ ex[t].debug_state # "NONE" => Traced(s)[t].debug_state # "NONE"
         /\ \/ Traced(s) = ex
            \/ s \in Debuggable /\ Traced(s)[s].halt /\ ~Traced(s)[s].run_ok
               /\ Traced(s)[s].debug_state # "NONE"
<1>0. ex \in [Scripts -> Executor]
  BY DEF TypeOK
<1>1. Traced(s) \in [Scripts -> Executor]
  BY <1>0, ExecutorTypes
<1>2. CASE Traced(s) = ex
  BY <1>0, <1>2
<1>3. CASE ex[s].debug_state = "INS_TRACE"
  <2>1. Traced(s) = [ex EXCEPT ![s] = [ex[s] EXCEPT !.debug_state = "ATTACHED", !.halt = TRUE,
                                                    !.run_ok = FALSE]]
    BY <1>0, <1>3 DEF Traced
  <2>2. s \in Debuggable
    BY <1>3 DEF FlagsOK
  <2> QED
    BY <1>0, <1>1, <2>1, <2>2 DEF Executor
<1> QED
  BY <1>2, <1>3 DEF Traced

\* A step changes the flags of every script in one of these ways.
FlagsSteps == \A s \in Scripts : FlagsStep(s)

LEMMA SameFlags ==
  ASSUME UNCHANGED ex
  PROVE  FlagsSteps
BY DEF FlagsSteps, FlagsStep

LEMMA OneFlags ==
  ASSUME NEW s \in Scripts, \A t \in Scripts \ {s} : ex'[t] = ex[t], FlagsStep(s)
  PROVE  FlagsSteps
BY DEF FlagsSteps, FlagsStep

LEMMA TracedStep ==
  ASSUME TypeOK, FlagsInv, NEW s \in Scripts, ex' = Traced(s)
  PROVE  FlagsSteps
<1>1. \A t \in Scripts \ {s} : ex'[t] = ex[t]
  BY TracedFlags DEF FlagsInv
<1>2. FlagsStep(s)
  BY TracedFlags DEF FlagsInv, FlagsStep
<1> QED
  BY <1>1, <1>2, OneFlags

LEMMA DoneRecord ==
  ASSUME NEW e \in Executor, NEW f, f = [e EXCEPT !.done = TRUE, !.run_ok = FALSE]
  PROVE  /\ f.done /\ ~f.run_ok /\ f.error = e.error
         /\ f.halt = e.halt /\ f.debug_state = e.debug_state
BY DEF Executor

LEMMA ExitFlags ==
  ASSUME TypeOK, FlagsInv, NEW s \in Scripts, "exit" \in Program[s],
         ex' = [Traced(s) EXCEPT ![s].done = TRUE, ![s].run_ok = FALSE]
  PROVE  FlagsSteps
<1> DEFINE x == Traced(s)
<1>1. /\ x \in [Scripts -> Executor]
      /\ \A t \in Scripts \ {s} : x[t] = ex[t]
      /\ x[s].error = ex[s].error
      /\ x = ex \/ (s \in Debuggable /\ x[s].halt /\ x[s].debug_state # "NONE")
  BY TracedFlags DEF FlagsInv
<1>2. ex' = [x EXCEPT ![s] = [x[s] EXCEPT !.done = TRUE, !.run_ok = FALSE]]
  BY <1>1
<1> HIDE DEF x
<1>3. \A t \in Scripts \ {s} : ex'[t] = ex[t]
  BY <1>1, <1>2
<1>4. /\ ex'[s].done /\ ~ex'[s].run_ok /\ ex'[s].error = x[s].error
      /\ ex'[s].halt = x[s].halt /\ ex'[s].debug_state = x[s].debug_state
  <2>1. ex'[s] = [x[s] EXCEPT !.done = TRUE, !.run_ok = FALSE] /\ x[s] \in Executor
    BY <1>1, <1>2
  <2> QED
    BY <2>1, DoneRecord
<1>5. FlagsStep(s)
  BY <1>1, <1>4 DEF FlagsStep
<1> QED
  BY <1>3, <1>5, OneFlags

LEMMA ErrorFlags ==
  ASSUME TypeOK, FlagsInv, NEW s \in Scripts, NEW t \in Scripts,
         ex' = SetError(Traced(s), t) \/ ex' = SetError(ex, t)
  PROVE  FlagsSteps
<1>1. ASSUME NEW x \in [Scripts -> Executor], ex' = SetError(x, t)
      PROVE  /\ \A u \in Scripts \ {t} : ex'[u] = x[u]
             /\ ex'[t].error /\ ~ex'[t].run_ok /\ ex'[t].done = x[t].done
             /\ ex'[t].halt = x[t].halt /\ ex'[t].debug_state = x[t].debug_state
  <2>1. ex' = [x EXCEPT ![t] = [x[t] EXCEPT !.error = TRUE, !.run_ok = FALSE]]
    BY <1>1 DEF SetError
  <2> QED
    BY <1>1, <2>1 DEF Executor
<1>2. CASE ex' = SetError(ex, t)
  BY <1>1, <1>2, OneFlags DEF TypeOK, FlagsStep
<1>3. CASE ex' = SetError(Traced(s), t)
  <2> DEFINE x == Traced(s)
  <2>1. /\ x \in [Scripts -> Executor]
        /\ \A u \in Scripts \ {s} : x[u] = ex[u]
        /\ \A u \in Scripts : x[u].error = ex[u].error /\ x[u].done = ex[u].done
        /\ x = ex \/ (s \in Debuggable /\ x[s].halt /\ ~x[s].run_ok /\ x[s].debug_state # "NONE")
    BY TracedFlags DEF FlagsInv
  <2>2. /\ \A u \in Scripts \ {t} : ex'[u] = x[u]
        /\ ex'[t].error /\ ~ex'[t].run_ok /\ ex'[t].done = x[t].done
        /\ ex'[t].halt = x[t].halt /\ ex'[t].debug_state = x[t].debug_state
    BY <1>1, <1>3, <2>1
  <2> HIDE DEF x
  <2>3. FlagsStep(t)
    BY <2>1, <2>2 DEF FlagsStep
  <2>4. \A u \in Scripts \ {t} : FlagsStep(u)
    BY <2>1, <2>2 DEF FlagsStep
  <2> QED
    BY <2>3, <2>4 DEF FlagsSteps
<1> QED
  BY <1>2, <1>3

\* Run_Script and its return change links only.
LEMMA LinkFlags ==
  ASSUME TypeOK, FlagsInv, NEW s \in Scripts, NEW t \in Scripts,
         NEW p, NEW c,
         \/ ex' = [Traced(s) EXCEPT ![s].pChild = c, ![t].pParent = p]
         \/ ex' = [Traced(s) EXCEPT ![t].pParent = p, ![s].pChild = c]
  PROVE  FlagsSteps
<1> DEFINE x == Traced(s)
           y == [x EXCEPT ![s].pChild = c]
           z == [x EXCEPT ![t].pParent = p]
<1>1. x \in [Scripts -> Executor]
  BY TracedFlags DEF FlagsInv
<1>2. ex' = [y EXCEPT ![t].pParent = p] \/ ex' = [z EXCEPT ![s].pChild = c]
  OBVIOUS
<1> HIDE DEF x
<1>3. \A u \in Scripts : /\ ex'[u].error = x[u].error /\ ex'[u].halt = x[u].halt
                         /\ ex'[u].done = x[u].done /\ ex'[u].run_ok = x[u].run_ok
                         /\ ex'[u].debug_state = x[u].debug_state
  <2>1. /\ DOMAIN y = Scripts /\ DOMAIN z = Scripts
        /\ \A u \in Scripts : /\ y[u].error = x[u].error /\ y[u].halt = x[u].halt
                              /\ y[u].done = x[u].done /\ y[u].run_ok = x[u].run_ok
                              /\ y[u].debug_state = x[u].debug_state /\ DOMAIN y[u] = DOMAIN x[u]
        /\ \A u \in Scripts : /\ z[u].error = x[u].error /\ z[u].halt = x[u].halt
                              /\ z[u].done = x[u].done /\ z[u].run_ok = x[u].run_ok
                              /\ z[u].debug_state = x[u].debug_state /\ DOMAIN z[u] = DOMAIN x[u]
    BY <1>1 DEF Executor
  <2>2. \A u \in Scripts : DOMAIN x[u] = {"error", "halt", "done", "run_ok", "debug_state",
                                          "pParent", "pChild"}
    BY <1>1 DEF Executor
  <2> HIDE DEF y, z
  <2> QED
    BY <1>2, <2>1, <2>2
<1>4. /\ \A u \in Scripts \ {s} : x[u] = ex[u]
      /\ \A u \in Scripts : x[u].error = ex[u].error /\ x[u].done = ex[u].done
      /\ x = ex \/ (s \in Debuggable /\ x[s].halt /\ ~x[s].run_ok /\ x[s].debug_state # "NONE")
  BY TracedFlags DEF FlagsInv, x
<1> QED
  BY <1>3, <1>4 DEF FlagsSteps, FlagsStep

LEMMA InstructionFlags ==
  ASSUME TypeOK, FlagsInv, NEW s \in Scripts, Instruction(s)
  PROVE  FlagsSteps
<1> USE DEF Fetch, Fetches
<1>1. CASE ExecuteDone(s)
  BY <1>1, SameFlags DEF ExecuteDone, execVars
<1>2. CASE DebugStop(s)
  <2>1. s \in Debuggable
    BY <1>2 DEF DebugStop, Stopping, FlagsInv, FlagsOK
  <2>2. ex \in [Scripts -> Executor]
        /\ ex' = [ex EXCEPT ![s] = [ex[s] EXCEPT !.debug_state = "ATTACHED", !.halt = TRUE,
                                                 !.run_ok = FALSE]]
    BY <1>2 DEF DebugStop, TypeOK
  <2>3. /\ \A t \in Scripts \ {s} : ex'[t] = ex[t]
        /\ ex'[s].halt /\ ~ex'[s].run_ok /\ ex'[s].debug_state # "NONE"
        /\ ex'[s].error = ex[s].error /\ ex'[s].done = ex[s].done
    BY <2>2 DEF Executor
  <2>4. FlagsStep(s)
    BY <2>1, <2>3 DEF FlagsStep
  <2> QED
    BY <2>3, <2>4, OneFlags
<1>3. CASE Exit(s)
  BY <1>3, ExitFlags DEF Exit
<1>4. CASE Fail(s) \/ \E t \in Scripts : KillScript(s, t)
  BY <1>4, ErrorFlags DEF Fail, KillScript
<1>5. CASE RunScriptReturn(s)
  <2> DEFINE c == ex[s].pChild
  <2>1. CASE Live(c)
    <3>1. c \in Scripts /\ ex' = [Traced(s) EXCEPT ![c].pParent = NoScript, ![s].pChild = NoScript]
      BY <1>5, <2>1 DEF RunScriptReturn
    <3> HIDE DEF c
    <3> QED
      BY <3>1, LinkFlags
  <2>2. CASE ~Live(c)
    BY <1>5, <2>2, SameFlags DEF RunScriptReturn
  <2> QED
    BY <2>1, <2>2
<1>6. ASSUME NEW t \in Scripts, RunScript(s, t)
      PROVE  FlagsSteps
  <2>1. ex' = [Traced(s) EXCEPT ![s].pChild = t, ![t].pParent = s]
    BY <1>6 DEF RunScript
  <2> QED
    BY <2>1, LinkFlags
<1>7. CASE \/ Compute(s) \/ WaitForClient(s)
           \/ \E n \in SleepTicks : SleepFor(s, n) \/ wait_for_event(s, n)
           \/ \E t \in Scripts : SendEvent(s, t) \/ StartScript(s, t) \/ clear_event_queue(s, t)
           \/ \E crit \in BOOLEAN : set_critical(s, crit)
           \/ \E n \in Priorities : set_priority(s, n)
           \/ \E n \in QueueSizes : set_event_queue_size(s, n)
  <2>1. ex' = Traced(s)
    BY <1>7 DEF Compute, WaitForClient, SleepFor, wait_for_event, SendEvent, StartScript,
                clear_event_queue, set_critical, set_priority, set_event_queue_size
  <2> QED
    BY <2>1, TracedStep
<1> QED
  BY <1>1, <1>2, <1>3, <1>4, <1>5, <1>6, <1>7 DEF Instruction

LEMMA ClearHaltFlags ==
  ASSUME TypeOK, NEW s \in Scripts, s \in Debuggable, NEW d,
         ex' = [ClearHalt(ex, s) EXCEPT ![s].debug_state = d]
  PROVE  FlagsSteps
<1> DEFINE x == ClearHalt(ex, s)
<1>0. ex \in [Scripts -> Executor]
  BY DEF TypeOK
<1>1. x \in [Scripts -> Executor]
  BY <1>0, ExecutorTypes
<1>2. /\ \A t \in Scripts \ {s} : x[t] = ex[t]
      /\ ~x[s].halt /\ x[s].run_ok = ~ex[s].error
      /\ x[s].error = ex[s].error /\ x[s].done = ex[s].done
  BY <1>0 DEF ClearHalt, Executor
<1> HIDE DEF x
<1>3. ex' = [x EXCEPT ![s].debug_state = d]
  BY DEF x
<1>4. /\ \A t \in Scripts \ {s} : ex'[t] = ex[t]
      /\ ~ex'[s].halt /\ ex'[s].run_ok = ~ex[s].error
      /\ ex'[s].error = ex[s].error /\ ex'[s].done = ex[s].done
  BY <1>1, <1>2, <1>3 DEF Executor
<1> QED
  BY <1>4, OneFlags DEF FlagsStep

LEMMA DebuggerFlags ==
  ASSUME TypeOK, FlagsInv, Debugger
  PROVE  FlagsSteps /\ dbg'.script \in Debuggable \cup {NoScript}
<1>0. /\ ex \in [Scripts -> Executor] /\ Debuggable \subseteq Scripts
      /\ dbg \in [script : Scripts \cup {NoScript}, cmd : DebugCommands]
      /\ dbg.script \in Debuggable \cup {NoScript} /\ NoScript \notin Scripts
  BY SchedulerAssumption DEF SchedulerAssumption, TypeOK, FlagsInv
<1>1. ASSUME NEW s \in Scripts, s \in Debuggable, NEW d \in DebugStates, d # "NONE",
             ex' = [ex EXCEPT ![s].debug_state = d]
      PROVE  FlagsSteps
  <2>1. /\ \A t \in Scripts \ {s} : ex'[t] = ex[t]
        /\ ex'[s].error = ex[s].error /\ ex'[s].done = ex[s].done
        /\ ex'[s].halt = ex[s].halt /\ ex'[s].run_ok = ex[s].run_ok /\ ex'[s].debug_state = d
    BY <1>0, <1>1 DEF Executor
  <2> QED
    BY <1>1, <2>1, OneFlags DEF FlagsStep
<1>2. ASSUME NEW s \in Scripts, DebugStart(s)
      PROVE  FlagsSteps /\ UNCHANGED dbg
  BY <1>2, SameFlags DEF DebugStart, execVars
<1>3. ASSUME NEW s \in Scripts, cmd_attach(s)
      PROVE  FlagsSteps /\ dbg'.script \in Debuggable
  BY <1>1, <1>3 DEF cmd_attach, DebugStates
<1>4. ASSUME NEW s \in Scripts, cmd_kill(s)
      PROVE  FlagsSteps /\ UNCHANGED dbg
  BY <1>4, ErrorFlags DEF cmd_kill
<1>5. CASE cmd_break
  <2>1. dbg.script \in Scripts /\ dbg.script \in Debuggable
    BY <1>0, <1>5 DEF cmd_break, Attached
  <2> QED
    BY <1>0, <1>1, <1>5, <2>1 DEF cmd_break, DebugStates
<1>6. CASE DebugCheckDetach \/ \E cmd \in {"INS_TRACE", "RUN"} : DebugCheckHeld(cmd)
  BY <1>0, <1>6, SameFlags DEF DebugCheckDetach, DebugCheckHeld, execVars
<1>7. CASE DebugResume
  <2>1. dbg'.script = dbg.script
    BY <1>0, <1>7 DEF DebugResume
  <2>2. CASE UNCHANGED ex
    BY <1>0, <2>1, <2>2, SameFlags
  <2>3. CASE Live(dbg.script) /\ ex' = [ClearHalt(ex, dbg.script) EXCEPT ![dbg.script].debug_state = dbg.cmd]
    BY <1>0, <2>1, <2>3, ClearHaltFlags
  <2> QED
    BY <1>7, <2>2, <2>3 DEF DebugResume, execVars
<1>8. CASE DebugDetach
  BY <1>0, <1>8, SameFlags DEF DebugDetach, execVars
<1>9. CASE DebugLetGo
  <2>1. dbg'.script = NoScript
    BY <1>9 DEF DebugLetGo
  <2>2. CASE UNCHANGED ex
    BY <2>1, <2>2, SameFlags
  <2>3. CASE Live(dbg.script) /\ ex' = [ClearHalt(ex, dbg.script) EXCEPT ![dbg.script].debug_state = "NONE"]
    BY <1>0, <2>1, <2>3, ClearHaltFlags
  <2> QED
    BY <1>9, <2>2, <2>3 DEF DebugLetGo
<1> QED
  BY <1>0, <1>2, <1>3, <1>4, <1>5, <1>6, <1>7, <1>8, <1>9 DEF Debugger, BeginCommand, FinishCommand

LEMMA EndTurnFlags ==
  ASSUME TypeOK, NEW s \in Scripts, EndTurn(s)
  PROVE  FlagsSteps
<1>1. CASE DeleteFinished(s)
  <2>1. \A t \in Scripts \ {s} : ex'[t] = ex[t]
    BY <1>1 DEF DeleteFinished, TypeOK
  <2>2. ex'[s] = NewExecutor /\ status'[s] = "deleted"
    BY <1>1 DEF DeleteFinished, TypeOK
  <2> QED
    BY <2>1, <2>2, OneFlags DEF FlagsStep
<1>2. CASE ~DeleteFinished(s)
  BY <1>2, SameFlags DEF EndTurn, ReturnToParent, ReturnToDeleted, MarkForDebugger, HoldForDebugger, HoldBlocked,
                         Requeue, execVars
<1> QED
  BY <1>1, <1>2

LEMMA NextFlags ==
  ASSUME TypeOK, FlagsInv, [Next]_vars
  PROVE  FlagsSteps
<1>1. CASE \/ BeginPass \/ BeginTurn \/ EmptyRunlist \/ EndPass \/ WakeDue \/ EndCheck
           \/ Clock \/ Stop \/ UNCHANGED vars
  BY <1>1, SameFlags DEF BeginPass, BeginTurn, EmptyRunlist, EndPass, WakeDue, EndCheck, Clock, Stop, Tick,
                         Shutdown, execVars, vars
<1>2. CASE OtherThreads
  BY <1>2, SameFlags, ErrorFlags
  DEF OtherThreads, ExternalStart, ExternalEvent, ExternalKill, ClientReply, execVars
<1> QED
  BY <1>1, <1>2, InstructionFlags, EndTurnFlags, DebuggerFlags DEF Next, Ended, ScriptsThread

LEMMA FlagsKept ==
  ASSUME TypeOK, FlagsInv, [Next]_vars
  PROVE  FlagsInv'
<1>1. \A s \in Scripts : FlagsOK(s)'
  BY TypeStep, NextFlags, FlagsStepKeeps DEF FlagsInv, FlagsSteps
<1>2. dbg'.script \in Debuggable \cup {NoScript}
  BY OthersLeaveDebugger, DebuggerFlags DEF Next, Ended, FlagsInv, vars
<1> QED
  BY <1>1, <1>2 DEF FlagsInv

LEMMA FlagsInit == Init => FlagsInv
BY DEF Init, FlagsInv, FlagsOK, NewExecutor, Finished

-----------------------------------------------------------------------------
(* Executors that were not created yet *)

NewInv == \A s \in Scripts : status[s] = "unborn" => os[s] = NewOsModule /\ ex[s] = NewExecutor

\* A step writes to executors that exist, or exist after it.
OnlyBorn ==
  \A s \in Scripts : status'[s] = "unborn" =>
    status[s] = "unborn" /\ os'[s] = os[s] /\ ex'[s] = ex[s]

LEMMA SameBorn ==
  ASSUME UNCHANGED <<status, os, ex>>
  PROVE  OnlyBorn
BY DEF OnlyBorn

LEMMA InstructionBorn ==
  ASSUME SchedulerInv, FlagsInv, NEW s \in Scripts, Instruction(s)
  PROVE  OnlyBorn
<1> USE DEF Fetch, Fetches
<1>0. /\ TypeOK /\ os \in [Scripts -> OsModule] /\ ex \in [Scripts -> Executor]
      /\ status \in [Scripts -> {"unborn", "live", "deleted"}]
      /\ status[s] = "live"
  <2>1. TypeOK /\ current = s
    BY DEF SchedulerInv, Instruction, Compute, Exit, Fail, SleepFor, wait_for_event, WaitForClient,
           SendEvent, KillScript, StartScript, RunScript, clear_event_queue, RunScriptReturn,
           set_critical, set_priority, set_event_queue_size, DebugStop, ExecuteDone, Executes
  <2> QED
    BY <2>1 DEF SchedulerInv, ListInv, InOneList, TypeOK
<1>1. /\ Traced(s) \in [Scripts -> Executor]
      /\ \A t \in Scripts \ {s} : Traced(s)[t] = ex[t]
  BY <1>0, TracedFlags DEF FlagsInv
<1> HIDE DEF Traced
<1>2. CASE Compute(s) \/ Exit(s) \/ Fail(s) \/ DebugStop(s) \/ ExecuteDone(s)
  BY <1>0, <1>1, <1>2 DEF Compute, Exit, Fail, DebugStop, ExecuteDone, OnlyBorn, SetError, execVars
<1>3. CASE \/ \E n \in SleepTicks : SleepFor(s, n) \/ wait_for_event(s, n)
           \/ WaitForClient(s)
  BY <1>0, <1>1, <1>3 DEF SleepFor, wait_for_event, WaitForClient, OnlyBorn, Block
<1>4. CASE \/ \E crit \in BOOLEAN : set_critical(s, crit)
           \/ \E n \in Priorities : set_priority(s, n)
           \/ \E n \in QueueSizes : set_event_queue_size(s, n)
           \/ \E t \in Scripts : StartScript(s, t)
  BY <1>0, <1>1, <1>4 DEF set_critical, set_priority, set_event_queue_size, StartScript, Enlist, OnlyBorn
<1>5. ASSUME NEW t \in Scripts, SendEvent(s, t)
      PROVE  OnlyBorn
  BY <1>0, <1>1, <1>5 DEF SendEvent, signal_event, OnlyBorn, Unblock
<1>6. ASSUME NEW t \in Scripts, KillScript(s, t)
      PROVE  OnlyBorn
  BY <1>0, <1>1, <1>6 DEF KillScript, OnlyBorn, Unblock, SetError
<1>7. ASSUME NEW t \in Scripts, RunScript(s, t)
      PROVE  OnlyBorn
  BY <1>0, <1>1, <1>7 DEF RunScript, OnlyBorn, Block, Enlist
<1>8. CASE \E t \in Scripts : clear_event_queue(s, t)
  <2>1. PICK t \in Scripts : Live(t) /\ UNCHANGED status /\ ex' = Traced(s)
                             /\ os' = [os EXCEPT ![t].events = <<>>]
    BY <1>8 DEF clear_event_queue
  <2> QED
    BY <1>0, <1>1, <2>1 DEF OnlyBorn
<1>9. CASE RunScriptReturn(s)
  <2>1. UNCHANGED <<status, os>>
    BY <1>9 DEF RunScriptReturn
  <2>2. CASE UNCHANGED ex
    BY <2>1, <2>2, SameBorn
  <2>3. CASE Live(ex[s].pChild) /\ ex' = [Traced(s) EXCEPT ![ex[s].pChild].pParent = NoScript,
                                                           ![s].pChild = NoScript]
    BY <1>0, <1>1, <2>1, <2>3 DEF OnlyBorn
  <2> QED
    BY <1>9, <2>2, <2>3 DEF RunScriptReturn
<1> QED
  BY <1>2, <1>3, <1>4, <1>5, <1>6, <1>7, <1>8, <1>9 DEF Instruction

LEMMA OtherBorn ==
  ASSUME SchedulerInv, FlagsInv, [Next]_vars, ~\E s \in Scripts : Instruction(s)
  PROVE  OnlyBorn
<1>0. /\ TypeOK /\ os \in [Scripts -> OsModule] /\ ex \in [Scripts -> Executor]
      /\ status \in [Scripts -> {"unborn", "live", "deleted"}]
  BY DEF SchedulerInv, TypeOK
<1>1. CASE BeginPass \/ BeginTurn \/ EmptyRunlist \/ EndPass \/ EndCheck \/ Clock \/ UNCHANGED vars
  BY <1>1, SameBorn DEF BeginPass, BeginTurn, EmptyRunlist, EndPass, EndCheck, Clock, Tick, execVars, vars
<1>2. CASE WakeDue
  BY <1>0, <1>2 DEF WakeDue, OnlyBorn, Unblock
<1>3. CASE Stop
  BY <1>0, <1>3 DEF Stop, Shutdown, OnlyBorn, execVars
<1>4. ASSUME NEW s \in Scripts, EndTurn(s)
      PROVE  OnlyBorn
  <2>1. CASE ReturnToParent(s)
    BY <1>0, <2>1 DEF ReturnToParent, OnlyBorn, Unblock
  <2>2. CASE DeleteFinished(s)
    BY <1>0, <2>2 DEF DeleteFinished, OnlyBorn
  <2>3. CASE ReturnToDeleted(s) \/ MarkForDebugger(s) \/ HoldForDebugger(s) \/ HoldBlocked(s) \/ Requeue(s)
    BY <2>3, SameBorn DEF ReturnToDeleted, MarkForDebugger, HoldForDebugger, HoldBlocked, Requeue, execVars
  <2> QED
    BY <1>4, <2>1, <2>2, <2>3 DEF EndTurn
<1>5. CASE OtherThreads
  <2>1. PICK s \in Scripts : \/ ExternalStart(s) \/ ExternalEvent(s) \/ ExternalKill(s)
                            \/ ClientReply(s)
    BY <1>5 DEF OtherThreads
  <2>2. CASE ExternalStart(s)
    BY <1>0, <2>2 DEF ExternalStart, Enlist, OnlyBorn, execVars
  <2>3. CASE ExternalEvent(s)
    BY <1>0, <2>3 DEF ExternalEvent, signal_event, OnlyBorn, Unblock
  <2>4. CASE ExternalKill(s)
    BY <1>0, <2>4 DEF ExternalKill, OnlyBorn, Unblock, SetError
  <2>5. CASE ClientReply(s)
    BY <1>0, <2>5 DEF ClientReply, OnlyBorn, Unblock
  <2> QED
    BY <2>1, <2>2, <2>3, <2>4, <2>5
<1>6. CASE Debugger
  <2>1. CASE \E s \in Scripts : DebugStart(s)
    BY <1>0, <2>1 DEF DebugStart, Enlist, OnlyBorn, execVars
  <2>2. CASE \E s \in Scripts : cmd_attach(s) \/ cmd_kill(s)
    BY <1>0, <2>2 DEF cmd_attach, cmd_kill, SetError, OnlyBorn
  <2>3. CASE cmd_break
    BY <1>0, <2>3 DEF cmd_break, Attached, OnlyBorn
  <2>4. CASE DebugCheckDetach \/ DebugDetach \/ \E cmd \in {"INS_TRACE", "RUN"} : DebugCheckHeld(cmd)
    BY <2>4, SameBorn DEF DebugCheckDetach, DebugDetach, DebugCheckHeld, execVars
  <2>5. CASE DebugResume \/ DebugLetGo
    BY <1>0, <2>5 DEF DebugResume, DebugLetGo, ClearHalt, OnlyBorn, execVars
  <2> QED
    BY <1>6, <2>1, <2>2, <2>3, <2>4, <2>5 DEF Debugger, BeginCommand, FinishCommand
<1> QED
  BY <1>1, <1>2, <1>3, <1>4, <1>5, <1>6 DEF Next, Ended, ScriptsThread

LEMMA NewKept ==
  ASSUME SchedulerInv, FlagsInv, NewInv, [Next]_vars
  PROVE  NewInv'
<1>1. OnlyBorn
  BY InstructionBorn, OtherBorn
<1> QED
  BY <1>1 DEF OnlyBorn, NewInv, NewOsModule, NewExecutor

-----------------------------------------------------------------------------
(* What the place of a script says of it *)

\* What is in a timed hold list is blocked until the time it is filed under, what is in
\* the other is blocked for good, the debugger holds what it is attached to, and a script
\* in neither is blocked only before its turn has ended.
HoldOK(s) ==
  Live(s) =>
    /\ in_hold_list[s] = "TIMEOUT_LIST" =>
         /\ os[s].blocked /\ os[s].sleep_until # 0
         /\ [until |-> os[s].sleep_until, script |-> s] \in holdlist
    /\ in_hold_list[s] = "NOTIMEOUT_LIST" => os[s].blocked /\ os[s].sleep_until = 0
    /\ in_hold_list[s] = "DEBUGGER_LIST" => ~os[s].blocked /\ ex[s].debug_state # "NONE"
    /\ in_hold_list[s] = "NO_LIST" /\ os[s].blocked => s = current /\ ~Finished(s)

\* When detach_debugger() comes, the debugger's list does not have the script.
DetachOK == dbg.cmd = "detached" => Live(dbg.script) /\ in_hold_list[dbg.script] # "DEBUGGER_LIST"

HoldsInv ==
  /\ SchedulerInv /\ FlagsInv /\ NewInv /\ DetachOK
  /\ \A s \in Scripts : HoldOK(s)

SamePlace(s) ==
  /\ UNCHANGED <<in_hold_list[s]>>
  /\ \A h \in holdlist : h.script = s => h \in holdlist'

\* The step does nothing that HoldOK(s) looks at.
SameHold(s) ==
  /\ SamePlace(s)
  /\ Live(s)' => Live(s)
  /\ UNCHANGED <<os[s].blocked, os[s].sleep_until>>
  /\ ex[s].debug_state # "NONE" => ex'[s].debug_state # "NONE"
  /\ current = s /\ os[s].blocked => current' = s /\ (~Finished(s) => ~Finished(s)')

LEMMA SameHoldKeeps ==
  ASSUME NEW s \in Scripts, HoldOK(s), SameHold(s)
  PROVE  HoldOK(s)'
BY DEF HoldOK, SameHold, SamePlace

\* s is unblocked and leaves the list it is in, or keeps both.
Frees(s) ==
  /\ \A t \in Scripts \ {s} : SamePlace(t) /\ os'[t] = os[t]
  /\ \/ /\ ~os'[s].blocked
        /\ in_hold_list'[s] \in {"NO_LIST", "DEBUGGER_LIST"}
        /\ in_hold_list'[s] = "DEBUGGER_LIST" => in_hold_list[s] = "DEBUGGER_LIST"
     \/ /\ SamePlace(s)
        /\ UNCHANGED <<os[s].blocked, os[s].sleep_until>>

LEMMA ReviveFrees ==
  ASSUME TypeOK, NEW s \in Scripts, ReviveLists(s) \/ ReviveKilled(s),
         ~os'[s].blocked, \A t \in Scripts \ {s} : os'[t] = os[t]
  PROVE  Frees(s)
<1>1. in_hold_list \in [Scripts -> HoldLists]
  BY DEF TypeOK
<1>2. /\ \A t \in Scripts \ {s} : SamePlace(t)
      /\ in_hold_list'[s] \in {"NO_LIST", "DEBUGGER_LIST"}
      /\ in_hold_list'[s] = "DEBUGGER_LIST" => in_hold_list[s] = "DEBUGGER_LIST"
  <2>1. CASE ReviveLists(s)
    BY <1>1, <2>1 DEF ReviveLists, SamePlace, holdVars
  <2>2. CASE ReviveDebugged(s)
    BY <1>1, <2>2 DEF ReviveDebugged, SamePlace
  <2> QED
    BY <2>1, <2>2 DEF ReviveKilled
<1> QED
  BY <1>2 DEF Frees

LEMMA UnblockFrees ==
  ASSUME TypeOK, NEW s \in Scripts, ReviveLists(s) \/ ReviveKilled(s), os' = Unblock(s)
  PROVE  Frees(s)
<1>1. ~os'[s].blocked /\ \A t \in Scripts \ {s} : os'[t] = os[t]
  BY DEF Unblock, TypeOK, OsModule
<1> QED
  BY <1>1, ReviveFrees

LEMMA SignalFrees ==
  ASSUME TypeOK, NEW s \in Scripts, signal_event(s)
  PROVE  Frees(s)
<1>0. os \in [Scripts -> OsModule]
  BY DEF TypeOK
<1> HIDE DEF NextEvent
<1>1. CASE ReviveLists(s) /\ os' = [Unblock(s) EXCEPT ![s].last_event = NextEvent]
  <2>1. ~os'[s].blocked /\ \A t \in Scripts \ {s} : os'[t] = os[t]
    BY <1>0, <1>1 DEF Unblock, OsModule
  <2> QED
    BY <1>1, <2>1, ReviveFrees
<1>2. CASE /\ UNCHANGED listVars
           /\ \/ os' = [os EXCEPT ![s].events = Append(@, NextEvent)]
              \/ os' = [os EXCEPT ![s].events = Append(Tail(@), NextEvent)]
              \/ UNCHANGED os
  <2>1. /\ \A t \in Scripts \ {s} : os'[t] = os[t]
        /\ UNCHANGED <<os[s].blocked, os[s].sleep_until>>
    BY <1>0, <1>2 DEF OsModule
  <2> QED
    BY <1>2, <2>1 DEF Frees, SamePlace, listVars, holdVars
<1> QED
  BY <1>1, <1>2 DEF signal_event

\* The current script is not blocked, or there is none: what a step frees stays in order.
LEMMA FreesKeeps ==
  ASSUME TypeOK, \A t \in Scripts : HoldOK(t), NEW s \in Scripts, Frees(s), UNCHANGED status,
         current \in Scripts => ~os[current].blocked,
         \A t \in Scripts : ex[t].debug_state # "NONE" => ex'[t].debug_state # "NONE"
  PROVE  \A t \in Scripts : HoldOK(t)'
<1>1. ASSUME NEW t \in Scripts, SamePlace(t), UNCHANGED <<os[t].blocked, os[t].sleep_until>>
      PROVE  HoldOK(t)'
  <2>1. SameHold(t)
    BY <1>1 DEF SameHold
  <2> QED
    BY <2>1, SameHoldKeeps
<1>2. \A t \in Scripts \ {s} : HoldOK(t)'
  BY <1>1 DEF Frees
<1>3. CASE /\ ~os'[s].blocked
           /\ in_hold_list'[s] \in {"NO_LIST", "DEBUGGER_LIST"}
           /\ in_hold_list'[s] = "DEBUGGER_LIST" => in_hold_list[s] = "DEBUGGER_LIST"
  BY <1>2, <1>3 DEF HoldOK
<1> QED
  BY <1>1, <1>2, <1>3 DEF Frees

\* An instruction of s that leaves the lists alone, and at most blocks s itself.
LEMMA RunsOn ==
  ASSUME HoldsInv, NEW s \in Scripts, Executes(s), UNCHANGED <<status, current, listVars>>,
         \A t \in Scripts \ {s} : /\ UNCHANGED <<os[t].blocked, os[t].sleep_until>>
                                  /\ ex'[t].debug_state = ex[t].debug_state,
         os'[s].blocked => ~Finished(s)'
  PROVE  \A t \in Scripts : HoldOK(t)'
<1>1. current = s /\ in_hold_list[s] = "NO_LIST" /\ UNCHANGED <<in_hold_list, holdlist>>
  BY DEF HoldsInv, SchedulerInv, ListInv, InOneList, Executes, listVars, holdVars
<1>2. \A t \in Scripts \ {s} : SameHold(t)
  BY <1>1 DEF SameHold, SamePlace
<1>3. HoldOK(s)'
  BY <1>1 DEF HoldOK
<1> QED
  BY <1>2, <1>3, SameHoldKeeps DEF HoldsInv

\* ...or adds a new executor to runlist.
LEMMA RunsNew ==
  ASSUME HoldsInv, NEW s \in Scripts, Executes(s), NEW t \in Scripts, Enlist(t), UNCHANGED current,
         \A u \in Scripts \ {s} : os'[u] = os[u] /\ ex'[u].debug_state = ex[u].debug_state,
         os'[s].blocked => ~Finished(s)'
  PROVE  \A u \in Scripts : HoldOK(u)'
<1>1. /\ current = s /\ in_hold_list[s] = "NO_LIST" /\ UNCHANGED <<in_hold_list, holdlist>>
      /\ status[t] = "unborn" /\ s # t /\ in_hold_list[t] = "NO_LIST" /\ ~os[t].blocked
      /\ \A u \in Scripts \ {t} : status'[u] = status[u]
  BY DEF HoldsInv, SchedulerInv, ListInv, InOneList, Executes, Enlist, holdVars, UnbornInNoList,
         NewInv, NewOsModule, TypeOK
<1>2. \A u \in Scripts \ {s, t} : SameHold(u)
  BY <1>1 DEF SameHold, SamePlace
<1>3. HoldOK(s)' /\ HoldOK(t)'
  BY <1>1 DEF HoldOK
<1> QED
  BY <1>2, <1>3, SameHoldKeeps DEF HoldsInv

\* A new executor is in no list and not blocked.
LEMMA NewHolds ==
  ASSUME HoldsInv, NEW s \in Scripts, Enlist(s), UNCHANGED <<os, ex, current>>
  PROVE  \A t \in Scripts : HoldOK(t)'
<1>1. /\ UNCHANGED <<in_hold_list, holdlist>>
      /\ in_hold_list[s] = "NO_LIST" /\ ~os[s].blocked
      /\ \A t \in Scripts \ {s} : status'[t] = status[t]
  BY DEF HoldsInv, SchedulerInv, ListInv, Enlist, holdVars, UnbornInNoList, NewInv, NewOsModule, TypeOK
<1>2. \A t \in Scripts \ {s} : SameHold(t)
  BY <1>1 DEF SameHold, SamePlace, Finished
<1>3. HoldOK(s)'
  BY <1>1 DEF HoldOK
<1> QED
  BY <1>2, <1>3, SameHoldKeeps DEF HoldsInv

LEMMA InstructionHolds ==
  ASSUME HoldsInv, NEW s \in Scripts, Instruction(s)
  PROVE  \A t \in Scripts : HoldOK(t)'
<1> USE DEF Fetch, Fetches
<1>0. /\ TypeOK /\ os \in [Scripts -> OsModule] /\ ex \in [Scripts -> Executor]
      /\ \A t \in Scripts : FlagsOK(t)
  BY DEF HoldsInv, FlagsInv, SchedulerInv, TypeOK
<1>a. /\ Executes(s) /\ UNCHANGED current
      /\ ~os[s].blocked /\ ~ex[s].error /\ current = s
  <2>1. Executes(s) /\ UNCHANGED current
    BY DEF Instruction, Compute, Exit, Fail, SleepFor, wait_for_event, WaitForClient,
           SendEvent, KillScript, StartScript, RunScript, clear_event_queue, RunScriptReturn,
           set_critical, set_priority, set_event_queue_size, DebugStop, ExecuteDone, turnVars
  <2> QED
    BY <1>0, <2>1 DEF Executes, FlagsOK
<1>1. /\ Traced(s) \in [Scripts -> Executor]
      /\ \A t \in Scripts \ {s} : Traced(s)[t] = ex[t]
      /\ Traced(s)[s].error = ex[s].error /\ Traced(s)[s].done = ex[s].done
      /\ \A t \in Scripts : ex[t].debug_state # "NONE" => Traced(s)[t].debug_state # "NONE"
  BY <1>0, TracedFlags
<1> HIDE DEF Traced
<1>2. CASE Compute(s) \/ Exit(s) \/ Fail(s) \/ DebugStop(s) \/ ExecuteDone(s)
  <2>1. /\ UNCHANGED <<status, listVars, os>>
        /\ \A t \in Scripts \ {s} : ex'[t] = ex[t]
    BY <1>0, <1>1, <1>2 DEF Compute, Exit, Fail, DebugStop, ExecuteDone, SetError, execVars
  <2> QED
    BY <1>a, <2>1, RunsOn
<1>3. CASE \/ \E n \in SleepTicks : SleepFor(s, n) \/ wait_for_event(s, n)
           \/ WaitForClient(s)
           \/ \E crit \in BOOLEAN : set_critical(s, crit)
           \/ \E n \in Priorities : set_priority(s, n)
           \/ \E n \in QueueSizes : set_event_queue_size(s, n)
  <2>1. /\ UNCHANGED <<status, listVars>> /\ ex' = Traced(s) /\ ~ex[s].done
        /\ \A t \in Scripts \ {s} : os'[t] = os[t]
    BY <1>0, <1>1, <1>3 DEF SleepFor, wait_for_event, WaitForClient, Block, set_critical,
                            set_priority, set_event_queue_size
  <2>2. ~Finished(s)'
    BY <1>a, <1>1, <2>1 DEF Finished
  <2> QED
    BY <1>a, <1>1, <2>1, <2>2, RunsOn
<1>4. CASE \E t \in Scripts : clear_event_queue(s, t)
  <2>1. PICK t \in Scripts : /\ UNCHANGED <<status, listVars>> /\ ex' = Traced(s)
                             /\ os' = [os EXCEPT ![t].events = <<>>]
    BY <1>4 DEF clear_event_queue
  <2>2. \A u \in Scripts : UNCHANGED <<os[u].blocked, os[u].sleep_until>>
    BY <1>0, <2>1 DEF OsModule
  <2> QED
    BY <1>a, <1>1, <2>1, <2>2, RunsOn
<1>5. CASE RunScriptReturn(s)
  <2>1. UNCHANGED <<status, os, listVars>>
    BY <1>5 DEF RunScriptReturn
  <2>2. \A t \in Scripts \ {s} : ex'[t].debug_state = ex[t].debug_state
    <3> DEFINE c == ex[s].pChild
               x == Traced(s)
    <3>1. UNCHANGED ex \/ (c \in Scripts /\ ex' = [x EXCEPT ![c].pParent = NoScript, ![s].pChild = NoScript])
      BY <1>5 DEF RunScriptReturn
    <3> HIDE DEF c, x
    <3>2. x \in [Scripts -> Executor] /\ \A t \in Scripts \ {s} : x[t] = ex[t]
      BY <1>1 DEF x
    <3> QED
      BY <3>1, <3>2 DEF Executor
  <2> QED
    BY <1>a, <2>1, <2>2, RunsOn
<1>6. ASSUME NEW t \in Scripts, SendEvent(s, t)
      PROVE  \A u \in Scripts : HoldOK(u)'
  <2>1. Frees(t) /\ UNCHANGED status /\ ex' = Traced(s)
    BY <1>0, <1>6, SignalFrees DEF SendEvent
  <2> QED
    BY <1>0, <1>a, <1>1, <2>1, FreesKeeps DEF HoldsInv
<1>7. ASSUME NEW t \in Scripts, KillScript(s, t)
      PROVE  \A u \in Scripts : HoldOK(u)'
  <2>1. Frees(t) /\ UNCHANGED status /\ ex' = SetError(Traced(s), t)
    BY <1>0, <1>7, UnblockFrees DEF KillScript
  <2>2. \A u \in Scripts : ex'[u].debug_state = Traced(s)[u].debug_state
    BY <1>1, <2>1 DEF SetError, Executor
  <2> QED
    BY <1>0, <1>a, <1>1, <2>1, <2>2, FreesKeeps DEF HoldsInv
<1>8. ASSUME NEW t \in Scripts, StartScript(s, t)
      PROVE  \A u \in Scripts : HoldOK(u)'
  <2>1. Enlist(t) /\ ex' = Traced(s) /\ UNCHANGED os
    BY <1>8 DEF StartScript
  <2> QED
    BY <1>a, <1>1, <2>1, RunsNew
<1>9. ASSUME NEW t \in Scripts, RunScript(s, t)
      PROVE  \A u \in Scripts : HoldOK(u)'
  <2> DEFINE x == Traced(s)
  <2>1. Enlist(t) /\ os' = Block(s, "WAIT_SLEEP", 0) /\ ~ex[s].done
        /\ ex' = [x EXCEPT ![s].pChild = t, ![t].pParent = s]
    BY <1>9 DEF RunScript
  <2>2. \A u \in Scripts \ {s} : os'[u] = os[u]
    BY <1>0, <2>1 DEF Block
  <2>3. x \in [Scripts -> Executor]
    BY <1>1
  <2>4. x[s].error = ex[s].error /\ x[s].done = ex[s].done /\ \A u \in Scripts \ {s} : x[u] = ex[u]
    BY <1>1
  <2> HIDE DEF x
  <2>5. \A u \in Scripts : /\ ex'[u].debug_state = x[u].debug_state
                           /\ ex'[u].error = x[u].error /\ ex'[u].done = x[u].done
    BY <2>1, <2>3 DEF Executor
  <2>6. ~Finished(s)'
    BY <1>a, <2>1, <2>4, <2>5 DEF Finished
  <2>7. \A u \in Scripts \ {s} : ex'[u].debug_state = ex[u].debug_state
    BY <2>4, <2>5
  <2> QED
    BY <1>a, <2>1, <2>2, <2>6, <2>7, RunsNew
<1> QED
  BY <1>2, <1>3, <1>4, <1>5, <1>6, <1>7, <1>8, <1>9 DEF Instruction

LEMMA EndTurnHolds ==
  ASSUME HoldsInv, NEW s \in Scripts, EndTurn(s)
  PROVE  \A t \in Scripts : HoldOK(t)'
<1>0. /\ TypeOK /\ os \in [Scripts -> OsModule] /\ ex \in [Scripts -> Executor]
      /\ in_hold_list \in [Scripts -> HoldLists] /\ NoScript \notin Scripts
      /\ status \in [Scripts -> {"unborn", "live", "deleted"}]
  BY SchedulerAssumption DEF SchedulerAssumption, HoldsInv, SchedulerInv, TypeOK
<1>1. /\ current = s /\ Live(s)
      /\ in_hold_list[s] = IF phase = "hold" THEN "DEBUGGER_LIST" ELSE "NO_LIST"
  <2>1. current = s
    BY DEF EndTurn, ReturnToParent, DeleteFinished, ReturnToDeleted, MarkForDebugger, HoldForDebugger, HoldBlocked,
           Requeue, TurnOver
  <2> QED
    BY <2>1 DEF HoldsInv, SchedulerInv, ListInv, InOneList, EndTurn, ReturnToParent, DeleteFinished,
                ReturnToDeleted, MarkForDebugger, HoldForDebugger, HoldBlocked, Requeue, TurnOver
<1>2. \A t \in Scripts : HoldOK(t) /\ FlagsOK(t)
  BY DEF HoldsInv, FlagsInv
<1>3. CASE ReturnToParent(s)
  <2>1. /\ ex[s].pParent \in Scripts /\ os' = Unblock(ex[s].pParent)
        /\ ReviveLists(ex[s].pParent) /\ UNCHANGED <<status, ex>> /\ Finished(s)
    BY <1>3 DEF ReturnToParent
  <2>2. ~os[s].blocked
    BY <1>1, <1>2, <2>1 DEF HoldOK
  <2> QED
    BY <1>0, <1>1, <1>2, <2>1, <2>2, UnblockFrees, FreesKeeps
<1>4. CASE DeleteFinished(s)
  <2>1. /\ status'[s] = "deleted"
        /\ \A t \in Scripts \ {s} : status'[t] = status[t] /\ os'[t] = os[t] /\ ex'[t] = ex[t]
        /\ UNCHANGED <<in_hold_list, holdlist>>
    BY <1>0, <1>4 DEF DeleteFinished, listVars, holdVars
  <2>2. \A t \in Scripts \ {s} : SameHold(t)
    BY <1>1, <2>1 DEF SameHold, SamePlace
  <2> QED
    BY <1>2, <2>1, <2>2, SameHoldKeeps DEF HoldOK
<1>5. CASE ReturnToDeleted(s)
  <2>1. \A t \in Scripts : SameHold(t)
    BY <1>5 DEF ReturnToDeleted, turnVars, SameHold, SamePlace, Finished, listVars, holdVars, execVars
  <2> QED
    BY <1>2, <2>1, SameHoldKeeps
<1>6. CASE MarkForDebugger(s)
  <2>1. /\ UNCHANGED <<status, os, ex, holdlist>>
        /\ in_hold_list' = [in_hold_list EXCEPT ![s] = "DEBUGGER_LIST"]
        /\ ~os[s].blocked /\ ex[s].debug_state # "NONE"
    BY <1>2, <1>6 DEF MarkForDebugger, execVars, FlagsOK
  <2>2. \A t \in Scripts \ {s} : SameHold(t)
    BY <1>0, <1>1, <2>1 DEF SameHold, SamePlace
  <2>3. HoldOK(s)'
    BY <1>0, <2>1 DEF HoldOK
  <2> QED
    BY <1>2, <2>2, <2>3, SameHoldKeeps
<1>9. CASE HoldForDebugger(s)
  <2>1. UNCHANGED <<status, os, ex, in_hold_list, holdlist>> /\ ~os[s].blocked
    BY <1>1, <1>2, <1>9 DEF HoldForDebugger, HoldOK, execVars
  <2>2. \A t \in Scripts : SameHold(t)
    BY <1>1, <2>1 DEF SameHold, SamePlace
  <2> QED
    BY <1>2, <2>2, SameHoldKeeps
<1>7. CASE HoldBlocked(s)
  <2>1. /\ UNCHANGED <<status, os, ex>> /\ os[s].blocked
        /\ \A t \in Scripts \ {s} : in_hold_list'[t] = in_hold_list[t]
        /\ holdlist \subseteq holdlist'
    BY <1>0, <1>7 DEF HoldBlocked, execVars
  <2>2. \A t \in Scripts \ {s} : SameHold(t)
    BY <1>1, <2>1 DEF SameHold, SamePlace
  <2>3. HoldOK(s)'
    BY <1>0, <1>7, <2>1 DEF HoldBlocked, HoldOK
  <2> QED
    BY <1>2, <2>2, <2>3, SameHoldKeeps
<1>8. CASE Requeue(s)
  <2>1. UNCHANGED <<status, os, ex, in_hold_list, holdlist>> /\ ~os[s].blocked
    BY <1>8 DEF Requeue, execVars, holdVars
  <2>2. \A t \in Scripts : SameHold(t)
    BY <1>1, <2>1 DEF SameHold, SamePlace
  <2> QED
    BY <1>2, <2>2, SameHoldKeeps
<1> QED
  BY <1>3, <1>4, <1>5, <1>6, <1>7, <1>8, <1>9 DEF EndTurn

\* Outside a turn the current script, which there is none, is not blocked.
LEMMA OtherHolds ==
  ASSUME HoldsInv, OtherThreads \/ WakeDue
  PROVE  \A t \in Scripts : HoldOK(t)'
<1>0. /\ TypeOK /\ os \in [Scripts -> OsModule] /\ ex \in [Scripts -> Executor]
      /\ NoScript \notin Scripts
      /\ \A t \in Scripts : HoldOK(t)
  BY SchedulerAssumption DEF SchedulerAssumption, HoldsInv, SchedulerInv, TypeOK
<1>1. current = NoScript
  BY DEF HoldsInv, SchedulerInv, ListInv, NoneLost, InPass, OtherThreads, ExternalStart, ExternalEvent,
         ExternalKill, ClientReply, Unlocked, WakeDue
<1>2. CASE WakeDue
  <2>1. PICK h \in holdlist :
          \/ os' = Unblock(h.script) /\ ReviveLists(h.script)
          \/ UNCHANGED <<os, holdVars>>
    BY <1>2 DEF WakeDue
  <2>2. h.script \in Scripts /\ UNCHANGED <<status, ex, current>>
    BY <1>0, <1>2 DEF WakeDue, TypeOK, turnVars
  <2>3. CASE os' = Unblock(h.script) /\ ReviveLists(h.script)
    BY <1>0, <1>1, <2>2, <2>3, UnblockFrees, FreesKeeps
  <2>4. CASE UNCHANGED <<os, holdVars>>
    <3>1. \A t \in Scripts : SameHold(t)
      BY <2>2, <2>4 DEF SameHold, SamePlace, holdVars, Finished
    <3> QED
      BY <1>0, <3>1, SameHoldKeeps
  <2> QED
    BY <2>1, <2>3, <2>4
<1>3. CASE OtherThreads
  <2>1. PICK s \in Scripts : \/ ExternalStart(s) \/ ExternalEvent(s) \/ ExternalKill(s)
                            \/ ClientReply(s)
    BY <1>3 DEF OtherThreads
  <2>2. CASE ExternalStart(s)
    <3>1. Enlist(s) /\ UNCHANGED <<os, ex, current>>
      BY <2>2 DEF ExternalStart, Unlocked, turnVars, execVars
    <3> QED
      BY <1>1, <3>1, NewHolds
  <2>3. CASE ExternalEvent(s)
    <3>1. Frees(s) /\ UNCHANGED <<status, ex>>
      BY <1>0, <2>3, SignalFrees DEF ExternalEvent
    <3> QED
      BY <1>0, <1>1, <3>1, FreesKeeps
  <2>4. CASE ExternalKill(s)
    <3>1. Frees(s) /\ UNCHANGED status /\ ex' = SetError(ex, s)
      BY <1>0, <2>4, UnblockFrees DEF ExternalKill
    <3>2. \A u \in Scripts : ex'[u].debug_state = ex[u].debug_state
      BY <1>0, <3>1 DEF SetError, Executor
    <3> QED
      BY <1>0, <1>1, <3>1, <3>2, FreesKeeps
  <2>5. CASE ClientReply(s)
    <3>1. /\ ReviveLists(s) /\ UNCHANGED <<status, ex>>
          /\ ~os'[s].blocked /\ \A t \in Scripts \ {s} : os'[t] = os[t]
      BY <1>0, <2>5 DEF ClientReply, Unblock, OsModule
    <3> QED
      BY <1>0, <1>1, <3>1, ReviveFrees, FreesKeeps
  <2> QED
    BY <2>1, <2>2, <2>3, <2>4, <2>5
<1> QED
  BY <1>2, <1>3

\* The debugger's commands run while the current script, which debugs, is not blocked.
LEMMA DebuggerHolds ==
  ASSUME HoldsInv, ~UnlockedDebugger, Debugger
  PROVE  \A t \in Scripts : HoldOK(t)'
<1>0. /\ TypeOK /\ os \in [Scripts -> OsModule] /\ ex \in [Scripts -> Executor]
      /\ in_hold_list \in [Scripts -> HoldLists]
      /\ \A t \in Scripts : HoldOK(t)
  BY DEF HoldsInv, SchedulerInv, TypeOK
<1>1. CASE BeginCommand
  <2>0. UNCHANGED current /\ (current \in Scripts => ~os[current].blocked)
    BY <1>1 DEF BeginCommand, DebugStart, cmd_attach, cmd_kill, cmd_break, DebugCheckHeld,
                DebugCheckDetach, Commands, Executes
  <2>1. ASSUME NEW s \in Scripts, DebugStart(s)
        PROVE  \A t \in Scripts : HoldOK(t)'
    BY <2>0, <2>1, NewHolds DEF DebugStart, execVars
  <2>2. ASSUME UNCHANGED <<status, os, listVars>>,
               \A t \in Scripts : ex[t].debug_state # "NONE" => ex'[t].debug_state # "NONE"
        PROVE  \A t \in Scripts : HoldOK(t)'
    <3>1. \A t \in Scripts : SameHold(t)
      BY <2>0, <2>2 DEF SameHold, SamePlace, listVars, holdVars
    <3> QED
      BY <1>0, <3>1, SameHoldKeeps
  <2>3. CASE \E s \in Scripts : cmd_attach(s) \/ cmd_kill(s)
    <3>1. UNCHANGED <<status, os, listVars>>
      BY <2>3 DEF cmd_attach, cmd_kill
    <3>2. \A t \in Scripts : ex[t].debug_state # "NONE" => ex'[t].debug_state # "NONE"
      BY <1>0, <2>3 DEF cmd_attach, cmd_kill, SetError, Executor
    <3> QED
      BY <2>2, <3>1, <3>2
  <2>4. CASE cmd_break
    BY <1>0, <2>2, <2>4 DEF cmd_break, Attached, Executor
  <2>5. CASE DebugCheckDetach \/ \E cmd \in {"INS_TRACE", "RUN"} : DebugCheckHeld(cmd)
    BY <2>2, <2>5 DEF DebugCheckDetach, DebugCheckHeld, execVars
  <2> QED
    BY <1>1, <2>1, <2>3, <2>4, <2>5 DEF BeginCommand
<1>2. CASE FinishCommand
  <2>0. UNCHANGED <<current, status>>
    BY <1>2 DEF FinishCommand, DebugResume, DebugDetach, DebugLetGo, turnVars
  <2>a. PICK s \in Scripts : s = dbg.script
    BY <1>2 DEF FinishCommand, DebugResume, DebugDetach, DebugLetGo, HoldsInv, SchedulerInv,
                HeldMeanwhile, DetachOK
  <2>1. /\ dbg.cmd \in {"INS_TRACE", "RUN", "detach"} => Live(s) /\ in_hold_list[s] = "DEBUGGER_LIST"
        /\ dbg.cmd = "detached" => Live(s) /\ in_hold_list[s] # "DEBUGGER_LIST"
    BY <2>a DEF HoldsInv, SchedulerInv, HeldMeanwhile, DetachOK
  <2>2. CASE DebugResume \/ DebugDetach
    <3>1. /\ Live(s) /\ in_hold_list[s] = "DEBUGGER_LIST" /\ ReviveDebugged(s) /\ UNCHANGED os
          /\ ex' = ex \/ ex' = [ClearHalt(ex, s) EXCEPT ![s].debug_state = dbg.cmd]
      BY <2>a, <2>1, <2>2 DEF DebugResume, DebugDetach, execVars
    <3>2. \A t \in Scripts \ {s} : ex'[t] = ex[t]
      BY <1>0, <3>1 DEF ClearHalt
    <3>3. /\ \A t \in Scripts \ {s} : in_hold_list'[t] = in_hold_list[t]
          /\ in_hold_list'[s] = "NO_LIST" /\ UNCHANGED holdlist
      BY <1>0, <3>1 DEF ReviveDebugged
    <3>4. \A t \in Scripts \ {s} : SameHold(t)
      BY <2>0, <3>1, <3>2, <3>3 DEF SameHold, SamePlace, Finished
    <3>5. HoldOK(s)'
      BY <1>0, <3>1, <3>3 DEF HoldOK
    <3> QED
      BY <1>0, <3>4, <3>5, SameHoldKeeps
  <2>3. CASE DebugLetGo
    <3>1. /\ Live(s) /\ in_hold_list[s] # "DEBUGGER_LIST" /\ UNCHANGED <<os, in_hold_list, holdlist>>
          /\ ex' = [ClearHalt(ex, s) EXCEPT ![s].debug_state = "NONE"]
      BY <2>a, <2>1, <2>3 DEF DebugLetGo, listVars, holdVars
    <3>2. /\ \A t \in Scripts \ {s} : ex'[t] = ex[t]
          /\ Finished(s)' = Finished(s)
      BY <1>0, <3>1 DEF ClearHalt, Finished, Executor
    <3>3. \A t \in Scripts \ {s} : SameHold(t)
      BY <2>0, <3>1, <3>2 DEF SameHold, SamePlace, Finished
    <3>4. HoldOK(s)'
      BY <1>0, <2>0, <3>1, <3>2 DEF HoldOK
    <3> QED
      BY <1>0, <3>3, <3>4, SameHoldKeeps
  <2> QED
    BY <1>2, <2>2, <2>3 DEF FinishCommand
<1> QED
  BY <1>1, <1>2 DEF Debugger

LEMMA DetachKept ==
  ASSUME HoldsInv, ~UnlockedDebugger, [Next]_vars
  PROVE  DetachOK'
<1>1. CASE UNCHANGED vars
  BY <1>1 DEF HoldsInv, DetachOK, vars
<1>2. CASE ScriptsThread \/ OtherThreads \/ Clock \/ Stop
  <2>1. dbg.cmd = "none"
    BY <1>2 DEF ScriptsThread, OtherThreads, Clock, Stop, Undisturbed
  <2> QED
    BY <1>2, <2>1, OthersLeaveDebugger DEF DetachOK
<1>3. CASE Debugger
  <2>0. /\ dbg \in [script : Scripts \cup {NoScript}, cmd : DebugCommands]
        /\ in_hold_list \in [Scripts -> HoldLists]
    BY DEF HoldsInv, SchedulerInv, TypeOK
  <2>1. ASSUME dbg'.cmd # "detached"
        PROVE  DetachOK'
    BY <2>1 DEF DetachOK
  <2>2. CASE \/ \E s \in Scripts : DebugStart(s) \/ cmd_attach(s) \/ cmd_kill(s)
             \/ cmd_break \/ \E cmd \in {"INS_TRACE", "RUN"} : DebugCheckHeld(cmd)
    BY <2>0, <2>1, <2>2 DEF DebugStart, cmd_attach, cmd_kill, cmd_break, DebugCheckHeld, Commands
  <2>3. CASE DebugCheckDetach
    BY <2>0, <2>3 DEF DebugCheckDetach, Attached, DetachOK, listVars, holdVars
  <2>4. CASE DebugResume \/ DebugLetGo
    BY <2>0, <2>1, <2>4 DEF DebugResume, DebugLetGo
  <2>5. CASE DebugDetach
    <3>1. Live(dbg.script) /\ ReviveDebugged(dbg.script) /\ dbg'.script = dbg.script /\ UNCHANGED status
      BY <2>0, <2>5 DEF DebugDetach, HoldsInv, SchedulerInv, HeldMeanwhile
    <3> QED
      BY <2>0, <3>1 DEF DetachOK, ReviveDebugged
  <2> QED
    BY <1>3, <2>2, <2>3, <2>4, <2>5 DEF Debugger, BeginCommand, FinishCommand
<1> QED
  BY <1>1, <1>2, <1>3 DEF Next, Ended

LEMMA NoneLeftHolds ==
  ASSUME SchedulerInv, NoneLost', Shutdown
  PROVE  \A s \in Scripts : ~Live(s)'
<1>1. Range(<<>>) = {} /\ current = NoScript /\ ranlist = <<>> /\ UNCHANGED <<current, ranlist>>
  BY DEF Range, SchedulerInv, ListInv, NoneLost, InPass, Shutdown
<1> QED
  BY <1>1, SchedulerAssumption DEF SchedulerAssumption, Shutdown, NoneLost, Queued

LEMMA HoldsKept ==
  ASSUME HoldsInv, ~UnlockedDebugger, [Next]_vars
  PROVE  \A s \in Scripts : HoldOK(s)'
<1>0. \A s \in Scripts : HoldOK(s)
  BY DEF HoldsInv
<1>1. CASE BeginPass \/ EmptyRunlist \/ EndPass \/ EndCheck \/ Clock \/ UNCHANGED vars
  <2>1. \A s \in Scripts : SameHold(s)
    BY <1>1 DEF BeginPass, EmptyRunlist, EndPass, EndCheck, Clock, Tick, SameHold, SamePlace, Finished,
                listVars, holdVars, execVars, turnVars, vars
  <2> QED
    BY <1>0, <2>1, SameHoldKeeps
<1>2. CASE BeginTurn
  <2>1. current = NoScript /\ NoScript \notin Scripts /\ UNCHANGED <<status, os, ex, in_hold_list, holdlist>>
    BY <1>2, SchedulerAssumption DEF SchedulerAssumption, BeginTurn, holdVars, execVars
  <2>2. \A s \in Scripts : SameHold(s)
    BY <2>1 DEF SameHold, SamePlace
  <2> QED
    BY <1>0, <2>2, SameHoldKeeps
<1>3. CASE Stop
  <2>1. ListInv'
    BY ListStep DEF HoldsInv
  <2> QED
    BY <1>3, <2>1, NoneLeftHolds DEF HoldsInv, Stop, ListInv, HoldOK
<1> QED
  BY <1>1, <1>2, <1>3, InstructionHolds, EndTurnHolds, OtherHolds, DebuggerHolds
  DEF Next, Ended, ScriptsThread

LEMMA HoldsInit == Init => HoldsInv
<1> SUFFICES ASSUME Init PROVE HoldsInv
  OBVIOUS
<1>1. SchedulerInv /\ FlagsInv
  BY TypeInit, ListInit, FlagsInit DEF SchedulerInv
<1>2. NewInv /\ DetachOK /\ \A s \in Scripts : HoldOK(s)
  BY DEF Init, NewInv, DetachOK, HoldOK
<1> QED
  BY <1>1, <1>2 DEF HoldsInv

LEMMA HoldsNext ==
  ASSUME HoldsInv, ~UnlockedDebugger, [Next]_vars
  PROVE  HoldsInv'
<1>1. SchedulerInv'
  BY TypeStep, ListStep, HeldMeanwhileStep DEF HoldsInv, SchedulerInv
<1>2. FlagsInv' /\ NewInv'
  BY FlagsKept, NewKept DEF HoldsInv, SchedulerInv
<1>3. DetachOK' /\ \A s \in Scripts : HoldOK(s)'
  BY DetachKept, HoldsKept
<1> QED
  BY <1>1, <1>2, <1>3 DEF HoldsInv

LEMMA HoldsInvariant ==
  ASSUME ~UnlockedDebugger
  PROVE  Spec => []HoldsInv
<1>1. Init => HoldsInv
  BY HoldsInit
<1>2. HoldsInv /\ [Next]_vars => HoldsInv'
  BY HoldsNext
<1> QED
  BY <1>1, <1>2, PTL DEF Spec

\* Under the lock, what check_blocked asserts of what it finds holds, and no script is
\* blocked where nothing would wake it or held for a debugger that has gone: whatever
\* blocks, wakes, answers, kills, halts or resumes it.
THEOREM HeldIsBlocked ==
  ASSUME ~UnlockedDebugger
  PROVE  Spec => []HeldAsBlocked
<1>1. HoldsInv => HeldAsBlocked
  <2> SUFFICES ASSUME HoldsInv PROVE HeldAsBlocked
    OBVIOUS
  <2>0. InOneList /\ (\A s \in Scripts : HoldOK(s) /\ FlagsOK(s)) /\ TypeOK
    BY DEF HoldsInv, SchedulerInv, ListInv, FlagsInv
  <2>1. ASSUME NEW h \in holdlist
        PROVE  os[h.script].blocked /\ os[h.script].sleep_until = h.until /\ h.until # 0
    <3>1. h.script \in Scripts /\ Live(h.script) /\ in_hold_list[h.script] = "TIMEOUT_LIST"
      BY <2>0 DEF InOneList, TypeOK
    <3> DEFINE g == [until |-> os[h.script].sleep_until, script |-> h.script]
    <3>2. g \in holdlist /\ g.script = h.script /\ os[h.script].blocked /\ g.until # 0
          /\ g.until = os[h.script].sleep_until
      BY <2>0, <3>1 DEF HoldOK
    <3>3. g = h
      BY <2>0, <3>2 DEF InOneList
    <3> QED
      BY <3>2, <3>3
  <2>2. \A s \in notimeoutholdlist : os[s].blocked /\ os[s].sleep_until = 0
    BY <2>0 DEF InOneList, HoldOK, TypeOK
  <2>3. ASSUME NEW s \in Scripts, Queued(s) \/ s \in debuggerholdlist
        PROVE  ~os[s].blocked
    BY <2>0, <2>3 DEF InOneList, HoldOK
  <2>4. \A s \in debuggerholdlist : ex[s].debug_state # "NONE"
    BY <2>0 DEF InOneList, HoldOK, TypeOK
  <2> QED
    BY <2>1, <2>2, <2>3, <2>4 DEF HeldAsBlocked
<1> QED
  BY <1>1, HoldsInvariant, PTL

-----------------------------------------------------------------------------
(* Parents and children *)

\* No kill and no debugger reaches a script that may run a child.
ParentsLeftAlone == \A s \in Scripts : "run" \in Program[s] => s \notin KillTargets \cup Debuggable

LinksOK(s) ==
  Live(s) =>
    /\ ex[s].pChild # NoScript => Live(ex[s].pChild) /\ ex[ex[s].pChild].pParent = s
    /\ ex[s].pParent # NoScript => Live(ex[s].pParent) /\ ex[ex[s].pParent].pChild = s

\* A script with a child has not ended, waits for no client and for nothing that would
\* wake it before the child has finished: no clock, no event.
RunOK(s) ==
  Live(s) /\ ex[s].pChild # NoScript =>
    /\ "run" \in Program[s] /\ ~Finished(s) /\ ~os[s].client
    /\ ~os[s].blocked => Finished(ex[s].pChild)
    /\ os[s].blocked => os[s].sleep_until = 0 /\ os[s].wait_type = "WAIT_SLEEP"

\* A script that may run a child, and waits for a client, is blocked until the answer.
ClientOK(s) ==
  Live(s) /\ "run" \in Program[s] /\ os[s].client =>
    os[s].blocked /\ os[s].sleep_until = 0 /\ os[s].wait_type = "WAIT_SLEEP"

FamilyInv ==
  /\ HoldsInv
  /\ \A s \in Scripts : LinksOK(s) /\ RunOK(s) /\ ClientOK(s)

\* An end is final until the executor is deleted.
EndsLast == \A s \in Scripts : Live(s)' /\ Finished(s) => Finished(s)'

LEMMA NextEnds ==
  ASSUME HoldsInv, [Next]_vars
  PROVE  EndsLast
<1>1. FlagsSteps /\ TypeOK /\ TypeOK'
  BY NextFlags, TypeStep DEF HoldsInv, SchedulerInv
<1>2. ASSUME NEW s \in Scripts, Live(s)', Finished(s)
      PROVE  Finished(s)'
  <2>1. FlagsStep(s) /\ ex[s] \in Executor /\ ex'[s] \in Executor
    BY <1>1 DEF FlagsSteps, TypeOK
  <2> QED
    BY <1>2, <2>1 DEF FlagsStep, Finished, Executor
<1> QED
  BY <1>2 DEF EndsLast

\* What a step may do to a script, seen from its family: nothing; or whatever it likes if
\* the script has no child and, may it run one, no client.
SameRun(s) ==
  /\ Live(s)' => Live(s)
  /\ ex'[s].pChild = ex[s].pChild
  /\ ex[s].pChild # NoScript => (Finished(s)' => Finished(s))
  /\ UNCHANGED <<os[s].blocked, os[s].sleep_until, os[s].wait_type, os[s].client>>

Loose(s) == ex'[s].pChild = NoScript /\ ("run" \in Program[s] => ~os'[s].client)

LEMMA SameRunKeeps ==
  ASSUME NEW s \in Scripts, RunOK(s), ClientOK(s), LinksOK(s)', EndsLast, SameRun(s) \/ Loose(s)
  PROVE  RunOK(s)' /\ ClientOK(s)'
<1>1. CASE Loose(s)
  BY <1>1 DEF Loose, RunOK, ClientOK
<1>2. CASE SameRun(s)
  <2>1. ASSUME Live(s)', ex'[s].pChild # NoScript
        PROVE  RunOK(s)'
    <3>1. PICK c \in Scripts : c = ex[s].pChild /\ c = ex'[s].pChild /\ status'[c] = "live"
      BY <1>2, <2>1 DEF SameRun, LinksOK
    <3>2. Finished(c) => Finished(c)'
      BY <3>1 DEF EndsLast
    <3>3. /\ "run" \in Program[s] /\ ~Finished(s) /\ ~os[s].client
          /\ ~os[s].blocked => Finished(c)
          /\ os[s].blocked => os[s].sleep_until = 0 /\ os[s].wait_type = "WAIT_SLEEP"
      BY <1>2, <2>1, <3>1 DEF SameRun, RunOK
    <3>4. /\ ~Finished(s)' /\ ~os'[s].client
          /\ ~os'[s].blocked => Finished(c)'
          /\ os'[s].blocked => os'[s].sleep_until = 0 /\ os'[s].wait_type = "WAIT_SLEEP"
      BY <1>2, <2>1, <3>2, <3>3 DEF SameRun
    <3> QED
      BY <3>1, <3>3, <3>4 DEF RunOK, Finished
  <2>3. RunOK(s)'
    BY <2>1 DEF RunOK
  <2>4. ClientOK(s)'
    BY <1>2 DEF SameRun, ClientOK
  <2> QED
    BY <2>3, <2>4
<1> QED
  BY <1>1, <1>2

\* No link changes, and a script that is new has none.
SameLinks ==
  /\ \A s \in Scripts : Live(s) => /\ Live(s)'
                                   /\ UNCHANGED <<ex[s].pChild, ex[s].pParent>>
  /\ \A s \in Scripts : Live(s)' /\ ~Live(s) =>
       ex'[s].pChild = NoScript /\ ex'[s].pParent = NoScript /\ ~os'[s].client

LEMMA SameLinksKeep ==
  ASSUME \A s \in Scripts : LinksOK(s), SameLinks
  PROVE  \A s \in Scripts : LinksOK(s)'
BY DEF LinksOK, SameLinks

FamilyOK == \A s \in Scripts : LinksOK(s) /\ RunOK(s) /\ ClientOK(s)

\* Most steps: the links stay, and each script is left alone or loose.
LEMMA SameFamily ==
  ASSUME FamilyInv, EndsLast, SameLinks, \A s \in Scripts : Live(s) => SameRun(s) \/ Loose(s)
  PROVE  FamilyOK'
<1>1. \A s \in Scripts : LinksOK(s)'
  BY SameLinksKeep DEF FamilyInv
<1>2. ASSUME NEW s \in Scripts
      PROVE  RunOK(s)' /\ ClientOK(s)'
  <2>1. CASE Live(s)
    BY <1>1, <2>1, SameRunKeeps DEF FamilyInv
  <2>2. CASE ~Live(s)
    BY <2>2 DEF SameLinks, RunOK, ClientOK
  <2> QED
    BY <2>1, <2>2
<1> QED
  BY <1>1, <1>2 DEF FamilyOK

\* A new executor has no family.
LEMMA EnlistLinks ==
  ASSUME HoldsInv, NEW s \in Scripts, Enlist(s), os'[s] = os[s], ex'[s] = ex[s],
         \A t \in Scripts : UNCHANGED <<ex[t].pChild, ex[t].pParent>>
  PROVE  SameLinks
<1>1. /\ \A t \in Scripts \ {s} : status'[t] = status[t]
      /\ os[s] = NewOsModule /\ ex[s] = NewExecutor
  BY DEF Enlist, HoldsInv, SchedulerInv, TypeOK, NewInv
<1>2. ex'[s].pChild = NoScript /\ ex'[s].pParent = NoScript /\ ~os'[s].client /\ ~Live(s)
  BY <1>1 DEF NewOsModule, NewExecutor, Enlist
<1>3. \A t \in Scripts \ {s} : Live(t)' <=> Live(t)
  BY <1>1
<1>4. \A t \in Scripts : Live(t) => Live(t)' /\ UNCHANGED <<ex[t].pChild, ex[t].pParent>>
  BY <1>2, <1>3
<1> QED
  BY <1>2, <1>3, <1>4 DEF SameLinks

\* An event reaches nobody who has a child: parents do not wait for events.
LEMMA SignalRuns ==
  ASSUME FamilyInv, NEW s \in Scripts, Live(s), signal_event(s)
  PROVE  /\ \A t \in Scripts \ {s} : os'[t] = os[t]
         /\ os'[s].client = os[s].client
         /\ \/ UNCHANGED <<os[s].blocked, os[s].sleep_until, os[s].wait_type, os[s].client>>
            \/ ex[s].pChild = NoScript /\ ("run" \in Program[s] => ~os'[s].client)
<1>0. os \in [Scripts -> OsModule]
  BY DEF FamilyInv, HoldsInv, SchedulerInv, TypeOK
<1> HIDE DEF NextEvent
<1>1. CASE Waiting(s) /\ os' = [Unblock(s) EXCEPT ![s].last_event = NextEvent]
  <2>1. ex[s].pChild = NoScript /\ ("run" \in Program[s] => ~os[s].client)
    BY <1>1 DEF Waiting, FamilyInv, RunOK, ClientOK
  <2>2. /\ \A t \in Scripts \ {s} : os'[t] = os[t]
        /\ os'[s].client = os[s].client
    BY <1>0, <1>1 DEF Unblock, OsModule
  <2> QED
    BY <2>1, <2>2
<1>2. CASE \/ os' = [os EXCEPT ![s].events = Append(@, NextEvent)]
           \/ os' = [os EXCEPT ![s].events = Append(Tail(@), NextEvent)]
           \/ UNCHANGED os
  BY <1>0, <1>2 DEF OsModule
<1> QED
  BY <1>1, <1>2 DEF signal_event

LEMMA UnblockRuns ==
  ASSUME TypeOK, NEW s \in Scripts, os' = Unblock(s)
  PROVE  /\ \A t \in Scripts \ {s} : os'[t] = os[t]
         /\ os'[s].client = os[s].client /\ ~os'[s].blocked
         /\ os'[s].sleep_until = os[s].sleep_until /\ os'[s].wait_type = os[s].wait_type
BY DEF Unblock, TypeOK, OsModule

\* An instruction of a script without a child, that does not run one and asks no client.
LEMMA FetchFamily ==
  ASSUME FamilyInv, EndsLast, SameLinks, NEW s \in Scripts, Executes(s), ex[s].pChild = NoScript,
         os'[s].client = os[s].client,
         \A t \in Scripts \ {s} : Live(t) => SameRun(t) \/ Loose(t)
  PROVE  FamilyOK'
<1>1. Live(s) /\ ~os[s].blocked /\ ClientOK(s)
  BY DEF Executes, FamilyInv
<1>2. Loose(s)
  BY <1>1 DEF Loose, SameLinks, ClientOK
<1> QED
  BY <1>2, SameFamily

\* What instructions do to links and ends.
LEMMA TracedLinks ==
  ASSUME HoldsInv, NEW s \in Scripts, NEW t \in Scripts,
         \/ ex' = Traced(s) \/ ex' = SetError(Traced(s), t)
         \/ ex' = [Traced(s) EXCEPT ![t].done = TRUE, ![t].run_ok = FALSE]
  PROVE  /\ \A u \in Scripts : UNCHANGED <<ex[u].pChild, ex[u].pParent>>
         /\ \A u \in Scripts \ {t} : Finished(u)' = Finished(u)
         /\ ex' = Traced(s) => (Finished(t)' = Finished(t))
<1> DEFINE x == Traced(s)
<1>1. /\ x \in [Scripts -> Executor]
      /\ \A u \in Scripts : /\ x[u].error = ex[u].error /\ x[u].done = ex[u].done
                            /\ x[u].pChild = ex[u].pChild /\ x[u].pParent = ex[u].pParent
  BY TracedFlags DEF HoldsInv, SchedulerInv, FlagsInv
<1>2. \/ ex' = x \/ ex' = SetError(x, t)
      \/ ex' = [x EXCEPT ![t].done = TRUE, ![t].run_ok = FALSE]
  OBVIOUS
<1>3. ex' = Traced(s) => ex' = x
  OBVIOUS
<1> HIDE DEF x
<1>4. CASE ex' = x
  BY <1>1, <1>4 DEF Finished
<1>5. CASE /\ ex' = SetError(x, t) \/ ex' = [x EXCEPT ![t].done = TRUE, ![t].run_ok = FALSE]
  <2>1. /\ \A u \in Scripts : ex'[u].pChild = x[u].pChild /\ ex'[u].pParent = x[u].pParent
        /\ \A u \in Scripts \ {t} : ex'[u] = x[u]
    BY <1>1, <1>5 DEF SetError, Executor
  <2>2. \A u \in Scripts \ {t} : Finished(u)' = Finished(u)
    BY <1>1, <2>1 DEF Finished
  <2>3. ex' = Traced(s) => (Finished(t)' = Finished(t))
    BY <1>1, <1>3 DEF Finished
  <2> QED
    BY <1>1, <2>1, <2>2, <2>3
<1> QED
  BY <1>2, <1>4, <1>5

LEMMA RunScriptFamily ==
  ASSUME FamilyInv, EndsLast, NEW s \in Scripts, NEW t \in Scripts, RunScript(s, t)
  PROVE  FamilyOK'
<1> DEFINE x == Traced(s)
<1>0. /\ os \in [Scripts -> OsModule] /\ ex \in [Scripts -> Executor]
      /\ status \in [Scripts -> {"unborn", "live", "deleted"}] /\ NoScript \notin Scripts
      /\ \A u \in Scripts : LinksOK(u) /\ RunOK(u) /\ ClientOK(u)
  BY SchedulerAssumption DEF SchedulerAssumption, FamilyInv, HoldsInv, SchedulerInv, TypeOK
<1>1. /\ Executes(s) /\ ~ex[s].done /\ ex[s].pChild = NoScript /\ "run" \in Program[s]
      /\ ex' = [x EXCEPT ![s].pChild = t, ![t].pParent = s]
      /\ os' = Block(s, "WAIT_SLEEP", 0)
      /\ status[t] = "unborn" /\ status' = [status EXCEPT ![t] = "live"]
  BY DEF RunScript, Fetch, Fetches, Enlist
<1>2. status[s] = "live" /\ ~os[s].blocked /\ ~ex[s].error /\ ~os[s].client /\ s # t
      /\ os[t] = NewOsModule /\ ex[t] = NewExecutor
  BY <1>0, <1>1 DEF Executes, ClientOK, FamilyInv, HoldsInv, NewInv, FlagsInv, FlagsOK
<1>3. /\ x \in [Scripts -> Executor]
      /\ \A u \in Scripts : /\ x[u].error = ex[u].error /\ x[u].done = ex[u].done
                            /\ x[u].pChild = ex[u].pChild /\ x[u].pParent = ex[u].pParent
  BY TracedFlags DEF FamilyInv, HoldsInv, SchedulerInv, FlagsInv
<1> HIDE DEF x
<1>4. /\ \A u \in Scripts : ex'[u].error = ex[u].error /\ ex'[u].done = ex[u].done
      /\ \A u \in Scripts \ {s} : ex'[u].pChild = ex[u].pChild
      /\ \A u \in Scripts \ {t} : ex'[u].pParent = ex[u].pParent
      /\ ex'[s].pChild = t /\ ex'[t].pParent = s
  BY <1>1, <1>2, <1>3 DEF Executor
<1>5. /\ os'[s].blocked /\ os'[s].sleep_until = 0 /\ os'[s].wait_type = "WAIT_SLEEP"
      /\ ~os'[s].client
      /\ \A u \in Scripts \ {s} : os'[u] = os[u]
  <2>1. os' = [os EXCEPT ![s] = [os[s] EXCEPT !.blocked = TRUE, !.wait_type = "WAIT_SLEEP",
                                              !.sleep_until = 0]]
    BY <1>1 DEF Block
  <2> QED
    BY <1>0, <1>2, <2>1 DEF OsModule
<1>6. /\ ex'[t].pChild = NoScript /\ ex[t].pParent = NoScript /\ ~os'[t].client
      /\ \A u \in Scripts \ {t} : status'[u] = status[u]
      /\ status'[t] = "live" /\ status'[s] = "live"
  <2>1. ex[t].pChild = NoScript /\ ex[t].pParent = NoScript /\ ~os[t].client
    BY <1>2 DEF NewOsModule, NewExecutor
  <2> QED
    BY <1>0, <1>1, <1>2, <1>4, <1>5, <2>1
<1>7. \A u \in Scripts : LinksOK(u)'
  <2>1. LinksOK(s)'
    <3>1. CASE ex[s].pParent = NoScript
      BY <1>2, <1>4, <1>6, <3>1 DEF LinksOK
    <3>2. CASE ex[s].pParent # NoScript
      <4>1. PICK p \in Scripts : p = ex[s].pParent /\ status[p] = "live" /\ ex[p].pChild = s
        BY <1>0, <1>2, <3>2 DEF LinksOK
      <4>2. p # s /\ p # t
        BY <1>0, <1>1, <4>1
      <4>3. ex'[s].pParent = p /\ status'[p] = "live" /\ ex'[p].pChild = s
        BY <1>2, <1>4, <1>6, <4>1, <4>2
      <4> QED
        BY <1>2, <1>4, <1>6, <4>3 DEF LinksOK
    <3> QED
      BY <3>1, <3>2
  <2>4. LinksOK(t)'
    BY <1>2, <1>4, <1>6 DEF LinksOK
  <2>2. ASSUME NEW u \in Scripts \ {s, t}, Live(u)
        PROVE  LinksOK(u)'
    <3>1. ex[u].pChild # t /\ ex[u].pParent # s /\ ex[u].pParent # t
      BY <1>0, <1>1, <1>2, <2>2 DEF LinksOK
    <3> QED
      BY <1>0, <1>4, <1>6, <2>2, <3>1 DEF LinksOK
  <2>3. ASSUME NEW u \in Scripts \ {s, t}, ~Live(u)
        PROVE  LinksOK(u)'
    BY <1>6, <2>3 DEF LinksOK
  <2> QED
    BY <2>1, <2>2, <2>3, <2>4
<1>8. \A u \in Scripts \ {s, t} : SameRun(u)
  BY <1>4, <1>5, <1>6 DEF SameRun, Finished
<1>9. Loose(t)
  BY <1>6 DEF Loose
<1>10. RunOK(s)' /\ ClientOK(s)'
  BY <1>1, <1>2, <1>4, <1>5 DEF RunOK, ClientOK, Finished
<1> QED
  BY <1>0, <1>7, <1>8, <1>9, <1>10, SameRunKeeps DEF FamilyOK

\* run_script returns: both forget each other.
LEMMA ReturnFamily ==
  ASSUME FamilyInv, EndsLast, NEW s \in Scripts, RunScriptReturn(s)
  PROVE  FamilyOK' /\ UNCHANGED corrupt
<1> DEFINE x == Traced(s)
<1>0. /\ os \in [Scripts -> OsModule] /\ ex \in [Scripts -> Executor] /\ NoScript \notin Scripts
      /\ \A u \in Scripts : LinksOK(u) /\ RunOK(u) /\ ClientOK(u)
  BY SchedulerAssumption DEF SchedulerAssumption, FamilyInv, HoldsInv, SchedulerInv, TypeOK
<1>1. Executes(s) /\ ~ex[s].done /\ ex[s].pChild # NoScript /\ UNCHANGED <<status, os>>
  BY DEF RunScriptReturn, Fetches
<1>2. Live(s) /\ ~os[s].blocked /\ ~ex[s].error /\ ~os[s].client
  BY <1>0, <1>1 DEF Executes, RunOK, FamilyInv, HoldsInv, FlagsInv, FlagsOK
<1>3. PICK c \in Scripts : c = ex[s].pChild /\ Live(c) /\ ex[c].pParent = s /\ Finished(c)
  BY <1>0, <1>1, <1>2 DEF LinksOK, RunOK
<1>4. ex' = [x EXCEPT ![c].pParent = NoScript, ![s].pChild = NoScript] /\ UNCHANGED corrupt
  BY <1>3 DEF RunScriptReturn
<1>5. s # c
  BY <1>1, <1>2, <1>3 DEF Finished
<1>6. /\ x \in [Scripts -> Executor]
      /\ \A u \in Scripts : /\ x[u].error = ex[u].error /\ x[u].done = ex[u].done
                            /\ x[u].pChild = ex[u].pChild /\ x[u].pParent = ex[u].pParent
  BY TracedFlags DEF FamilyInv, HoldsInv, SchedulerInv, FlagsInv
<1> HIDE DEF x
<1>7. /\ \A u \in Scripts : ex'[u].error = ex[u].error /\ ex'[u].done = ex[u].done
      /\ \A u \in Scripts \ {s} : ex'[u].pChild = ex[u].pChild
      /\ \A u \in Scripts \ {c} : ex'[u].pParent = ex[u].pParent
      /\ ex'[s].pChild = NoScript /\ ex'[c].pParent = NoScript
  BY <1>4, <1>5, <1>6 DEF Executor
<1>8. ASSUME NEW u \in Scripts, Live(u)
      PROVE  LinksOK(u)'
  <2>1. CASE u = s
    BY <1>0, <1>1, <1>2, <1>3, <1>5, <1>7, <2>1 DEF LinksOK
  <2>2. CASE u = c
    BY <1>0, <1>1, <1>2, <1>3, <1>5, <1>7, <2>2 DEF LinksOK
  <2>3. CASE u # s /\ u # c
    <3>1. ex[u].pChild # c /\ ex[u].pParent # s
      BY <1>0, <1>3, <1>8, <2>3 DEF LinksOK
    <3> QED
      BY <1>0, <1>1, <1>7, <1>8, <2>3, <3>1 DEF LinksOK
  <2> QED
    BY <2>1, <2>2, <2>3
<1>9. \A u \in Scripts : LinksOK(u)'
  BY <1>1, <1>8 DEF LinksOK
<1>10. \A u \in Scripts \ {s} : SameRun(u)
  BY <1>1, <1>7 DEF SameRun, Finished
<1>11. Loose(s)
  BY <1>1, <1>2, <1>7 DEF Loose
<1> QED
  BY <1>0, <1>4, <1>9, <1>10, <1>11, SameRunKeeps DEF FamilyOK

LEMMA InstructionFamily ==
  ASSUME FamilyInv, EndsLast, ParentsLeftAlone, NEW s \in Scripts, Instruction(s)
  PROVE  FamilyOK'
<1> USE DEF Fetch, Fetches
<1>0. /\ TypeOK /\ os \in [Scripts -> OsModule] /\ ex \in [Scripts -> Executor] /\ HoldsInv
      /\ \A u \in Scripts : LinksOK(u) /\ RunOK(u) /\ ClientOK(u)
  BY DEF FamilyInv, HoldsInv, SchedulerInv, TypeOK
<1>1. ASSUME NEW t \in Scripts, Executes(s), ex[s].pChild = NoScript, UNCHANGED status,
             \A u \in Scripts : UNCHANGED <<ex[u].pChild, ex[u].pParent>>,
             \A u \in Scripts \ {s, t} : Finished(u)' = Finished(u),
             \A u \in Scripts \ {s, t} : os'[u] = os[u],
             os'[s].client = os[s].client, t = s \/ SameRun(t) \/ Loose(t)
      PROVE  FamilyOK'
  <2>1. SameLinks
    BY <1>1 DEF SameLinks
  <2>2. \A u \in Scripts \ {s, t} : SameRun(u)
    BY <1>1 DEF SameRun
  <2> QED
    BY <1>1, <2>1, <2>2, FetchFamily
<1>2. CASE Compute(s) \/ Exit(s) \/ Fail(s)
  BY <1>0, <1>1, <1>2, TracedLinks DEF Compute, Exit, Fail
<1>3. CASE \/ \E n \in SleepTicks : SleepFor(s, n) \/ wait_for_event(s, n)
           \/ \E crit \in BOOLEAN : set_critical(s, crit)
           \/ \E n \in Priorities : set_priority(s, n)
           \/ \E n \in QueueSizes : set_event_queue_size(s, n)
  <2>1. /\ Executes(s) /\ ex[s].pChild = NoScript /\ UNCHANGED status /\ ex' = Traced(s)
        /\ \A u \in Scripts \ {s} : os'[u] = os[u]
    BY <1>0, <1>3 DEF SleepFor, wait_for_event, Block, set_critical, set_priority, set_event_queue_size
  <2>2. os'[s].client = os[s].client
    <3>1. CASE \E n \in SleepTicks : SleepFor(s, n) \/ wait_for_event(s, n)
      <4>1. PICK n \in Nat : os' = os \/ os' = Block(s, "WAIT_SLEEP", n) \/ os' = Block(s, "WAIT_EVENT", n)
                   \/ os' = [os EXCEPT ![s] = [os[s] EXCEPT !.events = Tail(os[s].events),
                                                            !.last_event = Head(os[s].events)]]
        <5>1. \A n \in SleepTicks : clock + n \in Nat
          BY <1>0, SchedulerAssumption DEF SchedulerAssumption, TypeOK
        <5>2. 0 \in Nat
          OBVIOUS
        <5> QED
          BY <3>1, <5>1, <5>2 DEF SleepFor, wait_for_event
      <4> QED
        BY <1>0, <4>1 DEF Block, OsModule
    <3>2. CASE \/ \E crit \in BOOLEAN : set_critical(s, crit)
               \/ \E n \in Priorities : set_priority(s, n)
               \/ \E n \in QueueSizes : set_event_queue_size(s, n)
      BY <1>0, <3>2 DEF set_critical, set_priority, set_event_queue_size, OsModule
    <3> QED
      BY <1>3, <3>1, <3>2
  <2> QED
    BY <1>0, <1>1, <2>1, <2>2, TracedLinks
<1>4. CASE WaitForClient(s)
  <2>1. /\ Executes(s) /\ ex[s].pChild = NoScript /\ UNCHANGED status /\ ex' = Traced(s)
        /\ os' = [Block(s, "WAIT_SLEEP", 0) EXCEPT ![s].client = TRUE]
    BY <1>4 DEF WaitForClient
  <2> DEFINE o == Block(s, "WAIT_SLEEP", 0)
  <2>2. /\ o \in [Scripts -> OsModule] /\ \A u \in Scripts \ {s} : o[u] = os[u]
        /\ o[s].blocked /\ o[s].sleep_until = 0 /\ o[s].wait_type = "WAIT_SLEEP"
    <3>1. o \in [Scripts -> OsModule]
      BY <1>0, BlockTypes
    <3>2. o = [os EXCEPT ![s] = [os[s] EXCEPT !.blocked = TRUE, !.wait_type = "WAIT_SLEEP",
                                              !.sleep_until = 0]]
      BY DEF Block
    <3> QED
      BY <1>0, <3>1, <3>2 DEF OsModule
  <2>3. os' = [o EXCEPT ![s].client = TRUE]
    BY <2>1
  <2> HIDE DEF o
  <2>4. /\ \A u \in Scripts \ {s} : os'[u] = os[u]
        /\ os'[s].blocked /\ os'[s].sleep_until = 0 /\ os'[s].wait_type = "WAIT_SLEEP"
    BY <2>2, <2>3 DEF OsModule
  <2>5. /\ \A u \in Scripts : UNCHANGED <<ex[u].pChild, ex[u].pParent>>
        /\ \A u \in Scripts : Finished(u)' = Finished(u)
    BY <1>0, <2>1, TracedLinks
  <2>6. \A u \in Scripts : LinksOK(u)'
    BY <1>0, <2>1, <2>5, SameLinksKeep DEF SameLinks
  <2>7. \A u \in Scripts \ {s} : SameRun(u)
    BY <2>1, <2>4, <2>5 DEF SameRun
  <2>8. RunOK(s)' /\ ClientOK(s)'
    BY <2>1, <2>4, <2>5 DEF RunOK, ClientOK
  <2> QED
    BY <1>0, <2>6, <2>7, <2>8, SameRunKeeps DEF FamilyOK
<1>5. ASSUME NEW t \in Scripts, SendEvent(s, t)
      PROVE  FamilyOK'
  <2>1. /\ Executes(s) /\ ex[s].pChild = NoScript /\ UNCHANGED status /\ ex' = Traced(s)
        /\ Live(t) /\ signal_event(t)
    BY <1>5 DEF SendEvent
  <2>2. /\ \A u \in Scripts : UNCHANGED <<ex[u].pChild, ex[u].pParent>>
        /\ \A u \in Scripts : Finished(u)' = Finished(u)
    BY <1>0, <2>1, TracedLinks
  <2>3. /\ \A u \in Scripts \ {t} : os'[u] = os[u]
        /\ os'[t].client = os[t].client
        /\ SameRun(t) \/ Loose(t)
    BY <2>1, <2>2, SignalRuns DEF SameRun, Loose
  <2> QED
    BY <1>1, <2>1, <2>2, <2>3
<1>6. ASSUME NEW t \in Scripts, KillScript(s, t)
      PROVE  FamilyOK'
  <2>1. /\ Executes(s) /\ ex[s].pChild = NoScript /\ UNCHANGED status /\ ex' = SetError(Traced(s), t)
        /\ Live(t) /\ os' = Unblock(t) /\ t \in KillTargets
    BY <1>6 DEF KillScript
  <2>2. /\ \A u \in Scripts : UNCHANGED <<ex[u].pChild, ex[u].pParent>>
        /\ \A u \in Scripts \ {t} : Finished(u)' = Finished(u)
    BY <1>0, <2>1, TracedLinks
  <2>3. /\ \A u \in Scripts \ {t} : os'[u] = os[u]
        /\ os'[t].client = os[t].client
    BY <1>0, <2>1, UnblockRuns
  <2>4. Loose(t)
    BY <1>0, <2>1, <2>2 DEF ParentsLeftAlone, RunOK, Loose
  <2> QED
    BY <1>1, <2>1, <2>2, <2>3, <2>4
<1>7. ASSUME NEW t \in Scripts, StartScript(s, t)
      PROVE  FamilyOK'
  <2>1. /\ Executes(s) /\ ex[s].pChild = NoScript /\ ex' = Traced(s) /\ Enlist(t) /\ UNCHANGED os
    BY <1>7 DEF StartScript
  <2>2. /\ \A u \in Scripts : UNCHANGED <<ex[u].pChild, ex[u].pParent>>
        /\ \A u \in Scripts : Finished(u)' = Finished(u)
    BY <1>0, <2>1, TracedLinks
  <2>3. /\ status[t] = "unborn" /\ s # t
        /\ \A u \in Scripts \ {t} : status'[u] = status[u]
    BY <1>0, <2>1 DEF Enlist, Executes, TypeOK
  <2>4. ex'[t] = ex[t]
    BY <1>0, <2>1, <2>3, TracedFlags DEF HoldsInv, FlagsInv
  <2>5. SameLinks
    BY <1>0, <2>1, <2>2, <2>4, EnlistLinks
  <2>6. \A u \in Scripts \ {s} : Live(u) => SameRun(u)
    BY <2>1, <2>2, <2>3 DEF SameRun
  <2> QED
    BY <2>1, <2>5, <2>6, FetchFamily
<1>8. ASSUME NEW t \in Scripts, clear_event_queue(s, t)
      PROVE  FamilyOK'
  <2>1. /\ Executes(s) /\ ex[s].pChild = NoScript /\ UNCHANGED status /\ ex' = Traced(s)
        /\ os' = [os EXCEPT ![t].events = <<>>]
    BY <1>8 DEF clear_event_queue
  <2>2. /\ \A u \in Scripts : UNCHANGED <<ex[u].pChild, ex[u].pParent>>
        /\ \A u \in Scripts : Finished(u)' = Finished(u)
    BY <1>0, <2>1, TracedLinks
  <2>3. /\ \A u \in Scripts \ {t} : os'[u] = os[u]
        /\ UNCHANGED <<os[t].blocked, os[t].sleep_until, os[t].wait_type, os[t].client>>
    BY <1>0, <2>1 DEF OsModule
  <2>4. SameRun(t)
    BY <2>1, <2>2, <2>3 DEF SameRun
  <2> QED
    BY <1>1, <2>1, <2>2, <2>3, <2>4
<1>9. CASE DebugStop(s)
  <2>1. /\ UNCHANGED <<status, os>>
        /\ \A u \in Scripts : /\ UNCHANGED <<ex[u].pChild, ex[u].pParent>>
                              /\ ex'[u].error = ex[u].error /\ ex'[u].done = ex[u].done
    BY <1>0, <1>9 DEF DebugStop, Executor
  <2>2. SameLinks /\ \A u \in Scripts : SameRun(u)
    BY <2>1 DEF SameLinks, SameRun, Finished
  <2> QED
    BY <2>2, SameFamily
<1>10. CASE ExecuteDone(s)
  <2>1. SameLinks /\ \A u \in Scripts : SameRun(u)
    BY <1>10 DEF ExecuteDone, SameLinks, SameRun, Finished, execVars
  <2> QED
    BY <2>1, SameFamily
<1> QED
  BY <1>2, <1>3, <1>4, <1>5, <1>6, <1>7, <1>8, <1>9, <1>10, RunScriptFamily, ReturnFamily
  DEF Instruction

\* A parent that is left alone is runnable for as long as it has a child.
LEMMA ParentRuns ==
  ASSUME FamilyInv, ParentsLeftAlone, NEW s \in Scripts, Live(s), ex[s].pParent # NoScript
  PROVE  /\ Live(ex[s].pParent) /\ ex[ex[s].pParent].pChild = s
         /\ ex[ex[s].pParent].run_ok
<1>0. NoScript \notin Scripts /\ \A u \in Scripts : LinksOK(u) /\ RunOK(u) /\ FlagsOK(u)
  BY SchedulerAssumption DEF SchedulerAssumption, FamilyInv, HoldsInv, FlagsInv
<1>1. PICK p \in Scripts : p = ex[s].pParent /\ Live(p) /\ ex[p].pChild = s
  BY <1>0 DEF LinksOK
<1>2. "run" \in Program[p] /\ ~Finished(p)
  BY <1>0, <1>1 DEF RunOK
<1>3. p \notin Debuggable
  BY <1>2 DEF ParentsLeftAlone
<1>4. ex[p].run_ok
  BY <1>0, <1>2, <1>3 DEF FlagsOK
<1> QED
  BY <1>1, <1>4

LEMMA EndTurnFamily ==
  ASSUME FamilyInv, EndsLast, ParentsLeftAlone, NEW s \in Scripts, EndTurn(s)
  PROVE  FamilyOK' /\ UNCHANGED corrupt
<1>0. /\ TypeOK /\ os \in [Scripts -> OsModule] /\ ex \in [Scripts -> Executor]
      /\ status \in [Scripts -> {"unborn", "live", "deleted"}] /\ NoScript \notin Scripts
      /\ \A u \in Scripts : LinksOK(u) /\ RunOK(u) /\ ClientOK(u)
  BY SchedulerAssumption DEF SchedulerAssumption, FamilyInv, HoldsInv, SchedulerInv, TypeOK
<1>1. Live(s)
  BY DEF FamilyInv, HoldsInv, SchedulerInv, ListInv, InOneList, EndTurn, ReturnToParent, DeleteFinished,
         ReturnToDeleted, MarkForDebugger, HoldForDebugger, HoldBlocked, Requeue, TurnOver
<1>2. CASE ReturnToParent(s)
  <2>1. PICK p \in Scripts : p = ex[s].pParent /\ Live(p) /\ ex[p].pChild = s
    BY <1>1, <1>2, ParentRuns DEF ReturnToParent
  <2>2. os' = Unblock(p) /\ UNCHANGED <<status, ex, corrupt>> /\ Finished(s)
    BY <1>2, <2>1 DEF ReturnToParent
  <2>3. /\ \A u \in Scripts \ {p} : os'[u] = os[u]
        /\ os'[p].client = os[p].client /\ ~os'[p].blocked
    BY <1>0, <2>2, UnblockRuns
  <2>4. \A u \in Scripts : LinksOK(u)'
    BY <1>0, <2>2 DEF LinksOK
  <2>5. \A u \in Scripts \ {p} : SameRun(u)
    BY <2>2, <2>3 DEF SameRun, Finished
  <2>6. "run" \in Program[p] /\ ~Finished(p) /\ ~os[p].client
    BY <1>0, <1>1, <2>1 DEF RunOK
  <2>7. RunOK(p)' /\ ClientOK(p)'
    BY <2>1, <2>2, <2>3, <2>6 DEF RunOK, ClientOK, Finished
  <2> QED
    BY <1>0, <2>2, <2>4, <2>5, <2>7, SameRunKeeps DEF FamilyOK
<1>3. CASE DeleteFinished(s)
  <2>1. ex[s].pParent = NoScript
    BY <1>1, <1>3, ParentRuns DEF DeleteFinished
  <2>2. ex[s].pChild = NoScript
    BY <1>0, <1>1, <1>3 DEF DeleteFinished, RunOK
  <2>3. /\ status'[s] = "deleted" /\ UNCHANGED corrupt
        /\ \A u \in Scripts \ {s} : status'[u] = status[u] /\ os'[u] = os[u] /\ ex'[u] = ex[u]
    BY <1>0, <1>3 DEF DeleteFinished
  <2>4. ASSUME NEW u \in Scripts \ {s}, Live(u)
        PROVE  LinksOK(u)'
    <3>1. ex[u].pChild # s /\ ex[u].pParent # s
      BY <1>0, <2>1, <2>2, <2>4 DEF LinksOK
    <3> QED
      BY <1>0, <2>3, <2>4, <3>1 DEF LinksOK
  <2>5. \A u \in Scripts : LinksOK(u)'
    BY <2>3, <2>4 DEF LinksOK
  <2>6. \A u \in Scripts \ {s} : SameRun(u)
    BY <2>3 DEF SameRun, Finished
  <2>7. RunOK(s)' /\ ClientOK(s)'
    BY <2>3 DEF RunOK, ClientOK
  <2> QED
    BY <1>0, <2>3, <2>5, <2>6, <2>7, SameRunKeeps DEF FamilyOK
<1>4. CASE ReturnToDeleted(s)
  BY <1>1, <1>4, ParentRuns DEF ReturnToDeleted
<1>5. CASE MarkForDebugger(s) \/ HoldForDebugger(s) \/ HoldBlocked(s) \/ Requeue(s)
  <2>1. UNCHANGED <<status, os, ex, corrupt>>
    BY <1>5 DEF MarkForDebugger, HoldForDebugger, HoldBlocked, Requeue, execVars, envVars
  <2>2. SameLinks /\ \A u \in Scripts : SameRun(u)
    BY <2>1 DEF SameLinks, SameRun, Finished
  <2> QED
    BY <2>1, <2>2, SameFamily
<1> QED
  BY <1>2, <1>3, <1>4, <1>5 DEF EndTurn

\* The clock wakes no parent: parents sleep without a time.
LEMMA WakeFamily ==
  ASSUME FamilyInv, EndsLast, WakeDue
  PROVE  FamilyOK'
<1>0. /\ TypeOK /\ \A u \in Scripts : HoldOK(u) /\ RunOK(u) /\ ClientOK(u)
  BY DEF FamilyInv, HoldsInv, SchedulerInv
<1>1. PICK h \in holdlist : os' = Unblock(h.script) \/ UNCHANGED os
  BY DEF WakeDue
<1>2. UNCHANGED <<status, ex>>
  BY DEF WakeDue
<1>3. PICK s \in Scripts : s = h.script /\ Live(s) /\ in_hold_list[s] = "TIMEOUT_LIST"
  BY <1>0 DEF FamilyInv, HoldsInv, SchedulerInv, ListInv, InOneList, TypeOK
<1>4. os[s].blocked /\ os[s].sleep_until # 0
  BY <1>0, <1>3 DEF HoldOK
<1>5. ex[s].pChild = NoScript /\ ("run" \in Program[s] => ~os[s].client)
  BY <1>0, <1>3, <1>4 DEF RunOK, ClientOK
<1>6. CASE os' = Unblock(s)
  <2>1. \A u \in Scripts \ {s} : SameRun(u)
    BY <1>0, <1>2, <1>6, UnblockRuns DEF SameRun, Finished
  <2>2. Loose(s)
    BY <1>0, <1>2, <1>5, <1>6, UnblockRuns DEF Loose
  <2> QED
    BY <1>2, <2>1, <2>2, SameFamily DEF SameLinks
<1>7. CASE UNCHANGED os
  <2>1. \A u \in Scripts : SameRun(u)
    BY <1>2, <1>7 DEF SameRun, Finished
  <2> QED
    BY <1>2, <2>1, SameFamily DEF SameLinks
<1> QED
  BY <1>1, <1>3, <1>6, <1>7

LEMMA NewFamily ==
  ASSUME FamilyInv, EndsLast, NEW s \in Scripts, Enlist(s), UNCHANGED <<os, ex>>
  PROVE  FamilyOK'
<1>1. SameLinks
  BY EnlistLinks DEF FamilyInv
<1>2. \A u \in Scripts : Live(u) => SameRun(u)
  BY DEF SameRun, Finished
<1> QED
  BY <1>1, <1>2, SameFamily

LEMMA ErrorLinks ==
  ASSUME TypeOK, NEW s \in Scripts, ex' = SetError(ex, s)
  PROVE  /\ \A u \in Scripts : UNCHANGED <<ex[u].pChild, ex[u].pParent>>
         /\ \A u \in Scripts \ {s} : ex'[u] = ex[u]
BY DEF SetError, TypeOK, Executor

LEMMA OtherFamily ==
  ASSUME FamilyInv, EndsLast, ParentsLeftAlone, OtherThreads
  PROVE  FamilyOK'
<1>0. /\ TypeOK /\ os \in [Scripts -> OsModule] /\ ex \in [Scripts -> Executor]
      /\ \A u \in Scripts : LinksOK(u) /\ RunOK(u) /\ ClientOK(u)
  BY DEF FamilyInv, HoldsInv, SchedulerInv, TypeOK
<1>1. PICK s \in Scripts : \/ ExternalStart(s) \/ ExternalEvent(s) \/ ExternalKill(s)
                          \/ ClientReply(s)
  BY DEF OtherThreads
<1>2. CASE ExternalStart(s)
  BY <1>2, NewFamily DEF ExternalStart, execVars
<1>3. CASE ExternalEvent(s)
  <2>1. UNCHANGED <<status, ex>> /\ Live(s) /\ signal_event(s)
    BY <1>3 DEF ExternalEvent
  <2>2. \A u \in Scripts : SameRun(u) \/ Loose(u)
    BY <2>1, SignalRuns DEF SameRun, Loose, Finished
  <2> QED
    BY <2>1, <2>2, SameFamily DEF SameLinks
<1>4. CASE ExternalKill(s)
  <2>1. /\ UNCHANGED status /\ Live(s) /\ s \in KillTargets
        /\ ex' = SetError(ex, s) /\ os' = Unblock(s)
    BY <1>4 DEF ExternalKill
  <2>2. /\ \A u \in Scripts : UNCHANGED <<ex[u].pChild, ex[u].pParent>>
        /\ \A u \in Scripts \ {s} : ex'[u] = ex[u]
    BY <1>0, <2>1, ErrorLinks
  <2>3. \A u \in Scripts \ {s} : SameRun(u)
    BY <1>0, <2>1, <2>2, UnblockRuns DEF SameRun, Finished
  <2>4. Loose(s)
    BY <1>0, <2>1, <2>2 DEF ParentsLeftAlone, RunOK, Loose
  <2> QED
    BY <2>1, <2>2, <2>3, <2>4, SameFamily DEF SameLinks
<1>5. CASE ClientReply(s)
  <2>1. /\ UNCHANGED <<status, ex>> /\ Live(s) /\ os[s].client
        /\ \A u \in Scripts \ {s} : os'[u] = os[u]
        /\ ~os'[s].client
    BY <1>0, <1>5 DEF ClientReply, Unblock, OsModule
  <2>2. \A u \in Scripts \ {s} : SameRun(u)
    BY <2>1 DEF SameRun, Finished
  <2>3. Loose(s)
    BY <1>0, <2>1 DEF RunOK, Loose
  <2> QED
    BY <2>1, <2>2, <2>3, SameFamily DEF SameLinks
<1> QED
  BY <1>1, <1>2, <1>3, <1>4, <1>5

LEMMA DebuggerFamily ==
  ASSUME FamilyInv, EndsLast, ParentsLeftAlone, Debugger
  PROVE  FamilyOK'
<1>0. /\ TypeOK /\ os \in [Scripts -> OsModule] /\ ex \in [Scripts -> Executor]
      /\ \A u \in Scripts : LinksOK(u) /\ RunOK(u) /\ ClientOK(u)
  BY DEF FamilyInv, HoldsInv, SchedulerInv, TypeOK
<1>1. ASSUME UNCHANGED <<status, os>>,
             \A u \in Scripts : /\ UNCHANGED <<ex[u].pChild, ex[u].pParent>>
                                /\ ex'[u].error = ex[u].error /\ ex'[u].done = ex[u].done
      PROVE  FamilyOK'
  <2>1. SameLinks /\ \A u \in Scripts : SameRun(u)
    BY <1>1 DEF SameLinks, SameRun, Finished
  <2> QED
    BY <2>1, SameFamily
<1>2. CASE \E s \in Scripts : DebugStart(s)
  BY <1>2, NewFamily DEF DebugStart, execVars
<1>3. CASE \E s \in Scripts : cmd_attach(s)
  BY <1>0, <1>1, <1>3 DEF cmd_attach, Executor
<1>4. ASSUME NEW s \in Scripts, cmd_kill(s)
      PROVE  FamilyOK'
  <2>1. UNCHANGED <<status, os>> /\ Live(s) /\ s \in Debuggable /\ ex' = SetError(ex, s)
    BY <1>4 DEF cmd_kill
  <2>2. /\ \A u \in Scripts : UNCHANGED <<ex[u].pChild, ex[u].pParent>>
        /\ \A u \in Scripts \ {s} : ex'[u] = ex[u]
    BY <1>0, <2>1, ErrorLinks
  <2>3. \A u \in Scripts \ {s} : SameRun(u)
    BY <2>1, <2>2 DEF SameRun, Finished
  <2>4. Loose(s)
    BY <1>0, <2>1, <2>2 DEF ParentsLeftAlone, RunOK, Loose
  <2> QED
    BY <2>1, <2>2, <2>3, <2>4, SameFamily DEF SameLinks
<1>5. CASE cmd_break
  BY <1>0, <1>1, <1>5 DEF cmd_break, Attached, Executor
<1>6. CASE DebugCheckDetach \/ DebugDetach \/ \E cmd \in {"INS_TRACE", "RUN"} : DebugCheckHeld(cmd)
  BY <1>1, <1>6 DEF DebugCheckDetach, DebugDetach, DebugCheckHeld, execVars
<1>7. CASE DebugResume \/ DebugLetGo
  <2>1. UNCHANGED <<status, os>>
    BY <1>7 DEF DebugResume, DebugLetGo, execVars
  <2>2. ASSUME NEW s \in Scripts, NEW d, ex' = [ClearHalt(ex, s) EXCEPT ![s].debug_state = d]
        PROVE  FamilyOK'
    <3> DEFINE x == ClearHalt(ex, s)
    <3>1. /\ x \in [Scripts -> Executor] /\ \A u \in Scripts \ {s} : x[u] = ex[u]
          /\ x[s].pChild = ex[s].pChild /\ x[s].pParent = ex[s].pParent
          /\ x[s].error = ex[s].error /\ x[s].done = ex[s].done
      <4>1. x \in [Scripts -> Executor]
        BY <1>0, ExecutorTypes
      <4> QED
        BY <1>0, <4>1 DEF ClearHalt, Executor
    <3> HIDE DEF x
    <3>2. ex' = [x EXCEPT ![s].debug_state = d]
      BY <2>2 DEF x
    <3>3. \A u \in Scripts : /\ UNCHANGED <<ex[u].pChild, ex[u].pParent>>
                             /\ ex'[u].error = ex[u].error /\ ex'[u].done = ex[u].done
      BY <3>1, <3>2 DEF Executor
    <3> QED
      BY <1>1, <2>1, <3>3
  <2>3. CASE UNCHANGED ex
    BY <1>1, <2>1, <2>3
  <2>4. \/ UNCHANGED ex
        \/ \E s \in Scripts : \E d : ex' = [ClearHalt(ex, s) EXCEPT ![s].debug_state = d]
    BY <1>7 DEF DebugResume, DebugLetGo, execVars
  <2> QED
    BY <2>2, <2>3, <2>4
<1> QED
  BY <1>2, <1>3, <1>4, <1>5, <1>6, <1>7 DEF Debugger, BeginCommand, FinishCommand

LEMMA FamilyKept ==
  ASSUME FamilyInv, ParentsLeftAlone, ~UnlockedDebugger, [Next]_vars
  PROVE  FamilyOK'
<1>0. EndsLast
  BY NextEnds DEF FamilyInv
<1>1. CASE BeginPass \/ BeginTurn \/ EmptyRunlist \/ EndPass \/ EndCheck \/ Clock \/ UNCHANGED vars
  <2>1. UNCHANGED <<status, os, ex>>
    BY <1>1 DEF BeginPass, BeginTurn, EmptyRunlist, EndPass, EndCheck, Clock, Tick, execVars, vars
  <2>2. SameLinks /\ \A u \in Scripts : SameRun(u)
    BY <2>1 DEF SameLinks, SameRun, Finished
  <2> QED
    BY <1>0, <2>2, SameFamily
<1>2. CASE Stop
  <2>1. ListInv'
    BY ListStep DEF FamilyInv, HoldsInv
  <2> QED
    BY <1>2, <2>1, NoneLeftHolds DEF FamilyInv, HoldsInv, Stop, ListInv, FamilyOK, LinksOK, RunOK, ClientOK
<1> QED
  BY <1>0, <1>1, <1>2, InstructionFamily, EndTurnFamily, WakeFamily, OtherFamily, DebuggerFamily
  DEF Next, Ended, ScriptsThread

LEMMA FamilyInit == Init => FamilyInv
<1>1. Init => \A s \in Scripts : LinksOK(s) /\ RunOK(s) /\ ClientOK(s)
  BY DEF Init, LinksOK, RunOK, ClientOK
<1> QED
  BY <1>1, HoldsInit DEF FamilyInv

LEMMA FamilyInvariant ==
  ASSUME ~UnlockedDebugger, ParentsLeftAlone
  PROVE  Spec => []FamilyInv
<1>1. Init => FamilyInv
  BY FamilyInit
<1>2. FamilyInv /\ [Next]_vars => FamilyInv'
  BY HoldsNext, FamilyKept DEF FamilyInv, FamilyOK
<1> QED
  BY <1>1, <1>2, PTL DEF Spec

\* As long as no kill and no debugger reaches a script that may run a child, a parent and
\* its child point at each other or neither does, and a parent is not woken before its
\* child has finished: not by an event, an answer of a client or the clock.
THEOREM FamiliesAreLinked ==
  ASSUME ~UnlockedDebugger, ParentsLeftAlone
  PROVE  Spec => []FamilyLinks
<1>1. FamilyInv => FamilyLinks
  BY DEF FamilyInv, FamilyLinks, LinksOK, RunOK
<1> QED
  BY <1>1, FamilyInvariant, PTL

-----------------------------------------------------------------------------
(* What is never undefined *)

\* set_event_queue_size never asks for an empty queue where old events make room.
RoomInQueues == DiscardOldEvents => DefaultQueueSize > 0 /\ 0 \notin QueueSizes

\* A script that a debugger may attach to goes on until it fails or is killed.
DebuggedRunOn == \A s \in Debuggable : "exit" \notin Program[s]

RoomInv == DiscardOldEvents => \A s \in Scripts : os[s].max_eventqueue_size > 0

\* A queue keeps its size, gets one a script asks for, or is new.
SizesStep ==
  \A s \in Scripts : os'[s].max_eventqueue_size
                       \in {os[s].max_eventqueue_size, DefaultQueueSize} \cup QueueSizes

LEMMA SameSizes ==
  ASSUME \A s \in Scripts : UNCHANGED (os[s].max_eventqueue_size)
  PROVE  SizesStep
BY DEF SizesStep

LEMMA SignalSizes ==
  ASSUME TypeOK, NEW s \in Scripts, signal_event(s)
  PROVE  SizesStep
<1>0. os \in [Scripts -> OsModule]
  BY DEF TypeOK
<1> HIDE DEF NextEvent
<1>1. \A t \in Scripts \ {s} : os'[t] = os[t]
  BY <1>0 DEF signal_event, Unblock
<1>2. os'[s].max_eventqueue_size = os[s].max_eventqueue_size
  <2>1. \/ os' = [Unblock(s) EXCEPT ![s].last_event = NextEvent]
        \/ os' = [os EXCEPT ![s].events = Append(@, NextEvent)]
        \/ os' = [os EXCEPT ![s].events = Append(Tail(@), NextEvent)]
        \/ UNCHANGED os
    BY DEF signal_event
  <2>2. os[s] \in OsModule
    BY <1>0
  <2>3. CASE os' = [Unblock(s) EXCEPT ![s].last_event = NextEvent]
    BY <1>0, <2>2, <2>3 DEF Unblock, OsModule
  <2> QED
    BY <1>0, <2>1, <2>2, <2>3 DEF OsModule
<1> QED
  BY <1>1, <1>2, SameSizes

LEMMA UnblockSizes ==
  ASSUME TypeOK, NEW s \in Scripts, os' = Unblock(s) \/ os' = [Unblock(s) EXCEPT ![s].client = FALSE]
  PROVE  SizesStep
<1>0. os \in [Scripts -> OsModule] /\ os[s] \in OsModule
  BY DEF TypeOK
<1>1. os'[s].max_eventqueue_size = os[s].max_eventqueue_size
  BY <1>0 DEF Unblock, OsModule
<1>2. \A t \in Scripts \ {s} : os'[t] = os[t]
  BY <1>0 DEF Unblock
<1> QED
  BY <1>1, <1>2, SameSizes

LEMMA BlockSizes ==
  ASSUME TypeOK, NEW s \in Scripts, NEW type, NEW until, os' = Block(s, type, until)
  PROVE  SizesStep
<1>0. os \in [Scripts -> OsModule] /\ os[s] \in OsModule
  BY DEF TypeOK
<1>1. os'[s].max_eventqueue_size = os[s].max_eventqueue_size
  BY <1>0 DEF Block, OsModule
<1>2. \A t \in Scripts \ {s} : os'[t] = os[t]
  BY <1>0 DEF Block
<1> QED
  BY <1>1, <1>2, SameSizes

LEMMA InstructionSizes ==
  ASSUME TypeOK, NEW s \in Scripts, Instruction(s)
  PROVE  SizesStep
<1>0. os \in [Scripts -> OsModule]
  BY DEF TypeOK
<1>1. CASE UNCHANGED os
  BY <1>1 DEF SizesStep
<1>2. CASE \E n \in SleepTicks : SleepFor(s, n)
  BY <1>1, <1>2, BlockSizes DEF SleepFor
<1>3. CASE \E n \in SleepTicks : wait_for_event(s, n)
  <2>1. PICK n \in SleepTicks : wait_for_event(s, n)
    BY <1>3
  <2>2. CASE os' = [os EXCEPT ![s] = [@ EXCEPT !.events = Tail(os[s].events),
                                              !.last_event = Head(os[s].events)]]
    <3>1. os[s] \in OsModule
      BY <1>0
    <3>2. os'[s].max_eventqueue_size = os[s].max_eventqueue_size
      BY <1>0, <2>2, <3>1 DEF OsModule
    <3>3. \A t \in Scripts \ {s} : os'[t] = os[t]
      BY <1>0, <2>2
    <3> QED
      BY <3>2, <3>3, SameSizes
  <2> QED
    BY <1>1, <2>1, <2>2, BlockSizes DEF wait_for_event
<1>4. CASE WaitForClient(s)
  BY <1>0, <1>4 DEF WaitForClient, Block, SizesStep, OsModule
<1>5. CASE \E t \in Scripts : SendEvent(s, t)
  BY <1>5, SignalSizes DEF SendEvent
<1>6. CASE \E t \in Scripts : KillScript(s, t)
  BY <1>6, UnblockSizes DEF KillScript
<1>7. CASE \E t \in Scripts : RunScript(s, t)
  BY <1>7, BlockSizes DEF RunScript
<1>8. CASE \E t \in Scripts : clear_event_queue(s, t)
  BY <1>0, <1>8 DEF clear_event_queue, SizesStep, OsModule
<1>9. CASE \/ \E crit \in BOOLEAN : set_critical(s, crit)
           \/ \E n \in Priorities : set_priority(s, n)
  <2>1. PICK v : os' = [os EXCEPT ![s].critical = v] \/ os' = [os EXCEPT ![s].priority = v]
    BY <1>9 DEF set_critical, set_priority
  <2>2. os[s] \in OsModule /\ \A t \in Scripts \ {s} : os'[t] = os[t]
    BY <1>0, <2>1
  <2>3. CASE os' = [os EXCEPT ![s].critical = v]
    BY <1>0, <2>2, <2>3, SameSizes DEF OsModule
  <2>4. CASE os' = [os EXCEPT ![s].priority = v]
    BY <1>0, <2>2, <2>4, SameSizes DEF OsModule
  <2> QED
    BY <2>1, <2>3, <2>4
<1>10. CASE \E n \in QueueSizes : set_event_queue_size(s, n)
  BY <1>0, <1>10 DEF set_event_queue_size, SizesStep, OsModule
<1>11. CASE \/ Compute(s) \/ Exit(s) \/ Fail(s) \/ \E t \in Scripts : StartScript(s, t)
            \/ RunScriptReturn(s) \/ DebugStop(s) \/ ExecuteDone(s)
  BY <1>1, <1>11 DEF Compute, Exit, Fail, StartScript, RunScriptReturn, DebugStop, ExecuteDone, execVars
<1> QED
  BY <1>2, <1>3, <1>4, <1>5, <1>6, <1>7, <1>8, <1>9, <1>10, <1>11 DEF Instruction

LEMMA NextSizes ==
  ASSUME TypeOK, [Next]_vars
  PROVE  SizesStep
<1>1. CASE UNCHANGED os
  BY <1>1 DEF SizesStep
<1>2. CASE BeginPass \/ BeginTurn \/ EmptyRunlist \/ EndPass \/ EndCheck \/ Clock \/ Stop \/ Debugger \/ UNCHANGED vars
  BY <1>1, <1>2 DEF BeginPass, BeginTurn, EmptyRunlist, EndPass, EndCheck, Clock, Tick, Stop, Shutdown, Debugger,
    BeginCommand, FinishCommand, DebugStart, cmd_attach, cmd_kill, cmd_break, DebugCheckHeld,
    DebugResume, DebugCheckDetach, DebugDetach, DebugLetGo, execVars, vars
<1>3. CASE WakeDue
  <2>1. PICK h \in holdlist : os' = Unblock(h.script) \/ UNCHANGED os
    BY <1>3 DEF WakeDue
  <2>2. h.script \in Scripts
    BY DEF TypeOK
  <2> QED
    BY <1>1, <2>1, <2>2, UnblockSizes
<1>4. ASSUME NEW s \in Scripts, EndTurn(s)
      PROVE  SizesStep
  <2>1. CASE ReturnToParent(s)
    BY <2>1, UnblockSizes, SchedulerAssumption DEF ReturnToParent, SchedulerAssumption
  <2>2. CASE DeleteFinished(s)
    BY <2>2 DEF DeleteFinished, SizesStep, TypeOK, NewOsModule
  <2>3. CASE ReturnToDeleted(s) \/ MarkForDebugger(s) \/ HoldForDebugger(s) \/ HoldBlocked(s) \/ Requeue(s)
    BY <1>1, <2>3 DEF ReturnToDeleted, MarkForDebugger, HoldForDebugger, HoldBlocked, Requeue, execVars
  <2> QED
    BY <1>4, <2>1, <2>2, <2>3 DEF EndTurn
<1>5. CASE OtherThreads
  BY <1>1, <1>5, SignalSizes, UnblockSizes
  DEF OtherThreads, ExternalStart, ExternalEvent, ExternalKill, ClientReply, execVars
<1> QED
  BY <1>2, <1>3, <1>4, <1>5, InstructionSizes DEF Next, Ended, ScriptsThread

LEMMA RoomKept ==
  ASSUME TypeOK, RoomInQueues, RoomInv, [Next]_vars
  PROVE  RoomInv'
<1>1. SizesStep /\ QueueSizes \subseteq Nat
  BY NextSizes, SchedulerAssumption DEF SchedulerAssumption
<1>2. ASSUME DiscardOldEvents, NEW s \in Scripts
      PROVE  os'[s].max_eventqueue_size > 0
  <2>1. os'[s].max_eventqueue_size \in {os[s].max_eventqueue_size, DefaultQueueSize} \cup QueueSizes
    BY <1>1 DEF SizesStep
  <2>2. os[s].max_eventqueue_size > 0 /\ DefaultQueueSize > 0 /\ \A n \in QueueSizes : n > 0
    BY <1>1, <1>2 DEF RoomInQueues, RoomInv
  <2> QED
    BY <2>1, <2>2
<1> QED
  BY <1>2 DEF RoomInv

LEMMA RoomInit == Init /\ RoomInQueues => RoomInv
BY DEF Init, RoomInQueues, RoomInv, NewOsModule

\* The faults an event can cause: one, and only where its queue has no room.
LEMMA SignalFaults ==
  ASSUME TypeOK, NEW s \in Scripts, signal_event(s)
  PROVE  /\ corrupt' \in {corrupt, "queue"}
         /\ RoomInv => UNCHANGED corrupt
<1>1. CASE UNCHANGED corrupt
  BY <1>1
<1>2. CASE QueueFull(s) /\ DiscardOldEvents /\ os[s].events = <<>> /\ corrupt' = "queue"
  <2>1. Len(os[s].events) = 0
    BY <1>2
  <2>2. ~RoomInv
    BY <1>2, <2>1 DEF QueueFull, RoomInv, TypeOK, OsModule
  <2> QED
    BY <1>2, <2>2
<1> QED
  BY <1>1, <1>2 DEF signal_event

\* Which faults an instruction can cause, and when.
LEMMA InstructionFaults ==
  ASSUME TypeOK, NEW s \in Scripts, Instruction(s)
  PROVE  \/ UNCHANGED corrupt
         \/ corrupt' = "queue" /\ ~RoomInv
         \/ corrupt' = "child" /\ RunScriptReturn(s)
         \/ corrupt' = "done" /\ ExecuteDone(s)
<1>1. CASE \E t \in Scripts : SendEvent(s, t)
  BY <1>1, SignalFaults DEF SendEvent
<1>2. CASE RunScriptReturn(s) \/ ExecuteDone(s)
  BY <1>2 DEF RunScriptReturn, ExecuteDone
<1> QED
  BY <1>1, <1>2 DEF Instruction, Compute, Exit, Fail, SleepFor, wait_for_event, WaitForClient, KillScript,
    StartScript, RunScript, clear_event_queue, set_critical, set_priority, set_event_queue_size, DebugStop

\* Under the lock no turn, wake or command of the debugger is at fault: what the lists
\* and the debugger point at exists, and what wakes was blocked.
LEMMA NextFaults ==
  ASSUME HoldsInv, ~UnlockedDebugger, [Next]_vars
  PROVE  \/ UNCHANGED corrupt
         \/ corrupt' = "queue" /\ ~RoomInv
         \/ corrupt' = "parent" /\ \E s \in Scripts : ReturnToDeleted(s)
         \/ corrupt' = "child" /\ \E s \in Scripts : RunScriptReturn(s)
         \/ corrupt' = "done" /\ \E s \in Scripts : ExecuteDone(s)
<1>0. TypeOK /\ ListInv /\ HeldMeanwhile /\ DetachOK /\ \A s \in Scripts : HoldOK(s)
  BY DEF HoldsInv, SchedulerInv
<1>1. CASE BeginPass \/ EmptyRunlist \/ EndPass \/ EndCheck \/ Clock \/ Stop \/ UNCHANGED vars
  BY <1>1 DEF BeginPass, EmptyRunlist, EndPass, EndCheck, Clock, Tick, Stop, Shutdown, envVars, vars
<1>2. CASE BeginTurn
  BY <1>0, <1>2, BeginTurnKeeps
<1>3. CASE WakeDue
  <2>1. PICK h \in holdlist : \/ UNCHANGED corrupt
                              \/ ~(Live(h.script) /\ os[h.script].blocked)
    BY <1>3 DEF WakeDue
  <2>2. Live(h.script) /\ os[h.script].blocked
    BY <1>0 DEF ListInv, InOneList, TypeOK, HoldOK
  <2> QED
    BY <2>1, <2>2
<1>4. ASSUME NEW s \in Scripts, EndTurn(s)
      PROVE  UNCHANGED corrupt \/ (corrupt' = "parent" /\ ReturnToDeleted(s))
  BY <1>4 DEF EndTurn, ReturnToParent, DeleteFinished, ReturnToDeleted, MarkForDebugger,
              HoldForDebugger, HoldBlocked, Requeue, envVars
<1>5. CASE OtherThreads
  BY <1>0, <1>5, SignalFaults DEF OtherThreads, ExternalStart, ExternalEvent, ExternalKill, ClientReply
<1>6. CASE BeginCommand
  BY <1>6 DEF BeginCommand, DebugStart, cmd_attach, cmd_kill, cmd_break, DebugCheckHeld, DebugCheckDetach
<1>7. CASE FinishCommand
  BY <1>0, <1>7 DEF FinishCommand, HeldMeanwhile, DetachOK, DebugResume, DebugDetach, DebugLetGo
<1> QED
  BY <1>0, <1>1, <1>2, <1>3, <1>4, <1>5, <1>6, <1>7, InstructionFaults
  DEF Next, Ended, ScriptsThread, Debugger

\* The lists never name a script that was deleted or one that is not blocked, and the
\* debugger resumes and lets go of scripts that exist: whatever is killed meanwhile.
ListsPointRight == corrupt \notin {"turn", "held", "debugger"}

THEOREM PointersUnderLock ==
  ASSUME ~UnlockedDebugger
  PROVE  Spec => []ListsPointRight
<1>1. Init => ListsPointRight
  BY DEF Init, ListsPointRight
<1>2. HoldsInv /\ ListsPointRight /\ [Next]_vars => ListsPointRight'
  BY NextFaults DEF ListsPointRight
<1> QED
  BY <1>1, <1>2, HoldsInvariant, PTL DEF Spec

\* The links to parents and children are followed only while they lead somewhere.
LEMMA FamilyFaults ==
  ASSUME FamilyInv, ~UnlockedDebugger, ParentsLeftAlone, [Next]_vars
  PROVE  \/ UNCHANGED corrupt
         \/ corrupt' = "queue" /\ ~RoomInv
         \/ corrupt' = "done" /\ \E s \in Scripts : ExecuteDone(s)
<1>1. EndsLast
  BY NextEnds DEF FamilyInv
<1>2. ASSUME NEW s \in Scripts, ReturnToDeleted(s)
      PROVE  UNCHANGED corrupt
  BY <1>1, <1>2, EndTurnFamily DEF EndTurn
<1>3. ASSUME NEW s \in Scripts, RunScriptReturn(s)
      PROVE  UNCHANGED corrupt
  BY <1>1, <1>3, ReturnFamily
<1> QED
  BY <1>2, <1>3, NextFaults DEF FamilyInv

\* run_ready never asks a parent that was deleted, nor does a run_script read a child
\* that was, while no kill and no debugger reaches a script that may run a child.
THEOREM ParentsAreAsked ==
  ASSUME ~UnlockedDebugger, ParentsLeftAlone
  PROVE  Spec => []ParentAsked
<1>1. Init => ParentAsked
  BY DEF Init, ParentAsked
<1>2. FamilyInv /\ ParentAsked /\ [Next]_vars => ParentAsked'
  BY FamilyFaults DEF ParentAsked
<1> QED
  BY <1>1, <1>2, FamilyInvariant, PTL DEF Spec

LEMMA FlagsInvariant == Spec => [](TypeOK /\ FlagsInv)
<1>1. Init => TypeOK /\ FlagsInv
  BY TypeInit, FlagsInit
<1>2. TypeOK /\ FlagsInv /\ [Next]_vars => (TypeOK /\ FlagsInv)'
  BY TypeStep, FlagsKept
<1> QED
  BY <1>1, <1>2, PTL DEF Spec

LEMMA RunnableGoesOn ==
  ASSUME FlagsInv, DebuggedRunOn
  PROVE  ClassInvariant
BY DEF FlagsInv, FlagsOK, DebuggedRunOn, ClassInvariant, Executes

\* What execInstr asserts of a script holds of every script that runs, as long as none
\* that a debugger may attach to ends of itself, whatever thread the debugger is.
THEOREM ExecutesItsClass ==
  ASSUME DebuggedRunOn
  PROVE  Spec => []ClassInvariant
<1>1. FlagsInv => ClassInvariant
  BY RunnableGoesOn
<1> QED
  BY <1>1, FlagsInvariant, PTL

\* No script runs a child.
NoChildren == \A s \in Scripts : "run" \notin Program[s]

\* Then a script is done only in the turn it ends in, whoever debugs it, and is not put
\* in the debugger's list: the debugger's command is an instruction of another script,
\* in another turn.
DoneOK ==
  \A s \in Scripts : ex[s].done => s = current /\ ~ex[s].run_ok /\ phase # "hold"

CommandOK == dbg.cmd # "none" => current \notin Debuggable

EndInv == FamilyInv /\ DoneOK /\ CommandOK

LEMMA NoParents ==
  ASSUME FamilyInv, NoChildren, NEW s \in Scripts, Live(s)
  PROVE  ex[s].pParent = NoScript
<1>1. ASSUME ex[s].pParent # NoScript
      PROVE  FALSE
  <2>1. PICK p \in Scripts : Live(p) /\ ex[p].pChild = s
    BY <1>1 DEF FamilyInv, LinksOK
  <2>2. ex[p].pChild # NoScript
    BY <2>1, SchedulerAssumption DEF SchedulerAssumption
  <2> QED
    BY <2>1, <2>2 DEF FamilyInv, RunOK, NoChildren
<1> QED
  BY <1>1

LEMMA EndsStopped ==
  ASSUME NEW s \in Scripts, ex[s] \in Executor, ex'[s] \in Executor, FlagsStep(s), ~ex[s].done
  PROVE  ex'[s].done => ~ex'[s].run_ok
<1>1. \/ ex'[s].done = ex[s].done
      \/ ~ex'[s].run_ok
      \/ ex'[s] = NewExecutor
  BY DEF FlagsStep
<1>2. ~NewExecutor.done
  BY DEF NewExecutor
<1> QED
  BY <1>1, <1>2

LEMMA InstructionDone ==
  ASSUME TypeOK, FlagsInv, NEW s \in Scripts, Instruction(s)
  PROVE  \A u \in Scripts \ {s} : ex'[u].done = ex[u].done
<1> DEFINE x == Traced(s)
<1> USE DEF Fetch, Fetches
<1>0. ex \in [Scripts -> Executor]
  BY DEF TypeOK
<1>1. x \in [Scripts -> Executor] /\ \A u \in Scripts : x[u].done = ex[u].done
  BY TracedFlags DEF FlagsInv
<1>2. ASSUME NEW t \in Scripts, ex' = SetError(x, t)
      PROVE  \A u \in Scripts : ex'[u].done = ex[u].done
  <2> HIDE DEF x
  <2> QED
    BY <1>1, <1>2 DEF SetError, Executor
<1>3. CASE Exit(s)
  <2>1. ex' = [x EXCEPT ![s].done = TRUE, ![s].run_ok = FALSE]
    BY <1>3 DEF Exit
  <2> HIDE DEF x
  <2> QED
    BY <1>1, <2>1
<1>4. CASE Fail(s) \/ \E t \in Scripts : KillScript(s, t)
  BY <1>2, <1>4 DEF Fail, KillScript
<1>5. CASE RunScriptReturn(s)
  <2>1. UNCHANGED ex \/ ex' = [x EXCEPT ![ex[s].pChild].pParent = NoScript, ![s].pChild = NoScript]
    BY <1>5 DEF RunScriptReturn
  <2> HIDE DEF x
  <2> QED
    BY <1>1, <2>1 DEF Executor
<1>6. CASE \E t \in Scripts : RunScript(s, t)
  <2>1. PICK t \in Scripts : ex' = [x EXCEPT ![s].pChild = t, ![t].pParent = s]
    BY <1>6 DEF RunScript
  <2> HIDE DEF x
  <2> QED
    BY <1>1, <2>1 DEF Executor
<1>7. CASE DebugStop(s) \/ ExecuteDone(s)
  BY <1>0, <1>7 DEF DebugStop, ExecuteDone, execVars
<1>8. CASE \/ Compute(s) \/ WaitForClient(s)
           \/ \E n \in SleepTicks : SleepFor(s, n) \/ wait_for_event(s, n)
           \/ \E t \in Scripts : SendEvent(s, t) \/ StartScript(s, t) \/ clear_event_queue(s, t)
           \/ \E crit \in BOOLEAN : set_critical(s, crit)
           \/ \E n \in Priorities : set_priority(s, n)
           \/ \E n \in QueueSizes : set_event_queue_size(s, n)
  <2>1. ex' = x
    BY <1>8 DEF Compute, WaitForClient, SleepFor, wait_for_event, SendEvent, StartScript,
                clear_event_queue, set_critical, set_priority, set_event_queue_size
  <2> QED
    BY <1>1, <2>1
<1> QED
  BY <1>3, <1>4, <1>5, <1>6, <1>7, <1>8 DEF Instruction

LEMMA InstructionRuns ==
  ASSUME NEW s \in Scripts, Instruction(s)
  PROVE  Executes(s) /\ UNCHANGED <<phase, current>>
BY DEF Instruction, Compute, Exit, Fail, SleepFor, wait_for_event, WaitForClient, SendEvent,
  KillScript, StartScript, RunScript, clear_event_queue, RunScriptReturn, set_critical, set_priority,
  set_event_queue_size, DebugStop, ExecuteDone, Fetch, Fetches, turnVars

LEMMA DoneKept ==
  ASSUME EndInv, NoChildren, [Next]_vars
  PROVE  DoneOK'
<1>0. /\ TypeOK /\ FlagsInv /\ ex \in [Scripts -> Executor] /\ NoScript \notin Scripts
      /\ phase \notin {"run", "hold"} => current = NoScript
  BY SchedulerAssumption DEF SchedulerAssumption, EndInv, FamilyInv, HoldsInv, SchedulerInv, TypeOK,
                             ListInv, NoneLost, InPass, NothingReady
<1>1. ASSUME UNCHANGED <<phase, current>> \/ current = NoScript, NEW d \in Scripts, d # current \/ ~ex'[d].run_ok,
             \A u \in Scripts : ex'[u].done = ex[u].done,
             \A u \in Scripts \ {d} : ex'[u].run_ok = ex[u].run_ok
      PROVE  DoneOK'
  BY <1>0, <1>1 DEF EndInv, DoneOK
<1>2. CASE UNCHANGED ex /\ (UNCHANGED <<phase, current>> \/ current = NoScript)
  BY <1>0, <1>2 DEF EndInv, DoneOK
<1>3. CASE \/ BeginPass \/ BeginTurn \/ EmptyRunlist \/ EndPass \/ WakeDue \/ EndCheck
           \/ Clock \/ Stop \/ UNCHANGED vars
  BY <1>0, <1>2, <1>3 DEF BeginPass, BeginTurn, EmptyRunlist, EndPass, WakeDue, EndCheck, Clock, Tick,
                          Stop, Shutdown, turnVars, execVars, vars
<1>4. ASSUME NEW s \in Scripts, NEW y \in [Scripts -> Executor], y = SetError(ex, s)
      PROVE  /\ ~y[s].run_ok /\ \A u \in Scripts : y[u].done = ex[u].done
             /\ \A u \in Scripts \ {s} : y[u].run_ok = ex[u].run_ok
  BY <1>0, <1>4 DEF SetError, Executor
<1>5. CASE OtherThreads
  <2>1. PICK s \in Scripts : ExternalStart(s) \/ ExternalEvent(s) \/ ExternalKill(s) \/ ClientReply(s)
    BY <1>5 DEF OtherThreads
  <2>2. UNCHANGED <<phase, current>> /\ (UNCHANGED ex \/ ex' = SetError(ex, s))
    BY <2>1 DEF ExternalStart, ExternalEvent, ExternalKill, ClientReply, Unlocked, turnVars, execVars
  <2> QED
    BY <1>0, <1>1, <1>2, <1>4, <2>2, ExecutorTypes
<1>6. ASSUME NEW s \in Scripts, Instruction(s)
      PROVE  DoneOK'
  <2>1. Executes(s) /\ UNCHANGED <<phase, current>> /\ FlagsStep(s)
    BY <1>0, <1>6, InstructionRuns, InstructionFlags DEF FlagsSteps
  <2>2. current = s /\ \A u \in Scripts : ~ex[u].done
    BY <2>1 DEF Executes, EndInv, DoneOK
  <2>3. \A u \in Scripts \ {s} : ~ex'[u].done
    BY <1>0, <1>6, <2>2, InstructionDone
  <2>4. ex'[s].done => ~ex'[s].run_ok
    <3>1. ex[s] \in Executor /\ ex'[s] \in Executor
      BY <1>0, TypeStep DEF TypeOK
    <3> QED
      BY <2>1, <2>2, <3>1, EndsStopped
  <2> QED
    BY <2>1, <2>2, <2>3, <2>4 DEF DoneOK, Executes
<1>7. ASSUME NEW s \in Scripts, EndTurn(s)
      PROVE  DoneOK'
  <2>1. current = s /\ Live(s)
    BY <1>7 DEF EndTurn, ReturnToParent, DeleteFinished, ReturnToDeleted, MarkForDebugger,
                HoldForDebugger, HoldBlocked, Requeue, TurnOver, EndInv, FamilyInv, HoldsInv, SchedulerInv, ListInv, InOneList
  <2>2. ex[s].pParent = NoScript
    BY <2>1, NoParents DEF EndInv
  <2>3. \A u \in Scripts \ {s} : ~ex[u].done
    BY <2>1 DEF EndInv, DoneOK
  <2>4. CASE DeleteFinished(s)
    BY <1>0, <2>3, <2>4 DEF DeleteFinished, NewExecutor, DoneOK
  <2>5. CASE MarkForDebugger(s) \/ HoldForDebugger(s) \/ HoldBlocked(s) \/ Requeue(s)
    <3>1. UNCHANGED ex /\ ~ex[s].done
      BY <2>5 DEF MarkForDebugger, HoldForDebugger, HoldBlocked, Requeue, Finished, execVars,
                  EndInv, DoneOK
    <3> QED
      BY <2>3, <3>1 DEF DoneOK
  <2> QED
    BY <1>7, <2>2, <2>4, <2>5 DEF EndTurn, ReturnToParent, ReturnToDeleted
<1>8. CASE Debugger
  <2>1. UNCHANGED <<phase, current>>
    BY <1>8 DEF Debugger, BeginCommand, FinishCommand, DebugStart, cmd_attach, cmd_kill, cmd_break,
                DebugCheckHeld, DebugCheckDetach, Commands, turnVars
  <2>2. ASSUME NEW d \in Scripts, NEW z \in [Scripts -> Executor], NEW b,
               ex' = [z EXCEPT ![d].debug_state = b]
        PROVE  \A u \in Scripts : ex'[u].done = z[u].done /\ ex'[u].run_ok = z[u].run_ok
    BY <2>2 DEF Executor
  <2>3. CASE \E s \in Scripts : cmd_attach(s)
    BY <1>0, <2>1, <2>2, <2>3 DEF cmd_attach, EndInv, DoneOK
  <2>4. CASE \E s \in Scripts : cmd_kill(s)
    BY <1>0, <1>1, <1>4, <2>1, <2>4, ExecutorTypes DEF cmd_kill
  <2>5. CASE cmd_break
    BY <1>0, <2>1, <2>2, <2>5 DEF cmd_break, Attached, EndInv, DoneOK
  <2>6. CASE FinishCommand
    <3>1. \/ UNCHANGED ex
          \/ \E d \in Scripts : \E b : d = dbg.script /\ ex' = [ClearHalt(ex, d) EXCEPT ![d].debug_state = b]
      BY <2>6 DEF FinishCommand, DebugResume, DebugDetach, DebugLetGo, execVars
    <3>2. ASSUME NEW d \in Scripts, NEW b, d = dbg.script,
                 ex' = [ClearHalt(ex, d) EXCEPT ![d].debug_state = b]
          PROVE  DoneOK'
      <4> DEFINE z == ClearHalt(ex, d)
      <4>1. d # current
        BY <1>0, <2>6, <3>2 DEF EndInv, CommandOK, FlagsInv, FinishCommand, DebugResume, DebugDetach, DebugLetGo
      <4>2. z \in [Scripts -> Executor]
        BY <1>0, ExecutorTypes
      <4>3. /\ \A u \in Scripts : z[u].done = ex[u].done
            /\ \A u \in Scripts \ {d} : z[u].run_ok = ex[u].run_ok
        BY <1>0, <4>2 DEF ClearHalt, Executor
      <4> HIDE DEF z
      <4>4. ex' = [z EXCEPT ![d].debug_state = b]
        BY <3>2 DEF z
      <4> QED
        BY <1>1, <2>1, <2>2, <4>1, <4>2, <4>3, <4>4
    <3> QED
      BY <1>2, <2>1, <3>1, <3>2
  <2>7. CASE (\E s \in Scripts : DebugStart(s)) \/ DebugCheckDetach
             \/ \E cmd \in {"INS_TRACE", "RUN"} : DebugCheckHeld(cmd)
    BY <1>2, <2>1, <2>7 DEF DebugStart, DebugCheckDetach, DebugCheckHeld, execVars
  <2> QED
    BY <1>8, <2>3, <2>4, <2>5, <2>6, <2>7 DEF Debugger, BeginCommand
<1> QED
  BY <1>3, <1>5, <1>6, <1>7, <1>8 DEF Next, Ended, ScriptsThread

LEMMA CommandKept ==
  ASSUME CommandOK, ~UnlockedDebugger, [Next]_vars
  PROVE  CommandOK'
<1>1. CASE ScriptsThread \/ OtherThreads \/ Clock \/ Stop
  <2>1. dbg.cmd = "none" /\ UNCHANGED dbg
    BY <1>1, OthersLeaveDebugger DEF ScriptsThread, OtherThreads, Clock, Stop, Undisturbed
  <2> QED
    BY <2>1 DEF CommandOK
<1>2. CASE BeginCommand
  <2>1. Commands
    BY <1>2 DEF BeginCommand, DebugStart, cmd_attach, cmd_kill, cmd_break, DebugCheckHeld, DebugCheckDetach
  <2>2. current' \in Scripts /\ "debug" \in Program[current']
    BY <2>1 DEF Commands, Executes
  <2> QED
    BY <2>2, SchedulerAssumption DEF SchedulerAssumption, CommandOK
<1>3. CASE FinishCommand
  BY <1>3 DEF FinishCommand, DebugResume, DebugDetach, DebugLetGo, CommandOK, turnVars
<1> QED
  BY <1>1, <1>2, <1>3 DEF Next, Ended, Debugger, CommandOK, vars

LEMMA EndInvariant ==
  ASSUME ~UnlockedDebugger, NoChildren
  PROVE  Spec => []EndInv
<1>1. Init => DoneOK /\ CommandOK
  BY DEF Init, DoneOK, CommandOK, NewExecutor
<1>2. FamilyInv /\ DoneOK /\ CommandOK /\ [Next]_vars => DoneOK' /\ CommandOK'
  BY DoneKept, CommandKept DEF EndInv
<1>3. ParentsLeftAlone
  BY DEF NoChildren, ParentsLeftAlone
<1> QED
  BY <1>1, <1>2, <1>3, FamilyInvariant, PTL DEF Spec, EndInv

\* Without children and under the lock, execInstr's assertion holds of scripts that are
\* debugged and end as well: the debugger never makes one runnable that is done.
THEOREM EndsUnderLock ==
  ASSUME ~UnlockedDebugger, NoChildren
  PROVE  Spec => []ClassInvariant
<1>1. EndInv => ClassInvariant
  BY DEF EndInv, DoneOK, FamilyInv, HoldsInv, FlagsInv, FlagsOK, ClassInvariant, Executes
<1> QED
  BY <1>1, EndInvariant, PTL

\* No instruction, turn or command of the debugger is undefined, under these hypotheses:
\* a locked debugger, parents out of reach of kills, room in the queues, and nothing
\* that is debugged ends of itself or nothing is run as a child.
THEOREM WellDefinedUnderLock ==
  ASSUME ~UnlockedDebugger, ParentsLeftAlone, RoomInQueues, DebuggedRunOn \/ NoChildren
  PROVE  Spec => []WellDefined
<1>1. Init => RoomInv /\ WellDefined
  BY RoomInit DEF Init, WellDefined
<1>2. FamilyInv /\ ClassInvariant /\ RoomInv /\ WellDefined /\ [Next]_vars => RoomInv' /\ WellDefined'
  <2> SUFFICES ASSUME FamilyInv, ClassInvariant, RoomInv, WellDefined, [Next]_vars
               PROVE  RoomInv' /\ WellDefined'
    OBVIOUS
  <2>1. ~\E s \in Scripts : ExecuteDone(s)
    BY DEF ClassInvariant, ExecuteDone
  <2>2. RoomInv'
    BY RoomKept DEF FamilyInv, HoldsInv, SchedulerInv
  <2> QED
    BY <2>1, <2>2, FamilyFaults DEF WellDefined
<1>3. Spec => []ClassInvariant
  BY ExecutesItsClass, EndsUnderLock
<1> QED
  BY <1>1, <1>2, <1>3, FamilyInvariant, PTL DEF Spec

=============================================================================
