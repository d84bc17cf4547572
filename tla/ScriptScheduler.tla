-------------------------- MODULE ScriptScheduler --------------------------
(***************************************************************************)
(* The cooperative scheduler of eScript programs: pol/scrsched.cpp, with   *)
(* the "os" module that gives a script its sleeps, events and children     *)
(* (pol/module/osmod.cpp), the debugger commands that reach into the hold  *)
(* lists (pol/poldbg.cpp) and the executor flags they all share            *)
(* (bscript/executor.h).                                                   *)
(*                                                                         *)
(* A step is one instruction of one script, one iteration of a loop of the *)
(* scheduler, or one operation of another thread.  The other threads hold  *)
(* PolLock and so find the scripts thread outside step_scripts (phase      *)
(* "unlocked"); the debugger's thread takes no lock and steps at any time, *)
(* also between the two halves of what run_ready does to the lists that    *)
(* thread works on (phases "swap" and "hold").                             *)
(*                                                                         *)
(* An operator with an underscore in its name before the one it is named   *)
(* after is a mutation of it, used by no definition here: a slip that a    *)
(* property is to notice.                                                  *)
(***************************************************************************)
EXTENDS Integers, Sequences, FiniteSets, Functions

CONSTANTS
  Scripts,          \* the executors the server may ever create, by address
  NoScript,         \* the NULL pointer
  Program,          \* Program[s]: the kinds of instruction s may execute
  Debuggable,       \* the executors a debugger may attach to, start or kill
  UnlockedDebugger, \* the debugger is debug_listen_thread's, not a script's
  KillTargets,      \* the executors that script.kill() and stop_skill_script reach
  Priorities,       \* values a script may give set_priority (1 is the default)
  SleepTicks,       \* lengths of sleeps and waits in clock ticks, after rounding
  DefaultQueueSize, \* MAX_EVENTQUEUE_SIZE
  QueueSizes,       \* values a script may give set_event_queue_size
  DiscardOldEvents, \* config.discard_old_events
  MaxClock,         \* bound: the clock stops there, what sleeps longer does not wake
  MaxEvents         \* bound: later events are not told apart from this one

Instructions == {"compute", "exit", "fail", "sleep", "wait", "send", "kill",
                 "start", "run", "critical", "priority", "clear", "qsize",
                 "client", "debug"}

ASSUME SchedulerAssumption ==
  /\ NoScript \notin Scripts
  /\ Program \in [Scripts -> SUBSET Instructions]
  /\ \A s \in Scripts : Program[s] \cap {"compute", "exit"} # {}
  /\ Debuggable \subseteq Scripts
  /\ \A s \in Debuggable : "debug" \notin Program[s]
  /\ UnlockedDebugger \in BOOLEAN
  /\ KillTargets \subseteq Scripts
  /\ Priorities \subseteq 1..255
  /\ SleepTicks \subseteq Nat
  /\ DefaultQueueSize \in Nat
  /\ QueueSizes \subseteq Nat
  /\ DiscardOldEvents \in BOOLEAN
  /\ MaxClock \in Nat \ {0}
  /\ MaxEvents \in Nat

VARIABLES
  phase,              \* where the scripts thread is: outside the lock, in the
                      \* loop of run_ready, about to put a script where the
                      \* debugger finds it, about to swap the lists, in
                      \* check_blocked, or gone
  status,             \* whether the executor is allocated
  runlist, ranlist,   \* ExecList
  holdlist,           \* HoldList: executors by the clock they sleep until
  notimeoutholdlist, debuggerholdlist,  \* NoTimeoutHoldList
  in_hold_list,       \* OSExecutorModule::in_hold_list_
  os,                 \* the other fields of OSExecutorModule
  ex,                 \* the fields of Executor and UOExecutor
  current, insleft,   \* ex and insleft of run_ready
  clock,              \* polclock()
  dbg,                \* the DebugContext: the attached script, the command under way
  sent,               \* events numbered so far
  corrupt             \* the first undefined behaviour reached, if any

execVars == <<os, ex>>
holdVars == <<holdlist, notimeoutholdlist, debuggerholdlist, in_hold_list>>
listVars == <<runlist, ranlist, holdVars>>
turnVars == <<phase, current, insleft>>
envVars  == <<clock, dbg, sent, corrupt>>
vars == <<phase, status, runlist, ranlist, holdlist, notimeoutholdlist,
          debuggerholdlist, in_hold_list, os, ex, current, insleft, clock, dbg,
          sent, corrupt>>

Phases      == {"unlocked", "run", "hold", "swap", "check", "exited"}
HoldLists   == {"NO_LIST", "TIMEOUT_LIST", "NOTIMEOUT_LIST", "DEBUGGER_LIST"}
DebugStates == {"NONE", "ATTACHING", "ATTACHED", "INS_TRACE", "RUN", "BREAK_INTO"}
Faults      == {"none", "parent", "child", "done", "queue", "debugger", "turn", "held"}
DebugCommands == {"none", "INS_TRACE", "RUN", "detach", "detached"}

OsModule == [blocked : BOOLEAN, wait_type : {"WAIT_SLEEP", "WAIT_EVENT"},
             sleep_until : Nat, events : Seq(Nat), max_eventqueue_size : Nat,
             critical : BOOLEAN, priority : Nat, client : BOOLEAN,
             last_event : Nat]

Executor == [error : BOOLEAN, halt : BOOLEAN, done : BOOLEAN, run_ok : BOOLEAN,
             debug_state : DebugStates,
             pParent : Scripts \cup {NoScript}, pChild : Scripts \cup {NoScript}]

NewOsModule ==
  [blocked |-> FALSE, wait_type |-> "WAIT_SLEEP", sleep_until |-> 0,
   events |-> <<>>, max_eventqueue_size |-> DefaultQueueSize,
   critical |-> FALSE, priority |-> 1, client |-> FALSE, last_event |-> 0]

NewExecutor ==
  [error |-> FALSE, halt |-> FALSE, done |-> FALSE, run_ok |-> TRUE,
   debug_state |-> "NONE", pParent |-> NoScript, pChild |-> NoScript]

Init ==
  /\ phase = "unlocked"
  /\ status = [s \in Scripts |-> "unborn"]
  /\ runlist = <<>> /\ ranlist = <<>>
  /\ holdlist = {} /\ notimeoutholdlist = {} /\ debuggerholdlist = {}
  /\ in_hold_list = [s \in Scripts |-> "NO_LIST"]
  /\ os = [s \in Scripts |-> NewOsModule]
  /\ ex = [s \in Scripts |-> NewExecutor]
  /\ current = NoScript /\ insleft = 0
  /\ clock = 1
  /\ dbg = [script |-> NoScript, cmd |-> "none"]
  /\ sent = 0
  /\ corrupt = "none"

Live(s) == s \in Scripts /\ status[s] = "live"

-----------------------------------------------------------------------------
(* Moves between the lists *)

\* revive(): out of the hold list it is in, unless the debugger holds it.
ReviveLists(s) ==
  \/ /\ in_hold_list[s] = "TIMEOUT_LIST"
     /\ holdlist' = {h \in holdlist : h.script # s}
     /\ in_hold_list' = [in_hold_list EXCEPT ![s] = "NO_LIST"]
     /\ runlist' = Append(runlist, s)
     /\ UNCHANGED <<notimeoutholdlist, debuggerholdlist>>
  \/ /\ in_hold_list[s] = "NOTIMEOUT_LIST"
     /\ notimeoutholdlist' = notimeoutholdlist \ {s}
     /\ in_hold_list' = [in_hold_list EXCEPT ![s] = "NO_LIST"]
     /\ runlist' = Append(runlist, s)
     /\ UNCHANGED <<holdlist, debuggerholdlist>>
  \/ /\ in_hold_list[s] \in {"NO_LIST", "DEBUGGER_LIST"}
     /\ UNCHANGED <<runlist, holdVars>>

\* revive_debugged(): unconditional, its callers have looked at the list before.
ReviveDebugged(s) ==
  /\ debuggerholdlist' = debuggerholdlist \ {s}
  /\ in_hold_list' = [in_hold_list EXCEPT ![s] = "NO_LIST"]
  /\ runlist' = Append(runlist, s)
  /\ UNCHANGED <<holdlist, notimeoutholdlist>>

ReviveKilled_Always(s) == ReviveDebugged(s)

\* The tail of every kill: revive(), then revive_debugged() if the debugger holds it.
ReviveKilled(s) ==
  \/ in_hold_list[s] = "DEBUGGER_LIST" /\ ReviveDebugged(s)
  \/ in_hold_list[s] # "DEBUGGER_LIST" /\ ReviveLists(s)

\* start_script: a new executor goes to the back of runlist.
Enlist(s) ==
  /\ status[s] = "unborn"
  /\ status' = [status EXCEPT ![s] = "live"]
  /\ runlist' = Append(runlist, s)
  /\ UNCHANGED <<ranlist, holdVars>>

-----------------------------------------------------------------------------
(* Operations that scripts and other threads share *)

Unblock(s) == [os EXCEPT ![s].blocked = FALSE]

Block(s, type, until) ==
  [os EXCEPT ![s] = [@ EXCEPT !.blocked = TRUE, !.wait_type = type, !.sleep_until = until]]

\* seterror(true): calcrunnable() makes it not runnable.
SetError(x, s) == [x EXCEPT ![s].error = TRUE, ![s].run_ok = FALSE]

\* sethalt(false): calcrunnable() looks at error_ and halt_, not at done.
ClearHalt(x, s) == [x EXCEPT ![s].halt = FALSE, ![s].run_ok = ~x[s].error]

NextEvent == IF sent < MaxEvents THEN sent + 1 ELSE sent

Waiting(s) == os[s].blocked /\ os[s].wait_type = "WAIT_EVENT"
QueueFull(s) == Len(os[s].events) >= os[s].max_eventqueue_size

signal_event_Front(s) ==
  /\ sent' = NextEvent
  /\ os' = IF Waiting(s) THEN [Unblock(s) EXCEPT ![s].last_event = NextEvent]
           ELSE IF QueueFull(s) THEN os
           ELSE [os EXCEPT ![s].events = <<NextEvent>> \o @]
  /\ IF Waiting(s) THEN ReviveLists(s) ELSE UNCHANGED <<runlist, holdVars>>
  /\ UNCHANGED <<ranlist, corrupt>>

\* signal_event: hand the event to the wait, queue it, make room for it, or refuse it.
signal_event(s) ==
  /\ sent' = NextEvent
  /\ \/ /\ Waiting(s)
        /\ os' = [Unblock(s) EXCEPT ![s].last_event = NextEvent]
        /\ ReviveLists(s)
        /\ UNCHANGED <<ranlist, corrupt>>
     \/ /\ ~Waiting(s) /\ ~QueueFull(s)
        /\ os' = [os EXCEPT ![s].events = Append(@, NextEvent)]
        /\ UNCHANGED <<listVars, corrupt>>
     \/ /\ ~Waiting(s) /\ QueueFull(s) /\ DiscardOldEvents
        /\ os[s].events # <<>>
        /\ os' = [os EXCEPT ![s].events = Append(Tail(@), NextEvent)]
        /\ UNCHANGED <<listVars, corrupt>>
     \/ /\ ~Waiting(s) /\ QueueFull(s) /\ DiscardOldEvents
        /\ os[s].events = <<>>          \* front() and pop() of an empty queue
        /\ corrupt' = "queue"
        /\ UNCHANGED <<os, listVars>>
     \/ /\ ~Waiting(s) /\ QueueFull(s) /\ ~DiscardOldEvents
        /\ UNCHANGED <<os, listVars, corrupt>>

-----------------------------------------------------------------------------
(* Instructions: execInstr() and what follows it in run_ready's inner loop *)

Executes_NoLimit(s) ==
  phase = "run" /\ current = s /\ Live(s) /\ ex[s].run_ok /\ ~os[s].blocked

\* The inner loop goes round again: runnable, not blocked, instructions left.
Executes(s) ==
  /\ phase = "run" /\ current = s /\ Live(s)
  /\ ex[s].run_ok /\ ~os[s].blocked /\ insleft > 0

Stopping(s) == ex[s].debug_state \in {"ATTACHING", "BREAK_INTO"}

\* Only non-critical scripts use up their turn.
Spend(critical) == insleft' = IF critical THEN insleft ELSE insleft - 1

\* The instruction at PC executes.  A parent with a child is at its run_script.
Fetches(s) ==
  /\ Executes(s) /\ ~ex[s].done /\ ~Stopping(s)
  /\ UNCHANGED <<phase, current, clock, dbg>>

Fetch(s, op) == Fetches(s) /\ ex[s].pChild = NoScript /\ op \in Program[s]

\* Instruction trace lets this instruction through and halts the script.
Traced(s) ==
  IF ex[s].debug_state = "INS_TRACE"
  THEN [ex EXCEPT ![s].debug_state = "ATTACHED", ![s].halt = TRUE, ![s].run_ok = FALSE]
  ELSE ex

Compute(s) ==
  /\ Fetch(s, "compute")
  /\ Spend(os[s].critical)
  /\ ex' = Traced(s)
  /\ UNCHANGED <<status, os, listVars, sent, corrupt>>

\* ins_exit, ins_progend
Exit(s) ==
  /\ Fetch(s, "exit")
  /\ Spend(os[s].critical)
  /\ ex' = [Traced(s) EXCEPT ![s].done = TRUE, ![s].run_ok = FALSE]
  /\ UNCHANGED <<status, os, listVars, sent, corrupt>>

\* An exception leaves the instruction: execInstr's handler sets the error.
Fail(s) ==
  /\ Fetch(s, "fail")
  /\ Spend(os[s].critical)
  /\ ex' = SetError(Traced(s), s)
  /\ UNCHANGED <<status, os, listVars, sent, corrupt>>

SleepFor(s, n) ==
  /\ Fetch(s, "sleep")
  /\ Spend(os[s].critical)
  /\ ex' = Traced(s)
  /\ \/ os' = Block(s, "WAIT_SLEEP", clock + n)
     \/ UNCHANGED os                    \* Sleep( 0 )
  /\ UNCHANGED <<status, listVars, sent, corrupt>>

wait_for_event_Unlooked(s, n) ==
  /\ Fetch(s, "wait")
  /\ Spend(os[s].critical)
  /\ ex' = Traced(s)
  /\ os' = Block(s, "WAIT_EVENT", clock + n)
  /\ UNCHANGED <<status, listVars, sent, corrupt>>

\* wait_for_event: the oldest event, or a wait that ends at the timeout, if any.
wait_for_event(s, n) ==
  /\ Fetch(s, "wait")
  /\ Spend(os[s].critical)
  /\ ex' = Traced(s)
  /\ \/ /\ os[s].events # <<>>
        /\ os' = [os EXCEPT ![s] = [@ EXCEPT !.events = Tail(os[s].events),
                                             !.last_event = Head(os[s].events)]]
     \/ /\ os[s].events = <<>>
        /\ os' = Block(s, "WAIT_EVENT", clock + n)
     \/ os[s].events = <<>> /\ UNCHANGED os
  /\ UNCHANGED <<status, listVars, sent, corrupt>>

\* A request to a client (target cursor, prompt, menu...): suspend() until it answers.
WaitForClient(s) ==
  /\ Fetch(s, "client")
  /\ Spend(os[s].critical)
  /\ ex' = Traced(s)
  /\ os' = [Block(s, "WAIT_SLEEP", 0) EXCEPT ![s].client = TRUE]
  /\ UNCHANGED <<status, listVars, sent, corrupt>>

SendEvent(s, t) ==
  /\ Fetch(s, "send") /\ Live(t)
  /\ Spend(os[s].critical)
  /\ ex' = Traced(s)
  /\ signal_event(t)
  /\ UNCHANGED status

KillScript(s, t) ==
  /\ Fetch(s, "kill") /\ t \in KillTargets /\ Live(t)
  /\ Spend(os[s].critical)
  /\ ex' = SetError(Traced(s), t)
  /\ os' = Unblock(t)
  /\ ReviveKilled(t)
  /\ UNCHANGED <<status, ranlist, sent, corrupt>>

StartScript(s, t) ==
  /\ Fetch(s, "start")
  /\ Spend(os[s].critical)
  /\ ex' = Traced(s)
  /\ Enlist(t)
  /\ UNCHANGED <<os, sent, corrupt>>

\* run_script, first time: start the child, do this instruction again when revived.
RunScript(s, t) ==
  /\ Fetch(s, "run")
  /\ Spend(os[s].critical)
  /\ ex' = [Traced(s) EXCEPT ![s].pChild = t, ![t].pParent = s]
  /\ os' = Block(s, "WAIT_SLEEP", 0)
  /\ Enlist(t)
  /\ UNCHANGED <<sent, corrupt>>

RunScriptReturn_Linked(s) ==
  /\ Fetches(s) /\ ex[s].pChild # NoScript
  /\ Spend(os[s].critical)
  /\ ex' = [Traced(s) EXCEPT ![s].pChild = NoScript]
  /\ UNCHANGED <<status, os, listVars, sent, corrupt>>

\* run_script, second time: take the child's result and let go of it.
RunScriptReturn(s) ==
  /\ Fetches(s) /\ ex[s].pChild # NoScript
  /\ Spend(os[s].critical)
  /\ \/ /\ Live(ex[s].pChild)
        /\ ex' = [Traced(s) EXCEPT ![ex[s].pChild].pParent = NoScript,
                                   ![s].pChild = NoScript]
        /\ UNCHANGED corrupt
     \/ /\ ~Live(ex[s].pChild)          \* the child was deleted
        /\ corrupt' = "child"
        /\ UNCHANGED ex
  /\ UNCHANGED <<status, os, listVars, sent>>

set_critical(s, crit) ==
  /\ Fetch(s, "critical")
  /\ Spend(crit)
  /\ ex' = Traced(s)
  /\ os' = [os EXCEPT ![s].critical = crit]
  /\ UNCHANGED <<status, listVars, sent, corrupt>>

set_priority(s, n) ==
  /\ Fetch(s, "priority")
  /\ Spend(os[s].critical)
  /\ ex' = Traced(s)
  /\ os' = [os EXCEPT ![s].priority = n]
  /\ UNCHANGED <<status, listVars, sent, corrupt>>

clear_event_queue(s, t) ==
  /\ Fetch(s, "clear") /\ Live(t)
  /\ Spend(os[s].critical)
  /\ ex' = Traced(s)
  /\ os' = [os EXCEPT ![t].events = <<>>]
  /\ UNCHANGED <<status, listVars, sent, corrupt>>

set_event_queue_size(s, n) ==
  /\ Fetch(s, "qsize")
  /\ Spend(os[s].critical)
  /\ ex' = Traced(s)
  /\ os' = [os EXCEPT ![s].max_eventqueue_size = n]
  /\ UNCHANGED <<status, listVars, sent, corrupt>>

\* execInstr returns before the instruction: attaching, a break, or a breakpoint.
DebugStop(s) ==
  /\ Executes(s) /\ ~ex[s].done
  /\ Stopping(s) \/ ex[s].debug_state = "RUN"
  /\ Spend(os[s].critical)
  /\ ex' = [ex EXCEPT ![s].debug_state = "ATTACHED", ![s].halt = TRUE, ![s].run_ok = FALSE]
  /\ UNCHANGED <<phase, current, clock, dbg, status, os, listVars, sent, corrupt>>

\* execInstr's passert( !done ) fails.
ExecuteDone(s) ==
  /\ Executes(s) /\ ex[s].done
  /\ corrupt' = "done"
  /\ UNCHANGED <<turnVars, status, listVars, execVars, clock, dbg, sent>>

-----------------------------------------------------------------------------
(* run_ready and check_blocked *)

\* step_scripts begins: the scripts thread has taken PolLock.
BeginPass ==
  /\ phase = "unlocked"
  /\ phase' = "run"
  /\ UNCHANGED <<current, insleft, status, listVars, execVars, envVars>>

\* The script at the front of runlist gets a turn of priority instructions.
BeginTurn ==
  /\ phase = "run" /\ current = NoScript /\ runlist # <<>>
  /\ runlist' = Tail(runlist)
  /\ \/ /\ Live(Head(runlist))
        /\ current' = Head(runlist)
        /\ insleft' = os[Head(runlist)].priority
        /\ UNCHANGED corrupt
     \/ /\ ~Live(Head(runlist))       \* it was in the list twice
        /\ corrupt' = "turn"
        /\ UNCHANGED <<current, insleft>>
  /\ UNCHANGED <<phase, status, ranlist, holdVars, execVars, clock, dbg, sent>>

TurnOver(s) ==
  /\ phase = "run" /\ current = s
  /\ ~ex[s].run_ok \/ os[s].blocked \/ insleft = 0
  /\ UNCHANGED <<clock, dbg, sent>>

NextTurn == phase' = "run" /\ current' = NoScript /\ insleft' = 0

Finished(s) == ex[s].error \/ ex[s].done

ReturnToParent_Unrevived(s) ==
  LET p == ex[s].pParent IN
  /\ TurnOver(s) /\ NextTurn /\ ~ex[s].run_ok /\ Finished(s)
  /\ p # NoScript
  /\ Live(p) /\ ex[p].run_ok
  /\ ranlist' = Append(ranlist, s)
  /\ UNCHANGED <<status, runlist, holdVars, execVars, corrupt>>

\* A finished child stays until its parent has taken the result.
ReturnToParent(s) ==
  LET p == ex[s].pParent IN
  /\ TurnOver(s) /\ NextTurn /\ ~ex[s].run_ok /\ Finished(s)
  /\ p # NoScript
  /\ Live(p) /\ ex[p].run_ok
  /\ ranlist' = Append(ranlist, s)
  /\ ReviveLists(p)
  /\ os' = Unblock(p)
  /\ UNCHANGED <<status, ex, corrupt>>

\* delete ex: its memory is not looked at again, so its fields start over.
DeleteFinished(s) ==
  LET p == ex[s].pParent IN
  /\ TurnOver(s) /\ NextTurn /\ ~ex[s].run_ok /\ Finished(s)
  /\ p = NoScript \/ (Live(p) /\ ~ex[p].run_ok)
  /\ status' = [status EXCEPT ![s] = "deleted"]
  /\ os' = [os EXCEPT ![s] = NewOsModule]
  /\ ex' = [ex EXCEPT ![s] = NewExecutor]
  /\ UNCHANGED <<listVars, corrupt>>

\* ex->pParent->runnable() on a parent that was deleted.
ReturnToDeleted(s) ==
  /\ TurnOver(s) /\ ~ex[s].run_ok /\ Finished(s)
  /\ ex[s].pParent # NoScript /\ ~Live(ex[s].pParent)
  /\ corrupt' = "parent"
  /\ UNCHANGED <<turnVars, status, listVars, execVars>>

\* in_hold_list_ says DEBUGGER_LIST, which is all that the debugger looks at...
MarkForDebugger(s) ==
  /\ TurnOver(s) /\ ~ex[s].run_ok /\ ~Finished(s) /\ ~os[s].blocked
  /\ phase' = "hold"
  /\ in_hold_list' = [in_hold_list EXCEPT ![s] = "DEBUGGER_LIST"]
  /\ UNCHANGED <<current, insleft, status, runlist, ranlist, holdlist, notimeoutholdlist,
                 debuggerholdlist, execVars, corrupt>>

HoldForDebugger_Dropped(s) ==
  /\ phase = "hold" /\ current = s /\ NextTurn
  /\ UNCHANGED <<status, listVars, execVars, envVars>>

\* ...before the list has the script.
HoldForDebugger(s) ==
  /\ phase = "hold" /\ current = s /\ NextTurn
  /\ debuggerholdlist' = debuggerholdlist \cup {s}
  /\ UNCHANGED <<status, runlist, ranlist, holdlist, notimeoutholdlist, in_hold_list,
                 execVars, envVars>>

\* sleep_until_clock_ 0 means to wait forever.
HoldBlocked(s) ==
  /\ TurnOver(s) /\ NextTurn /\ (ex[s].run_ok \/ ~Finished(s)) /\ os[s].blocked
  /\ IF os[s].sleep_until # 0
     THEN /\ in_hold_list' = [in_hold_list EXCEPT ![s] = "TIMEOUT_LIST"]
          /\ holdlist' = holdlist \cup {[until |-> os[s].sleep_until, script |-> s]}
          /\ UNCHANGED notimeoutholdlist
     ELSE /\ in_hold_list' = [in_hold_list EXCEPT ![s] = "NOTIMEOUT_LIST"]
          /\ notimeoutholdlist' = notimeoutholdlist \cup {s}
          /\ UNCHANGED holdlist
  /\ UNCHANGED <<status, runlist, ranlist, debuggerholdlist, execVars, corrupt>>

Requeue_Front(s) ==
  /\ TurnOver(s) /\ NextTurn /\ ex[s].run_ok /\ ~os[s].blocked
  /\ runlist' = <<s>> \o runlist
  /\ UNCHANGED <<status, ranlist, holdVars, execVars, corrupt>>

Requeue(s) ==
  /\ TurnOver(s) /\ NextTurn /\ ex[s].run_ok /\ ~os[s].blocked
  /\ ranlist' = Append(ranlist, s)
  /\ UNCHANGED <<status, runlist, holdVars, execVars, corrupt>>

EndTurn(s) == \/ ReturnToParent(s) \/ DeleteFinished(s) \/ ReturnToDeleted(s)
              \/ MarkForDebugger(s) \/ HoldForDebugger(s) \/ HoldBlocked(s) \/ Requeue(s)

\* while (!runlist.empty()) ends...
EmptyRunlist ==
  /\ phase = "run" /\ current = NoScript /\ runlist = <<>>
  /\ phase' = "swap"
  /\ UNCHANGED <<current, insleft, status, listVars, execVars, envVars>>

\* ...then runlist.swap( ranlist ): what ran waits for the next pass.
EndPass ==
  /\ phase = "swap"
  /\ phase' = "check"
  /\ runlist' = ranlist /\ ranlist' = runlist
  /\ UNCHANGED <<current, insleft, status, holdVars, execVars, envVars>>

\* check_blocked: the first of holdlist is due.  The clock it read stands still
\* until it is done (see Tick).
First(h) == h \in holdlist /\ \A o \in holdlist : h.until <= o.until

WakeDue ==
  /\ phase = "check"
  /\ \E h \in holdlist :
       /\ First(h) /\ h.until <= clock
       /\ \/ /\ Live(h.script) /\ os[h.script].blocked
             /\ os' = Unblock(h.script)
             /\ ReviveLists(h.script)
             /\ UNCHANGED corrupt
          \/ /\ ~(Live(h.script) /\ os[h.script].blocked)   \* passert( blocked_ )
             /\ corrupt' = "held"
             /\ UNCHANGED <<os, runlist, holdVars>>
  /\ UNCHANGED <<turnVars, status, ranlist, ex, clock, dbg, sent>>

NoneDue == \A h \in holdlist : h.until > clock

EndCheck_Busy ==
  /\ phase = "check" /\ (NoneDue \/ runlist # <<>>)
  /\ phase' = "unlocked"
  /\ UNCHANGED <<current, insleft, status, listVars, execVars, envVars>>

\* ...and the lock is released.
EndCheck ==
  /\ phase = "check" /\ NoneDue
  /\ phase' = "unlocked"
  /\ UNCHANGED <<current, insleft, status, listVars, execVars, envVars>>

Tick ==
  /\ phase # "check" /\ phase # "exited" /\ clock < MaxClock
  /\ clock' = clock + 1
  /\ UNCHANGED <<turnVars, status, listVars, execVars, dbg, sent, corrupt>>

-----------------------------------------------------------------------------
(* Other threads, under PolLock: packet handlers, tasks, the listen thread *)

Unlocked == phase = "unlocked" /\ UNCHANGED <<turnVars, clock, dbg>>

ExternalStart(s) ==
  /\ Unlocked
  /\ Enlist(s)
  /\ UNCHANGED <<execVars, sent, corrupt>>

ExternalEvent(s) ==
  /\ Unlocked /\ Live(s)
  /\ signal_event(s)
  /\ UNCHANGED <<status, ex>>

\* stop_skill_script, NPC::stop_scripts
ExternalKill(s) ==
  /\ Unlocked /\ Live(s) /\ s \in KillTargets
  /\ ex' = SetError(ex, s)
  /\ os' = Unblock(s)
  /\ ReviveKilled(s)
  /\ UNCHANGED <<status, ranlist, sent, corrupt>>

\* The client answers, or disconnects (ClientGameData::clear).
ClientReply(s) ==
  /\ Unlocked /\ Live(s) /\ os[s].client
  /\ os' = [Unblock(s) EXCEPT ![s].client = FALSE]
  /\ ReviveLists(s)
  /\ UNCHANGED <<status, ranlist, ex, sent, corrupt>>

\* cleanup_scripts: what is in one of these four lists is deleted; ranlist is not
\* one of them.
Shutdown ==
  /\ phase = "unlocked"
  /\ phase' = "exited"
  /\ LET owned == Range(runlist) \cup {h.script : h \in holdlist}
                  \cup notimeoutholdlist \cup debuggerholdlist
     IN status' = [s \in Scripts |-> IF s \in owned THEN "deleted" ELSE status[s]]
  /\ runlist' = <<>> /\ holdlist' = {}
  /\ notimeoutholdlist' = {} /\ debuggerholdlist' = {}
  /\ UNCHANGED <<current, insleft, ranlist, in_hold_list, execVars, envVars>>

-----------------------------------------------------------------------------
(* The debugger: a thread that takes no lock, or a script whose instruction *)
(* is the process() method of a debug context                               *)

\* A command begins: of the thread, or as an instruction of the debugging script.
Commands ==
  /\ dbg.cmd = "none"
  /\ \/ UnlockedDebugger /\ phase # "exited" /\ UNCHANGED insleft
     \/ /\ ~UnlockedDebugger
        /\ \E s \in Scripts : /\ Executes(s) /\ ~ex[s].done /\ "debug" \in Program[s]
                             /\ Spend(os[s].critical)
  /\ UNCHANGED <<phase, current, clock, sent>>

Attached == dbg.script # NoScript /\ Live(dbg.script)

DebugStart(s) ==
  /\ Commands /\ s \in Debuggable
  /\ Enlist(s)
  /\ UNCHANGED <<execVars, dbg, corrupt>>

cmd_attach(s) ==
  /\ Commands /\ s \in Debuggable /\ Live(s)
  /\ dbg' = [script |-> s, cmd |-> "none"]
  /\ ex' = [ex EXCEPT ![s].debug_state = "ATTACHING"]
  /\ UNCHANGED <<status, os, listVars, corrupt>>

\* Marks the script with an error; does not take it out of a hold list.
cmd_kill(s) ==
  /\ Commands /\ s \in Debuggable /\ Live(s)
  /\ ex' = SetError(ex, s)
  /\ UNCHANGED <<status, os, listVars, dbg, corrupt>>

cmd_break ==
  /\ Commands /\ Attached
  /\ ex' = [ex EXCEPT ![dbg.script].debug_state = "BREAK_INTO"]
  /\ UNCHANGED <<status, os, listVars, dbg, corrupt>>

DebugCheckHeld_Unlooked(cmd) ==
  /\ Commands /\ Attached
  /\ dbg' = [dbg EXCEPT !.cmd = cmd]
  /\ UNCHANGED <<status, execVars, listVars, corrupt>>

\* cmd_instrace, cmd_run, cmd_stepinto, cmd_stepover: the script must be held...
DebugCheckHeld(cmd) ==
  /\ Commands /\ Attached
  /\ in_hold_list[dbg.script] = "DEBUGGER_LIST"
  /\ dbg' = [dbg EXCEPT !.cmd = cmd]
  /\ UNCHANGED <<status, execVars, listVars, corrupt>>

\* ...and goes on; steps into and over stop like a run that hits a breakpoint.
DebugResume ==
  LET s == dbg.script IN
  /\ dbg.cmd \in {"INS_TRACE", "RUN"}
  /\ dbg' = [dbg EXCEPT !.cmd = "none"]
  /\ \/ /\ Live(s)
        /\ ex' = [ClearHalt(ex, s) EXCEPT ![s].debug_state = dbg.cmd]
        /\ ReviveDebugged(s)
        /\ UNCHANGED <<status, ranlist, os, corrupt>>
     \/ /\ ~Live(s)
        /\ corrupt' = "debugger"
        /\ UNCHANGED <<status, execVars, listVars>>

DebugCheckDetach_Unlooked ==
  /\ Commands /\ Attached
  /\ dbg' = [dbg EXCEPT !.cmd = "detached"]
  /\ UNCHANGED <<status, execVars, listVars, corrupt>>

\* cmd_detach: looks whether the debugger's list has the script...
DebugCheckDetach ==
  /\ Commands /\ Attached
  /\ dbg' = [dbg EXCEPT !.cmd = IF in_hold_list[dbg.script] = "DEBUGGER_LIST"
                                THEN "detach" ELSE "detached"]
  /\ UNCHANGED <<status, execVars, listVars, corrupt>>

\* ...if so takes it out...
DebugDetach ==
  /\ dbg.cmd = "detach"
  /\ dbg' = [dbg EXCEPT !.cmd = "detached"]
  /\ \/ /\ Live(dbg.script)
        /\ ReviveDebugged(dbg.script)
        /\ UNCHANGED <<ranlist, corrupt>>
     \/ /\ ~Live(dbg.script)
        /\ corrupt' = "debugger"
        /\ UNCHANGED listVars
  /\ UNCHANGED <<status, execVars>>

\* ...then detach_debugger().
DebugLetGo ==
  LET s == dbg.script IN
  /\ dbg.cmd = "detached"
  /\ dbg' = [script |-> NoScript, cmd |-> "none"]
  /\ \/ /\ Live(s)
        /\ ex' = [ClearHalt(ex, s) EXCEPT ![s].debug_state = "NONE"]
        /\ UNCHANGED corrupt
     \/ /\ ~Live(s)
        /\ corrupt' = "debugger"
        /\ UNCHANGED ex
  /\ UNCHANGED <<status, os, listVars>>

-----------------------------------------------------------------------------
Instruction(s) ==
  \/ Compute(s) \/ Exit(s) \/ Fail(s)
  \/ \E n \in SleepTicks : SleepFor(s, n) \/ wait_for_event(s, n)
  \/ WaitForClient(s)
  \/ \E t \in Scripts : SendEvent(s, t) \/ KillScript(s, t) \/ StartScript(s, t)
                        \/ RunScript(s, t) \/ clear_event_queue(s, t)
  \/ RunScriptReturn(s)
  \/ \E crit \in BOOLEAN : set_critical(s, crit)
  \/ \E n \in Priorities : set_priority(s, n)
  \/ \E n \in QueueSizes : set_event_queue_size(s, n)
  \/ DebugStop(s) \/ ExecuteDone(s)

\* A script's debugger command is part of one instruction.
Undisturbed == corrupt = "none" /\ (UnlockedDebugger \/ dbg.cmd = "none")

ScriptsThread ==
  /\ Undisturbed
  /\ \/ BeginPass \/ BeginTurn \/ EmptyRunlist \/ EndPass \/ WakeDue \/ EndCheck
     \/ \E s \in Scripts : Instruction(s) \/ EndTurn(s)

OtherThreads ==
  /\ Undisturbed
  /\ \E s \in Scripts : ExternalStart(s) \/ ExternalEvent(s) \/ ExternalKill(s)
                        \/ ClientReply(s)

BeginCommand ==
  /\ corrupt = "none"
  /\ \/ \E s \in Scripts : DebugStart(s) \/ cmd_attach(s) \/ cmd_kill(s)
     \/ cmd_break \/ DebugCheckDetach
     \/ \E cmd \in {"INS_TRACE", "RUN"} : DebugCheckHeld(cmd)

FinishCommand ==
  /\ corrupt = "none" /\ phase # "exited" /\ UNCHANGED <<turnVars, clock, sent>>
  /\ DebugResume \/ DebugDetach \/ DebugLetGo

Debugger == BeginCommand \/ FinishCommand

Clock == Undisturbed /\ Tick

Stop == Undisturbed /\ Shutdown

\* The process is gone, or nothing is known of what it does.
Ended == (phase = "exited" \/ corrupt # "none") /\ UNCHANGED vars

Next == ScriptsThread \/ OtherThreads \/ Debugger \/ Clock \/ Stop \/ Ended

Spec == Init /\ [][Next]_vars

\* The scripts thread keeps looping: the lock is handed over and wait_for_pulse
\* times out.  Time passes, check_blocked's look at a standing clock or not.  A
\* command of the debugger that has begun ends.  Nothing else is owed.
FairSpec == Spec /\ WF_vars(ScriptsThread) /\ WF_vars(FinishCommand) /\ SF_vars(Clock)

-----------------------------------------------------------------------------
(* Type invariant *)

TypeOK ==
  /\ phase \in Phases
  /\ status \in [Scripts -> {"unborn", "live", "deleted"}]
  /\ runlist \in Seq(Scripts) /\ ranlist \in Seq(Scripts)
  /\ holdlist \subseteq [until : Nat, script : Scripts]
  /\ notimeoutholdlist \subseteq Scripts /\ debuggerholdlist \subseteq Scripts
  /\ in_hold_list \in [Scripts -> HoldLists]
  /\ os \in [Scripts -> OsModule]
  /\ ex \in [Scripts -> Executor]
  /\ current \in Scripts \cup {NoScript} /\ insleft \in Nat
  /\ clock \in Nat
  /\ dbg \in [script : Scripts \cup {NoScript}, cmd : DebugCommands]
  /\ sent \in Nat
  /\ corrupt \in Faults

-----------------------------------------------------------------------------
(* Where an executor is *)

NoRepeats(q) == \A i, j \in DOMAIN q : q[i] = q[j] => i = j

Queued(s) == s \in Range(runlist) \/ s \in Range(ranlist)

\* An executor that is not finished with is in exactly one place, the one its
\* in_hold_list_ names: a script in two lists would be run and deleted twice, a
\* script in none would never run, wake or be deleted.
InOneList ==
  /\ NoRepeats(runlist) /\ NoRepeats(ranlist)
  /\ Range(runlist) \cap Range(ranlist) = {}
  /\ ~Queued(current) /\ current \notin debuggerholdlist
  /\ \A s \in Scripts : Queued(s) => Live(s) /\ in_hold_list[s] = "NO_LIST"
  /\ \A s \in Scripts : s = current =>
       Live(s) /\ in_hold_list[s] = IF phase = "hold" THEN "DEBUGGER_LIST" ELSE "NO_LIST"
  /\ \A h \in holdlist : Live(h.script) /\ in_hold_list[h.script] = "TIMEOUT_LIST"
  /\ \A g, h \in holdlist : g.script = h.script => g = h
  /\ \A s \in notimeoutholdlist : Live(s) /\ in_hold_list[s] = "NOTIMEOUT_LIST"
  /\ \A s \in debuggerholdlist : Live(s) /\ in_hold_list[s] = "DEBUGGER_LIST"

InPass == phase \in {"run", "hold", "swap"}

\* Every executor that was created and not deleted is owned by a list or by the
\* turn under way; outside a pass by a list that cleanup_scripts looks at, so that
\* it leaves none behind.
NoneLost ==
  /\ \A s \in Scripts : Live(s) =>
       \/ Queued(s) \/ s = current
       \/ \E h \in holdlist : h.script = s
       \/ s \in notimeoutholdlist
       \/ s \in debuggerholdlist
  /\ ~InPass => ranlist = <<>> /\ current = NoScript

\* check_blocked asserts of what it finds in holdlist that it is blocked and does
\* not wait forever; no list holds a script that is blocked otherwise, for nothing
\* would wake it, and none is held for a debugger when no debugger is attached.
HeldAsBlocked ==
  /\ \A h \in holdlist : /\ os[h.script].blocked /\ os[h.script].sleep_until = h.until
                         /\ h.until # 0
  /\ \A s \in notimeoutholdlist : os[s].blocked /\ os[s].sleep_until = 0
  /\ \A s \in Scripts : Queued(s) \/ s \in debuggerholdlist => ~os[s].blocked
  /\ \A s \in debuggerholdlist : Live(s) => ex[s].debug_state # "NONE" \/ dbg.cmd # "none"

-----------------------------------------------------------------------------
(* Events *)

\* No script sleeps for an event while one is in its queue: the wait looks at the
\* queue before it blocks, and what comes later is handed to the wait.
NoEventWhileWaiting ==
  \A s \in Scripts : Live(s) /\ Waiting(s) => os[s].events = <<>>

\* A script gets its events in the order they were sent, whether the queue or a
\* wait hands them over and whatever was discarded in between.
EventsInOrder ==
  \A s \in Scripts : Live(s) =>
    LET q == os[s].events IN
    /\ \A i, j \in DOMAIN q : i <= j => q[i] <= q[j]
    /\ \A i \in DOMAIN q : os[s].last_event <= q[i]

-----------------------------------------------------------------------------
(* Run_Script *)

\* Parent and child point at each other for as long as either points, and a script
\* that is at a run_script stays blocked until the child it started has finished.
FamilyLinks ==
  \A s \in Scripts : Live(s) =>
    /\ ex[s].pChild # NoScript => Live(ex[s].pChild) /\ ex[ex[s].pChild].pParent = s
    /\ ex[s].pParent # NoScript => Live(ex[s].pParent) /\ ex[ex[s].pParent].pChild = s
    /\ ex[s].pChild # NoScript /\ ~os[s].blocked /\ ~ex[s].error => Finished(ex[s].pChild)

\* No instruction, turn or command of the debugger follows a pointer to an executor
\* that was deleted, pops an empty event queue, or executes a script that is done.
WellDefined == corrupt = "none"

\* run_ready asks only parents that exist whether they are runnable.
ParentAsked == corrupt # "parent"

-----------------------------------------------------------------------------
(* The debugger *)

\* What execInstr asserts of the script it is called for.
ClassInvariant ==
  \A s \in Scripts : Executes(s) => ~ex[s].error /\ ~ex[s].done

-----------------------------------------------------------------------------
(* Progress *)

\* A pass of run_ready ends: a script that is not critical gives up its turn.
PassEnds == InPass ~> ~InPass

\* A sleep or a timed wait ends when its time has come, if passes end.
Asleep(s, t) == Live(s) /\ [until |-> t, script |-> s] \in holdlist
SleepersWake ==
  []<>(phase \in {"unlocked", "exited"})
    => \A s \in Scripts, t \in 1..MaxClock : Asleep(s, t) ~> ~Asleep(s, t)

\* A script marked with an error by a kill is deleted, even if it sleeps, and a parent
\* goes on after its child has finished.
Gone(s) == status[s] = "deleted"
EndsAreFollowed ==
  /\ \A s \in Scripts : (Live(s) /\ ex[s].error) ~> (Gone(s) \/ phase = "exited")
  /\ \A s \in Scripts :
       (Live(s) /\ ex[s].pChild # NoScript /\ Live(ex[s].pChild) /\ Finished(ex[s].pChild))
         ~> (Gone(s) \/ ex[s].pChild = NoScript \/ phase = "exited")
=============================================================================
