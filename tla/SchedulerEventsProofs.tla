----------------------- MODULE SchedulerEventsProofs -----------------------
(***************************************************************************)
(* Proofs about the events of ScriptScheduler: no script sleeps for one    *)
(* that it has, and each gets its events in the order they were sent.      *)
(***************************************************************************)
EXTENDS ScriptSchedulerProofs

-----------------------------------------------------------------------------
(* Queues *)

\* The numbers in a queue do not decrease, and lie between two bounds.
Ordered(q, low, high) ==
  /\ \A i, j \in 1..Len(q) : i <= j => q[i] <= q[j]
  /\ \A i \in 1..Len(q) : low <= q[i] /\ q[i] <= high
  /\ low <= high

LEMMA AppendOrdered ==
  ASSUME NEW q \in Seq(Nat), NEW low \in Nat, NEW high \in Nat, NEW n \in Nat,
         Ordered(q, low, high), high <= n
  PROVE  Append(q, n) \in Seq(Nat) /\ Ordered(Append(q, n), low, n)
<1>1. /\ Append(q, n) \in Seq(Nat) /\ Len(Append(q, n)) = Len(q) + 1 /\ Len(q) \in Nat
      /\ \A i \in 1..Len(q) : Append(q, n)[i] = q[i] /\ q[i] \in Nat
      /\ Append(q, n)[Len(q) + 1] = n
  OBVIOUS
<1>2. \A i \in 1..Len(q) + 1 : Append(q, n)[i] <= n /\ low <= Append(q, n)[i]
  BY <1>1 DEF Ordered
<1>3. ASSUME NEW i \in 1..Len(q) + 1, NEW j \in 1..Len(q) + 1, i <= j
      PROVE  Append(q, n)[i] <= Append(q, n)[j]
  <2>1. CASE j = Len(q) + 1
    BY <1>1, <1>2, <2>1
  <2>2. CASE j # Len(q) + 1
    BY <1>1, <1>3, <2>2 DEF Ordered
  <2> QED
    BY <2>1, <2>2
<1> QED
  BY <1>1, <1>2, <1>3 DEF Ordered

\* What is left after the oldest event was taken follows that event.
LEMMA TailOrdered ==
  ASSUME NEW q \in Seq(Nat), q # <<>>, NEW low \in Nat, NEW high \in Nat, Ordered(q, low, high)
  PROVE  /\ Head(q) \in Nat /\ Tail(q) \in Seq(Nat)
         /\ Ordered(Tail(q), Head(q), high) /\ Ordered(Tail(q), low, high)
<1>1. /\ Head(q) = q[1] /\ Head(q) \in Nat /\ Tail(q) \in Seq(Nat)
      /\ Len(q) \in Nat /\ Len(q) > 0 /\ Len(Tail(q)) = Len(q) - 1
      /\ \A i \in 1..Len(q) - 1 : Tail(q)[i] = q[i + 1]
  OBVIOUS
<1>2. \A i \in 1..Len(q) - 1 : i + 1 \in 1..Len(q) /\ 1 <= i + 1
  BY <1>1
<1>3. \A i \in 1..Len(q) - 1 : Head(q) <= Tail(q)[i] /\ low <= Tail(q)[i] /\ Tail(q)[i] <= high
  BY <1>1, <1>2 DEF Ordered
<1>4. \A i, j \in 1..Len(q) - 1 : i <= j => Tail(q)[i] <= Tail(q)[j]
  BY <1>1, <1>2 DEF Ordered
<1>5. Head(q) <= high
  BY <1>1 DEF Ordered
<1> QED
  BY <1>1, <1>3, <1>4, <1>5 DEF Ordered

LEMMA EmptyOrdered ==
  ASSUME NEW low \in Nat, NEW high \in Nat, low <= high
  PROVE  Ordered(<<>>, low, high)
<1>1. Len(<<>>) = 0 /\ 1..0 = {}
  OBVIOUS
<1> QED
  BY <1>1 DEF Ordered

LEMMA HigherOrdered ==
  ASSUME NEW q \in Seq(Nat), NEW low \in Nat, NEW high \in Nat, NEW n \in Nat,
         Ordered(q, low, high), high <= n
  PROVE  Ordered(q, low, n)
<1>1. \A i \in 1..Len(q) : q[i] \in Nat
  OBVIOUS
<1> QED
  BY <1>1 DEF Ordered

-----------------------------------------------------------------------------
(* What a step does to the queue of a script *)

\* The invariant of one script's queue: no wait while an event is there, and all that
\* is queued came after what the script got last.
QueueInv(s) ==
  /\ Waiting(s) => os[s].events = <<>>
  /\ Ordered(os[s].events, os[s].last_event, sent)

\* Nothing is queued or taken, and no wait for an event begins.
KeepsQueue(s) ==
  /\ UNCHANGED <<os[s].events, os[s].last_event>>
  /\ Waiting(s)' => Waiting(s)

\* The ways a step may change a queue: begin to wait for an event when there is none,
\* take the oldest, be handed one that was waited for, queue one more, with or without
\* making room, empty it; or the script is deleted.
QueueStep(s) ==
  \/ KeepsQueue(s) \/ os'[s] = NewOsModule
  \/ /\ os[s].events = <<>>
     /\ UNCHANGED <<os[s].events, os[s].last_event>>
  \/ /\ os[s].events # <<>> /\ ~Waiting(s)'
     /\ os'[s].events = Tail(os[s].events) /\ os'[s].last_event = Head(os[s].events)
  \/ /\ Waiting(s) /\ ~Waiting(s)'
     /\ os'[s].events = os[s].events /\ os'[s].last_event = sent'
  \/ /\ ~Waiting(s)'
     /\ \/ os'[s].events = Append(os[s].events, sent')
        \/ os[s].events # <<>> /\ os'[s].events = Append(Tail(os[s].events), sent')
     /\ os'[s].last_event = os[s].last_event
  \/ os'[s].events = <<>> /\ os'[s].last_event = os[s].last_event

LEMMA QueueStepKeeps ==
  ASSUME TypeOK, TypeOK', NEW s \in Scripts, QueueInv(s), QueueStep(s), sent <= sent'
  PROVE  QueueInv(s)'
<1> DEFINE q == os[s].events
<1>0. /\ q \in Seq(Nat) /\ os[s].last_event \in Nat /\ sent \in Nat /\ sent' \in Nat
      /\ Ordered(q, os[s].last_event, sent)
  BY DEF TypeOK, OsModule, QueueInv
<1>1. os[s].last_event <= sent
  BY <1>0 DEF Ordered
<1>2. Ordered(q, os[s].last_event, sent')
  BY <1>0, HigherOrdered
<1>3. CASE KeepsQueue(s)
  BY <1>2, <1>3 DEF KeepsQueue, QueueInv
<1>4. CASE os'[s] = NewOsModule
  <2>1. os'[s].events = <<>> /\ os'[s].last_event = 0 /\ 0 <= sent'
    BY <1>0, <1>4 DEF NewOsModule
  <2> QED
    BY <1>0, <2>1, EmptyOrdered DEF QueueInv
<1>5. CASE os[s].events = <<>> /\ UNCHANGED <<os[s].events, os[s].last_event>>
  BY <1>2, <1>5 DEF QueueInv
<1>6. CASE /\ os[s].events # <<>> /\ ~Waiting(s)'
           /\ os'[s].events = Tail(os[s].events) /\ os'[s].last_event = Head(os[s].events)
  BY <1>0, <1>2, <1>6, TailOrdered DEF QueueInv
<1>7. CASE /\ Waiting(s) /\ ~Waiting(s)'
           /\ os'[s].events = os[s].events /\ os'[s].last_event = sent'
  <2>1. os'[s].events = <<>>
    BY <1>7 DEF QueueInv
  <2> QED
    BY <1>0, <1>7, <2>1, EmptyOrdered DEF QueueInv
<1>8. CASE /\ ~Waiting(s)' /\ os'[s].events = Append(os[s].events, sent')
           /\ os'[s].last_event = os[s].last_event
  BY <1>0, <1>8, AppendOrdered DEF QueueInv
<1>9. CASE /\ ~Waiting(s)' /\ os[s].events # <<>>
           /\ os'[s].events = Append(Tail(os[s].events), sent')
           /\ os'[s].last_event = os[s].last_event
  <2>1. Tail(q) \in Seq(Nat) /\ Ordered(Tail(q), os[s].last_event, sent)
    BY <1>0, <1>9, TailOrdered
  <2> QED
    BY <1>0, <1>9, <2>1, AppendOrdered DEF QueueInv
<1>10. CASE os'[s].events = <<>> /\ os'[s].last_event = os[s].last_event
  <2>1. os[s].last_event <= sent'
    BY <1>0, <1>1
  <2> QED
    BY <1>0, <1>10, <2>1, EmptyOrdered DEF QueueInv
<1> QED
  BY <1>3, <1>4, <1>5, <1>6, <1>7, <1>8, <1>9, <1>10 DEF QueueStep

\* Events are numbered upwards.
LEMMA NextNumber ==
  ASSUME TypeOK
  PROVE  NextEvent \in Nat /\ sent <= NextEvent
BY SchedulerAssumption DEF SchedulerAssumption, TypeOK, NextEvent

QueueSteps == /\ \A s \in Scripts : QueueStep(s)
              /\ sent <= sent'

LEMMA SameQueues ==
  ASSUME TypeOK, UNCHANGED sent, \A s \in Scripts : KeepsQueue(s)
  PROVE  QueueSteps
BY DEF TypeOK, QueueSteps, QueueStep

LEMMA SameModules ==
  ASSUME TypeOK, UNCHANGED <<os, sent>>
  PROVE  QueueSteps
BY SameQueues DEF KeepsQueue, Waiting

\* Only fields that are not the queue's change, of a script that is not left waiting
\* for an event.
LEMMA OneModule ==
  ASSUME TypeOK, UNCHANGED sent, NEW s \in Scripts,
         \A t \in Scripts \ {s} : os'[t] = os[t],
         os'[s].events = os[s].events, os'[s].last_event = os[s].last_event,
         os'[s].blocked /\ os'[s].wait_type = "WAIT_EVENT" => Waiting(s)
  PROVE  QueueSteps
<1>1. \A t \in Scripts : KeepsQueue(t)
  BY DEF KeepsQueue, Waiting
<1> QED
  BY <1>1, SameQueues

LEMMA Unblocks ==
  ASSUME TypeOK, UNCHANGED sent, NEW s \in Scripts, os' = Unblock(s)
  PROVE  QueueSteps
<1>1. /\ \A t \in Scripts \ {s} : os'[t] = os[t]
      /\ os'[s].events = os[s].events /\ os'[s].last_event = os[s].last_event
      /\ os'[s].blocked = FALSE
  BY DEF Unblock, TypeOK, OsModule
<1> QED
  BY <1>1, OneModule

LEMMA Signals ==
  ASSUME TypeOK, NEW s \in Scripts, signal_event(s)
  PROVE  QueueSteps
<1>1. sent' = NextEvent /\ NextEvent \in Nat /\ sent <= sent'
  BY NextNumber DEF signal_event
<1>2. os[s] \in OsModule /\ os \in [Scripts -> OsModule]
  BY DEF TypeOK
<1> HIDE DEF NextEvent
<1>3. ASSUME \A t \in Scripts \ {s} : os'[t] = os[t], QueueStep(s)
      PROVE  QueueSteps
  BY <1>1, <1>3 DEF QueueSteps, QueueStep, KeepsQueue, Waiting
<1>4. CASE Waiting(s) /\ os' = [Unblock(s) EXCEPT ![s].last_event = NextEvent]
  <2>1. /\ \A t \in Scripts \ {s} : os'[t] = os[t]
        /\ os'[s].events = os[s].events /\ os'[s].last_event = sent' /\ os'[s].blocked = FALSE
    BY <1>1, <1>2, <1>4 DEF Unblock, OsModule
  <2> QED
    BY <1>3, <1>4, <2>1 DEF QueueStep, Waiting
<1>5. CASE ~Waiting(s) /\ os' = [os EXCEPT ![s].events = Append(@, NextEvent)]
  <2>1. /\ \A t \in Scripts \ {s} : os'[t] = os[t]
        /\ os'[s].events = Append(os[s].events, sent') /\ os'[s].last_event = os[s].last_event
        /\ os'[s].blocked = os[s].blocked /\ os'[s].wait_type = os[s].wait_type
    BY <1>1, <1>2, <1>5 DEF OsModule
  <2> QED
    BY <1>3, <1>5, <2>1 DEF QueueStep, Waiting
<1>6. CASE ~Waiting(s) /\ os[s].events # <<>>
           /\ os' = [os EXCEPT ![s].events = Append(Tail(@), NextEvent)]
  <2>1. /\ \A t \in Scripts \ {s} : os'[t] = os[t]
        /\ os'[s].events = Append(Tail(os[s].events), sent')
        /\ os'[s].last_event = os[s].last_event
        /\ os'[s].blocked = os[s].blocked /\ os'[s].wait_type = os[s].wait_type
    BY <1>1, <1>2, <1>6 DEF OsModule
  <2> QED
    BY <1>3, <1>6, <2>1 DEF QueueStep, Waiting
<1>7. CASE UNCHANGED os
  BY <1>3, <1>7 DEF QueueStep, KeepsQueue, Waiting
<1> QED
  BY <1>4, <1>5, <1>6, <1>7 DEF signal_event

\* wait_for_event looks at the queue before it blocks.
LEMMA Waits ==
  ASSUME TypeOK, NEW s \in Scripts, NEW n \in SleepTicks, wait_for_event(s, n)
  PROVE  QueueSteps
<1>1. /\ UNCHANGED sent /\ ~os[s].blocked /\ sent \in Nat
      /\ os \in [Scripts -> OsModule] /\ os[s] \in OsModule
  BY DEF wait_for_event, Fetch, Fetches, Executes, TypeOK
<1>2. ASSUME \A t \in Scripts \ {s} : os'[t] = os[t], QueueStep(s)
      PROVE  QueueSteps
  BY <1>1, <1>2 DEF QueueSteps, QueueStep, KeepsQueue, Waiting
<1>3. CASE /\ os[s].events # <<>>
           /\ os' = [os EXCEPT ![s] = [@ EXCEPT !.events = Tail(os[s].events),
                                                !.last_event = Head(os[s].events)]]
  <2>1. /\ \A t \in Scripts \ {s} : os'[t] = os[t]
        /\ os'[s].events = Tail(os[s].events) /\ os'[s].last_event = Head(os[s].events)
        /\ os'[s].blocked = os[s].blocked
    BY <1>1, <1>3 DEF OsModule
  <2> QED
    BY <1>1, <1>2, <1>3, <2>1 DEF QueueStep, Waiting
<1>4. CASE os[s].events = <<>> /\ os' = Block(s, "WAIT_EVENT", clock + n)
  <2>1. /\ \A t \in Scripts \ {s} : os'[t] = os[t]
        /\ os'[s].events = os[s].events /\ os'[s].last_event = os[s].last_event
    BY <1>1, <1>4 DEF OsModule, Block
  <2> QED
    BY <1>2, <1>4, <2>1 DEF QueueStep
<1>5. CASE UNCHANGED os
  BY <1>1, <1>5, SameModules
<1> QED
  BY <1>3, <1>4, <1>5 DEF wait_for_event

LEMMA Sleeps ==
  ASSUME TypeOK, UNCHANGED sent, NEW s \in Scripts, NEW n \in Nat,
         os' = Block(s, "WAIT_SLEEP", n) \/ os' = [Block(s, "WAIT_SLEEP", n) EXCEPT ![s].client = TRUE]
  PROVE  QueueSteps
<1> DEFINE o == Block(s, "WAIT_SLEEP", n)
<1>1. /\ o \in [Scripts -> OsModule]
      /\ \A t \in Scripts \ {s} : o[t] = os[t]
      /\ o[s].events = os[s].events /\ o[s].last_event = os[s].last_event
      /\ o[s].wait_type = "WAIT_SLEEP"
  <2>1. os \in [Scripts -> OsModule] /\ o \in [Scripts -> OsModule]
    BY BlockTypes DEF TypeOK
  <2>2. o = [os EXCEPT ![s] = [os[s] EXCEPT !.blocked = TRUE, !.wait_type = "WAIT_SLEEP",
                                            !.sleep_until = n]]
    BY DEF Block
  <2> QED
    BY <2>1, <2>2 DEF OsModule
<1> HIDE DEF o
<1>2. /\ \A t \in Scripts \ {s} : os'[t] = os[t]
      /\ os'[s].events = os[s].events /\ os'[s].last_event = os[s].last_event
      /\ os'[s].wait_type = "WAIT_SLEEP"
  <2>1. CASE os' = o
    BY <1>1, <2>1
  <2>2. CASE os' = [o EXCEPT ![s].client = TRUE]
    BY <1>1, <2>2 DEF OsModule
  <2> QED
    BY <2>1, <2>2 DEF o
<1> QED
  BY <1>2, OneModule

LEMMA InstructionQueues ==
  ASSUME TypeOK, NEW s \in Scripts, Instruction(s)
  PROVE  QueueSteps
<1> USE DEF Fetch, Fetches
<1>0. os \in [Scripts -> OsModule] /\ sent \in Nat /\ clock \in Nat
  BY DEF TypeOK
<1>1. CASE \/ Compute(s) \/ Exit(s) \/ Fail(s) \/ RunScriptReturn(s) \/ DebugStop(s)
           \/ ExecuteDone(s) \/ \E t \in Scripts : StartScript(s, t)
  BY <1>1, SameModules DEF Compute, Exit, Fail, RunScriptReturn, DebugStop, ExecuteDone,
                           StartScript, execVars
<1>2. ASSUME NEW n \in SleepTicks, SleepFor(s, n)
      PROVE  QueueSteps
  <2>1. clock + n \in Nat
    BY <1>0, SchedulerAssumption DEF SchedulerAssumption
  <2> QED
    BY <1>2, <2>1, Sleeps, SameModules DEF SleepFor
<1>3. ASSUME NEW n \in SleepTicks, wait_for_event(s, n)
      PROVE  QueueSteps
  BY <1>3, Waits
<1>4. ASSUME WaitForClient(s) \/ \E t \in Scripts : RunScript(s, t)
      PROVE  QueueSteps
  BY <1>4, Sleeps DEF WaitForClient, RunScript
<1>5. ASSUME NEW t \in Scripts, SendEvent(s, t)
      PROVE  QueueSteps
  BY <1>5, Signals DEF SendEvent
<1>6. ASSUME NEW t \in Scripts, KillScript(s, t)
      PROVE  QueueSteps
  BY <1>6, Unblocks DEF KillScript
<1>7. ASSUME NEW t \in Scripts, clear_event_queue(s, t)
      PROVE  QueueSteps
  <2>1. /\ \A u \in Scripts \ {t} : os'[u] = os[u] /\ KeepsQueue(u)
        /\ os'[t].events = <<>> /\ os'[t].last_event = os[t].last_event /\ sent' = sent
    BY <1>0, <1>7 DEF clear_event_queue, OsModule, KeepsQueue, Waiting
  <2> QED
    BY <1>0, <2>1 DEF QueueSteps, QueueStep
<1>8. ASSUME \/ \E crit \in BOOLEAN : set_critical(s, crit)
             \/ \E n \in Priorities : set_priority(s, n)
             \/ \E n \in QueueSizes : set_event_queue_size(s, n)
      PROVE  QueueSteps
  <2>1. /\ UNCHANGED sent
        /\ \A t \in Scripts \ {s} : os'[t] = os[t]
        /\ os'[s].events = os[s].events /\ os'[s].last_event = os[s].last_event
        /\ os'[s].blocked = os[s].blocked /\ os'[s].wait_type = os[s].wait_type
    BY <1>0, <1>8 DEF set_critical, set_priority, set_event_queue_size, OsModule
  <2> QED
    BY <2>1, OneModule DEF Waiting
<1> QED
  BY <1>1, <1>2, <1>3, <1>4, <1>5, <1>6, <1>7, <1>8 DEF Instruction

LEMMA EndTurnQueues ==
  ASSUME TypeOK, NEW s \in Scripts, EndTurn(s)
  PROVE  QueueSteps
<1>1. UNCHANGED sent
  BY DEF EndTurn, ReturnToParent, DeleteFinished, ReturnToDeleted, MarkForDebugger,
         HoldForDebugger, HoldBlocked, Requeue, TurnOver, envVars
<1>2. CASE ReturnToParent(s)
  <2>1. ex[s].pParent \in Scripts /\ os' = Unblock(ex[s].pParent)
    BY <1>2 DEF ReturnToParent, Live
  <2> QED
    BY <1>1, <2>1, Unblocks
<1>3. CASE DeleteFinished(s)
  <2>1. os' = [os EXCEPT ![s] = NewOsModule]
    BY <1>3 DEF DeleteFinished
  <2>2. os'[s] = NewOsModule /\ \A t \in Scripts \ {s} : KeepsQueue(t)
    BY <2>1 DEF TypeOK, KeepsQueue, Waiting
  <2> QED
    BY <1>1, <2>2 DEF QueueSteps, QueueStep, TypeOK
<1>4. CASE ReturnToDeleted(s) \/ MarkForDebugger(s) \/ HoldForDebugger(s)
         \/ HoldBlocked(s) \/ Requeue(s)
  BY <1>1, <1>4, SameModules DEF ReturnToDeleted, MarkForDebugger, HoldForDebugger, HoldBlocked, Requeue, execVars
<1> QED
  BY <1>2, <1>3, <1>4 DEF EndTurn

LEMMA ExternalQueues ==
  ASSUME TypeOK, OtherThreads
  PROVE  QueueSteps
<1>1. PICK s \in Scripts : \/ ExternalStart(s) \/ ExternalEvent(s) \/ ExternalKill(s)
                          \/ ClientReply(s)
  BY DEF OtherThreads
<1>2. CASE ExternalStart(s)
  BY <1>2, SameModules DEF ExternalStart, execVars
<1>3. CASE ExternalEvent(s)
  BY <1>3, Signals DEF ExternalEvent
<1>4. CASE ExternalKill(s)
  BY <1>4, Unblocks DEF ExternalKill
<1>5. CASE ClientReply(s)
  <2>1. /\ UNCHANGED sent
        /\ \A t \in Scripts \ {s} : os'[t] = os[t]
        /\ os'[s].events = os[s].events /\ os'[s].last_event = os[s].last_event
        /\ os'[s].blocked = FALSE
    BY <1>5 DEF ClientReply, Unblock, TypeOK, OsModule
  <2> QED
    BY <2>1, OneModule
<1> QED
  BY <1>1, <1>2, <1>3, <1>4, <1>5

LEMMA NextQueues ==
  ASSUME TypeOK, [Next]_vars
  PROVE  QueueSteps
<1>1. CASE BeginPass \/ BeginTurn \/ EmptyRunlist \/ EndPass \/ EndCheck
  BY <1>1, SameModules
  DEF BeginPass, BeginTurn, EmptyRunlist, EndPass, EndCheck, execVars, envVars
<1>2. CASE WakeDue
  <2>1. PICK h \in holdlist : UNCHANGED os \/ os' = Unblock(h.script)
    BY <1>2 DEF WakeDue
  <2>2. h.script \in Scripts /\ UNCHANGED sent
    BY <1>2 DEF WakeDue, TypeOK
  <2> QED
    BY <2>1, <2>2, Unblocks, SameModules
<1>3. CASE Debugger
  BY <1>3, SameModules
  DEF Debugger, BeginCommand, FinishCommand, DebugStart, cmd_attach, cmd_kill, cmd_break,
      DebugCheckHeld, DebugResume, DebugCheckDetach, DebugDetach, DebugLetGo, Commands, execVars
<1>4. CASE Clock \/ Stop \/ UNCHANGED vars
  BY <1>4, SameModules DEF Clock, Stop, Tick, Shutdown, vars, execVars, envVars
<1> QED
  BY <1>1, <1>2, <1>3, <1>4, InstructionQueues, EndTurnQueues, ExternalQueues
  DEF Next, Ended, ScriptsThread

-----------------------------------------------------------------------------
(* Theorems *)

EventsInv == TypeOK /\ \A s \in Scripts : QueueInv(s)

LEMMA EventsInvariant == Spec => []EventsInv
<1>1. Init => EventsInv
  <2> SUFFICES ASSUME Init PROVE EventsInv
    OBVIOUS
  <2>1. TypeOK
    BY TypeInit
  <2>2. \A s \in Scripts : os[s].events = <<>> /\ os[s].last_event = 0
    BY DEF Init, NewOsModule
  <2>3. Ordered(<<>>, 0, sent)
    BY EmptyOrdered DEF Init
  <2> QED
    BY <2>1, <2>2, <2>3 DEF EventsInv, QueueInv
<1>2. EventsInv /\ [Next]_vars => EventsInv'
  BY TypeStep, NextQueues, QueueStepKeeps DEF EventsInv, QueueSteps
<1> QED
  BY <1>1, <1>2, PTL DEF Spec

\* No script sleeps for an event that is already in its queue, whoever sends, clears,
\* kills or debugs it meanwhile: wait_for_event looks first, signal_event asks who waits.
THEOREM WaitsForNothingQueued == Spec => []NoEventWhileWaiting
<1>1. EventsInv => NoEventWhileWaiting
  BY DEF EventsInv, QueueInv, NoEventWhileWaiting
<1> QED
  BY <1>1, EventsInvariant, PTL

\* Whether the queue or a wait hands an event over, and whatever was discarded to make
\* room or cleared, a script never gets an event after one that was sent later.
THEOREM EventsArriveInOrder == Spec => []EventsInOrder
<1>1. EventsInv => EventsInOrder
  <2> SUFFICES ASSUME EventsInv, NEW s \in Scripts
               PROVE  LET q == os[s].events IN
                      /\ \A i, j \in DOMAIN q : i <= j => q[i] <= q[j]
                      /\ \A i \in DOMAIN q : os[s].last_event <= q[i]
    BY DEF EventsInOrder
  <2>1. os[s].events \in Seq(Nat)
    BY DEF EventsInv, TypeOK, OsModule
  <2>2. DOMAIN os[s].events = 1..Len(os[s].events)
    BY <2>1
  <2> QED
    BY <2>2 DEF EventsInv, QueueInv, Ordered
<1> QED
  BY <1>1, EventsInvariant, PTL
=============================================================================
