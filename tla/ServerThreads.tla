--------------------------- MODULE ServerThreads ---------------------------
(***************************************************************************)
(* The threads of a server with multithread=1: who starts and counts them, *)
(* how the sleeping ones are woken, the queue of scheduled tasks, and how  *)
(* all of them come to an end (pol/pol.cpp, pol/polsem.cpp,                *)
(* pol/schedule.cpp, pol/polsig.cpp, clib/threadhelp.cpp).                 *)
(*                                                                         *)
(* A section under PolLock is one step, but for the listener's, which      *)
(* counts the client's thread and creates it meanwhile.  A count takes two *)
(* steps, a read and a write: threadsem keeps the counts apart from each   *)
(* other, all but the listener's, which does not take it.  Timed waits may *)
(* end at any time.                                                        *)
(*                                                                         *)
(* What a packet, a script or a task does is left out, but for the scripts *)
(* it makes runnable, the tasks it schedules or cancels, and shutting the  *)
(* server down.  One owner keeps a handle on its one-shot task.            *)
(***************************************************************************)
EXTENDS Integers, FiniteSets, Sequences

CONSTANTS
  Conns,    \* clients that may be connected at a time
  Tasks,    \* one-shot tasks, each used again when it has been deleted
  NoThread, NoTask,
  Width,    \* child_threads wraps at Width
  Plans     \* what happens: the server has started and works, or it starts and is shut down

StartOrder == <<"listen", "tasks", "scripts", "status", "console">>
Workers == {StartOrder[i] : i \in DOMAIN StartOrder}
Threads == Workers \cup Conns

ASSUME ThreadsAssumption ==
  /\ NoThread \notin Threads \cup {"main"} /\ NoTask \notin Tasks
  /\ Conns \cap (Workers \cup {"main"}) = {}
  /\ IsFiniteSet(Conns) /\ Width \in Nat /\ Width > Cardinality(Threads) + 2
  /\ Plans \subseteq {"work", "exit"}

VARIABLES
  plan,       \* one of Plans
  at,         \* where each thread is, main's included
  exit_signalled,
  pending,    \* a signal that main has not waited for yet
  lock,       \* the listener has PolLock between two of its steps
  sem,        \* who has threadsem
  child_threads,
  read,       \* the count a thread has read and not written back yet
  raced,      \* a count was written over another one's
  work,       \* scripts have been made runnable
  dirty,      \* TaskScheduler::dirty_
  task,       \* each one-shot task
  handle,     \* the owner's pointer to its task
  planned     \* the tasks the tasks thread looked at before it went to sleep

countVars == <<sem, child_threads, read, raced>>
taskVars == <<dirty, task, handle>>
vars == <<plan, at, exit_signalled, pending, lock, countVars, work, taskVars, planned>>

Free == [state |-> "free", cancelled |-> FALSE, handle |-> FALSE]
Armed == [state |-> "queued", cancelled |-> FALSE, handle |-> TRUE]

Init ==
  /\ plan \in Plans
  /\ at = [t \in Threads \cup {"main"} |->
             IF t = "main" THEN IF plan = "work" THEN "sigwait" ELSE "start"
             ELSE IF t \in Workers /\ plan = "work" THEN "run" ELSE "none"]
  /\ exit_signalled = FALSE /\ pending = FALSE
  /\ lock = NoThread
  /\ child_threads = IF plan = "work" THEN Len(StartOrder) ELSE 0
  /\ sem = NoThread /\ raced = FALSE
  /\ read = [t \in Threads \cup {"main"} |-> 0]
  /\ work = FALSE
  /\ dirty = FALSE /\ handle = NoTask
  /\ task = [t \in Tasks |-> Free]
  /\ planned = {}

Lives(t) == at[t] \notin {"none", "accepted", "gone"}

PolLock == lock = NoThread
Goes(t, from, to) == at[t] = from /\ at' = [at EXCEPT ![t] = to]

----------------------------------------------------------------------------
\* Counting

Reads(t) == read' = [read EXCEPT ![t] = child_threads]
Writes(t, change) ==
  /\ child_threads' = (read[t] + change) % Width
  /\ raced' = (raced \/ child_threads # read[t])
  /\ read' = [read EXCEPT ![t] = 0]

threadsem_lock(t) == sem = NoThread /\ sem' = t
threadsem_unlock == sem' = NoThread

\* The end of run_thread: an exception in the thread's function ends it like a return.
dec_child_thread_count_Unlocked(t) ==
  /\ \/ Goes(t, "leave", "dec") /\ Reads(t) /\ UNCHANGED <<child_threads, raced>>
     \/ Goes(t, "dec", IF t \in Conns THEN "none" ELSE "gone") /\ Writes(t, -1)
  /\ UNCHANGED <<plan, exit_signalled, pending, lock, sem, work, taskVars, planned>>
dec_child_thread_count(t) ==
  /\ \/ Goes(t, "leave", "dec") /\ threadsem_lock(t) /\ Reads(t) /\ UNCHANGED <<child_threads, raced>>
     \/ /\ Goes(t, "dec", IF t \in Conns THEN "none" ELSE "gone")
        /\ Writes(t, -1) /\ threadsem_unlock
  /\ UNCHANGED <<plan, exit_signalled, pending, lock, work, taskVars, planned>>

----------------------------------------------------------------------------
\* Waking and scheduling

\* send_pulse and wake_tasks_thread wake who is asleep, and nobody who is about to be.
Awake(places, t) == IF places[t] = "sleep" THEN [places EXCEPT ![t] = "run"] ELSE places
send_pulse(places) == Awake(places, "scripts")
wake_tasks_thread(places) == Awake(places, "tasks")
WakeIfDirty(places) == IF dirty' THEN wake_tasks_thread(places) ELSE places

Queue == {t \in Tasks : task[t].state # "free"}

add_task(t) ==
  /\ handle = NoTask /\ task[t].state = "free"
  /\ task' = [task EXCEPT ![t] = Armed]
  /\ handle' = t
  /\ dirty' = TRUE

\* The task stays in the queue until its time.
cancel_Linked(t) ==
  /\ handle = t
  /\ task' = [task EXCEPT ![t].cancelled = TRUE]
  /\ handle' = NoTask
  /\ UNCHANGED dirty
cancel(t) ==
  /\ handle = t
  /\ task' = [task EXCEPT ![t].cancelled = TRUE, ![t].handle = FALSE]
  /\ handle' = NoTask
  /\ UNCHANGED dirty

Schedules == UNCHANGED taskVars \/ \E t \in Tasks : plan = "work" /\ (add_task(t) \/ cancel(t))

Tick(t) ==
  /\ task[t].state = "queued"
  /\ task' = [task EXCEPT ![t].state = "ready"]
  /\ UNCHANGED <<plan, at, exit_signalled, pending, lock, countVars, work, dirty, handle, planned>>

----------------------------------------------------------------------------
\* main, from start_threads to the end of the wait for child threads

Born == {i \in DOMAIN StartOrder : at[StartOrder[i]] # "none"}

\* One start_thread after the other; the console's comes after start_threads.
start_thread ==
  LET new == Cardinality(Born) + 1
  IN /\ \/ Goes("main", "start", "inc") /\ threadsem_lock("main") /\ Reads("main")
           /\ UNCHANGED <<child_threads, raced>>
        \/ Goes("main", "inc", "create") /\ Writes("main", 1) /\ threadsem_unlock
        \/ /\ at["main"] = "create"
           /\ at' = [at EXCEPT ![StartOrder[new]] = "run",
                               !["main"] = IF new = Len(StartOrder) THEN "catch" ELSE "start"]
           /\ UNCHANGED countVars
     /\ UNCHANGED <<plan, exit_signalled, pending, lock, work, taskVars, planned>>

catch_signals_thread ==
  /\ \/ /\ Goes("main", "catch", IF exit_signalled /\ child_threads <= 1 THEN "wait" ELSE "sigwait")
        /\ UNCHANGED <<plan, exit_signalled, pending>>
     \/ /\ Goes("main", "sigwait", "catch")
        /\ pending /\ pending' = FALSE
        /\ exit_signalled' = TRUE
  /\ UNCHANGED <<plan, lock, countVars, work, taskVars, planned>>

AwaitChildren_One ==
  /\ Goes("main", "wait", "cleanup")
  /\ child_threads <= 1
  /\ UNCHANGED <<plan, exit_signalled, pending, lock, countVars, work, taskVars, planned>>
AwaitChildren ==
  /\ Goes("main", "wait", "cleanup")
  /\ child_threads = 0
  /\ UNCHANGED <<plan, exit_signalled, pending, lock, countVars, work, taskVars, planned>>

\* SIGINT, SIGQUIT or SIGTERM: blocked in every thread until main waits for it.
Signal ==
  /\ plan = "exit" /\ ~pending /\ ~exit_signalled
  /\ pending' = TRUE
  /\ UNCHANGED <<plan, at, exit_signalled, lock, countVars, work, taskVars, planned>>

----------------------------------------------------------------------------
\* threadstatus_thread and console_thread

\* The wake-ups are sent once; the last thing it does is to signal main.
threadstatus_thread_Silent ==
  /\ exit_signalled
  /\ IF child_threads > 1
     THEN at["status"] = "run" /\ at' = send_pulse(wake_tasks_thread([at EXCEPT !["status"] = "woke"]))
     ELSE at["status"] \in {"run", "woke"} /\ at' = [at EXCEPT !["status"] = "leave"]
  /\ UNCHANGED <<plan, exit_signalled, pending, lock, countVars, work, taskVars, planned>>
threadstatus_thread ==
  /\ exit_signalled
  /\ IF child_threads > 1
     THEN /\ at["status"] = "run"
          /\ at' = send_pulse(wake_tasks_thread([at EXCEPT !["status"] = "woke"]))
          /\ UNCHANGED pending
     ELSE /\ at["status"] \in {"run", "woke"}
          /\ at' = [at EXCEPT !["status"] = "leave"]
          /\ pending' = TRUE
  /\ UNCHANGED <<plan, exit_signalled, lock, countVars, work, taskVars, planned>>

\* A thread that polls; the reaper, the decay threads and the other listeners are like it.
console_thread ==
  /\ exit_signalled /\ Goes("console", "run", "leave")
  /\ UNCHANGED <<plan, exit_signalled, pending, lock, countVars, work, taskVars, planned>>

----------------------------------------------------------------------------
\* listen_thread

\* The flag is looked at before each select, which may take five seconds.
Select ==
  /\ \/ Goes("listen", "run", IF exit_signalled THEN "leave" ELSE "select")
     \/ Goes("listen", "select", "run")
  /\ UNCHANGED <<plan, exit_signalled, pending, lock, countVars, work, taskVars, planned>>

\* The thread returns for good when accept fails.
AcceptFails ==
  /\ Goes("listen", "select", "leave")
  /\ UNCHANGED <<plan, exit_signalled, pending, lock, countVars, work, taskVars, planned>>

Accept(k) ==
  /\ ~raced
  /\ at["listen"] = "select" /\ at[k] = "none"
  /\ PolLock /\ lock' = "listen"
  /\ at' = [at EXCEPT !["listen"] = "inc", ![k] = "accepted"]
  /\ UNCHANGED <<plan, exit_signalled, pending, countVars, work, taskVars, planned>>

\* inc_child_thread_count( false ), with PolLock but without threadsem.
IncUnlocked ==
  /\ \/ Goes("listen", "inc", "incremented") /\ Reads("listen") /\ UNCHANGED <<child_threads, raced>>
     \/ Goes("listen", "incremented", "create") /\ Writes("listen", 1)
  /\ UNCHANGED <<plan, exit_signalled, pending, lock, sem, work, taskVars, planned>>

CreateClientThread(k) ==
  /\ at["listen"] = "create" /\ at[k] = "accepted"
  /\ at' = [at EXCEPT !["listen"] = "run", ![k] = "run"]
  /\ lock' = NoThread
  /\ UNCHANGED <<plan, exit_signalled, pending, countVars, work, taskVars, planned>>

\* What is to clean up then waits for PolLock, which the listener itself has.
CreateFails ==
  /\ Goes("listen", "create", "stuck")
  /\ UNCHANGED <<plan, exit_signalled, pending, lock, countVars, work, taskVars, planned>>

----------------------------------------------------------------------------
\* client_io_thread: what it does for the player, and its end, are more in Clients.

process_data(k) ==
  /\ plan = "work"
  /\ Goes(k, "run", "handled") /\ PolLock
  /\ work' \in {work, TRUE}
  /\ Schedules
  /\ UNCHANGED <<plan, exit_signalled, pending, lock, countVars, planned>>

Pulse(k) ==
  /\ at[k] = "handled" /\ PolLock
  /\ UNCHANGED dirty
  /\ at' = send_pulse(WakeIfDirty([at EXCEPT ![k] = "run"]))
  /\ UNCHANGED <<plan, exit_signalled, pending, lock, countVars, work, task, handle, planned>>

\* The connection is closed, or it is time to shut down.
Closes(k) ==
  /\ Goes(k, "run", "leave") /\ PolLock
  /\ UNCHANGED <<plan, exit_signalled, pending, lock, countVars, work, taskVars, planned>>

----------------------------------------------------------------------------
\* scripts_thread

\* A pass; scripts may schedule and cancel tasks, and call Shutdown(), which
\* signals main.
ScriptsPass_Cleansing ==
  /\ at["scripts"] = "run" /\ ~exit_signalled /\ PolLock
  /\ work' = FALSE
  /\ \E stop \in {FALSE, plan = "exit"} : exit_signalled' = stop /\ pending' = (pending \/ stop)
  /\ \/ UNCHANGED <<task, handle>>
     \/ \E t \in Tasks : handle = NoTask /\ task[t].state = "free" /\ handle' = t
          /\ task' = [task EXCEPT ![t] = Armed]
  /\ dirty' = FALSE
  /\ \E next \in {"run", "tosleep"} : at' = wake_tasks_thread([at EXCEPT !["scripts"] = next])
  /\ UNCHANGED <<plan, lock, countVars, planned>>
ScriptsPass ==
  /\ at["scripts"] = "run" /\ ~exit_signalled /\ PolLock
  /\ work' = FALSE
  /\ \E stop \in {FALSE, plan = "exit"} : exit_signalled' = stop /\ pending' = (pending \/ stop)
  /\ Schedules
  /\ \E next \in {"run", "tosleep"} : at' = WakeIfDirty([at EXCEPT !["scripts"] = next])
  /\ UNCHANGED <<plan, lock, countVars, planned>>

\* wait_for_pulse, until its time is over.
ScriptsWait_Again ==
  /\ \/ Goes("scripts", "tosleep", "sleep")
     \/ Goes("scripts", "sleep", "tosleep")
     \/ exit_signalled /\ Goes("scripts", "run", "leave")
  /\ UNCHANGED <<plan, exit_signalled, pending, lock, countVars, work, taskVars, planned>>
ScriptsWait ==
  /\ \/ Goes("scripts", "tosleep", "sleep")
     \/ Goes("scripts", "sleep", "run")
     \/ exit_signalled /\ Goes("scripts", "run", "leave")
  /\ UNCHANGED <<plan, exit_signalled, pending, lock, countVars, work, taskVars, planned>>

----------------------------------------------------------------------------
\* tasks_thread

Ready == {t \in Tasks : task[t].state = "ready"}

\* Those whose time has come leave the queue; who is not cancelled is executed, with its
\* handle cleared before, as it may schedule the next one.  Deleting a task clears the
\* handle that it still knows.
Executed(those, next) ==
  /\ next # NoTask => task[next].state = "free" /\ \E t \in those : ~task[t].cancelled
  /\ task' = [t \in Tasks |-> IF t = next THEN Armed ELSE IF t \in those THEN Free ELSE task[t]]
  /\ handle' = IF next # NoTask \/ \E t \in those : task[t].handle THEN next ELSE handle

check_scheduled_tasks ==
  /\ at["tasks"] = "run" /\ ~exit_signalled /\ PolLock
  /\ \E next \in Tasks \cup {NoTask} :
       /\ Executed(Ready, next)
       /\ dirty' = (next # NoTask)
  /\ planned' = {t \in Tasks : task'[t].state # "free"}
  /\ work' \in {work, work \/ \E t \in Ready : ~task[t].cancelled}
  /\ at' = [at EXCEPT !["tasks"] = IF Ready = {} THEN "tosleep" ELSE "pulse"]
  /\ UNCHANGED <<plan, exit_signalled, pending, lock, countVars>>

\* A task throws: it has left the queue, and the thread ends.
TaskThrows ==
  /\ at["tasks"] = "run" /\ ~exit_signalled /\ PolLock
  /\ \E t \in Ready : ~task[t].cancelled /\ Executed({t}, NoTask)
  /\ dirty' = FALSE
  /\ at' = [at EXCEPT !["tasks"] = "leave"]
  /\ UNCHANGED <<plan, exit_signalled, pending, lock, countVars, work, planned>>

\* The pulse for the scripts, and tasks_thread_sleep.
TasksWait ==
  /\ \/ at["tasks"] = "pulse" /\ at' = send_pulse([at EXCEPT !["tasks"] = "tosleep"])
     \/ Goes("tasks", "tosleep", "sleep")
     \/ Goes("tasks", "sleep", "run")
     \/ exit_signalled /\ Goes("tasks", "run", "leave")
  /\ UNCHANGED <<plan, exit_signalled, pending, lock, countVars, work, taskVars, planned>>

----------------------------------------------------------------------------

Main == start_thread \/ catch_signals_thread \/ AwaitChildren
StatusThread == threadstatus_thread \/ dec_child_thread_count("status")
ConsoleThread == console_thread \/ dec_child_thread_count("console")
ListenThread ==
  \/ Select \/ AcceptFails \/ IncUnlocked \/ CreateFails \/ dec_child_thread_count("listen")
  \/ \E k \in Conns : Accept(k) \/ CreateClientThread(k)
ClientThread(k) == process_data(k) \/ Pulse(k) \/ Closes(k) \/ dec_child_thread_count(k)
ScriptsThread == ScriptsPass \/ ScriptsWait \/ dec_child_thread_count("scripts")
TasksThread == check_scheduled_tasks \/ TaskThrows \/ TasksWait \/ dec_child_thread_count("tasks")

Stuck == at["listen"] = "stuck"

\* main cleans up, or the server hangs.
Stopped ==
  /\ at["main"] = "cleanup" \/ Stuck \/ \A t \in Threads \ {"status"} : ~Lives(t)
  /\ UNCHANGED vars

Next ==
  \/ Main \/ StatusThread \/ ConsoleThread \/ ListenThread \/ ScriptsThread \/ TasksThread
  \/ \E k \in Conns : ClientThread(k)
  \/ \E t \in Tasks : Tick(t)
  \/ Signal
  \/ Stopped

Spec == Init /\ [][Next]_vars

\* Every thread goes on when it can.  Scripts and tasks get PolLock in the end, as the
\* listener has it for an instant each time; a client's thread looks at the flag every
\* two seconds.
FairSpec ==
  /\ Spec
  /\ WF_vars(Main) /\ WF_vars(StatusThread) /\ WF_vars(ConsoleThread) /\ WF_vars(ListenThread)
  /\ SF_vars(ScriptsThread) /\ SF_vars(TasksThread)
  /\ \A k \in Conns : WF_vars(Pulse(k)) /\ WF_vars(exit_signalled /\ Closes(k))
                      /\ WF_vars(dec_child_thread_count(k))

----------------------------------------------------------------------------
\* Properties

Places ==
  {"none", "start", "inc", "create", "catch", "sigwait", "wait", "cleanup", "run", "woke",
   "select", "incremented", "stuck", "accepted", "handled", "pulse", "tosleep", "sleep",
   "leave", "dec", "gone"}

\* The state is well formed; threadsem is held by who counts with it, PolLock by the
\* listener that creates a thread.
TypeOK ==
  /\ plan \in Plans
  /\ at \in [Threads \cup {"main"} -> Places]
  /\ exit_signalled \in BOOLEAN /\ pending \in BOOLEAN
  /\ lock = IF at["listen"] \in {"inc", "incremented", "create", "stuck"} THEN "listen" ELSE NoThread
  /\ sem \in Threads \cup {"main", NoThread}
  /\ \A t \in Threads : at[t] = "dec" <=> sem = t
  /\ at["main"] = "inc" <=> sem = "main"
  /\ child_threads \in 0..(Width - 1)
  /\ read \in [Threads \cup {"main"} -> 0..(Width - 1)]
  /\ raced \in BOOLEAN /\ work \in BOOLEAN /\ dirty \in BOOLEAN
  /\ task \in [Tasks -> [state : {"free", "queued", "ready"}, cancelled : BOOLEAN, handle : BOOLEAN]]
  /\ handle \in Tasks \cup {NoTask}
  /\ planned \subseteq Tasks

Creating(t) == at[t] = "create" \/ (t = "listen" /\ at[t] = "stuck")

\* Unless a count was written over another one's, which the listener's may be, the count
\* is of the threads that live or are about to be created.
Counted ==
  ~raced => child_threads = Cardinality({t \in Threads : Lives(t)})
                            + Cardinality({t \in {"main", "listen"} : Creating(t)})

\* main cleans up, without PolLock, when nobody else is left; the status thread goes after
\* all the threads started before it, though the listener accepts clients after the
\* server was told to exit.
LastOut ==
  ~raced =>
    /\ at["main"] = "cleanup" => \A t \in Threads : ~Lives(t) /\ at[t] # "accepted"
    /\ at["status"] \in {"leave", "dec", "gone"} =>
         \A t \in Threads \ {"status", "console"} : ~Lives(t) /\ at[t] # "accepted"

\* A wake-up that is sent before the tasks thread sleeps is lost; then dirty_ stays set, and
\* the next pass of the scripts, or the next packet, sends another one.
NotForgotten ==
  at["tasks"] \in {"pulse", "tosleep", "sleep"} /\ ~(Queue \subseteq planned) => dirty

\* The owner's handle is on the one task in the queue that is not cancelled, also while
\* tasks that it has cancelled before are still there.
OwnHandle ==
  /\ {t \in Queue : ~task[t].cancelled} = {handle} \ {NoTask}
  /\ \A t \in Queue : task[t].handle <=> handle = t

\* Once it is told to, the server gets to the cleanup.  Not so when the count is wrong, when
\* the thread of a client could not be created, or when the status thread has found nobody
\* left before main started the console's: then main may wait for a signal it has had.
Early == at["status"] \in {"leave", "dec", "gone"} /\ at["main"] \in {"start", "inc", "create"}
ShutsDown == []~Early => (exit_signalled ~> (at["main"] = "cleanup" \/ raced \/ Stuck))

\* Scripts that a packet or a task has made runnable get a pass, and tasks are executed
\* when it is time, whenever the wake-ups come; unless the server exits, the listener is
\* stuck with PolLock, or a task has thrown before.
Over == exit_signalled \/ Stuck \/ at["tasks"] \in {"leave", "dec", "gone"}
Served ==
  /\ work ~> (~work \/ exit_signalled \/ Stuck)
  /\ \A t \in Tasks : (t \in Ready) ~> (t \notin Ready \/ Over)
=============================================================================
