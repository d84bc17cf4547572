------------------------ MODULE ServerThreadsProofs ------------------------
(***************************************************************************)
(* Proofs about ServerThreads, for any number of clients and tasks: its    *)
(* type invariant, that main cleans up last, and that no task is forgotten *)
(* or confused with another one.                                           *)
(***************************************************************************)
EXTENDS ServerThreads, FiniteSetTheorems, TLAPS

\* The listener's section under PolLock.
InSection == {"inc", "incremented", "create", "stuck"}

\* Main has started the threads up to the n-th.
StartedUpTo(n) ==
  /\ Born = 1..n
  /\ at["main"] \in {"start", "inc", "create"} <=> n < Len(StartOrder)

\* Where main, the workers and the clients' threads may be, and what the listener
\* has accepted.
PlacesOK ==
  /\ at["main"] \in {"start", "inc", "create", "catch", "sigwait", "wait", "cleanup"}
  /\ \E n \in 0..Len(StartOrder) : StartedUpTo(n)
  /\ \A t \in Workers : at[t] # "accepted"
  /\ \A k \in Conns : at[k] = "accepted" => at["listen"] \in InSection
  /\ \A k, l \in Conns : at[k] = "accepted" /\ at[l] = "accepted" => k = l

ServerInv == TypeOK /\ PlacesOK

\* The threads that count: who lives, and who main or the listener has counted and
\* will create.
Living == {t \in Threads : Lives(t)}
Creators == {t \in {"main", "listen"} : Creating(t)}

\* A step by which nobody is born, dies, is accepted or counted.
Quiet ==
  /\ \A t \in Threads : (Lives(t)' <=> Lives(t)) /\ (at'[t] = "accepted" <=> at[t] = "accepted")
  /\ \A t \in {"main", "listen"} : Creating(t)' <=> Creating(t)
  /\ UNCHANGED <<child_threads, raced>>

-----------------------------------------------------------------------------
(* Names *)

LEMMA Names ==
  /\ Len(StartOrder) = 5 /\ DOMAIN StartOrder = 1..5
  /\ StartOrder[1] = "listen" /\ StartOrder[2] = "tasks" /\ StartOrder[3] = "scripts"
  /\ StartOrder[4] = "status" /\ StartOrder[5] = "console"
  /\ Workers = {"listen", "tasks", "scripts", "status", "console"}
<1>1. /\ Len(StartOrder) = 5 /\ DOMAIN StartOrder = 1..5
      /\ StartOrder[1] = "listen" /\ StartOrder[2] = "tasks" /\ StartOrder[3] = "scripts"
      /\ StartOrder[4] = "status" /\ StartOrder[5] = "console"
  BY DEF StartOrder
<1>2. Workers = {StartOrder[1], StartOrder[2], StartOrder[3], StartOrder[4], StartOrder[5]}
  BY <1>1 DEF Workers
<1> QED
  BY <1>1, <1>2

LEMMA Distinct ==
  /\ Workers \subseteq Threads /\ Conns \subseteq Threads /\ "main" \notin Threads
  /\ \A k \in Conns : k \notin Workers
  /\ NoThread \notin Threads /\ NoThread # "main"
BY Names, ThreadsAssumption DEF Threads

\* Waking somebody up moves the threads of scripts and tasks from their sleep, and
\* nobody else.
LEMMA Waking ==
  ASSUME NEW places \in [Threads \cup {"main"} -> Places], NEW t \in {"scripts", "tasks"}
  PROVE  /\ Awake(places, t) \in [Threads \cup {"main"} -> Places]
         /\ \A u \in Threads \cup {"main"} :
              \/ Awake(places, t)[u] = places[u]
              \/ u = t /\ places[u] = "sleep" /\ Awake(places, t)[u] = "run"
BY Names DEF Awake, Places, Threads

-----------------------------------------------------------------------------
(* Types *)

LEMMA ThreadCount ==
  /\ IsFiniteSet(Threads) /\ Cardinality(Threads) \in Nat /\ Cardinality(Threads) >= 5
  /\ IsFiniteSet(Workers) /\ Cardinality(Workers) = 5
<1>1. IsFiniteSet({"listen"}) /\ Cardinality({"listen"}) = 1
  BY FS_Singleton
<1>2. /\ IsFiniteSet({"listen"} \cup {"tasks"})
      /\ Cardinality({"listen"} \cup {"tasks"}) = 2
  BY <1>1, FS_AddElement
<1>3. /\ IsFiniteSet({"listen", "tasks"} \cup {"scripts"})
      /\ Cardinality({"listen", "tasks"} \cup {"scripts"}) = 3
  <2>1. {"listen"} \cup {"tasks"} = {"listen", "tasks"}
    OBVIOUS
  <2> QED
    BY <1>2, <2>1, FS_AddElement
<1>4. /\ IsFiniteSet({"listen", "tasks", "scripts"} \cup {"status"})
      /\ Cardinality({"listen", "tasks", "scripts"} \cup {"status"}) = 4
  <2>1. {"listen", "tasks"} \cup {"scripts"} = {"listen", "tasks", "scripts"}
    OBVIOUS
  <2> QED
    BY <1>3, <2>1, FS_AddElement
<1>5. /\ IsFiniteSet({"listen", "tasks", "scripts", "status"} \cup {"console"})
      /\ Cardinality({"listen", "tasks", "scripts", "status"} \cup {"console"}) = 5
  <2>1. {"listen", "tasks", "scripts"} \cup {"status"} = {"listen", "tasks", "scripts", "status"}
    OBVIOUS
  <2> QED
    BY <1>4, <2>1, FS_AddElement
<1>6. {"listen", "tasks", "scripts", "status"} \cup {"console"} = Workers
  BY Names
<1>7. IsFiniteSet(Workers) /\ Cardinality(Workers) = 5
  BY <1>5, <1>6
<1>8. IsFiniteSet(Threads)
  BY <1>7, ThreadsAssumption, FS_Union DEF Threads
<1>9. Cardinality(Threads) \in Nat
  BY <1>8, FS_CardinalityType
<1> QED
  BY <1>7, <1>8, <1>9, FS_Subset, Distinct

LEMMA Initially == Init => ServerInv
<1> SUFFICES ASSUME Init PROVE ServerInv
  OBVIOUS
<1>1. /\ at \in [Threads \cup {"main"} -> Places]
      /\ at["main"] = IF plan = "work" THEN "sigwait" ELSE "start"
      /\ \A t \in Workers : at[t] = IF plan = "work" THEN "run" ELSE "none"
      /\ \A k \in Conns : at[k] = "none"
  BY Names, Distinct DEF Init, Places, Threads
<1>2. TypeOK
  <2>1. task \in [Tasks -> [state : {"free", "queued", "ready"}, cancelled : BOOLEAN, handle : BOOLEAN]]
    BY DEF Init, Free
  <2>2. at["listen"] \in {"run", "none"} /\ \A t \in Threads : at[t] # "dec"
    BY <1>1, Names DEF Threads
  <2>3. child_threads \in 0..(Width - 1) /\ read \in [Threads \cup {"main"} -> 0..(Width - 1)]
    BY Names, ThreadCount, ThreadsAssumption DEF Init
  <2> QED
    BY <1>1, <2>1, <2>2, <2>3, Distinct, Names DEF Init, TypeOK
<1>3. PlacesOK
  <2>1. Born = {i \in 1..5 : plan = "work"}
    BY <1>1, Names DEF Born
  <2>2. CASE plan = "work"
    <3>1. StartedUpTo(5)
      BY <1>1, <2>1, <2>2, Names DEF StartedUpTo
    <3> QED
      BY <1>1, <3>1, <2>2, Names DEF PlacesOK
  <2>3. CASE plan # "work"
    <3>1. StartedUpTo(0)
      BY <1>1, <2>1, <2>3, Names DEF StartedUpTo
    <3> QED
      BY <1>1, <3>1, <2>3, Names DEF PlacesOK
  <2> QED
    BY <2>2, <2>3
<1> QED
  BY <1>2, <1>3 DEF ServerInv

-----------------------------------------------------------------------------
(* Steps *)

\* A step after which every worker that there was is there, and no other; main is
\* starting threads if it was; and nobody is accepted who was not.
LEMMA PlacesKept ==
  ASSUME ServerInv,
         \A w \in Workers : (at'[w] = "none" <=> at[w] = "none") /\ at'[w] # "accepted",
         at'["main"] \in {"start", "inc", "create", "catch", "sigwait", "wait", "cleanup"},
         at'["main"] \in {"start", "inc", "create"} <=> at["main"] \in {"start", "inc", "create"},
         \A k \in Conns : at'[k] = "accepted" => at[k] = "accepted" /\ at'["listen"] \in InSection
  PROVE  PlacesOK'
<1>1. Born' = Born
  BY Names DEF Born
<1>2. \A n \in 0..5 : StartedUpTo(n) => StartedUpTo(n)'
  BY <1>1, Names DEF StartedUpTo
<1> QED
  BY <1>2, Names DEF PlacesOK, ServerInv

\* One thread moves from one place to another.
LEMMA Moving ==
  ASSUME ServerInv, NEW t \in Threads \cup {"main"}, NEW to \in Places, at[t] # "none",
         at' = [at EXCEPT ![t] = to]
  PROVE  /\ at' \in [Threads \cup {"main"} -> Places]
         /\ at'[t] = to
         /\ \A u \in (Threads \cup {"main"}) \ {t} : at'[u] = at[u]
BY DEF ServerInv, TypeOK

LEMMA DecKeeps ==
  ASSUME ServerInv, NEW t \in Threads, dec_child_thread_count(t)
  PROVE  ServerInv'
<1> USE Distinct, Names DEF ServerInv
<1>1. CASE Goes(t, "leave", "dec") /\ threadsem_lock(t) /\ Reads(t) /\ UNCHANGED <<child_threads, raced>>
  <2>1. /\ at' = [at EXCEPT ![t] = "dec"] /\ at[t] = "leave"
        /\ at' \in [Threads \cup {"main"} -> Places]
        /\ at'[t] = "dec"
        /\ \A u \in (Threads \cup {"main"}) \ {t} : at'[u] = at[u]
    BY <1>1, Moving DEF Goes, Places
  <2>2. TypeOK'
    BY <2>1, <1>1 DEF TypeOK, dec_child_thread_count, threadsem_lock, Reads, countVars, taskVars
  <2>3. PlacesOK'
    BY <2>1, PlacesKept DEF PlacesOK, InSection
  <2> QED
    BY <2>2, <2>3
<1>2. CASE /\ Goes(t, "dec", IF t \in Conns THEN "none" ELSE "gone")
           /\ Writes(t, -1) /\ threadsem_unlock
  <2> DEFINE to == IF t \in Conns THEN "none" ELSE "gone"
  <2>1. /\ at[t] = "dec"
        /\ at' \in [Threads \cup {"main"} -> Places]
        /\ at'[t] = to
        /\ \A u \in (Threads \cup {"main"}) \ {t} : at'[u] = at[u]
    BY <1>2, Moving DEF Goes, Places
  <2>2. child_threads' \in 0..(Width - 1) /\ raced' \in BOOLEAN
        /\ read' \in [Threads \cup {"main"} -> 0..(Width - 1)]
    BY <1>2, ThreadsAssumption, ThreadCount DEF TypeOK, Writes
  <2>3. TypeOK'
    BY <2>1, <2>2, <1>2 DEF TypeOK, dec_child_thread_count, threadsem_unlock, taskVars
  <2>4. PlacesOK'
    BY <2>1, PlacesKept DEF PlacesOK, InSection, Threads
  <2> QED
    BY <2>3, <2>4
<1> QED
  BY <1>1, <1>2 DEF dec_child_thread_count

\* The same, and then a wake-up for the tasks thread, the scripts thread, or both.
Wakes(places) ==
  {places, Awake(places, "tasks"), Awake(places, "scripts"),
   Awake(Awake(places, "tasks"), "scripts")}

LEMMA Woken ==
  ASSUME ServerInv, NEW t \in Threads \cup {"main"}, NEW to \in Places, at[t] # "none",
         at' \in Wakes([at EXCEPT ![t] = to])
  PROVE  /\ at' \in [Threads \cup {"main"} -> Places]
         /\ at'[t] = to \/ (to = "sleep" /\ at'[t] = "run")
         /\ \A u \in (Threads \cup {"main"}) \ {t} :
              at'[u] = at[u] \/ (u \in {"scripts", "tasks"} /\ at[u] = "sleep" /\ at'[u] = "run")
<1> DEFINE f == [at EXCEPT ![t] = to]
<1>1. /\ f \in [Threads \cup {"main"} -> Places]
      /\ f[t] = to /\ \A u \in (Threads \cup {"main"}) \ {t} : f[u] = at[u]
  BY DEF ServerInv, TypeOK
<1>2. Awake(f, "tasks") \in [Threads \cup {"main"} -> Places]
  BY <1>1, Waking
<1>3. CASE at' = f
  BY <1>1, <1>3
<1>4. CASE at' = Awake(f, "tasks")
  BY <1>1, <1>4, Waking
<1>5. CASE at' = Awake(f, "scripts")
  BY <1>1, <1>5, Waking
<1>6. CASE at' = Awake(Awake(f, "tasks"), "scripts")
  <2> DEFINE g == Awake(f, "tasks")
  <2>1. g \in [Threads \cup {"main"} -> Places]
        /\ \A u \in Threads \cup {"main"} :
             g[u] = f[u] \/ (u = "tasks" /\ f[u] = "sleep" /\ g[u] = "run")
    BY <1>1, Waking
  <2>2. at' \in [Threads \cup {"main"} -> Places]
        /\ \A u \in Threads \cup {"main"} :
             at'[u] = g[u] \/ (u = "scripts" /\ g[u] = "sleep" /\ at'[u] = "run")
    BY <2>1, <1>6, Waking
  <2> HIDE DEF f, g
  <2> QED
    BY <1>1, <2>1, <2>2
<1> QED
  BY <1>3, <1>4, <1>5, <1>6 DEF Wakes

\* The next thread that main starts is the one after those it has started.
LEMMA NextToStart ==
  ASSUME ServerInv, at["main"] = "create"
  PROVE  LET n == Cardinality(Born)
         IN n \in 0..4 /\ Born = 1..n /\ at[StartOrder[n + 1]] = "none"
<1> USE Names DEF ServerInv
<1>1. PICK n \in 0..5 : StartedUpTo(n)
  BY DEF PlacesOK
<1>2. n \in 0..4 /\ Born = 1..n
  BY <1>1 DEF StartedUpTo
<1>3. Cardinality(Born) = n
  <2>1. 1 \in Int /\ n \in Int /\ n - 1 + 1 = n /\ (1 > n => n = 0)
    BY <1>2
  <2>2. Cardinality(1..n) = IF 1 > n THEN 0 ELSE n - 1 + 1
    BY <2>1, FS_Interval
  <2> QED
    BY <2>1, <2>2, <1>2
<1>4. n + 1 \notin Born /\ n + 1 \in DOMAIN StartOrder
  BY <1>2
<1> QED
  BY <1>2, <1>3, <1>4 DEF Born

LEMMA MainKeeps ==
  ASSUME ServerInv, start_thread
  PROVE  ServerInv'
<1> USE Distinct, Names DEF ServerInv
<1>1. CASE Goes("main", "start", "inc") /\ threadsem_lock("main") /\ Reads("main")
           /\ UNCHANGED <<child_threads, raced>>
  <2>1. /\ at["main"] = "start"
        /\ at' \in [Threads \cup {"main"} -> Places]
        /\ at'["main"] = "inc"
        /\ \A u \in Threads : at'[u] = at[u]
    BY <1>1, Moving DEF Goes, Places
  <2>2. TypeOK'
    BY <2>1, <1>1 DEF TypeOK, start_thread, threadsem_lock, Reads, countVars, taskVars
  <2>3. PlacesOK'
    BY <2>1, PlacesKept DEF PlacesOK, Threads
  <2> QED
    BY <2>2, <2>3
<1>2. CASE Goes("main", "inc", "create") /\ Writes("main", 1) /\ threadsem_unlock
  <2>1. /\ at["main"] = "inc"
        /\ at' \in [Threads \cup {"main"} -> Places]
        /\ at'["main"] = "create"
        /\ \A u \in Threads : at'[u] = at[u]
    BY <1>2, Moving DEF Goes, Places
  <2>2. child_threads' \in 0..(Width - 1) /\ raced' \in BOOLEAN
        /\ read' \in [Threads \cup {"main"} -> 0..(Width - 1)]
    BY <1>2, ThreadsAssumption, ThreadCount DEF TypeOK, Writes
  <2>3. TypeOK'
    BY <2>1, <2>2, <1>2 DEF TypeOK, start_thread, threadsem_unlock, taskVars
  <2>4. PlacesOK'
    BY <2>1, PlacesKept DEF PlacesOK, Threads
  <2> QED
    BY <2>3, <2>4
<1>3. CASE /\ at["main"] = "create"
           /\ LET new == Cardinality(Born) + 1
              IN at' = [at EXCEPT ![StartOrder[new]] = "run",
                                  !["main"] = IF new = Len(StartOrder) THEN "catch" ELSE "start"]
           /\ UNCHANGED countVars
  <2>1. PICK n \in 0..4 :
          /\ n = Cardinality(Born) /\ Born = 1..n /\ at[StartOrder[n + 1]] = "none"
          /\ StartOrder[n + 1] \in Workers
    BY <1>3, NextToStart
  <2>2. /\ at' \in [Threads \cup {"main"} -> Places]
        /\ at'["main"] = (IF n = 4 THEN "catch" ELSE "start")
        /\ at'[StartOrder[n + 1]] = "run"
        /\ \A u \in Threads \ {StartOrder[n + 1]} : at'[u] = at[u]
    <3> DEFINE t == StartOrder[n + 1]
               m == IF n = 4 THEN "catch" ELSE "start"
    <3>1. t \in Threads /\ t # "main"
      BY <2>1
    <3>2. n + 1 = 5 <=> n = 4
      BY <2>1
    <3>3. at' = [at EXCEPT ![t] = "run", !["main"] = m]
      BY <1>3, <2>1, <3>2
    <3>4. m \in Places /\ "run" \in Places
      BY DEF Places
    <3> HIDE DEF t, m
    <3>5. /\ at' \in [Threads \cup {"main"} -> Places]
          /\ at'["main"] = m /\ at'[t] = "run"
          /\ \A u \in Threads \ {t} : at'[u] = at[u]
      BY <3>1, <3>3, <3>4 DEF TypeOK
    <3> QED
      BY <3>5 DEF t, m
  <2>3. TypeOK'
    BY <2>1, <2>2, <1>3 DEF TypeOK, start_thread, countVars, taskVars
  <2>4. Born' = 1..(n + 1)
    <3>1. \A i \in 1..5 : i # n + 1 => StartOrder[i] # StartOrder[n + 1]
      OBVIOUS
    <3>2. \A i \in 1..5 : at'[StartOrder[i]] # "none" <=> (i = n + 1 \/ at[StartOrder[i]] # "none")
      BY <2>1, <2>2, <3>1
    <3>3. \A i \in 1..5 : i \in Born' <=> (i = n + 1 \/ i \in Born)
      BY <3>2 DEF Born
    <3>4. Born' \subseteq 1..5
      BY DEF Born
    <3>5. \A i : i \in 1..(n + 1) <=> i \in 1..5 /\ (i = n + 1 \/ i \in 1..n)
      BY <2>1
    <3>6. \A i : i \in Born' <=> i \in 1..(n + 1)
      BY <3>3, <3>4, <3>5, <2>1
    <3> QED
      BY <3>6
  <2>5. StartedUpTo(n + 1)'
    BY <2>2, <2>4 DEF StartedUpTo
  <2>6. PlacesOK'
    BY <2>1, <2>2, <2>5 DEF PlacesOK, InSection
  <2> QED
    BY <2>3, <2>6
<1> QED
  BY <1>1, <1>2, <1>3 DEF start_thread

\* The variables that only need a type.
DataOK ==
  /\ exit_signalled \in BOOLEAN /\ pending \in BOOLEAN /\ work \in BOOLEAN /\ dirty \in BOOLEAN
  /\ task \in [Tasks -> [state : {"free", "queued", "ready"}, cancelled : BOOLEAN, handle : BOOLEAN]]
  /\ handle \in Tasks \cup {NoTask}
  /\ planned \subseteq Tasks

Counting == <<plan, lock, sem, child_threads, raced, read>>

\* A step that moves a thread, or wakes others as well, and leaves all the counting and
\* the listener's section alone.
LEMMA WokenKeeps ==
  ASSUME ServerInv, NEW t \in Threads \cup {"main"}, NEW to \in Places,
         at[t] \notin {"none", "accepted", "dec"}, to \notin {"none", "accepted", "dec"},
         t = "listen" => (at[t] \in InSection <=> to \in InSection),
         at[t] # "gone", to # "gone",
         t = "listen" => (at[t] \in {"create", "stuck"} <=> to \in {"create", "stuck"}),
         t = "main" => at[t] \in {"catch", "sigwait", "wait"} /\ to \in {"catch", "sigwait", "wait", "cleanup"},
         at' \in Wakes([at EXCEPT ![t] = to]),
         UNCHANGED Counting, DataOK'
  PROVE  ServerInv' /\ Quiet
<1> USE Distinct, Names DEF ServerInv
<1>1. /\ at' \in [Threads \cup {"main"} -> Places]
      /\ at'[t] = to \/ (to = "sleep" /\ at'[t] = "run")
      /\ \A u \in (Threads \cup {"main"}) \ {t} :
           at'[u] = at[u] \/ (u \in {"scripts", "tasks"} /\ at[u] = "sleep" /\ at'[u] = "run")
  BY Woken
<1>2. TypeOK'
  BY <1>1 DEF TypeOK, InSection, DataOK, Counting
<1>3. PlacesOK'
  <2>1. \A w \in Workers : (at'[w] = "none" <=> at[w] = "none") /\ at'[w] # "accepted"
    BY <1>1 DEF PlacesOK
  <2>2. /\ at'["main"] \in {"start", "inc", "create", "catch", "sigwait", "wait", "cleanup"}
        /\ at'["main"] \in {"start", "inc", "create"} <=> at["main"] \in {"start", "inc", "create"}
    BY <1>1 DEF PlacesOK
  <2>3. at'["listen"] \in InSection <=> at["listen"] \in InSection
    BY <1>1 DEF InSection
  <2>4. \A k \in Conns : at'[k] = "accepted" => at[k] = "accepted" /\ at'["listen"] \in InSection
    BY <1>1, <2>3 DEF PlacesOK
  <2> QED
    BY <2>1, <2>2, <2>4, PlacesKept
<1>4. Quiet
  <2>1. \A u \in Threads : (Lives(u)' <=> Lives(u)) /\ (at'[u] = "accepted" <=> at[u] = "accepted")
    BY <1>1 DEF Lives
  <2>2. Creating("main")' <=> Creating("main")
    BY <1>1 DEF Creating
  <2>3. Creating("listen")' <=> Creating("listen")
    BY <1>1 DEF Creating
  <2> QED
    BY <2>1, <2>2, <2>3 DEF Quiet, Counting
<1> QED
  BY <1>2, <1>3, <1>4

LEMMA TypesOfData == ServerInv => DataOK
BY DEF ServerInv, TypeOK, DataOK

LEMMA SchedulesTypes ==
  ASSUME DataOK, Schedules
  PROVE  /\ task' \in [Tasks -> [state : {"free", "queued", "ready"}, cancelled : BOOLEAN, handle : BOOLEAN]]
         /\ handle' \in Tasks \cup {NoTask} /\ dirty' \in BOOLEAN
<1>1. CASE UNCHANGED taskVars
  BY <1>1 DEF DataOK, taskVars
<1>2. CASE \E t \in Tasks : add_task(t)
  BY <1>2 DEF DataOK, add_task, Armed
<1>3. CASE \E t \in Tasks : cancel(t)
  BY <1>3 DEF DataOK, cancel
<1> QED
  BY <1>1, <1>2, <1>3 DEF Schedules

LEMMA ExecutedTypes ==
  ASSUME DataOK, NEW those \in SUBSET Tasks, NEW next \in Tasks \cup {NoTask}, Executed(those, next)
  PROVE  /\ task' \in [Tasks -> [state : {"free", "queued", "ready"}, cancelled : BOOLEAN, handle : BOOLEAN]]
         /\ handle' \in Tasks \cup {NoTask}
BY DEF DataOK, Executed, Armed, Free

LEMMA CatchKeeps ==
  ASSUME ServerInv, catch_signals_thread \/ AwaitChildren
  PROVE  ServerInv' /\ Quiet
<1>1. ASSUME catch_signals_thread PROVE ServerInv' /\ Quiet
  <2>1. DataOK'
    BY <1>1, TypesOfData DEF catch_signals_thread, DataOK, taskVars
  <2>2. PICK to \in {"wait", "sigwait", "catch"} : at["main"] \in {"catch", "sigwait"} /\ at' \in Wakes([at EXCEPT !["main"] = to])
    BY <1>1 DEF catch_signals_thread, Wakes, Goes
  <2>3. UNCHANGED Counting
    BY <1>1 DEF catch_signals_thread, Counting, countVars
  <2>4. to \in Places
    BY <2>2 DEF Places
  <2> QED
    BY <2>1, <2>2, <2>3, <2>4, WokenKeeps, Distinct, Names
<1>2. ASSUME AwaitChildren PROVE ServerInv' /\ Quiet
  <2>1. DataOK'
    BY <1>2, TypesOfData DEF AwaitChildren, DataOK, taskVars
  <2>2. PICK to \in {"cleanup"} : at["main"] \in {"wait"} /\ at' \in Wakes([at EXCEPT !["main"] = to])
    BY <1>2 DEF AwaitChildren, Wakes, Goes
  <2>3. UNCHANGED Counting
    BY <1>2 DEF AwaitChildren, Counting, countVars
  <2>4. to \in Places
    BY <2>2 DEF Places
  <2> QED
    BY <2>1, <2>2, <2>3, <2>4, WokenKeeps, Distinct, Names
<1> QED
  BY <1>1, <1>2

LEMMA StatusKeeps ==
  ASSUME ServerInv, threadstatus_thread \/ console_thread
  PROVE  ServerInv' /\ Quiet
<1>1. ASSUME threadstatus_thread PROVE ServerInv' /\ Quiet
  <2>1. DataOK'
    BY <1>1, TypesOfData DEF threadstatus_thread, DataOK, taskVars
  <2>2. PICK to \in {"woke", "leave"} : at["status"] \in {"run", "woke"} /\ at' \in Wakes([at EXCEPT !["status"] = to])
    BY <1>1 DEF threadstatus_thread, Wakes, Goes, send_pulse, wake_tasks_thread, WakeIfDirty
  <2>3. UNCHANGED Counting
    BY <1>1 DEF threadstatus_thread, Counting, countVars
  <2>4. to \in Places
    BY <2>2 DEF Places
  <2> QED
    BY <2>1, <2>2, <2>3, <2>4, WokenKeeps, Distinct, Names
<1>2. ASSUME console_thread PROVE ServerInv' /\ Quiet
  <2>1. DataOK'
    BY <1>2, TypesOfData DEF console_thread, DataOK, taskVars
  <2>2. PICK to \in {"leave"} : at["console"] \in {"run"} /\ at' \in Wakes([at EXCEPT !["console"] = to])
    BY <1>2 DEF console_thread, Wakes, Goes
  <2>3. UNCHANGED Counting
    BY <1>2 DEF console_thread, Counting, countVars
  <2>4. to \in Places
    BY <2>2 DEF Places
  <2> QED
    BY <2>1, <2>2, <2>3, <2>4, WokenKeeps, Distinct, Names
<1> QED
  BY <1>1, <1>2

LEMMA ClientKeeps ==
  ASSUME ServerInv, NEW k \in Conns, process_data(k) \/ Pulse(k) \/ Closes(k)
  PROVE  ServerInv' /\ Quiet
<1> k \in Threads /\ k # "listen" /\ k # "main"
  BY Distinct, Names
<1>1. ASSUME process_data(k) PROVE ServerInv' /\ Quiet
  <2>1. DataOK'
    BY <1>1, TypesOfData, SchedulesTypes DEF process_data, DataOK
  <2>2. PICK to \in {"handled"} : at[k] \in {"run"} /\ at' \in Wakes([at EXCEPT ![k] = to])
    BY <1>1 DEF process_data, Wakes, Goes
  <2>3. UNCHANGED Counting
    BY <1>1 DEF process_data, Counting, countVars
  <2>4. to \in Places
    BY <2>2 DEF Places
  <2> QED
    BY <2>1, <2>2, <2>3, <2>4, WokenKeeps, Distinct, Names
<1>2. ASSUME Pulse(k) PROVE ServerInv' /\ Quiet
  <2>1. DataOK'
    BY <1>2, TypesOfData DEF Pulse, DataOK, taskVars
  <2>2. PICK to \in {"run"} : at[k] \in {"handled"} /\ at' \in Wakes([at EXCEPT ![k] = to])
    BY <1>2 DEF Pulse, Wakes, Goes, send_pulse, wake_tasks_thread, WakeIfDirty
  <2>3. UNCHANGED Counting
    BY <1>2 DEF Pulse, Counting, countVars
  <2>4. to \in Places
    BY <2>2 DEF Places
  <2> QED
    BY <2>1, <2>2, <2>3, <2>4, WokenKeeps, Distinct, Names
<1>3. ASSUME Closes(k) PROVE ServerInv' /\ Quiet
  <2>1. DataOK'
    BY <1>3, TypesOfData DEF Closes, DataOK, taskVars
  <2>2. PICK to \in {"leave"} : at[k] \in {"run"} /\ at' \in Wakes([at EXCEPT ![k] = to])
    BY <1>3 DEF Closes, Wakes, Goes
  <2>3. UNCHANGED Counting
    BY <1>3 DEF Closes, Counting, countVars
  <2>4. to \in Places
    BY <2>2 DEF Places
  <2> QED
    BY <2>1, <2>2, <2>3, <2>4, WokenKeeps, Distinct, Names
<1> QED
  BY <1>1, <1>2, <1>3

LEMMA ScriptsKeep ==
  ASSUME ServerInv, ScriptsPass \/ ScriptsWait
  PROVE  ServerInv' /\ Quiet
<1>1. ASSUME ScriptsPass PROVE ServerInv' /\ Quiet
  <2>1. DataOK'
    BY <1>1, TypesOfData, SchedulesTypes DEF ScriptsPass, DataOK
  <2>2. PICK to \in {"run", "tosleep"} : at["scripts"] \in {"run"} /\ at' \in Wakes([at EXCEPT !["scripts"] = to])
    BY <1>1 DEF ScriptsPass, Wakes, Goes, send_pulse, wake_tasks_thread, WakeIfDirty
  <2>3. UNCHANGED Counting
    BY <1>1 DEF ScriptsPass, Counting, countVars
  <2>4. to \in Places
    BY <2>2 DEF Places
  <2> QED
    BY <2>1, <2>2, <2>3, <2>4, WokenKeeps, Distinct, Names
<1>2. ASSUME ScriptsWait PROVE ServerInv' /\ Quiet
  <2>1. DataOK'
    BY <1>2, TypesOfData DEF ScriptsWait, DataOK, taskVars
  <2>2. PICK to \in {"sleep", "run", "leave"} : at["scripts"] \in {"tosleep", "sleep", "run"} /\ at' \in Wakes([at EXCEPT !["scripts"] = to])
    BY <1>2 DEF ScriptsWait, Wakes, Goes
  <2>3. UNCHANGED Counting
    BY <1>2 DEF ScriptsWait, Counting, countVars
  <2>4. to \in Places
    BY <2>2 DEF Places
  <2> QED
    BY <2>1, <2>2, <2>3, <2>4, WokenKeeps, Distinct, Names
<1> QED
  BY <1>1, <1>2

LEMMA TasksKeep ==
  ASSUME ServerInv, check_scheduled_tasks \/ TaskThrows \/ TasksWait
  PROVE  ServerInv' /\ Quiet
<1>1. ASSUME check_scheduled_tasks PROVE ServerInv' /\ Quiet
  <2>1. DataOK'
    <3>1. PICK next \in Tasks \cup {NoTask} : Executed(Ready, next)
      BY <1>1 DEF check_scheduled_tasks
    <3>2. Ready \subseteq Tasks
      BY DEF Ready
    <3>3. /\ task' \in [Tasks -> [state : {"free", "queued", "ready"}, cancelled : BOOLEAN, handle : BOOLEAN]]
          /\ handle' \in Tasks \cup {NoTask}
      BY <3>1, <3>2, ExecutedTypes, TypesOfData
    <3> QED
      BY <1>1, <3>3, TypesOfData DEF check_scheduled_tasks, DataOK
  <2>2. PICK to \in {"tosleep", "pulse"} : at["tasks"] \in {"run"} /\ at' \in Wakes([at EXCEPT !["tasks"] = to])
    BY <1>1 DEF check_scheduled_tasks, Wakes, Goes
  <2>3. UNCHANGED Counting
    BY <1>1 DEF check_scheduled_tasks, Counting, countVars
  <2>4. to \in Places
    BY <2>2 DEF Places
  <2> QED
    BY <2>1, <2>2, <2>3, <2>4, WokenKeeps, Distinct, Names
<1>2. ASSUME TaskThrows PROVE ServerInv' /\ Quiet
  <2>1. DataOK'
    <3>1. PICK next \in Tasks \cup {NoTask}, t \in Ready : Executed({t}, next)
      BY <1>2 DEF TaskThrows
    <3>2. {t} \subseteq Tasks
      BY DEF Ready
    <3>3. /\ task' \in [Tasks -> [state : {"free", "queued", "ready"}, cancelled : BOOLEAN, handle : BOOLEAN]]
          /\ handle' \in Tasks \cup {NoTask}
      BY <3>1, <3>2, ExecutedTypes, TypesOfData
    <3> QED
      BY <1>2, <3>3, TypesOfData DEF TaskThrows, DataOK
  <2>2. PICK to \in {"leave"} : at["tasks"] \in {"run"} /\ at' \in Wakes([at EXCEPT !["tasks"] = to])
    BY <1>2 DEF TaskThrows, Wakes, Goes
  <2>3. UNCHANGED Counting
    BY <1>2 DEF TaskThrows, Counting, countVars
  <2>4. to \in Places
    BY <2>2 DEF Places
  <2> QED
    BY <2>1, <2>2, <2>3, <2>4, WokenKeeps, Distinct, Names
<1>3. ASSUME TasksWait PROVE ServerInv' /\ Quiet
  <2>1. DataOK'
    BY <1>3, TypesOfData DEF TasksWait, DataOK, taskVars
  <2>2. PICK to \in {"tosleep", "sleep", "run", "leave"} : at["tasks"] \in {"pulse", "tosleep", "sleep", "run"} /\ at' \in Wakes([at EXCEPT !["tasks"] = to])
    BY <1>3 DEF TasksWait, Wakes, Goes, send_pulse, wake_tasks_thread, WakeIfDirty
  <2>3. UNCHANGED Counting
    BY <1>3 DEF TasksWait, Counting, countVars
  <2>4. to \in Places
    BY <2>2 DEF Places
  <2> QED
    BY <2>1, <2>2, <2>3, <2>4, WokenKeeps, Distinct, Names
<1> QED
  BY <1>1, <1>2, <1>3

LEMMA SelectKeeps ==
  ASSUME ServerInv, Select \/ AcceptFails \/ CreateFails
  PROVE  ServerInv' /\ Quiet
<1>1. ASSUME Select PROVE ServerInv' /\ Quiet
  <2>1. DataOK'
    BY <1>1, TypesOfData DEF Select, DataOK, taskVars
  <2>2. PICK to \in {"leave", "select", "run"} : at["listen"] \in {"run", "select"} /\ at' \in Wakes([at EXCEPT !["listen"] = to])
    BY <1>1 DEF Select, Wakes, Goes
  <2>3. UNCHANGED Counting
    BY <1>1 DEF Select, Counting, countVars
  <2>4. to \in Places
    BY <2>2 DEF Places
  <2> QED
    BY <2>1, <2>2, <2>3, <2>4, WokenKeeps, Distinct, Names DEF InSection
<1>2. ASSUME AcceptFails PROVE ServerInv' /\ Quiet
  <2>1. DataOK'
    BY <1>2, TypesOfData DEF AcceptFails, DataOK, taskVars
  <2>2. PICK to \in {"leave"} : at["listen"] \in {"select"} /\ at' \in Wakes([at EXCEPT !["listen"] = to])
    BY <1>2 DEF AcceptFails, Wakes, Goes
  <2>3. UNCHANGED Counting
    BY <1>2 DEF AcceptFails, Counting, countVars
  <2>4. to \in Places
    BY <2>2 DEF Places
  <2> QED
    BY <2>1, <2>2, <2>3, <2>4, WokenKeeps, Distinct, Names DEF InSection
<1>3. ASSUME CreateFails PROVE ServerInv' /\ Quiet
  <2>1. DataOK'
    BY <1>3, TypesOfData DEF CreateFails, DataOK, taskVars
  <2>2. PICK to \in {"stuck"} : at["listen"] \in {"create"} /\ at' \in Wakes([at EXCEPT !["listen"] = to])
    BY <1>3 DEF CreateFails, Wakes, Goes
  <2>3. UNCHANGED Counting
    BY <1>3 DEF CreateFails, Counting, countVars
  <2>4. to \in Places
    BY <2>2 DEF Places
  <2> QED
    BY <2>1, <2>2, <2>3, <2>4, WokenKeeps, Distinct, Names DEF InSection
<1> QED
  BY <1>1, <1>2, <1>3

LEMMA SectionKeeps ==
  ASSUME ServerInv, IncUnlocked \/ \E k \in Conns : Accept(k) \/ CreateClientThread(k)
  PROVE  ServerInv'
<1> USE Distinct, Names DEF ServerInv
<1>1. ASSUME IncUnlocked PROVE ServerInv'
  <2>1. PICK to \in {"incremented", "create"} :
          /\ at' = [at EXCEPT !["listen"] = to] /\ at["listen"] \in {"inc", "incremented"}
    BY <1>1 DEF IncUnlocked, Goes
  <2>2. /\ at' \in [Threads \cup {"main"} -> Places]
        /\ at'["listen"] = to
        /\ \A u \in (Threads \cup {"main"}) \ {"listen"} : at'[u] = at[u]
    BY <2>1, Moving DEF Places
  <2>3. child_threads' \in 0..(Width - 1) /\ raced' \in BOOLEAN
        /\ read' \in [Threads \cup {"main"} -> 0..(Width - 1)]
    <3>1. CASE Reads("listen") /\ UNCHANGED <<child_threads, raced>>
      BY <3>1 DEF TypeOK, Reads
    <3>2. CASE Writes("listen", 1)
      BY <3>2, ThreadsAssumption, ThreadCount DEF TypeOK, Writes
    <3> QED
      BY <1>1, <3>1, <3>2 DEF IncUnlocked
  <2>4. TypeOK'
    BY <2>1, <2>2, <2>3, <1>1 DEF TypeOK, IncUnlocked, taskVars
  <2>5. PlacesOK'
    BY <2>1, <2>2, PlacesKept DEF PlacesOK, InSection
  <2> QED
    BY <2>4, <2>5
<1>2. ASSUME NEW k \in Conns, Accept(k) PROVE ServerInv'
  <2>1. /\ at["listen"] = "select" /\ at[k] = "none"
        /\ at' = [at EXCEPT !["listen"] = "inc", ![k] = "accepted"]
    BY <1>2 DEF Accept
  <2>2. /\ at' \in [Threads \cup {"main"} -> Places]
        /\ at'["listen"] = "inc" /\ at'[k] = "accepted"
        /\ \A u \in (Threads \cup {"main"}) \ {"listen", k} : at'[u] = at[u]
    BY <2>1 DEF TypeOK, Places
  <2>3. TypeOK'
    BY <2>1, <2>2, <1>2 DEF TypeOK, Accept, countVars, taskVars
  <2>4. \A l \in Conns : at[l] # "accepted"
    BY <2>1 DEF PlacesOK, InSection
  <2>5. Born' = Born
    BY <2>1, <2>2 DEF Born
  <2>6. \E n \in 0..5 : StartedUpTo(n)'
    BY <2>2, <2>5 DEF PlacesOK, StartedUpTo
  <2>7. PlacesOK'
    BY <2>2, <2>4, <2>6 DEF PlacesOK, InSection
  <2> QED
    BY <2>3, <2>7
<1>3. ASSUME NEW k \in Conns, CreateClientThread(k) PROVE ServerInv'
  <2>1. /\ at["listen"] = "create" /\ at[k] = "accepted"
        /\ at' = [at EXCEPT !["listen"] = "run", ![k] = "run"]
    BY <1>3 DEF CreateClientThread
  <2>2. /\ at' \in [Threads \cup {"main"} -> Places]
        /\ at'["listen"] = "run" /\ at'[k] = "run"
        /\ \A u \in (Threads \cup {"main"}) \ {"listen", k} : at'[u] = at[u]
    BY <2>1 DEF TypeOK, Places
  <2>3. TypeOK'
    BY <2>1, <2>2, <1>3 DEF TypeOK, CreateClientThread, countVars, taskVars
  <2>4. \A l \in Conns : at'[l] # "accepted"
    BY <2>1, <2>2 DEF PlacesOK
  <2>5. PlacesOK'
    BY <2>1, <2>2, <2>4, PlacesKept DEF PlacesOK
  <2> QED
    BY <2>3, <2>5
<1> QED
  BY <1>1, <1>2, <1>3

LEMMA OthersKeep ==
  ASSUME ServerInv, (\E t \in Tasks : Tick(t)) \/ Signal \/ UNCHANGED vars
  PROVE  ServerInv'
<1>1. UNCHANGED <<at, lock, sem, child_threads, raced, read, plan>>
  BY DEF Tick, Signal, vars, countVars
<1>2. DataOK'
  <2>1. ASSUME NEW t \in Tasks, Tick(t) PROVE DataOK'
    BY <2>1, TypesOfData DEF Tick, DataOK
  <2> QED
    BY <2>1, TypesOfData DEF Signal, vars, taskVars, DataOK
<1>3. TypeOK'
  BY <1>1, <1>2 DEF ServerInv, TypeOK, DataOK
<1>4. PlacesOK'
  BY <1>1 DEF ServerInv, PlacesOK, StartedUpTo, Born
<1> QED
  BY <1>3, <1>4 DEF ServerInv

LEMMA StepKeeps == ServerInv /\ [Next]_vars => ServerInv'
<1> SUFFICES ASSUME ServerInv, [Next]_vars PROVE ServerInv'
  OBVIOUS
<1>1. CASE Main
  BY <1>1, MainKeeps, CatchKeeps DEF Main
<1>2. CASE StatusThread \/ ConsoleThread
  BY <1>2, StatusKeeps, DecKeeps, Distinct, Names DEF StatusThread, ConsoleThread
<1>3. CASE ListenThread
  BY <1>3, SelectKeeps, SectionKeeps, DecKeeps, Distinct, Names DEF ListenThread
<1>4. CASE ScriptsThread
  BY <1>4, ScriptsKeep, DecKeeps, Distinct, Names DEF ScriptsThread
<1>5. CASE TasksThread
  BY <1>5, TasksKeep, DecKeeps, Distinct, Names DEF TasksThread
<1>6. CASE \E k \in Conns : ClientThread(k)
  BY <1>6, ClientKeeps, DecKeeps, Distinct DEF ClientThread
<1>7. CASE (\E t \in Tasks : Tick(t)) \/ Signal \/ Stopped \/ UNCHANGED vars
  BY <1>7, OthersKeep DEF Stopped
<1> QED
  BY <1>1, <1>2, <1>3, <1>4, <1>5, <1>6, <1>7 DEF Next

\* The state of the threads is well formed: threadsem belongs to who counts with it,
\* PolLock to the listener in its section, the count stays in its range, whatever is
\* started, accepted, woken, scheduled or ended in whichever order.
THEOREM TypeCorrect == Spec => []TypeOK
<1>1. Spec => []ServerInv
  BY Initially, StepKeeps, PTL DEF Spec
<1>2. ServerInv => TypeOK
  BY DEF ServerInv
<1> QED
  BY <1>1, <1>2, PTL

-----------------------------------------------------------------------------
(* Counting *)

Dead(t) == ~Lives(t) /\ at[t] # "accepted"

\* What a step does to the threads that are counted, and to the count: nothing; one
\* dies; main or the listener counts one; or it creates the one it has counted.
CountedStep ==
  \/ Living' = Living /\ Creators' = Creators /\ UNCHANGED <<child_threads, raced>>
  \/ \E t \in Living : Living' = Living \ {t} /\ Creators' = Creators /\ Writes(t, -1)
  \/ \E c \in {"main", "listen"} \ Creators :
       Living' = Living /\ Creators' = Creators \cup {c} /\ Writes(c, 1)
  \/ \E t \in Threads \ Living, c \in Creators :
       Living' = Living \cup {t} /\ Creators' = Creators \ {c} /\ UNCHANGED <<child_threads, raced>>

\* Who is dead stays so, unless the listener accepts it or main starts it.
DeadStay ==
  \A t \in Threads : Dead(t) => \/ Dead(t)'
                                \/ t \in Conns /\ at["listen"] = "select"
                                \/ at["main"] = "create" /\ t = StartOrder[Cardinality(Born) + 1]

LEMMA QuietCounts == Quiet => CountedStep /\ DeadStay
<1> SUFFICES ASSUME Quiet PROVE CountedStep /\ DeadStay
  OBVIOUS
<1>1. Living' = Living
  BY DEF Quiet, Living
<1>2. Creators' = Creators
  BY DEF Quiet, Creators
<1> QED
  BY <1>1, <1>2 DEF Quiet, CountedStep, DeadStay, Dead

LEMMA DecCounts ==
  ASSUME ServerInv, NEW t \in Threads, dec_child_thread_count(t)
  PROVE  CountedStep /\ DeadStay
<1> USE Distinct, Names DEF ServerInv
<1>1. CASE Goes(t, "leave", "dec") /\ threadsem_lock(t) /\ Reads(t) /\ UNCHANGED <<child_threads, raced>>
  <2>1. /\ at[t] = "leave" /\ at'[t] = "dec"
        /\ \A u \in (Threads \cup {"main"}) \ {t} : at'[u] = at[u]
    BY <1>1, Moving DEF Goes, Places
  <2>2. Quiet
    BY <1>1, <2>1 DEF Quiet, Lives, Creating
  <2> QED
    BY <2>2, QuietCounts
<1>2. CASE /\ Goes(t, "dec", IF t \in Conns THEN "none" ELSE "gone")
           /\ Writes(t, -1) /\ threadsem_unlock
  <2>1. /\ at[t] = "dec"
        /\ at'[t] \in {"none", "gone"}
        /\ \A u \in (Threads \cup {"main"}) \ {t} : at'[u] = at[u]
    BY <1>2, Moving DEF Goes, Places
  <2>2. Living' = Living \ {t} /\ t \in Living
    BY <2>1 DEF Living, Lives
  <2>3. Creators' = Creators
    BY <2>1 DEF Creators, Creating
  <2>4. DeadStay
    BY <2>1 DEF DeadStay, Dead, Lives
  <2> QED
    BY <1>2, <2>2, <2>3, <2>4 DEF CountedStep
<1> QED
  BY <1>1, <1>2 DEF dec_child_thread_count

LEMMA StartCounts ==
  ASSUME ServerInv, start_thread
  PROVE  CountedStep /\ DeadStay
<1> USE Distinct, Names DEF ServerInv
<1>1. CASE Goes("main", "start", "inc") /\ threadsem_lock("main") /\ Reads("main")
           /\ UNCHANGED <<child_threads, raced>>
  <2>1. /\ at["main"] = "start" /\ at'["main"] = "inc"
        /\ \A u \in Threads : at'[u] = at[u]
    BY <1>1, Moving DEF Goes, Places
  <2>2. Quiet
    BY <1>1, <2>1 DEF Quiet, Lives, Creating
  <2> QED
    BY <2>2, QuietCounts
<1>2. CASE Goes("main", "inc", "create") /\ Writes("main", 1) /\ threadsem_unlock
  <2>1. /\ at["main"] = "inc" /\ at'["main"] = "create"
        /\ \A u \in Threads : at'[u] = at[u]
    BY <1>2, Moving DEF Goes, Places
  <2>2. Living' = Living
    BY <2>1 DEF Living, Lives
  <2>3. Creators' = Creators \cup {"main"} /\ "main" \notin Creators
    BY <2>1 DEF Creators, Creating
  <2>4. DeadStay
    BY <2>1 DEF DeadStay, Dead, Lives
  <2> QED
    BY <1>2, <2>2, <2>3, <2>4 DEF CountedStep
<1>3. CASE /\ at["main"] = "create"
           /\ LET new == Cardinality(Born) + 1
              IN at' = [at EXCEPT ![StartOrder[new]] = "run",
                                  !["main"] = IF new = Len(StartOrder) THEN "catch" ELSE "start"]
           /\ UNCHANGED countVars
  <2>1. PICK n \in 0..4 :
          /\ n = Cardinality(Born) /\ at[StartOrder[n + 1]] = "none"
          /\ StartOrder[n + 1] \in Workers
    BY <1>3, NextToStart
  <2> DEFINE t == StartOrder[n + 1]
  <2>2. /\ at'["main"] \in {"catch", "start"}
        /\ t \in Threads /\ at[t] = "none" /\ at'[t] = "run"
        /\ \A u \in Threads \ {t} : at'[u] = at[u]
    BY <2>1, <1>3 DEF TypeOK, Places
  <2>3. t = StartOrder[Cardinality(Born) + 1]
    BY <2>1
  <2> HIDE DEF t
  <2>4. Living' = Living \cup {t} /\ t \in Threads \ Living
    BY <2>2 DEF Living, Lives
  <2>5. Creators' = Creators \ {"main"} /\ "main" \in Creators
    <3>1. Creating("listen")' <=> Creating("listen")
      BY <2>2 DEF Creating
    <3>2. Creating("main") /\ ~Creating("main")'
      BY <2>2, <1>3 DEF Creating
    <3> QED
      BY <3>1, <3>2 DEF Creators
  <2>6. DeadStay
    BY <2>2, <2>3, <1>3 DEF DeadStay, Dead, Lives
  <2>7. UNCHANGED <<child_threads, raced>>
    BY <1>3 DEF countVars
  <2> QED
    BY <2>4, <2>5, <2>6, <2>7 DEF CountedStep
<1> QED
  BY <1>1, <1>2, <1>3 DEF start_thread

LEMMA SectionCounts ==
  ASSUME ServerInv, IncUnlocked \/ \E k \in Conns : Accept(k) \/ CreateClientThread(k)
  PROVE  CountedStep /\ DeadStay
<1> USE Distinct, Names DEF ServerInv
<1>1. CASE Goes("listen", "inc", "incremented") /\ Reads("listen") /\ UNCHANGED <<child_threads, raced>>
  <2>1. /\ at["listen"] = "inc" /\ at'["listen"] = "incremented"
        /\ \A u \in (Threads \cup {"main"}) \ {"listen"} : at'[u] = at[u]
    BY <1>1, Moving DEF Goes, Places
  <2>2. Quiet
    BY <1>1, <2>1 DEF Quiet, Lives, Creating
  <2> QED
    BY <2>2, QuietCounts
<1>2. CASE Goes("listen", "incremented", "create") /\ Writes("listen", 1)
  <2>1. /\ at["listen"] = "incremented" /\ at'["listen"] = "create"
        /\ \A u \in (Threads \cup {"main"}) \ {"listen"} : at'[u] = at[u]
    BY <1>2, Moving DEF Goes, Places
  <2>2. Living' = Living
    BY <2>1 DEF Living, Lives
  <2>3. Creators' = Creators \cup {"listen"} /\ "listen" \notin Creators
    BY <2>1 DEF Creators, Creating
  <2>4. DeadStay
    BY <2>1 DEF DeadStay, Dead, Lives
  <2> QED
    BY <1>2, <2>2, <2>3, <2>4 DEF CountedStep
<1>3. ASSUME NEW k \in Conns, Accept(k) PROVE CountedStep /\ DeadStay
  <2>1. /\ at["listen"] = "select" /\ at[k] = "none"
        /\ at'["listen"] = "inc" /\ at'[k] = "accepted"
        /\ \A u \in (Threads \cup {"main"}) \ {"listen", k} : at'[u] = at[u]
        /\ UNCHANGED <<child_threads, raced>>
    BY <1>3 DEF Accept, TypeOK, countVars
  <2>2. Living' = Living
    BY <2>1 DEF Living, Lives
  <2>3. Creators' = Creators
    BY <2>1 DEF Creators, Creating
  <2>4. DeadStay
    BY <2>1 DEF DeadStay, Dead, Lives
  <2> QED
    BY <2>1, <2>2, <2>3, <2>4 DEF CountedStep
<1>4. ASSUME NEW k \in Conns, CreateClientThread(k) PROVE CountedStep /\ DeadStay
  <2>1. /\ at["listen"] = "create" /\ at[k] = "accepted"
        /\ at'["listen"] = "run" /\ at'[k] = "run"
        /\ \A u \in (Threads \cup {"main"}) \ {"listen", k} : at'[u] = at[u]
        /\ UNCHANGED <<child_threads, raced>>
    BY <1>4 DEF CreateClientThread, TypeOK, countVars
  <2>2. Living' = Living \cup {k} /\ k \in Threads \ Living
    BY <2>1 DEF Living, Lives
  <2>3. Creators' = Creators \ {"listen"} /\ "listen" \in Creators
    BY <2>1 DEF Creators, Creating
  <2>4. DeadStay
    BY <2>1 DEF DeadStay, Dead, Lives
  <2> QED
    BY <2>1, <2>2, <2>3, <2>4 DEF CountedStep
<1> QED
  BY <1>1, <1>2, <1>3, <1>4 DEF IncUnlocked

LEMMA StepCounts ==
  ASSUME ServerInv, [Next]_vars PROVE CountedStep /\ DeadStay
<1>1. CASE Main
  BY <1>1, StartCounts, CatchKeeps, QuietCounts DEF Main
<1>2. CASE StatusThread \/ ConsoleThread
  BY <1>2, StatusKeeps, DecCounts, QuietCounts, Distinct, Names DEF StatusThread, ConsoleThread
<1>3. CASE ListenThread
  BY <1>3, SelectKeeps, SectionCounts, DecCounts, QuietCounts, Distinct, Names DEF ListenThread
<1>4. CASE ScriptsThread
  BY <1>4, ScriptsKeep, DecCounts, QuietCounts, Distinct, Names DEF ScriptsThread
<1>5. CASE TasksThread
  BY <1>5, TasksKeep, DecCounts, QuietCounts, Distinct, Names DEF TasksThread
<1>6. CASE \E k \in Conns : ClientThread(k)
  BY <1>6, ClientKeeps, DecCounts, QuietCounts, Distinct DEF ClientThread
<1>7. CASE (\E t \in Tasks : Tick(t)) \/ Signal \/ Stopped \/ UNCHANGED vars
  <2>1. UNCHANGED <<at, child_threads, raced>>
    BY <1>7 DEF Tick, Signal, Stopped, vars, countVars
  <2>2. Quiet
    BY <2>1 DEF Quiet, Lives, Creating
  <2> QED
    BY <2>2, QuietCounts
<1> QED
  BY <1>1, <1>2, <1>3, <1>4, <1>5, <1>6, <1>7 DEF Next

LEMMA CountsAreFinite ==
  /\ \A S \in SUBSET Threads : IsFiniteSet(S) /\ Cardinality(S) \in 0..Cardinality(Threads)
  /\ \A S \in SUBSET {"main", "listen"} : IsFiniteSet(S) /\ Cardinality(S) \in 0..2
<1>1. ASSUME NEW S \in SUBSET Threads
      PROVE  IsFiniteSet(S) /\ Cardinality(S) \in Nat /\ Cardinality(S) <= Cardinality(Threads)
  BY ThreadCount, FS_Subset, FS_CardinalityType
<1>2. IsFiniteSet({"main"}) /\ Cardinality({"main"}) = 1
  BY FS_Singleton
<1>3. IsFiniteSet({"main"} \cup {"listen"}) /\ Cardinality({"main"} \cup {"listen"}) = 2
  BY <1>2, FS_AddElement
<1>4. ASSUME NEW S \in SUBSET {"main", "listen"}
      PROVE  IsFiniteSet(S) /\ Cardinality(S) \in Nat /\ Cardinality(S) <= 2
  <2>1. S \subseteq {"main"} \cup {"listen"}
    OBVIOUS
  <2> QED
    BY <1>3, <2>1, FS_Subset, FS_CardinalityType
<1> QED
  BY <1>1, <1>4, ThreadCount

LEMMA CountedKept ==
  ASSUME ServerInv, Counted, CountedStep, ServerInv' PROVE Counted'
<1> DEFINE L == Cardinality(Living)
           C == Cardinality(Creators)
           N == Cardinality(Threads)
<1>1. /\ Counted <=> (~raced => child_threads = L + C)
      /\ Counted' <=> (~raced' => child_threads' = L' + C')
  BY DEF Counted, Living, Creators
<1>2. /\ Living \subseteq Threads /\ IsFiniteSet(Living)
      /\ Creators \subseteq {"main", "listen"} /\ IsFiniteSet(Creators)
      /\ N \in Nat /\ L \in 0..N /\ C \in 0..2
      /\ Width \in Nat /\ Width > N + 2
  <2>1. Living \subseteq Threads /\ Creators \subseteq {"main", "listen"}
    BY DEF Living, Creators
  <2> QED
    BY <2>1, CountsAreFinite, ThreadCount, ThreadsAssumption
<1>3. /\ L' \in 0..N /\ C' \in 0..2
  <2>1. Living' \subseteq Threads /\ Creators' \subseteq {"main", "listen"}
    BY DEF Living, Creators
  <2> QED
    BY <2>1, CountsAreFinite
<1> SUFFICES ASSUME ~raced' PROVE child_threads' = L' + C'
  BY <1>1
<1>4. CASE Living' = Living /\ Creators' = Creators /\ UNCHANGED <<child_threads, raced>>
  BY <1>4, <1>1
<1>5. ASSUME NEW t \in Living, Living' = Living \ {t}, Creators' = Creators, Writes(t, -1)
      PROVE  child_threads' = L' + C'
  <2>1. L' = L - 1 /\ C' = C
    BY <1>5, <1>2, FS_RemoveElement
  <2>2. ~raced /\ child_threads' = (child_threads - 1) % Width
    BY <1>5 DEF Writes
  <2>3. child_threads = L + C
    BY <2>2, <1>1
  <2> HIDE DEF L, C, N
  <2>4. L + C - 1 \in 0..(Width - 1)
    BY <2>1, <1>2, <1>3
  <2> QED
    BY <2>1, <2>2, <2>3, <2>4, <1>2
<1>6. ASSUME NEW c \in {"main", "listen"} \ Creators, Living' = Living,
             Creators' = Creators \cup {c}, Writes(c, 1)
      PROVE  child_threads' = L' + C'
  <2>1. L' = L /\ C' = C + 1
    BY <1>6, <1>2, FS_AddElement
  <2>2. ~raced /\ child_threads' = (child_threads + 1) % Width
    BY <1>6 DEF Writes
  <2>3. child_threads = L + C
    BY <2>2, <1>1
  <2> HIDE DEF L, C, N
  <2>4. L + C + 1 \in 0..(Width - 1)
    BY <2>1, <1>2, <1>3
  <2> QED
    BY <2>1, <2>2, <2>3, <2>4, <1>2
<1>7. ASSUME NEW t \in Threads \ Living, NEW c \in Creators,
             Living' = Living \cup {t}, Creators' = Creators \ {c}, UNCHANGED <<child_threads, raced>>
      PROVE  child_threads' = L' + C'
  <2>1. L' = L + 1 /\ C' = C - 1
    BY <1>7, <1>2, FS_AddElement, FS_RemoveElement
  <2>2. child_threads = L + C
    BY <1>7, <1>1
  <2> QED
    BY <2>1, <2>2, <1>2, <1>7
<1> QED
  BY <1>4, <1>5, <1>6, <1>7 DEF CountedStep

LEMMA CountedInitially == Init => Counted
<1> SUFFICES ASSUME Init PROVE Counted
  OBVIOUS
<1> USE Distinct, Names
<1>1. /\ at["main"] = IF plan = "work" THEN "sigwait" ELSE "start"
      /\ \A t \in Workers : at[t] = IF plan = "work" THEN "run" ELSE "none"
      /\ \A k \in Conns : at[k] = "none"
  BY DEF Init, Threads
<1>2. Creators = {}
  BY <1>1 DEF Creators, Creating
<1>3. Cardinality(Creators) = 0
  BY <1>2, FS_EmptySet
<1>4. CASE plan = "work"
  <2>1. Living = Workers
    BY <1>1, <1>4 DEF Living, Lives, Threads
  <2> QED
    BY <2>1, <1>3, <1>4, ThreadCount DEF Init, Counted, Living, Creators
<1>5. CASE plan # "work"
  <2>1. Living = {}
    BY <1>1, <1>5 DEF Living, Lives, Threads
  <2>2. Cardinality(Living) = 0
    BY <2>1, FS_EmptySet
  <2> QED
    BY <2>2, <1>3, <1>5 DEF Init, Counted, Living, Creators
<1> QED
  BY <1>4, <1>5

\* Unless a count was written over another one's, the count of child threads is of
\* those that live or are about to be created, however many clients come and go.
THEOREM CountIsRight == Spec => []Counted
<1>1. Spec => []ServerInv
  BY Initially, StepKeeps, PTL DEF Spec
<1>2. ServerInv /\ Counted /\ ServerInv' /\ [Next]_vars => Counted'
  BY StepCounts, CountedKept
<1> QED
  BY <1>1, <1>2, CountedInitially, PTL DEF Spec

-----------------------------------------------------------------------------
(* Who is last *)

\* With a count of at most one, the one that lives is the only one there is, nobody is
\* about to be created, and nobody is accepted.
LEMMA Alone ==
  ASSUME ServerInv, Counted, ~raced, NEW t \in Threads, Lives(t), child_threads <= 1
  PROVE  \A u \in Threads \ {t} : Dead(u) \/ (t = "listen" /\ u \in Conns /\ at[u] = "accepted")
<1>1. /\ Living \subseteq Threads /\ IsFiniteSet(Living) /\ Cardinality(Living) \in Nat
      /\ Creators \subseteq {"main", "listen"} /\ Cardinality(Creators) \in Nat
  BY CountsAreFinite, ThreadCount DEF Living, Creators
<1>2. Cardinality(Living) + Cardinality(Creators) <= 1
  BY DEF Counted, Living, Creators
<1>3. t \in Living
  BY DEF Living
<1>4. Cardinality(Living \ {t}) = Cardinality(Living) - 1 /\ IsFiniteSet(Living \ {t})
  BY <1>1, <1>3, FS_RemoveElement
<1>5. Cardinality(Living \ {t}) \in Nat
  BY <1>4, FS_CardinalityType
<1>6. Cardinality(Living \ {t}) = 0
  BY <1>1, <1>2, <1>4, <1>5
<1>7. Living \ {t} = {}
  BY <1>4, <1>6, FS_EmptySet
<1>8. ASSUME NEW u \in Threads \ {t} PROVE ~Lives(u)
  BY <1>7 DEF Living
<1>9. ASSUME NEW u \in Threads \ {t}, at[u] = "accepted" PROVE t = "listen" /\ u \in Conns
  <2>1. u \in Conns
    BY <1>9 DEF ServerInv, PlacesOK, Threads
  <2>2. at["listen"] \in InSection /\ "listen" \in Threads
    BY <1>9, <2>1, Distinct, Names DEF ServerInv, PlacesOK
  <2>3. Lives("listen")
    BY <2>2 DEF Lives, InSection
  <2> QED
    BY <2>1, <2>2, <2>3, <1>8
<1> QED
  BY <1>8, <1>9 DEF Dead

LEMMA NobodyLeft ==
  ASSUME ServerInv, Counted, ~raced, child_threads = 0
  PROVE  \A u \in Threads : Dead(u)
<1>1. ASSUME NEW t \in Threads, Lives(t) PROVE FALSE
  <2>1. /\ Living \subseteq Threads /\ IsFiniteSet(Living) /\ Cardinality(Living) \in Nat
        /\ Creators \subseteq {"main", "listen"} /\ Cardinality(Creators) \in Nat
    BY CountsAreFinite, ThreadCount DEF Living, Creators
  <2>2. Cardinality(Living) + Cardinality(Creators) = 0
    BY DEF Counted, Living, Creators
  <2>3. Living = {}
    BY <2>1, <2>2, FS_EmptySet
  <2> QED
    BY <1>1, <2>3 DEF Living
<1>2. ASSUME NEW u \in Threads, at[u] = "accepted" PROVE FALSE
  <2>1. u \in Conns
    BY <1>2 DEF ServerInv, PlacesOK, Threads
  <2>2. at["listen"] \in InSection /\ "listen" \in Threads
    BY <1>2, <2>1, Distinct, Names DEF ServerInv, PlacesOK
  <2> QED
    BY <2>2, <1>1 DEF Lives, InSection
<1> QED
  BY <1>1, <1>2 DEF Dead

Left == {"leave", "dec", "gone"}

\* Main gets to its cleanup, and the status thread to its end, by their own steps.
LEMMA OwnSteps ==
  ASSUME ServerInv, [Next]_vars
  PROVE  /\ at'["main"] = "cleanup" => at["main"] = "cleanup" \/ AwaitChildren
         /\ at'["status"] \in Left =>
              at["status"] \in Left \/ (threadstatus_thread /\ child_threads <= 1)
<1> USE Distinct, Names DEF ServerInv, Left
<1>0. at \in [Threads \cup {"main"} -> Places]
  BY DEF TypeOK
<1>1. ASSUME NEW t \in Threads, dec_child_thread_count(t)
      PROVE  /\ at'["main"] = at["main"]
             /\ at'["status"] \in Left => at["status"] \in Left
  BY <1>0, <1>1 DEF dec_child_thread_count, Goes
<1>2. CASE start_thread
  <2>1. ASSUME at["main"] = "create" PROVE StartOrder[Cardinality(Born) + 1] \in Workers
    BY <2>1, NextToStart
  <2> QED
    BY <1>0, <1>2, <2>1 DEF start_thread, Goes
<1>3. CASE catch_signals_thread \/ AwaitChildren
  BY <1>0, <1>3 DEF catch_signals_thread, AwaitChildren, Goes
<1>4. CASE threadstatus_thread
  <2>1. CASE child_threads > 1
    <3>1. at["status"] = "run" /\ at' \in Wakes([at EXCEPT !["status"] = "woke"]) /\ "woke" \in Places
      BY <1>4, <2>1 DEF threadstatus_thread, send_pulse, wake_tasks_thread, Wakes, Places
    <3> QED
      BY <3>1, Woken
  <2>2. CASE ~(child_threads > 1)
    <3>1. at' = [at EXCEPT !["status"] = "leave"]
      BY <1>4, <2>2 DEF threadstatus_thread
    <3> QED
      BY <1>0, <1>4, <2>2, <3>1 DEF TypeOK
  <2> QED
    BY <2>1, <2>2
<1>12. CASE console_thread
  BY <1>0, <1>12 DEF console_thread, Goes
<1>5. CASE Select \/ AcceptFails \/ CreateFails \/ IncUnlocked
  BY <1>0, <1>5 DEF Select, AcceptFails, CreateFails, IncUnlocked, Goes
<1>6. CASE \E k \in Conns : Accept(k) \/ CreateClientThread(k)
  BY <1>0, <1>6 DEF Accept, CreateClientThread
<1>7. ASSUME NEW k \in Conns, process_data(k) \/ Pulse(k) \/ Closes(k)
      PROVE  at'["main"] = at["main"] /\ at'["status"] = at["status"]
  <2>1. k \in Threads /\ k \notin {"main", "status"}
    OBVIOUS
  <2>2. PICK to \in {"handled", "run", "leave"} :
          at[k] # "none" /\ at' \in Wakes([at EXCEPT ![k] = to])
    BY <1>7 DEF process_data, Pulse, Closes, Goes, send_pulse, wake_tasks_thread, WakeIfDirty, Wakes
  <2>3. to \in Places
    BY <2>2 DEF Places
  <2> QED
    BY <2>1, <2>2, <2>3, Woken
<1>8. CASE ScriptsPass \/ ScriptsWait
  BY <1>0, <1>8 DEF ScriptsPass, ScriptsWait, Goes, wake_tasks_thread, WakeIfDirty, Awake
<1>9. CASE check_scheduled_tasks \/ TaskThrows \/ TasksWait
  BY <1>0, <1>9 DEF check_scheduled_tasks, TaskThrows, TasksWait, Goes, send_pulse, Awake
<1>10. CASE (\E t \in Tasks : Tick(t)) \/ Signal \/ Stopped \/ UNCHANGED vars
  BY <1>10 DEF Tick, Signal, Stopped, vars
<1>11. \/ start_thread \/ catch_signals_thread \/ AwaitChildren
       \/ threadstatus_thread \/ console_thread
       \/ Select \/ AcceptFails \/ CreateFails \/ IncUnlocked
       \/ \E k \in Conns : Accept(k) \/ CreateClientThread(k)
       \/ \E k \in Conns : process_data(k) \/ Pulse(k) \/ Closes(k)
       \/ ScriptsPass \/ ScriptsWait
       \/ check_scheduled_tasks \/ TaskThrows \/ TasksWait
       \/ \E t \in Threads : dec_child_thread_count(t)
       \/ (\E t \in Tasks : Tick(t)) \/ Signal \/ Stopped \/ UNCHANGED vars
  BY DEF Next, Main, StatusThread, ConsoleThread, ListenThread, ClientThread, ScriptsThread, TasksThread
<1> QED
  BY <1>1, <1>2, <1>3, <1>4, <1>12, <1>5, <1>6, <1>7, <1>8, <1>9, <1>10, <1>11

LEMMA LastOutKept ==
  ASSUME ServerInv, Counted, LastOut, [Next]_vars PROVE LastOut'
<1> USE Distinct, Names DEF Left
<1>0. CountedStep /\ DeadStay
  BY StepCounts
<1>1. LastOut' <=>
        (~raced' =>
          /\ at'["main"] = "cleanup" => \A t \in Threads : Dead(t)'
          /\ at'["status"] \in Left => \A t \in Threads \ {"status", "console"} : Dead(t)')
  BY DEF LastOut, Dead, Lives
<1> SUFFICES ASSUME ~raced'
             PROVE  /\ at'["main"] = "cleanup" => \A t \in Threads : Dead(t)'
                    /\ at'["status"] \in Left => \A t \in Threads \ {"status", "console"} : Dead(t)'
  BY <1>1
<1>2. ~raced
  BY <1>0 DEF CountedStep, Writes
<1>3. ASSUME Dead("listen") PROVE at["listen"] # "select"
  BY <1>3 DEF Dead, Lives
<1>4. ASSUME at["main"] = "cleanup" PROVE \A t \in Threads : Dead(t)'
  <2>1. \A t \in Threads : Dead(t)
    BY <1>2, <1>4 DEF LastOut, Dead, Lives
  <2>2. at["listen"] # "select"
    BY <2>1, <1>3
  <2> QED
    BY <1>0, <1>4, <2>1, <2>2 DEF DeadStay
<1>5. ASSUME AwaitChildren PROVE \A t \in Threads : Dead(t)'
  <2>1. \A t \in Threads : Dead(t)
    BY <1>2, <1>5, NobodyLeft DEF AwaitChildren
  <2>2. \A t \in Threads : at'[t] = at[t]
    BY <1>5 DEF AwaitChildren, Goes, ServerInv, TypeOK
  <2> QED
    BY <2>1, <2>2 DEF Dead, Lives
<1>6. ASSUME at["status"] \in Left
      PROVE  \A t \in Threads \ {"status", "console"} : Dead(t)'
  <2>1. \A t \in Threads \ {"status", "console"} : Dead(t)
    BY <1>2, <1>6 DEF LastOut, Dead, Lives
  <2>2. at["listen"] # "select"
    BY <2>1, <1>3
  <2>3. ASSUME at["main"] = "create" PROVE StartOrder[Cardinality(Born) + 1] = "console"
    <3>1. PICK n \in 0..4 : n = Cardinality(Born) /\ Born = 1..n
      BY <2>3, NextToStart
    <3>2. 4 \in Born
      BY <1>6 DEF Born
    <3>3. 4 \in 1..n
      BY <3>1, <3>2
    <3>4. n >= 4 /\ n <= 4
      BY <3>3
    <3> QED
      BY <3>1, <3>4
  <2> QED
    BY <1>0, <2>1, <2>2, <2>3 DEF DeadStay
<1>7. ASSUME threadstatus_thread, child_threads <= 1
      PROVE  \A t \in Threads \ {"status", "console"} : Dead(t)'
  <2>1. Lives("status") /\ at' = [at EXCEPT !["status"] = "leave"]
    <3>1. ~(child_threads > 1)
      BY <1>7 DEF ServerInv, TypeOK
    <3> QED
      BY <1>7, <3>1 DEF threadstatus_thread, Lives
  <2>2. \A t \in Threads \ {"status"} : Dead(t)
    BY <1>2, <1>7, <2>1, Alone
  <2>3. \A t \in Threads \ {"status"} : at'[t] = at[t]
    BY <2>1 DEF ServerInv, TypeOK
  <2> QED
    BY <2>2, <2>3 DEF Dead, Lives
<1>8. /\ at'["main"] = "cleanup" => at["main"] = "cleanup" \/ AwaitChildren
      /\ at'["status"] \in Left => at["status"] \in Left \/ (threadstatus_thread /\ child_threads <= 1)
  BY OwnSteps
<1> QED
  BY <1>4, <1>5, <1>6, <1>7, <1>8

\* Main cleans up when all its children have ended, and the status thread ends after all
\* who were started before it, unless a count was written over another one's: nobody is
\* started, accepted or created later on.
THEOREM MainIsLast == Spec => []LastOut
<1>1. Spec => []ServerInv
  BY Initially, StepKeeps, PTL DEF Spec
<1>2. Init => LastOut
  <2>1. Init => at["main"] # "cleanup" /\ at["status"] \in {"run", "none"}
    BY Distinct, Names DEF Init
  <2> QED
    BY <2>1 DEF LastOut
<1>3. ServerInv /\ Counted /\ LastOut /\ [Next]_vars => LastOut'
  BY LastOutKept
<1> QED
  BY <1>1, <1>2, <1>3, CountIsRight, PTL DEF Spec

-----------------------------------------------------------------------------
(* Tasks *)

\* The tasks thread has looked at the queue, and goes to sleep over it.
Waits == at["tasks"] \in {"pulse", "tosleep", "sleep"}

\* A step that schedules nothing, or sets dirty_, and leaves the tasks thread awake if
\* it was.
Noticed ==
  /\ Waits' => Waits
  /\ planned' = planned /\ (dirty' \/ (Queue' \subseteq Queue /\ dirty' = dirty))

LEMMA SchedulesNoticed ==
  ASSUME DataOK, Schedules PROVE dirty' \/ (Queue' \subseteq Queue /\ dirty' = dirty)
<1>1. CASE UNCHANGED taskVars
  BY <1>1 DEF taskVars, Queue
<1>2. CASE \E t \in Tasks : add_task(t)
  BY <1>2 DEF add_task
<1>3. CASE \E t \in Tasks : cancel(t)
  BY <1>3 DEF cancel, Queue, DataOK
<1> QED
  BY <1>1, <1>2, <1>3 DEF Schedules

LEMMA StepsNotice ==
  ASSUME ServerInv, Next PROVE Noticed \/ (planned' = Queue') \/ ~Waits'
<1> USE Distinct, Names DEF ServerInv
<1>0. at \in [Threads \cup {"main"} -> Places] /\ DataOK
  BY TypesOfData DEF TypeOK
<1>1. ASSUME NEW t \in Threads, dec_child_thread_count(t) PROVE Noticed
  BY <1>0, <1>1 DEF dec_child_thread_count, Goes, Noticed, Waits, taskVars, Queue
<1>2. CASE start_thread
  <2>1. ASSUME at["main"] = "create" PROVE StartOrder[Cardinality(Born) + 1] \in Workers
    BY <2>1, NextToStart
  <2>2. Waits' => Waits
    BY <1>0, <1>2, <2>1 DEF start_thread, Goes, Waits
  <2> QED
    BY <1>2, <2>2 DEF start_thread, Noticed, taskVars, Queue
<1>3. CASE catch_signals_thread \/ AwaitChildren
  BY <1>0, <1>3 DEF catch_signals_thread, AwaitChildren, Goes, Noticed, Waits, taskVars, Queue
<1>4. CASE threadstatus_thread \/ console_thread
  BY <1>0, <1>4 DEF threadstatus_thread, console_thread, Goes, send_pulse, wake_tasks_thread, Awake,
                    Noticed, Waits, taskVars, Queue
<1>5. CASE Select \/ AcceptFails \/ CreateFails \/ IncUnlocked
  BY <1>0, <1>5 DEF Select, AcceptFails, CreateFails, IncUnlocked, Goes, Noticed, Waits, taskVars, Queue
<1>6. CASE \E k \in Conns : Accept(k) \/ CreateClientThread(k)
  BY <1>0, <1>6 DEF Accept, CreateClientThread, Noticed, Waits, taskVars, Queue
<1>7. ASSUME NEW k \in Conns, process_data(k) \/ Pulse(k) \/ Closes(k) PROVE Noticed
  <2>1. Waits' => Waits
    BY <1>0, <1>7 DEF process_data, Pulse, Closes, Goes, send_pulse, wake_tasks_thread, WakeIfDirty,
                      Awake, Waits
  <2>2. planned' = planned /\ (Schedules \/ UNCHANGED <<task, dirty>>)
    BY <1>7 DEF process_data, Pulse, Closes, taskVars
  <2> QED
    BY <1>0, <2>1, <2>2, SchedulesNoticed DEF Noticed, Queue
<1>8. CASE ScriptsPass \/ ScriptsWait
  <2>1. Waits' => Waits
    BY <1>0, <1>8 DEF ScriptsPass, ScriptsWait, Goes, wake_tasks_thread, WakeIfDirty, Awake, Waits
  <2>2. planned' = planned /\ (Schedules \/ UNCHANGED <<task, dirty>>)
    BY <1>8 DEF ScriptsPass, ScriptsWait, taskVars
  <2> QED
    BY <1>0, <2>1, <2>2, SchedulesNoticed DEF Noticed, Queue
<1>9. CASE check_scheduled_tasks
  BY <1>9 DEF check_scheduled_tasks, Queue
<1>10. CASE TaskThrows
  BY <1>0, <1>10 DEF TaskThrows, Waits
<1>11. CASE TasksWait
  BY <1>0, <1>11 DEF TasksWait, Goes, send_pulse, Awake, Noticed, Waits, taskVars, Queue
<1>12. CASE (\E t \in Tasks : Tick(t)) \/ Signal \/ Stopped
  BY <1>0, <1>12 DEF Tick, Signal, Stopped, vars, taskVars, Noticed, Waits, Queue, DataOK
<1>13. \/ start_thread \/ catch_signals_thread \/ AwaitChildren
       \/ threadstatus_thread \/ console_thread
       \/ Select \/ AcceptFails \/ CreateFails \/ IncUnlocked
       \/ \E k \in Conns : Accept(k) \/ CreateClientThread(k)
       \/ \E k \in Conns : process_data(k) \/ Pulse(k) \/ Closes(k)
       \/ ScriptsPass \/ ScriptsWait
       \/ check_scheduled_tasks \/ TaskThrows \/ TasksWait
       \/ \E t \in Threads : dec_child_thread_count(t)
       \/ (\E t \in Tasks : Tick(t)) \/ Signal \/ Stopped
  BY DEF Next, Main, StatusThread, ConsoleThread, ListenThread, ClientThread, ScriptsThread, TasksThread
<1> QED
  BY <1>1, <1>2, <1>3, <1>4, <1>5, <1>6, <1>7, <1>8, <1>9, <1>10, <1>11, <1>12, <1>13

\* While the tasks thread waits over the queue it has looked at, a task added since keeps
\* dirty_ set: whoever has PolLock next still knows that the thread must be woken.
THEOREM NoTaskForgotten == Spec => []NotForgotten
<1>1. Spec => []ServerInv
  BY Initially, StepKeeps, PTL DEF Spec
<1>2. Init => NotForgotten
  <2>1. Init => at["tasks"] \in {"run", "none"}
    BY Distinct, Names DEF Init
  <2> QED
    BY <2>1 DEF NotForgotten
<1>3. ServerInv /\ NotForgotten /\ [Next]_vars => NotForgotten'
  <2> SUFFICES ASSUME ServerInv, NotForgotten, [Next]_vars PROVE NotForgotten'
    OBVIOUS
  <2>1. CASE Next
    BY <2>1, StepsNotice DEF Noticed, NotForgotten, Waits
  <2>2. CASE UNCHANGED vars
    BY <2>2 DEF vars, taskVars, NotForgotten, Queue
  <2> QED
    BY <2>1, <2>2
<1> QED
  BY <1>1, <1>2, <1>3, PTL DEF Spec

-----------------------------------------------------------------------------
(* Handles *)

\* OwnHandle, task by task.
Owned(t) ==
  /\ handle = t <=> (task[t].state # "free" /\ ~task[t].cancelled)
  /\ task[t].state # "free" => (task[t].handle <=> handle = t)
AllOwned == \A t \in Tasks : Owned(t)

LEMMA OwnedIsOwn == DataOK => (AllOwned <=> OwnHandle)
<1> SUFFICES ASSUME DataOK PROVE AllOwned <=> OwnHandle
  OBVIOUS
<1>1. handle \in Tasks \cup {NoTask} /\ NoTask \notin Tasks
  BY ThreadsAssumption DEF DataOK
<1>2. (\A t \in Tasks : handle = t <=> (task[t].state # "free" /\ ~task[t].cancelled))
      <=> {t \in Queue : ~task[t].cancelled} = {handle} \ {NoTask}
  BY <1>1 DEF Queue
<1>3. (\A t \in Tasks : task[t].state # "free" => (task[t].handle <=> handle = t))
      <=> (\A t \in Queue : task[t].handle <=> handle = t)
  BY DEF Queue
<1> QED
  BY <1>2, <1>3 DEF AllOwned, Owned, OwnHandle

LEMMA SchedulesOwned ==
  ASSUME DataOK, AllOwned, Schedules PROVE AllOwned'
<1> NoTask \notin Tasks
  BY ThreadsAssumption
<1>1. CASE UNCHANGED taskVars
  BY <1>1 DEF taskVars, AllOwned, Owned
<1>2. ASSUME NEW t \in Tasks, add_task(t) PROVE AllOwned'
  <2>1. /\ task'[t] = Armed /\ handle' = t /\ handle = NoTask
        /\ \A u \in Tasks \ {t} : task'[u] = task[u]
    BY <1>2 DEF add_task, DataOK
  <2> QED
    BY <2>1 DEF AllOwned, Owned, Armed
<1>3. ASSUME NEW t \in Tasks, cancel(t) PROVE AllOwned'
  <2>1. /\ task'[t].cancelled /\ ~task'[t].handle /\ task'[t].state = task[t].state
        /\ handle' = NoTask /\ handle = t
        /\ \A u \in Tasks \ {t} : task'[u] = task[u]
    BY <1>3 DEF cancel, DataOK
  <2> QED
    BY <2>1 DEF AllOwned, Owned
<1> QED
  BY <1>1, <1>2, <1>3 DEF Schedules

\* What leaves the queue takes its handle with it, before the owner may get the next.
LEMMA ExecutedOwned ==
  ASSUME DataOK, AllOwned, NEW those \in SUBSET Queue, NEW next \in Tasks \cup {NoTask},
         Executed(those, next)
  PROVE  AllOwned'
<1> USE DEF AllOwned, Owned
<1>0. NoTask \notin Tasks /\ those \subseteq Tasks
  BY ThreadsAssumption DEF Queue
<1>1. \A u \in Tasks : task'[u] = IF u = next THEN Armed ELSE IF u \in those THEN Free ELSE task[u]
  BY DEF Executed
<1>2. CASE next # NoTask
  <2>1. PICK t \in those : ~task[t].cancelled
    BY <1>2 DEF Executed
  <2>2. handle = t /\ handle' = next
    BY <1>2, <1>0, <2>1 DEF Queue, Executed
  <2>3. ASSUME NEW u \in Tasks PROVE Owned(u)'
    <3>1. CASE u = next
      BY <1>1, <2>2, <3>1 DEF Armed
    <3>2. CASE u # next /\ u \in those
      BY <1>1, <2>2, <3>2 DEF Free
    <3>3. CASE u # next /\ u \notin those
      BY <1>1, <2>2, <3>3
    <3> QED
      BY <3>1, <3>2, <3>3
  <2> QED
    BY <2>3
<1>3. CASE next = NoTask
  <2>1. ASSUME NEW t \in those, task[t].handle PROVE handle = t
    BY <2>1, <1>0 DEF Queue
  <2>2. CASE \E t \in those : task[t].handle
    <3>1. PICK t \in those : task[t].handle
      BY <2>2
    <3>2. handle = t /\ handle' = NoTask
      BY <1>3, <2>1, <3>1 DEF Executed
    <3>3. ASSUME NEW u \in Tasks PROVE Owned(u)'
      <4>1. CASE u \in those
        BY <1>0, <1>1, <1>3, <3>2, <4>1 DEF Free
      <4>2. CASE u \notin those
        BY <1>0, <1>1, <1>3, <3>2, <4>2
      <4> QED
        BY <4>1, <4>2
    <3> QED
      BY <3>3
  <2>3. CASE \A t \in those : ~task[t].handle
    <3>1. handle' = handle
      BY <1>3, <2>3 DEF Executed
    <3>2. ASSUME NEW u \in Tasks PROVE Owned(u)'
      <4>1. CASE u \in those
        <5>1. handle # u
          BY <2>3, <4>1 DEF Queue
        <5> QED
          BY <1>0, <1>1, <1>3, <3>1, <4>1, <5>1 DEF Free
      <4>2. CASE u \notin those
        BY <1>0, <1>1, <1>3, <3>1, <4>2
      <4> QED
        BY <4>1, <4>2
    <3> QED
      BY <3>2
  <2> QED
    BY <2>2, <2>3
<1> QED
  BY <1>2, <1>3

LEMMA StepsOwn ==
  ASSUME DataOK, AllOwned, [Next]_vars PROVE AllOwned'
<1>1. CASE UNCHANGED <<task, handle>>
  BY <1>1 DEF AllOwned, Owned
<1>2. CASE Schedules
  BY <1>2, SchedulesOwned
<1>3. ASSUME NEW t \in Tasks, Tick(t) PROVE AllOwned'
  <2>1. /\ task'[t].state = "ready" /\ task[t].state = "queued"
        /\ task'[t].cancelled = task[t].cancelled /\ task'[t].handle = task[t].handle
        /\ handle' = handle /\ \A u \in Tasks \ {t} : task'[u] = task[u]
    BY <1>3 DEF Tick, DataOK
  <2> QED
    BY <2>1 DEF AllOwned, Owned
<1>4. CASE check_scheduled_tasks
  <2>1. Ready \subseteq Queue
    BY DEF Ready, Queue
  <2> QED
    BY <1>4, <2>1, ExecutedOwned DEF check_scheduled_tasks
<1>5. CASE TaskThrows
  <2>1. PICK t \in Ready : Executed({t}, NoTask)
    BY <1>5 DEF TaskThrows
  <2>2. {t} \subseteq Queue
    BY DEF Ready, Queue
  <2> QED
    BY <2>1, <2>2, ExecutedOwned
<1>6. \/ UNCHANGED <<task, handle>> \/ Schedules \/ (\E t \in Tasks : Tick(t))
      \/ check_scheduled_tasks \/ TaskThrows
  <2>1. CASE Main \/ StatusThread \/ ConsoleThread
    BY <2>1 DEF Main, StatusThread, ConsoleThread, start_thread, catch_signals_thread, AwaitChildren,
                threadstatus_thread, console_thread, dec_child_thread_count, taskVars
  <2>2. CASE ListenThread
    BY <2>2 DEF ListenThread, Select, AcceptFails, IncUnlocked, CreateFails, Accept,
                CreateClientThread, dec_child_thread_count, taskVars
  <2>3. CASE \E k \in Conns : ClientThread(k)
    BY <2>3 DEF ClientThread, process_data, Pulse, Closes, dec_child_thread_count, taskVars
  <2>4. CASE ScriptsThread
    BY <2>4 DEF ScriptsThread, ScriptsPass, ScriptsWait, dec_child_thread_count, taskVars
  <2>5. CASE TasksThread
    BY <2>5 DEF TasksThread, TasksWait, dec_child_thread_count, taskVars
  <2>6. CASE Signal \/ Stopped \/ UNCHANGED vars
    BY <2>6 DEF Signal, Stopped, vars, taskVars
  <2> QED
    BY <2>1, <2>2, <2>3, <2>4, <2>5, <2>6 DEF Next
<1> QED
  BY <1>1, <1>2, <1>3, <1>4, <1>5, <1>6

\* The owner's handle is on the one task of its own in the queue that it has not
\* cancelled, through every order of scheduling, cancelling, executing and deleting: the
\* pointer is never to a task that has left the queue and been deleted.
THEOREM HandleIsOwn == Spec => []OwnHandle
<1>1. Spec => []DataOK
  <2>1. Spec => []ServerInv
    BY Initially, StepKeeps, PTL DEF Spec
  <2> QED
    BY <2>1, TypesOfData, PTL
<1>2. Init => AllOwned
  BY ThreadsAssumption DEF Init, AllOwned, Owned, Free
<1>3. DataOK /\ AllOwned /\ [Next]_vars => AllOwned'
  BY StepsOwn
<1>4. Spec => []AllOwned
  BY <1>1, <1>2, <1>3, PTL DEF Spec
<1> QED
  BY <1>1, <1>4, OwnedIsOwn, PTL
=============================================================================
