----------------------- MODULE ScriptSchedulerProofs -----------------------
(***************************************************************************)
(* Proofs about ScriptScheduler: its type invariant, and that under the    *)
(* lock no script is in two of the scheduler's lists and none is lost.     *)
(***************************************************************************)
EXTENDS ScriptScheduler, TLAPS

-----------------------------------------------------------------------------
(* Sequences without repetitions *)

LEMMA AppendRange ==
  ASSUME NEW S, NEW q \in Seq(S), NEW e \in S
  PROVE  /\ Append(q, e) \in Seq(S)
         /\ Range(Append(q, e)) = Range(q) \cup {e}
         /\ NoRepeats(q) /\ e \notin Range(q) => NoRepeats(Append(q, e))
<1>1. /\ Append(q, e) \in Seq(S)
      /\ DOMAIN Append(q, e) = 1..Len(q)+1
      /\ DOMAIN q = 1..Len(q)
      /\ Len(q) \in Nat
      /\ \A i \in 1..Len(q) : Append(q, e)[i] = q[i]
      /\ Append(q, e)[Len(q)+1] = e
  OBVIOUS
<1>2. Range(Append(q, e)) = Range(q) \cup {e}
  BY <1>1 DEF Range
<1>3. ASSUME NoRepeats(q), e \notin Range(q)
      PROVE  NoRepeats(Append(q, e))
  <2>1. \A i \in 1..Len(q) : q[i] # e
    BY <1>1, <1>3 DEF Range
  <2> QED
    BY <1>1, <1>3, <2>1 DEF NoRepeats
<1> QED
  BY <1>1, <1>2, <1>3

LEMMA TailRange ==
  ASSUME NEW S, NEW q \in Seq(S), q # <<>>
  PROVE  /\ Head(q) \in S /\ Tail(q) \in Seq(S)
         /\ Head(q) \in Range(q)
         /\ Range(q) = Range(Tail(q)) \cup {Head(q)}
         /\ NoRepeats(q) => NoRepeats(Tail(q)) /\ Head(q) \notin Range(Tail(q))
<1>1. /\ Head(q) = q[1] /\ Head(q) \in S /\ Tail(q) \in Seq(S)
      /\ DOMAIN q = 1..Len(q) /\ Len(q) \in Nat /\ Len(q) > 0
      /\ DOMAIN Tail(q) = 1..Len(q)-1
      /\ \A i \in 1..Len(q)-1 : Tail(q)[i] = q[i+1]
  OBVIOUS
<1>2. Head(q) \in Range(q) /\ Range(Tail(q)) \subseteq Range(q)
  BY <1>1 DEF Range
<1>3. Range(q) \subseteq Range(Tail(q)) \cup {Head(q)}
  <2> SUFFICES ASSUME NEW i \in 1..Len(q), i # 1
               PROVE  q[i] \in Range(Tail(q))
    BY <1>1 DEF Range
  <2>1. i-1 \in 1..Len(q)-1 /\ Tail(q)[i-1] = q[i]
    BY <1>1
  <2> QED
    BY <2>1, <1>1 DEF Range
<1>4. ASSUME NoRepeats(q)
      PROVE  NoRepeats(Tail(q)) /\ Head(q) \notin Range(Tail(q))
  <2>1. NoRepeats(Tail(q))
    BY <1>1, <1>4 DEF NoRepeats
  <2>2. Head(q) \notin Range(Tail(q))
    BY <1>1, <1>4 DEF NoRepeats, Range
  <2> QED
    BY <2>1, <2>2
<1> QED
  BY <1>1, <1>2, <1>3, <1>4

-----------------------------------------------------------------------------
(* The lists *)

ListTypeOK ==
  /\ phase \in Phases
  /\ status \in [Scripts -> {"unborn", "live", "deleted"}]
  /\ runlist \in Seq(Scripts) /\ ranlist \in Seq(Scripts)
  /\ holdlist \subseteq [until : Nat, script : Scripts]
  /\ notimeoutholdlist \subseteq Scripts /\ debuggerholdlist \subseteq Scripts
  /\ in_hold_list \in [Scripts -> HoldLists]
  /\ current \in Scripts \cup {NoScript}

\* A new executor starts in no list.
UnbornInNoList == \A s \in Scripts : status[s] = "unborn" => in_hold_list[s] = "NO_LIST"

\* Under the lock nothing comes between the end of the loop and the swap.
NothingReady == phase = "swap" => runlist = <<>> /\ current = NoScript

ListInv == ListTypeOK /\ InOneList /\ NoneLost /\ UnbornInNoList /\ NothingReady

USE DEF Live, HoldLists, Phases, InPass, NothingReady

LEMMA NullNotQueued ==
  ASSUME ListTypeOK
  PROVE  ~Queued(NoScript)
BY SchedulerAssumption DEF SchedulerAssumption, ListTypeOK, Queued, Range

\* revive() takes a script out of its hold list and appends it to runlist.
LEMMA ReviveKeeps ==
  ASSUME ListInv, NEW s \in Scripts, Live(s), ReviveLists(s), phase # "swap",
         UNCHANGED <<status, ranlist, current, phase>>
  PROVE  ListInv'
<1> USE DEF ListInv, ListTypeOK, UnbornInNoList
<1>1. CASE in_hold_list[s] = "TIMEOUT_LIST"
  <2>1. /\ holdlist' = {h \in holdlist : h.script # s}
        /\ in_hold_list' = [in_hold_list EXCEPT ![s] = "NO_LIST"]
        /\ runlist' = Append(runlist, s)
        /\ UNCHANGED <<notimeoutholdlist, debuggerholdlist>>
    BY <1>1 DEF ReviveLists
  <2>2. ~Queued(s) /\ s # current /\ s \notin notimeoutholdlist /\ s \notin debuggerholdlist
    BY <1>1 DEF InOneList
  <2>3. /\ runlist' \in Seq(Scripts) /\ Range(runlist') = Range(runlist) \cup {s}
        /\ NoRepeats(runlist')
    BY <2>1, <2>2, AppendRange DEF InOneList, Queued
  <2>4. ListTypeOK' /\ UnbornInNoList'
    BY <2>1, <2>3
  <2>5. InOneList'
    BY <2>1, <2>2, <2>3 DEF InOneList, Queued
  <2>6. NoneLost'
    BY <2>1, <2>2, <2>3 DEF NoneLost, Queued
  <2> QED
    BY <2>4, <2>5, <2>6
<1>2. CASE in_hold_list[s] = "NOTIMEOUT_LIST"
  <2>1. /\ notimeoutholdlist' = notimeoutholdlist \ {s}
        /\ in_hold_list' = [in_hold_list EXCEPT ![s] = "NO_LIST"]
        /\ runlist' = Append(runlist, s)
        /\ UNCHANGED <<holdlist, debuggerholdlist>>
    BY <1>2 DEF ReviveLists
  <2>2. ~Queued(s) /\ s # current /\ s \notin debuggerholdlist /\ \A h \in holdlist : h.script # s
    BY <1>2 DEF InOneList
  <2>3. /\ runlist' \in Seq(Scripts) /\ Range(runlist') = Range(runlist) \cup {s}
        /\ NoRepeats(runlist')
    BY <2>1, <2>2, AppendRange DEF InOneList, Queued
  <2>4. ListTypeOK' /\ UnbornInNoList'
    BY <2>1, <2>3
  <2>5. InOneList'
    BY <2>1, <2>2, <2>3 DEF InOneList, Queued
  <2>6. NoneLost'
    BY <2>1, <2>2, <2>3 DEF NoneLost, Queued
  <2> QED
    BY <2>4, <2>5, <2>6
<1>3. CASE in_hold_list[s] \in {"NO_LIST", "DEBUGGER_LIST"}
  <2>1. UNCHANGED <<runlist, holdlist, notimeoutholdlist, debuggerholdlist, in_hold_list>>
    BY <1>3 DEF ReviveLists, holdVars
  <2> QED
    BY <2>1 DEF InOneList, NoneLost, Queued
<1> QED
  BY <1>1, <1>2, <1>3

\* So does revive_debugged() for a script that the debugger holds.
LEMMA ReviveDebuggedKeeps ==
  ASSUME ListInv, NEW s \in Scripts, Live(s), in_hold_list[s] = "DEBUGGER_LIST",
         ReviveDebugged(s), phase \notin {"hold", "swap"},
         UNCHANGED <<status, ranlist, current, phase>>
  PROVE  ListInv'
<1> USE DEF ListInv, ListTypeOK, UnbornInNoList
<1>1. /\ debuggerholdlist' = debuggerholdlist \ {s}
      /\ in_hold_list' = [in_hold_list EXCEPT ![s] = "NO_LIST"]
      /\ runlist' = Append(runlist, s)
      /\ UNCHANGED <<holdlist, notimeoutholdlist>>
  BY DEF ReviveDebugged
<1>2. ~Queued(s) /\ s # current /\ s \notin notimeoutholdlist /\ \A h \in holdlist : h.script # s
  BY DEF InOneList
<1>3. /\ runlist' \in Seq(Scripts) /\ Range(runlist') = Range(runlist) \cup {s}
      /\ NoRepeats(runlist')
  BY <1>1, <1>2, AppendRange DEF InOneList, Queued
<1>4. ListTypeOK' /\ UnbornInNoList'
  BY <1>1, <1>3
<1>5. InOneList'
  BY <1>1, <1>2, <1>3 DEF InOneList, Queued
<1>6. NoneLost'
  BY <1>1, <1>2, <1>3 DEF NoneLost, Queued
<1> QED
  BY <1>4, <1>5, <1>6

LEMMA ReviveKilledKeeps ==
  ASSUME ListInv, NEW s \in Scripts, Live(s), ReviveKilled(s),
         phase \notin {"hold", "swap"}, UNCHANGED <<status, ranlist, current, phase>>
  PROVE  ListInv'
BY ReviveKeeps, ReviveDebuggedKeeps DEF ReviveKilled

LEMMA EnlistKeeps ==
  ASSUME ListInv, NEW s \in Scripts, Enlist(s), phase # "swap",
         UNCHANGED <<current, phase>>
  PROVE  ListInv'
<1> USE DEF ListInv, ListTypeOK, UnbornInNoList
<1>1. /\ status[s] = "unborn"
      /\ status' = [status EXCEPT ![s] = "live"]
      /\ runlist' = Append(runlist, s)
      /\ UNCHANGED <<ranlist, holdlist, notimeoutholdlist, debuggerholdlist, in_hold_list>>
  BY DEF Enlist, holdVars
<1>2. /\ ~Queued(s) /\ s # current /\ s \notin notimeoutholdlist /\ s \notin debuggerholdlist
      /\ \A h \in holdlist : h.script # s
  BY <1>1 DEF InOneList
<1>3. /\ runlist' \in Seq(Scripts) /\ Range(runlist') = Range(runlist) \cup {s}
      /\ NoRepeats(runlist')
  BY <1>1, <1>2, AppendRange DEF InOneList, Queued
<1>4. ListTypeOK' /\ UnbornInNoList'
  BY <1>1, <1>3
<1>5. InOneList'
  BY <1>1, <1>2, <1>3 DEF InOneList, Queued
<1>6. NoneLost'
  BY <1>1, <1>2, <1>3 DEF NoneLost, Queued
<1> QED
  BY <1>4, <1>5, <1>6

-----------------------------------------------------------------------------
(* A turn and its end *)

\* The script at the front of runlist becomes the current one; it is allocated.
LEMMA BeginTurnKeeps ==
  ASSUME ListInv, BeginTurn
  PROVE  ListInv' /\ UNCHANGED corrupt
<1> USE DEF ListInv, ListTypeOK, UnbornInNoList
<1> DEFINE s == Head(runlist)
<1>1. /\ phase = "run" /\ phase' = phase /\ current = NoScript /\ runlist # <<>>
      /\ runlist' = Tail(runlist)
      /\ UNCHANGED <<status, ranlist, holdlist, notimeoutholdlist, debuggerholdlist, in_hold_list>>
  BY DEF BeginTurn, holdVars
<1>2. /\ s \in Scripts /\ Tail(runlist) \in Seq(Scripts) /\ s \in Range(runlist)
      /\ Range(runlist) = Range(Tail(runlist)) \cup {s}
      /\ NoRepeats(Tail(runlist)) /\ s \notin Range(Tail(runlist))
  BY <1>1, TailRange DEF InOneList
<1>3. Live(s) /\ in_hold_list[s] = "NO_LIST" /\ s \notin Range(ranlist)
  BY <1>2 DEF InOneList, Queued
<1>4. current' = s /\ UNCHANGED corrupt
  BY <1>3 DEF BeginTurn
<1> HIDE DEF s
<1>5. ListTypeOK' /\ UnbornInNoList'
  BY <1>1, <1>2, <1>4
<1>6. InOneList'
  BY <1>1, <1>2, <1>3, <1>4 DEF InOneList, Queued
<1>7. NoneLost'
  BY <1>1, <1>2, <1>3, <1>4, SchedulerAssumption DEF SchedulerAssumption, NoneLost, Queued
<1> QED
  BY <1>1, <1>4, <1>5, <1>6, <1>7

\* Every way a turn ends takes the script out of current and into one list, or
\* deletes it.
LEMMA RequeueKeeps ==
  ASSUME ListInv, NEW s \in Scripts, current = s, phase = "run",
         current' = NoScript, ranlist' = Append(ranlist, s),
         UNCHANGED <<phase, status, runlist, holdVars>>
  PROVE  ListInv'
<1> USE DEF ListInv, ListTypeOK, UnbornInNoList
<1>1. /\ ~Queued(s) /\ Live(s) /\ in_hold_list[s] = "NO_LIST"
      /\ UNCHANGED <<holdlist, notimeoutholdlist, debuggerholdlist, in_hold_list>>
  BY DEF InOneList, holdVars
<1>2. /\ ranlist' \in Seq(Scripts) /\ Range(ranlist') = Range(ranlist) \cup {s}
      /\ NoRepeats(ranlist')
  BY <1>1, AppendRange DEF InOneList, Queued
<1>3. ListTypeOK' /\ UnbornInNoList'
  BY <1>1, <1>2
<1>4. InOneList'
  BY <1>1, <1>2, SchedulerAssumption, NullNotQueued DEF SchedulerAssumption, InOneList, Queued
<1>5. NoneLost'
  BY <1>1, <1>2 DEF NoneLost, Queued
<1> QED
  BY <1>3, <1>4, <1>5

\* The parent is revived while the child goes to ranlist: first the one, then the other.
LEMMA ReturnKeeps ==
  ASSUME ListInv, NEW s \in Scripts, NEW p \in Scripts, Live(p), current = s,
         phase = "run", current' = NoScript, ranlist' = Append(ranlist, s),
         ReviveLists(p), UNCHANGED <<phase, status>>
  PROVE  ListInv'
<1> USE DEF ListInv, ListTypeOK, UnbornInNoList
<1>1. ~Queued(s) /\ Live(s) /\ in_hold_list[s] = "NO_LIST"
  BY DEF InOneList
<1>2. /\ ranlist' \in Seq(Scripts) /\ Range(ranlist') = Range(ranlist) \cup {s}
      /\ NoRepeats(ranlist')
  BY <1>1, AppendRange DEF InOneList, Queued
<1>3. CASE in_hold_list[p] \in {"TIMEOUT_LIST", "NOTIMEOUT_LIST"}
  <2>1. /\ holdlist' = IF in_hold_list[p] = "TIMEOUT_LIST"
                       THEN {h \in holdlist : h.script # p} ELSE holdlist
        /\ notimeoutholdlist' = IF in_hold_list[p] = "NOTIMEOUT_LIST"
                                THEN notimeoutholdlist \ {p} ELSE notimeoutholdlist
        /\ in_hold_list' = [in_hold_list EXCEPT ![p] = "NO_LIST"]
        /\ runlist' = Append(runlist, p) /\ UNCHANGED debuggerholdlist
    BY <1>3 DEF ReviveLists
  <2>2. ~Queued(p) /\ p # s /\ p \notin debuggerholdlist
    BY <1>1, <1>3 DEF InOneList
  <2>3. in_hold_list[p] # "TIMEOUT_LIST" => \A h \in holdlist : h.script # p
    BY DEF InOneList
  <2>4. in_hold_list[p] # "NOTIMEOUT_LIST" => p \notin notimeoutholdlist
    BY DEF InOneList
  <2>5. /\ runlist' \in Seq(Scripts) /\ Range(runlist') = Range(runlist) \cup {p}
        /\ NoRepeats(runlist')
    BY <2>1, <2>2, AppendRange DEF InOneList, Queued
  <2>6. ListTypeOK' /\ UnbornInNoList'
    BY <1>2, <2>1, <2>5
  <2>7. InOneList'
    BY <1>1, <1>2, <2>1, <2>2, <2>3, <2>4, <2>5, SchedulerAssumption,
       NullNotQueued
    DEF SchedulerAssumption, InOneList, Queued
  <2>8. NoneLost'
    BY <1>1, <1>2, <2>1, <2>2, <2>3, <2>4, <2>5 DEF NoneLost, Queued
  <2> QED
    BY <2>6, <2>7, <2>8
<1>4. CASE in_hold_list[p] \in {"NO_LIST", "DEBUGGER_LIST"}
  BY <1>4, RequeueKeeps DEF ReviveLists, holdVars
<1> QED
  BY <1>3, <1>4

LEMMA DeleteKeeps ==
  ASSUME ListInv, NEW s \in Scripts, current = s, phase = "run", current' = NoScript,
         status' = [status EXCEPT ![s] = "deleted"], UNCHANGED <<phase, listVars>>
  PROVE  ListInv'
<1> USE DEF ListInv, ListTypeOK, UnbornInNoList
<1>1. /\ ~Queued(s) /\ Live(s) /\ in_hold_list[s] = "NO_LIST"
      /\ UNCHANGED <<runlist, ranlist, holdlist, notimeoutholdlist, debuggerholdlist, in_hold_list>>
  BY DEF InOneList, listVars, holdVars
<1>2. ListTypeOK' /\ UnbornInNoList'
  BY <1>1
<1>3. InOneList'
  BY <1>1, SchedulerAssumption, NullNotQueued DEF SchedulerAssumption, InOneList, Queued
<1>4. NoneLost'
  BY <1>1 DEF NoneLost, Queued
<1> QED
  BY <1>2, <1>3, <1>4

\* in_hold_list_ names the debugger's list a step before the list has the script.
LEMMA MarkForDebuggerKeeps ==
  ASSUME ListInv, NEW s \in Scripts, MarkForDebugger(s)
  PROVE  ListInv'
<1> USE DEF ListInv, ListTypeOK, UnbornInNoList
<1>1. /\ current = s /\ current' = s /\ phase = "run" /\ phase' = "hold"
      /\ in_hold_list' = [in_hold_list EXCEPT ![s] = "DEBUGGER_LIST"]
      /\ UNCHANGED <<status, runlist, ranlist, holdlist, notimeoutholdlist, debuggerholdlist>>
  BY DEF MarkForDebugger, TurnOver
<1>2. ~Queued(s) /\ Live(s) /\ in_hold_list[s] = "NO_LIST" /\ s \notin debuggerholdlist
  BY <1>1 DEF InOneList
<1>3. ListTypeOK' /\ UnbornInNoList'
  BY <1>1, <1>2
<1>4. InOneList'
  BY <1>1, <1>2, SchedulerAssumption, NullNotQueued DEF SchedulerAssumption, InOneList, Queued
<1>5. NoneLost'
  BY <1>1, <1>2 DEF NoneLost, Queued
<1> QED
  BY <1>1, <1>3, <1>4, <1>5

LEMMA HoldForDebuggerKeeps ==
  ASSUME ListInv, NEW s \in Scripts, HoldForDebugger(s)
  PROVE  ListInv'
<1> USE DEF ListInv, ListTypeOK, UnbornInNoList
<1>1. /\ current = s /\ current' = NoScript /\ phase = "hold" /\ phase' = "run"
      /\ debuggerholdlist' = debuggerholdlist \cup {s}
      /\ UNCHANGED <<status, runlist, ranlist, holdlist, notimeoutholdlist, in_hold_list>>
  BY DEF HoldForDebugger, NextTurn
<1>2. ~Queued(s) /\ Live(s) /\ in_hold_list[s] = "DEBUGGER_LIST"
  BY <1>1 DEF InOneList
<1>3. ListTypeOK' /\ UnbornInNoList'
  BY <1>1, <1>2
<1>4. InOneList'
  BY <1>1, <1>2, SchedulerAssumption, NullNotQueued DEF SchedulerAssumption, InOneList, Queued
<1>5. NoneLost'
  BY <1>1, <1>2 DEF NoneLost, Queued
<1> QED
  BY <1>1, <1>3, <1>4, <1>5

LEMMA HoldBlockedKeeps ==
  ASSUME ListInv, NEW s \in Scripts, HoldBlocked(s), os[s].sleep_until \in Nat
  PROVE  ListInv'
<1> USE DEF ListInv, ListTypeOK, UnbornInNoList
<1> DEFINE h == [until |-> os[s].sleep_until, script |-> s]
<1>1. /\ current = s /\ current' = NoScript /\ phase = "run" /\ phase' = phase
      /\ UNCHANGED <<status, runlist, ranlist, debuggerholdlist>>
  BY DEF HoldBlocked, TurnOver, NextTurn
<1>2. ~Queued(s) /\ Live(s) /\ in_hold_list[s] = "NO_LIST"
  BY <1>1 DEF InOneList
<1>3. CASE os[s].sleep_until # 0
  <2>1. /\ in_hold_list' = [in_hold_list EXCEPT ![s] = "TIMEOUT_LIST"]
        /\ holdlist' = holdlist \cup {h} /\ UNCHANGED notimeoutholdlist
    BY <1>3 DEF HoldBlocked
  <2>2. h \in [until : Nat, script : Scripts] /\ h.script = s
    OBVIOUS
  <2> HIDE DEF h
  <2>3. ListTypeOK' /\ UnbornInNoList'
    BY <1>1, <1>2, <2>1, <2>2
  <2>4. InOneList'
    BY <1>1, <1>2, <2>1, <2>2, SchedulerAssumption, NullNotQueued
    DEF SchedulerAssumption, InOneList, Queued
  <2>5. NoneLost'
    BY <1>1, <1>2, <2>1, <2>2 DEF NoneLost, Queued
  <2> QED
    BY <1>1, <2>3, <2>4, <2>5
<1>4. CASE os[s].sleep_until = 0
  <2>1. /\ in_hold_list' = [in_hold_list EXCEPT ![s] = "NOTIMEOUT_LIST"]
        /\ notimeoutholdlist' = notimeoutholdlist \cup {s} /\ UNCHANGED holdlist
    BY <1>4 DEF HoldBlocked
  <2>2. ListTypeOK' /\ UnbornInNoList'
    BY <1>1, <1>2, <2>1
  <2>3. InOneList'
    BY <1>1, <1>2, <2>1, SchedulerAssumption, NullNotQueued
    DEF SchedulerAssumption, InOneList, Queued
  <2>4. NoneLost'
    BY <1>1, <1>2, <2>1 DEF NoneLost, Queued
  <2> QED
    BY <1>1, <2>2, <2>3, <2>4
<1> QED
  BY <1>3, <1>4

-----------------------------------------------------------------------------
(* Passes, the clock and the end *)

LEMMA BeginPassKeeps ==
  ASSUME ListInv, BeginPass
  PROVE  ListInv'
BY DEF BeginPass, ListInv, ListTypeOK, UnbornInNoList, InOneList, NoneLost, Queued,
       listVars, holdVars

LEMMA EmptyRunlistKeeps ==
  ASSUME ListInv, EmptyRunlist
  PROVE  ListInv'
BY DEF EmptyRunlist, ListInv, ListTypeOK, UnbornInNoList, InOneList, NoneLost, Queued,
       listVars, holdVars

LEMMA EndPassKeeps ==
  ASSUME ListInv, EndPass
  PROVE  ListInv'
<1> USE DEF ListInv, ListTypeOK, UnbornInNoList
<1>1. /\ phase = "swap" /\ phase' = "check" /\ runlist = <<>>
      /\ current = NoScript /\ current' = NoScript
      /\ runlist' = ranlist /\ ranlist' = <<>>
      /\ UNCHANGED <<status, holdlist, notimeoutholdlist, debuggerholdlist, in_hold_list>>
  BY DEF EndPass, holdVars
<1>2. Range(<<>>) = {} /\ <<>> \in Seq(Scripts) /\ NoRepeats(<<>>)
  BY DEF Range, NoRepeats
<1>3. ListTypeOK' /\ UnbornInNoList'
  BY <1>1, <1>2
<1>4. InOneList'
  BY <1>1, <1>2 DEF InOneList, Queued
<1>5. NoneLost'
  BY <1>1, <1>2 DEF NoneLost, Queued
<1> QED
  BY <1>1, <1>3, <1>4, <1>5

LEMMA EndCheckKeeps ==
  ASSUME ListInv, EndCheck
  PROVE  ListInv'
BY DEF EndCheck, ListInv, ListTypeOK, UnbornInNoList, InOneList, NoneLost, Queued,
       listVars, holdVars

\* What is due is still allocated, and in holdlist only.
LEMMA WakeDueKeeps ==
  ASSUME ListInv, WakeDue
  PROVE  ListInv'
<1>1. PICK h \in holdlist :
        \/ ReviveLists(h.script)
        \/ UNCHANGED <<runlist, holdVars>>
  BY DEF WakeDue
<1>2. h.script \in Scripts /\ Live(h.script)
  BY DEF ListInv, ListTypeOK, InOneList
<1>3. phase = "check" /\ UNCHANGED <<phase, status, current, ranlist>>
  BY DEF WakeDue, turnVars
<1>4. CASE ReviveLists(h.script)
  BY <1>2, <1>3, <1>4, ReviveKeeps
<1>5. CASE UNCHANGED <<runlist, holdVars>>
  BY <1>3, <1>5 DEF ListInv, ListTypeOK, UnbornInNoList, InOneList, NoneLost, Queued, holdVars
<1> QED
  BY <1>1, <1>4, <1>5

\* cleanup_scripts finds every executor: outside the lock nothing is in ranlist and
\* no turn is under way.
LEMMA ShutdownKeeps ==
  ASSUME ListInv, Shutdown
  PROVE  ListInv'
<1> USE DEF ListInv, ListTypeOK, UnbornInNoList
<1> DEFINE owned == Range(runlist) \cup {h.script : h \in holdlist}
                    \cup notimeoutholdlist \cup debuggerholdlist
<1>1. /\ phase = "unlocked" /\ phase' = "exited"
      /\ status' = [s \in Scripts |-> IF s \in owned THEN "deleted" ELSE status[s]]
      /\ runlist' = <<>> /\ holdlist' = {} /\ notimeoutholdlist' = {} /\ debuggerholdlist' = {}
      /\ UNCHANGED <<current, ranlist, in_hold_list>>
  BY DEF Shutdown
<1>2. current = NoScript /\ ranlist = <<>> /\ Range(<<>>) = {} /\ NoRepeats(<<>>)
  BY <1>1 DEF NoneLost, Range, NoRepeats
<1>3. \A s \in Scripts : Live(s) => s \in owned
  BY <1>1, <1>2, SchedulerAssumption DEF SchedulerAssumption, NoneLost, Queued
<1>4. ListTypeOK' /\ UnbornInNoList'
  BY <1>1
<1>5. \A s \in Scripts : status'[s] # "live"
  BY <1>1, <1>3
<1>6. InOneList'
  BY <1>1, <1>2, <1>5, SchedulerAssumption DEF SchedulerAssumption, InOneList, Queued
<1>7. NoneLost'
  BY <1>1, <1>2, <1>5 DEF NoneLost
<1> QED
  BY <1>1, <1>4, <1>6, <1>7

\* An event revives whoever waits for it, or leaves the lists alone.
LEMMA SignalKeeps ==
  ASSUME ListInv, NEW s \in Scripts, Live(s), signal_event(s), phase # "swap",
         UNCHANGED <<status, current, phase>>
  PROVE  ListInv'
<1>1. CASE ReviveLists(s) /\ UNCHANGED ranlist
  BY <1>1, ReviveKeeps
<1>2. CASE UNCHANGED listVars
  BY <1>2 DEF ListInv, ListTypeOK, UnbornInNoList, InOneList, NoneLost, Queued,
              listVars, holdVars
<1> QED
  BY <1>1, <1>2 DEF signal_event

LEMMA StutterKeeps ==
  ASSUME ListInv, UNCHANGED <<status, current, phase, listVars>>
  PROVE  ListInv'
BY DEF ListInv, ListTypeOK, UnbornInNoList, InOneList, NoneLost, Queued, listVars, holdVars

-----------------------------------------------------------------------------
(* Types *)

\* The part of TypeOK that is not about the lists.
ExecTypeOK ==
  /\ os \in [Scripts -> OsModule]
  /\ ex \in [Scripts -> Executor]
  /\ insleft \in Nat
  /\ clock \in Nat
  /\ dbg \in [script : Scripts \cup {NoScript}, cmd : DebugCommands]
  /\ sent \in Nat
  /\ corrupt \in Faults

LEMMA TypeParts == TypeOK <=> ListTypeOK /\ ExecTypeOK
BY DEF TypeOK, ListTypeOK, ExecTypeOK

LEMMA ReviveTypes ==
  ASSUME ListTypeOK, NEW s \in Scripts, ReviveLists(s) \/ ReviveDebugged(s),
         UNCHANGED <<status, ranlist>>,
         phase' \in Phases,
         current' \in Scripts \cup {NoScript}
  PROVE  ListTypeOK'
<1> USE DEF ListTypeOK
<1>1. Append(runlist, s) \in Seq(Scripts)
  OBVIOUS
<1>2. CASE ReviveLists(s)
  BY <1>1, <1>2 DEF ReviveLists, holdVars
<1>3. CASE ReviveDebugged(s)
  BY <1>1, <1>3 DEF ReviveDebugged
<1> QED
  BY <1>2, <1>3

\* The functions that actions apply to os and ex stay in their types.
LEMMA ExecutorTypes ==
  ASSUME ex \in [Scripts -> Executor], NEW s \in Scripts
  PROVE  /\ Traced(s) \in [Scripts -> Executor]
         /\ \A x \in [Scripts -> Executor], t \in Scripts :
              SetError(x, t) \in [Scripts -> Executor] /\ ClearHalt(x, t) \in [Scripts -> Executor]
<1>1. ASSUME NEW x \in [Scripts -> Executor], NEW t \in Scripts
      PROVE  SetError(x, t) \in [Scripts -> Executor]
  <2>1. [x[t] EXCEPT !.error = TRUE, !.run_ok = FALSE] \in Executor
    BY DEF Executor
  <2>2. SetError(x, t) = [x EXCEPT ![t] = [x[t] EXCEPT !.error = TRUE, !.run_ok = FALSE]]
    BY DEF SetError
  <2> HIDE DEF SetError
  <2> QED
    BY <2>1, <2>2
<1>2. ASSUME NEW x \in [Scripts -> Executor], NEW t \in Scripts
      PROVE  ClearHalt(x, t) \in [Scripts -> Executor]
  <2> DEFINE ok == ~x[t].error
  <2>1. ok \in BOOLEAN
    OBVIOUS
  <2> HIDE DEF ok
  <2>2. [x EXCEPT ![t].halt = FALSE, ![t].run_ok = ok] \in [Scripts -> Executor]
    BY <2>1 DEF Executor
  <2> QED
    BY <2>2 DEF ClearHalt, ok
<1>3. Traced(s) \in [Scripts -> Executor]
  BY DEF Traced, Executor, DebugStates
<1> QED
  BY <1>1, <1>2, <1>3

LEMMA DebugStateTypes ==
  ASSUME NEW x \in [Scripts -> Executor], NEW s \in Scripts, NEW d \in DebugStates
  PROVE  [x EXCEPT ![s].debug_state = d] \in [Scripts -> Executor]
BY DEF Executor

LEMMA BlockTypes ==
  ASSUME os \in [Scripts -> OsModule], NEW s \in Scripts, NEW type \in {"WAIT_SLEEP", "WAIT_EVENT"},
         NEW until \in Nat
  PROVE  Block(s, type, until) \in [Scripts -> OsModule]
<1>1. [os[s] EXCEPT !.blocked = TRUE, !.wait_type = type, !.sleep_until = until] \in OsModule
  BY DEF OsModule
<1> QED
  BY <1>1 DEF Block

LEMMA UnblockTypes ==
  ASSUME os \in [Scripts -> OsModule], NEW s \in Scripts
  PROVE  Unblock(s) \in [Scripts -> OsModule]
BY DEF Unblock, OsModule

LEMMA NewTypes ==
  NewOsModule \in OsModule /\ NewExecutor \in Executor
<1>1. <<>> \in Seq(Nat)
  OBVIOUS
<1> QED
  BY <1>1, SchedulerAssumption
  DEF SchedulerAssumption, NewOsModule, OsModule, NewExecutor, Executor, DebugStates

LEMMA EventTypes ==
  ASSUME TypeOK, NEW s \in Scripts, signal_event(s), UNCHANGED <<status, current, phase>>
  PROVE  ListTypeOK' /\ os' \in [Scripts -> OsModule] /\ sent' \in Nat /\ corrupt' \in Faults
<1> USE DEF OsModule
<1>1. ListTypeOK /\ ExecTypeOK
  BY TypeParts
<1>2. NextEvent \in Nat /\ sent' = NextEvent
  BY <1>1, SchedulerAssumption DEF SchedulerAssumption, signal_event, NextEvent, ExecTypeOK
<1> HIDE DEF NextEvent
<1>3. CASE /\ os' = [Unblock(s) EXCEPT ![s].last_event = NextEvent]
           /\ ReviveLists(s) /\ UNCHANGED <<ranlist, corrupt>>
  <2>1. os' \in [Scripts -> OsModule]
    BY <1>1, <1>2, <1>3 DEF Unblock, ExecTypeOK
  <2> QED
    BY <1>1, <1>2, <1>3, <2>1, ReviveTypes DEF ExecTypeOK, ListTypeOK
<1>4. CASE /\ os' = [os EXCEPT ![s].events = Append(@, NextEvent)]
           /\ UNCHANGED <<listVars, corrupt>>
  <2>1. os[s].events \in Seq(Nat)
    BY <1>1 DEF ExecTypeOK
  <2>2. Append(os[s].events, NextEvent) \in Seq(Nat)
    BY <1>2, <2>1
  <2>3. os' \in [Scripts -> OsModule]
    BY <1>1, <1>4, <2>2 DEF ExecTypeOK
  <2> QED
    BY <1>1, <1>2, <1>4, <2>3 DEF ExecTypeOK, ListTypeOK, listVars, holdVars
<1>5. CASE /\ os[s].events # <<>>
           /\ os' = [os EXCEPT ![s].events = Append(Tail(@), NextEvent)]
           /\ UNCHANGED <<listVars, corrupt>>
  <2>1. os[s].events \in Seq(Nat)
    BY <1>1 DEF ExecTypeOK
  <2>2. Append(Tail(os[s].events), NextEvent) \in Seq(Nat)
    BY <1>2, <1>5, <2>1
  <2>3. os' \in [Scripts -> OsModule]
    BY <1>1, <1>5, <2>2 DEF ExecTypeOK
  <2> QED
    BY <1>1, <1>2, <1>5, <2>3 DEF ExecTypeOK, ListTypeOK, listVars, holdVars
<1>6. CASE /\ corrupt' = "queue" \/ UNCHANGED corrupt
           /\ UNCHANGED <<os, listVars>>
  BY <1>1, <1>2, <1>6 DEF ExecTypeOK, ListTypeOK, Faults, listVars, holdVars
<1> QED
  BY <1>3, <1>4, <1>5, <1>6 DEF signal_event

\* An instruction that leaves the lists alone and gives os and ex values of their types.
LEMMA PlainInstruction ==
  ASSUME TypeOK, NEW s \in Scripts, Fetches(s), NEW c, Spend(c),
         ex' \in [Scripts -> Executor], os' \in [Scripts -> OsModule],
         UNCHANGED <<status, listVars, sent>>, corrupt' \in Faults
  PROVE  TypeOK'
<1>1. /\ UNCHANGED <<phase, current, clock, dbg>>
      /\ insleft > 0 /\ (insleft' = insleft \/ insleft' = insleft - 1)
  BY DEF Fetches, Executes, Spend
<1>2. insleft' \in Nat
  BY <1>1 DEF TypeOK
<1> QED
  BY <1>1, <1>2 DEF TypeOK, listVars, holdVars

LEMMA InstructionTypes ==
  ASSUME TypeOK, NEW s \in Scripts, Instruction(s)
  PROVE  TypeOK'
<1> USE DEF Fetch
<1>1. /\ ListTypeOK /\ ExecTypeOK
      /\ os \in [Scripts -> OsModule] /\ ex \in [Scripts -> Executor]
      /\ clock \in Nat /\ corrupt \in Faults
  BY TypeParts DEF TypeOK
<1>2. CASE Compute(s)
  BY <1>1, <1>2, ExecutorTypes, PlainInstruction DEF Compute
<1>3. CASE Exit(s)
  <2> DEFINE x == Traced(s)
  <2>0. x \in [Scripts -> Executor] /\ ex' = [x EXCEPT ![s].done = TRUE, ![s].run_ok = FALSE]
    BY <1>1, <1>3, ExecutorTypes DEF Exit
  <2> HIDE DEF x
  <2>1. ex' \in [Scripts -> Executor]
    BY <2>0 DEF Executor
  <2> QED
    BY <1>1, <1>3, <2>1, PlainInstruction DEF Exit
<1>4. CASE Fail(s)
  BY <1>1, <1>4, ExecutorTypes, PlainInstruction DEF Fail
<1>5. ASSUME NEW n \in SleepTicks, SleepFor(s, n)
      PROVE  TypeOK'
  <2>1. clock + n \in Nat
    BY <1>1, SchedulerAssumption DEF SchedulerAssumption
  <2>2. os' \in [Scripts -> OsModule]
    BY <1>1, <1>5, <2>1, BlockTypes DEF SleepFor
  <2> QED
    BY <1>1, <1>5, <2>2, ExecutorTypes, PlainInstruction DEF SleepFor
<1>6. ASSUME NEW n \in SleepTicks, wait_for_event(s, n)
      PROVE  TypeOK'
  <2>1. clock + n \in Nat /\ os[s].events \in Seq(Nat)
    BY <1>1, SchedulerAssumption DEF SchedulerAssumption, OsModule
  <2>2. CASE /\ os[s].events # <<>>
             /\ os' = [os EXCEPT ![s] = [@ EXCEPT !.events = Tail(os[s].events),
                                                  !.last_event = Head(os[s].events)]]
    <3>1. Tail(os[s].events) \in Seq(Nat) /\ Head(os[s].events) \in Nat
      BY <2>1, <2>2
    <3>2. [os[s] EXCEPT !.events = Tail(os[s].events), !.last_event = Head(os[s].events)]
            \in OsModule
      BY <1>1, <3>1 DEF OsModule
    <3>3. os' \in [Scripts -> OsModule]
      BY <1>1, <2>2, <3>2
    <3> QED
      BY <1>1, <1>6, <3>3, ExecutorTypes, PlainInstruction DEF wait_for_event
  <2>3. CASE os' = Block(s, "WAIT_EVENT", clock + n)
    <3>1. os' \in [Scripts -> OsModule]
      BY <1>1, <2>1, <2>3, BlockTypes
    <3> QED
      BY <1>1, <1>6, <3>1, ExecutorTypes, PlainInstruction DEF wait_for_event
  <2>4. CASE UNCHANGED os
    BY <1>1, <1>6, <2>4, ExecutorTypes, PlainInstruction DEF wait_for_event
  <2> QED
    BY <1>6, <2>2, <2>3, <2>4 DEF wait_for_event
<1>7. CASE WaitForClient(s)
  <2> DEFINE o == Block(s, "WAIT_SLEEP", 0)
  <2>0. o \in [Scripts -> OsModule] /\ os' = [o EXCEPT ![s].client = TRUE]
    BY <1>1, <1>7, BlockTypes DEF WaitForClient
  <2> HIDE DEF o
  <2>1. os' \in [Scripts -> OsModule]
    BY <2>0 DEF OsModule
  <2> QED
    BY <1>1, <1>7, <2>1, ExecutorTypes, PlainInstruction DEF WaitForClient
<1>8. ASSUME NEW t \in Scripts, SendEvent(s, t)
      PROVE  TypeOK'
  <2>1. /\ UNCHANGED <<phase, current, clock, dbg, status>> /\ ex' = Traced(s)
        /\ insleft > 0 /\ (insleft' = insleft \/ insleft' = insleft - 1)
        /\ signal_event(t)
    BY <1>8 DEF SendEvent, Fetches, Executes, Spend
  <2>2. insleft' \in Nat
    BY <1>1, <2>1 DEF ExecTypeOK
  <2>3. ExecTypeOK'
    BY <1>1, <2>1, <2>2, EventTypes, ExecutorTypes DEF ExecTypeOK
  <2> QED
    BY <2>1, <2>3, EventTypes DEF TypeOK, ListTypeOK, ExecTypeOK
<1>9. ASSUME NEW t \in Scripts, KillScript(s, t)
      PROVE  TypeOK'
  <2>1. /\ UNCHANGED <<phase, current, clock, dbg, status, ranlist, sent, corrupt>>
        /\ insleft > 0 /\ (insleft' = insleft \/ insleft' = insleft - 1)
        /\ ex' = SetError(Traced(s), t) /\ os' = Unblock(t) /\ ReviveKilled(t)
    BY <1>9 DEF KillScript, Fetches, Executes, Spend
  <2>2. ListTypeOK'
    BY <1>1, <2>1, ReviveTypes DEF ReviveKilled, ListTypeOK
  <2>3. os' \in [Scripts -> OsModule] /\ insleft' \in Nat
    BY <1>1, <2>1, UnblockTypes DEF ExecTypeOK
  <2>4. ExecTypeOK'
    BY <1>1, <2>1, <2>3, ExecutorTypes DEF ExecTypeOK
  <2> QED
    BY <2>2, <2>4 DEF TypeOK, ListTypeOK, ExecTypeOK
<1>10. ASSUME NEW t \in Scripts, StartScript(s, t)
       PROVE  TypeOK'
  <2>1. /\ UNCHANGED <<phase, current, clock, dbg, os, sent, corrupt>>
        /\ insleft > 0 /\ (insleft' = insleft \/ insleft' = insleft - 1)
        /\ ex' = Traced(s) /\ Enlist(t)
    BY <1>10 DEF StartScript, Fetches, Executes, Spend
  <2>2. ListTypeOK'
    BY <1>1, <2>1 DEF Enlist, ListTypeOK, holdVars
  <2>3. insleft' \in Nat
    BY <1>1, <2>1 DEF ExecTypeOK
  <2>4. ExecTypeOK'
    BY <1>1, <2>1, <2>3, ExecutorTypes DEF ExecTypeOK
  <2> QED
    BY <2>2, <2>4 DEF TypeOK, ListTypeOK, ExecTypeOK
<1>11. ASSUME NEW t \in Scripts, RunScript(s, t)
       PROVE  TypeOK'
  <2>1. /\ UNCHANGED <<phase, current, clock, dbg, sent, corrupt>>
        /\ insleft > 0 /\ (insleft' = insleft \/ insleft' = insleft - 1)
        /\ Enlist(t)
    BY <1>11 DEF RunScript, Fetches, Executes, Spend
  <2>2. ListTypeOK'
    BY <1>1, <2>1 DEF Enlist, ListTypeOK, holdVars
  <2>3. insleft' \in Nat
    BY <1>1, <2>1 DEF ExecTypeOK
  <2>4. os' \in [Scripts -> OsModule]
    BY <1>1, <1>11, BlockTypes DEF RunScript
  <2> DEFINE x == Traced(s)
             y == [x EXCEPT ![s].pChild = t]
  <2>a. x \in [Scripts -> Executor] /\ ex' = [y EXCEPT ![t].pParent = s]
    BY <1>1, <1>11, ExecutorTypes DEF RunScript
  <2> HIDE DEF x
  <2>b. y \in [Scripts -> Executor]
    BY <2>a DEF Executor
  <2> HIDE DEF y
  <2>5. ex' \in [Scripts -> Executor]
    BY <2>a, <2>b DEF Executor
  <2>6. ExecTypeOK'
    BY <1>1, <2>1, <2>3, <2>4, <2>5 DEF ExecTypeOK
  <2> QED
    BY <2>2, <2>6 DEF TypeOK, ListTypeOK, ExecTypeOK
<1>12. ASSUME NEW t \in Scripts, clear_event_queue(s, t)
       PROVE  TypeOK'
  <2>1. <<>> \in Seq(Nat)
    OBVIOUS
  <2>2. os' \in [Scripts -> OsModule]
    BY <1>1, <1>12, <2>1 DEF clear_event_queue, OsModule
  <2> QED
    BY <1>1, <1>12, <2>2, ExecutorTypes, PlainInstruction DEF clear_event_queue
<1>13. CASE RunScriptReturn(s)
  <2>1. corrupt' \in Faults
    BY <1>1, <1>13 DEF RunScriptReturn, Faults
  <2> DEFINE x == Traced(s)
             p == ex[s].pChild
             y == [x EXCEPT ![p].pParent = NoScript]
  <2>a. /\ x \in [Scripts -> Executor]
        /\ \/ ex' = ex
           \/ p \in Scripts /\ ex' = [y EXCEPT ![s].pChild = NoScript]
    <3>1. CASE Live(p)
      BY <1>1, <1>13, <3>1, ExecutorTypes DEF RunScriptReturn
    <3>2. CASE ~Live(p)
      BY <1>1, <1>13, <3>2, ExecutorTypes DEF RunScriptReturn
    <3> QED
      BY <3>1, <3>2
  <2> HIDE DEF x, p
  <2>b. p \in Scripts => y \in [Scripts -> Executor]
    BY <2>a DEF Executor
  <2> HIDE DEF y
  <2>2. ex' \in [Scripts -> Executor]
    BY <1>1, <2>a, <2>b DEF Executor
  <2> QED
    BY <1>1, <1>13, <2>1, <2>2, PlainInstruction DEF RunScriptReturn
<1>14. ASSUME NEW crit \in BOOLEAN, set_critical(s, crit)
       PROVE  TypeOK'
  <2>1. os' \in [Scripts -> OsModule]
    BY <1>1, <1>14 DEF set_critical, OsModule
  <2> QED
    BY <1>1, <1>14, <2>1, ExecutorTypes, PlainInstruction DEF set_critical
<1>15. ASSUME NEW n \in Priorities, set_priority(s, n)
       PROVE  TypeOK'
  <2>1. n \in Nat
    BY SchedulerAssumption DEF SchedulerAssumption
  <2>2. os' \in [Scripts -> OsModule]
    BY <1>1, <1>15, <2>1 DEF set_priority, OsModule
  <2> QED
    BY <1>1, <1>15, <2>2, ExecutorTypes, PlainInstruction DEF set_priority
<1>16. ASSUME NEW n \in QueueSizes, set_event_queue_size(s, n)
       PROVE  TypeOK'
  <2>1. n \in Nat
    BY SchedulerAssumption DEF SchedulerAssumption
  <2>2. os' \in [Scripts -> OsModule]
    BY <1>1, <1>16, <2>1 DEF set_event_queue_size, OsModule
  <2> QED
    BY <1>1, <1>16, <2>2, ExecutorTypes, PlainInstruction DEF set_event_queue_size
<1>17. CASE DebugStop(s)
  <2>1. /\ UNCHANGED <<phase, current, clock, dbg, status, os, listVars, sent, corrupt>>
        /\ insleft > 0 /\ (insleft' = insleft \/ insleft' = insleft - 1)
    BY <1>17 DEF DebugStop, Executes, Spend
  <2>2. insleft' \in Nat
    BY <1>1, <2>1 DEF ExecTypeOK
  <2>a. [ex[s] EXCEPT !.debug_state = "ATTACHED", !.halt = TRUE, !.run_ok = FALSE] \in Executor
    BY <1>1 DEF Executor, DebugStates
  <2>b. ex' = [ex EXCEPT ![s] = [ex[s] EXCEPT !.debug_state = "ATTACHED", !.halt = TRUE,
                                             !.run_ok = FALSE]]
    BY <1>1, <1>17 DEF DebugStop
  <2>3. ex' \in [Scripts -> Executor]
    BY <1>1, <2>a, <2>b
  <2> QED
    BY <2>1, <2>2, <2>3 DEF TypeOK, listVars, holdVars
<1>18. CASE ExecuteDone(s)
  BY <1>1, <1>18 DEF ExecuteDone, TypeOK, Faults, listVars, holdVars, execVars, turnVars
<1> QED
  BY <1>2, <1>3, <1>4, <1>5, <1>6, <1>7, <1>8, <1>9, <1>10, <1>11, <1>12, <1>13,
     <1>14, <1>15, <1>16, <1>17, <1>18 DEF Instruction

LEMMA EndTurnTypes ==
  ASSUME TypeOK, NEW s \in Scripts, EndTurn(s)
  PROVE  TypeOK'
<1>1. /\ phase' \in Phases
      /\ current' \in Scripts \cup {NoScript} /\ insleft' \in Nat
      /\ UNCHANGED <<clock, dbg, sent>>
  BY DEF EndTurn, ReturnToParent, DeleteFinished, ReturnToDeleted, MarkForDebugger,
         HoldForDebugger, HoldBlocked, Requeue, TurnOver, NextTurn, TypeOK, turnVars, envVars
<1>2. ranlist \in Seq(Scripts) /\ Append(ranlist, s) \in Seq(Scripts)
  BY DEF TypeOK
<1>3. CASE ReturnToParent(s)
  <2> DEFINE p == ex[s].pParent
  <2>1. /\ p \in Scripts /\ ranlist' = Append(ranlist, s) /\ ReviveLists(p) /\ os' = Unblock(p)
        /\ UNCHANGED <<status, ex, corrupt>>
    BY <1>3 DEF ReturnToParent
  <2> HIDE DEF p
  <2>2. os' \in [Scripts -> OsModule]
    BY <2>1, UnblockTypes DEF TypeOK
  <2>3. runlist \in Seq(Scripts) /\ Append(runlist, p) \in Seq(Scripts)
    BY <2>1 DEF TypeOK
  <2> QED
    BY <1>1, <1>2, <2>1, <2>2, <2>3 DEF TypeOK, ReviveLists, holdVars
<1>4. CASE DeleteFinished(s)
  <2>1. /\ status' = [status EXCEPT ![s] = "deleted"]
        /\ os' = [os EXCEPT ![s] = NewOsModule] /\ ex' = [ex EXCEPT ![s] = NewExecutor]
        /\ UNCHANGED <<listVars, corrupt>>
    BY <1>4 DEF DeleteFinished
  <2> QED
    BY <1>1, <2>1, NewTypes DEF TypeOK, listVars, holdVars
<1>5. CASE ReturnToDeleted(s)
  BY <1>1, <1>5 DEF ReturnToDeleted, TypeOK, Faults, listVars, holdVars, execVars
<1>6. CASE MarkForDebugger(s) \/ HoldForDebugger(s)
  BY <1>1, <1>6 DEF MarkForDebugger, HoldForDebugger, TypeOK, execVars, envVars
<1>7. CASE HoldBlocked(s)
  <2>1. os[s].sleep_until \in Nat
    BY DEF TypeOK, OsModule
  <2>2. [until |-> os[s].sleep_until, script |-> s] \in [until : Nat, script : Scripts]
    BY <2>1
  <2> QED
    BY <1>1, <1>7, <2>2 DEF HoldBlocked, TypeOK, execVars
<1>8. CASE Requeue(s)
  BY <1>1, <1>2, <1>8 DEF Requeue, TypeOK, holdVars, execVars
<1> QED
  BY <1>3, <1>4, <1>5, <1>6, <1>7, <1>8 DEF EndTurn

LEMMA PassTypes ==
  ASSUME TypeOK, BeginPass \/ BeginTurn \/ EmptyRunlist \/ EndPass \/ WakeDue \/ EndCheck
  PROVE  TypeOK'
<1> USE DEF TypeOK
<1>1. CASE BeginPass
  BY <1>1 DEF BeginPass, listVars, holdVars, execVars, envVars
<1>2. CASE BeginTurn
  <2>1. runlist # <<>> /\ Tail(runlist) \in Seq(Scripts) /\ Head(runlist) \in Scripts
    BY <1>2 DEF BeginTurn
  <2>2. os[Head(runlist)].priority \in Nat
    BY <2>1 DEF OsModule
  <2>3. /\ current' \in Scripts \cup {NoScript} /\ insleft' \in Nat /\ corrupt' \in Faults
    BY <1>2, <2>1, <2>2 DEF BeginTurn, Faults
  <2> QED
    BY <1>2, <2>1, <2>3 DEF BeginTurn, holdVars, execVars
<1>3. CASE EmptyRunlist \/ EndPass
  BY <1>3 DEF EmptyRunlist, EndPass, listVars, holdVars, execVars, envVars
<1>4. CASE WakeDue
  <2>1. PICK h \in holdlist :
          \/ os' = Unblock(h.script) /\ ReviveLists(h.script) /\ UNCHANGED corrupt
          \/ corrupt' = "held" /\ UNCHANGED <<os, runlist, holdVars>>
    BY <1>4 DEF WakeDue
  <2>2. h.script \in Scripts /\ UNCHANGED <<turnVars, status, ranlist, ex, clock, dbg, sent>>
    BY <1>4 DEF WakeDue
  <2>3. CASE os' = Unblock(h.script) /\ ReviveLists(h.script) /\ UNCHANGED corrupt
    <3>1. os' \in [Scripts -> OsModule]
      BY <2>2, <2>3, UnblockTypes
    <3>2. Append(runlist, h.script) \in Seq(Scripts)
      BY <2>2
    <3> QED
      BY <2>2, <2>3, <3>1, <3>2 DEF turnVars, ReviveLists, holdVars
  <2>4. CASE corrupt' = "held" /\ UNCHANGED <<os, runlist, holdVars>>
    BY <2>2, <2>4 DEF Faults, turnVars, holdVars
  <2> QED
    BY <2>1, <2>3, <2>4
<1>5. CASE EndCheck
  BY <1>5 DEF EndCheck, listVars, holdVars, execVars, envVars
<1> QED
  BY <1>1, <1>2, <1>3, <1>4, <1>5

LEMMA ExternalTypes ==
  ASSUME TypeOK, OtherThreads
  PROVE  TypeOK'
<1> USE DEF TypeOK, Unlocked, turnVars
<1>1. PICK s \in Scripts : \/ ExternalStart(s) \/ ExternalEvent(s) \/ ExternalKill(s)
                          \/ ClientReply(s)
  BY DEF OtherThreads
<1>2. CASE ExternalStart(s)
  <2>1. Append(runlist, s) \in Seq(Scripts)
    OBVIOUS
  <2> QED
    BY <1>2, <2>1 DEF ExternalStart, Enlist, holdVars, execVars
<1>3. CASE ExternalEvent(s)
  <2>1. /\ ListTypeOK' /\ os' \in [Scripts -> OsModule] /\ sent' \in Nat /\ corrupt' \in Faults
    BY <1>3, EventTypes DEF ExternalEvent
  <2> QED
    BY <1>3, <2>1 DEF ExternalEvent, ListTypeOK
<1>4. CASE ExternalKill(s)
  <2>1. ReviveLists(s) \/ ReviveDebugged(s)
    BY <1>4 DEF ExternalKill, ReviveKilled
  <2>2. /\ UNCHANGED <<phase, current, insleft, status, ranlist, clock, dbg, sent, corrupt>>
        /\ ex' \in [Scripts -> Executor] /\ os' \in [Scripts -> OsModule]
    BY <1>4, ExecutorTypes, UnblockTypes DEF ExternalKill
  <2>3. ListTypeOK'
    BY <2>1, <2>2, ReviveTypes DEF ListTypeOK
  <2> QED
    BY <2>2, <2>3 DEF ListTypeOK
<1>5. CASE ClientReply(s)
  <2>1. /\ UNCHANGED <<phase, current, insleft, status, ranlist, ex, clock, dbg, sent, corrupt>>
        /\ ReviveLists(s) /\ os' = [Unblock(s) EXCEPT ![s].client = FALSE]
    BY <1>5 DEF ClientReply
  <2> DEFINE o == Unblock(s)
  <2>2. o \in [Scripts -> OsModule]
    BY UnblockTypes
  <2> HIDE DEF o
  <2>3. [o EXCEPT ![s].client = FALSE] \in [Scripts -> OsModule]
    BY <2>2 DEF OsModule
  <2>4. os' \in [Scripts -> OsModule]
    BY <2>1, <2>3 DEF o
  <2>5. ListTypeOK'
    BY <2>1, ReviveTypes DEF ListTypeOK
  <2> QED
    BY <2>1, <2>4, <2>5 DEF ListTypeOK
<1> QED
  BY <1>1, <1>2, <1>3, <1>4, <1>5

LEMMA DebuggerTypes ==
  ASSUME TypeOK, Debugger
  PROVE  TypeOK'
<1> USE DEF TypeOK, turnVars
<1>0. /\ UNCHANGED <<phase, current, clock, sent>>
      /\ insleft' \in Nat
  BY DEF Debugger, BeginCommand, FinishCommand, DebugStart, cmd_attach, cmd_kill, cmd_break,
         DebugCheckHeld, DebugCheckDetach, Commands, Executes, Spend
<1> USE <1>0
<1>1. ASSUME NEW s \in Scripts, DebugStart(s)
      PROVE  TypeOK'
  <2>1. Append(runlist, s) \in Seq(Scripts)
    OBVIOUS
  <2> QED
    BY <1>1, <2>1 DEF DebugStart, Enlist, holdVars, execVars
<1>2. ASSUME NEW s \in Scripts, cmd_attach(s)
      PROVE  TypeOK'
  <2>1. ex' \in [Scripts -> Executor]
    BY <1>2, DebugStateTypes DEF cmd_attach, DebugStates
  <2> QED
    BY <1>2, <2>1 DEF cmd_attach, listVars, holdVars, DebugCommands
<1>3. ASSUME NEW s \in Scripts, cmd_kill(s)
      PROVE  TypeOK'
  <2>1. ex' \in [Scripts -> Executor]
    BY <1>3, ExecutorTypes DEF cmd_kill
  <2> QED
    BY <1>3, <2>1 DEF cmd_kill, listVars, holdVars
<1>4. CASE cmd_break
  <2>1. ex' \in [Scripts -> Executor]
    BY <1>4, DebugStateTypes DEF cmd_break, Attached, DebugStates
  <2> QED
    BY <1>4, <2>1 DEF cmd_break, listVars, holdVars
<1>5. ASSUME NEW cmd \in {"INS_TRACE", "RUN"}, DebugCheckHeld(cmd)
      PROVE  TypeOK'
  BY <1>5 DEF DebugCheckHeld, listVars, holdVars, execVars, DebugCommands
<1>6. CASE DebugResume
  <2> DEFINE s == dbg.script
  <2>1. /\ UNCHANGED <<status, ranlist, os>>
        /\ dbg.cmd \in {"INS_TRACE", "RUN"} /\ dbg' = [dbg EXCEPT !.cmd = "none"]
    BY <1>6 DEF DebugResume, listVars, execVars
  <2>2. dbg' \in [script : Scripts \cup {NoScript}, cmd : DebugCommands]
    BY <2>1 DEF DebugCommands
  <2>3. CASE s \in Scripts /\ ReviveDebugged(s)
             /\ ex' = [ClearHalt(ex, s) EXCEPT ![s].debug_state = dbg.cmd]
             /\ UNCHANGED corrupt
    <3> DEFINE x == ClearHalt(ex, s)
    <3>1. x \in [Scripts -> Executor]
      BY <2>3, ExecutorTypes
    <3> HIDE DEF x
    <3>2. [x EXCEPT ![s].debug_state = dbg.cmd] \in [Scripts -> Executor]
      BY <2>1, <2>3, <3>1, DebugStateTypes DEF DebugStates
    <3>3. ListTypeOK'
      BY <2>1, <2>3, ReviveTypes DEF ListTypeOK
    <3> QED
      BY <2>1, <2>2, <2>3, <3>2, <3>3 DEF x, ListTypeOK
  <2>4. CASE corrupt' = "debugger" /\ UNCHANGED <<execVars, listVars>>
    BY <2>1, <2>2, <2>4 DEF listVars, holdVars, execVars, Faults
  <2> QED
    BY <1>6, <2>3, <2>4 DEF DebugResume
<1>7. CASE DebugCheckDetach
  BY <1>7 DEF DebugCheckDetach, listVars, holdVars, execVars, DebugCommands
<1>8. CASE DebugDetach
  <2>1. /\ UNCHANGED <<status, os, ex>>
        /\ dbg' = [dbg EXCEPT !.cmd = "detached"]
    BY <1>8 DEF DebugDetach, execVars
  <2>2. dbg' \in [script : Scripts \cup {NoScript}, cmd : DebugCommands]
    BY <2>1 DEF DebugCommands
  <2>3. CASE Live(dbg.script) /\ ReviveDebugged(dbg.script) /\ UNCHANGED <<ranlist, corrupt>>
    <3>1. ListTypeOK'
      BY <2>1, <2>3, ReviveTypes DEF ListTypeOK
    <3> QED
      BY <2>1, <2>2, <2>3, <3>1 DEF ListTypeOK
  <2>4. CASE corrupt' = "debugger" /\ UNCHANGED listVars
    BY <2>1, <2>2, <2>4 DEF listVars, holdVars, Faults
  <2> QED
    BY <1>8, <2>3, <2>4 DEF DebugDetach
<1>9. CASE DebugLetGo
  <2> DEFINE s == dbg.script
  <2>1. /\ UNCHANGED <<status, os, listVars>>
        /\ dbg' = [script |-> NoScript, cmd |-> "none"]
    BY <1>9 DEF DebugLetGo
  <2>2. dbg' \in [script : Scripts \cup {NoScript}, cmd : DebugCommands]
    BY <2>1 DEF DebugCommands
  <2>3. CASE s \in Scripts /\ UNCHANGED corrupt
             /\ ex' = [ClearHalt(ex, s) EXCEPT ![s].debug_state = "NONE"]
    <3> DEFINE x == ClearHalt(ex, s)
    <3>1. x \in [Scripts -> Executor]
      BY <2>3, ExecutorTypes
    <3> HIDE DEF x
    <3>2. [x EXCEPT ![s].debug_state = "NONE"] \in [Scripts -> Executor]
      BY <2>3, <3>1, DebugStateTypes DEF DebugStates
    <3> QED
      BY <2>1, <2>2, <2>3, <3>2 DEF x, listVars, holdVars
  <2>4. CASE corrupt' = "debugger" /\ UNCHANGED ex
    BY <2>1, <2>2, <2>4 DEF listVars, holdVars, Faults
  <2> QED
    BY <1>9, <2>3, <2>4 DEF DebugLetGo
<1> QED
  BY <1>1, <1>2, <1>3, <1>4, <1>5, <1>6, <1>7, <1>8, <1>9 DEF Debugger, BeginCommand, FinishCommand

LEMMA TypeInit == Init => TypeOK
<1>1. <<>> \in Seq(Scripts)
  OBVIOUS
<1> QED
  BY <1>1, NewTypes DEF Init, TypeOK, DebugCommands, Faults

LEMMA TypeStep ==
  ASSUME TypeOK, [Next]_vars
  PROVE  TypeOK'
<1>1. CASE ScriptsThread
  BY <1>1, PassTypes, InstructionTypes, EndTurnTypes DEF ScriptsThread
<1>2. CASE OtherThreads
  BY <1>2, ExternalTypes
<1>3. CASE Debugger
  BY <1>3, DebuggerTypes
<1>4. CASE Clock
  BY <1>4 DEF Clock, Tick, TypeOK, turnVars, listVars, holdVars, execVars
<1>5. CASE Stop
  BY <1>5 DEF Stop, Shutdown, TypeOK, execVars, envVars
<1>6. CASE UNCHANGED vars
  BY <1>6 DEF vars, TypeOK
<1> QED
  BY <1>1, <1>2, <1>3, <1>4, <1>5, <1>6 DEF Next, Ended

\* Every variable of the scheduler keeps its type, debugger thread or not: a list
\* holds executors, a turn has instructions left or is over.
THEOREM TypeCorrect == Spec => []TypeOK
<1>1. Init => TypeOK
  BY TypeInit
<1>2. TypeOK /\ [Next]_vars => TypeOK'
  BY TypeStep
<1> QED
  BY <1>1, <1>2, PTL DEF Spec

-----------------------------------------------------------------------------
(* The lists, when the debugger's commands run inside a script's instruction *)

\* Between looking whether the debugger holds the script and taking it out of the
\* debugger's list, nothing else moves the script.
HeldMeanwhile ==
  dbg.cmd \in {"INS_TRACE", "RUN", "detach"}
    => phase = "run" /\ Live(dbg.script) /\ in_hold_list[dbg.script] = "DEBUGGER_LIST"

SchedulerInv == TypeOK /\ ListInv /\ HeldMeanwhile

LEMMA InstructionLists ==
  ASSUME ListInv, NEW s \in Scripts, Instruction(s)
  PROVE  ListInv'
<1> USE DEF Fetch, Fetches
<1>0. phase = "run"
  BY DEF Instruction, Compute, Exit, Fail, SleepFor, wait_for_event, WaitForClient,
         SendEvent, KillScript, StartScript, RunScript, clear_event_queue, RunScriptReturn,
         set_critical, set_priority, set_event_queue_size, DebugStop, ExecuteDone, Executes
<1>1. ASSUME UNCHANGED <<phase, current, status, listVars>>
      PROVE  ListInv'
  BY <1>1, StutterKeeps
<1>2. CASE Compute(s) \/ Exit(s) \/ Fail(s) \/ WaitForClient(s) \/ RunScriptReturn(s)
           \/ DebugStop(s) \/ ExecuteDone(s)
  BY <1>1, <1>2 DEF Compute, Exit, Fail, WaitForClient, RunScriptReturn, DebugStop,
                    ExecuteDone, turnVars
<1>3. CASE \/ \E n \in SleepTicks : SleepFor(s, n) \/ wait_for_event(s, n)
           \/ \E t \in Scripts : clear_event_queue(s, t)
           \/ \E crit \in BOOLEAN : set_critical(s, crit)
           \/ \E n \in Priorities : set_priority(s, n)
           \/ \E n \in QueueSizes : set_event_queue_size(s, n)
  BY <1>1, <1>3 DEF SleepFor, wait_for_event, clear_event_queue, set_critical, set_priority,
                    set_event_queue_size
<1>4. ASSUME NEW t \in Scripts, SendEvent(s, t)
      PROVE  ListInv'
  BY <1>0, <1>4, SignalKeeps DEF SendEvent
<1>5. ASSUME NEW t \in Scripts, KillScript(s, t)
      PROVE  ListInv'
  BY <1>0, <1>5, ReviveKilledKeeps DEF KillScript
<1>6. ASSUME NEW t \in Scripts, StartScript(s, t) \/ RunScript(s, t)
      PROVE  ListInv'
  BY <1>0, <1>6, EnlistKeeps DEF StartScript, RunScript
<1> QED
  BY <1>2, <1>3, <1>4, <1>5, <1>6 DEF Instruction

LEMMA EndTurnLists ==
  ASSUME ListInv, NEW s \in Scripts, EndTurn(s), os[s].sleep_until \in Nat
  PROVE  ListInv'
<1>1. CASE ReturnToParent(s)
  <2>1. ex[s].pParent \in Scripts
    BY <1>1 DEF ReturnToParent
  <2> QED
    BY <1>1, <2>1, ReturnKeeps DEF ReturnToParent, TurnOver, NextTurn
<1>2. CASE DeleteFinished(s)
  BY <1>2, DeleteKeeps DEF DeleteFinished, TurnOver, NextTurn
<1>3. CASE ReturnToDeleted(s)
  BY <1>3, StutterKeeps DEF ReturnToDeleted, turnVars
<1>4. CASE MarkForDebugger(s) \/ HoldForDebugger(s)
  BY <1>4, MarkForDebuggerKeeps, HoldForDebuggerKeeps
<1>5. CASE HoldBlocked(s)
  BY <1>5, HoldBlockedKeeps
<1>6. CASE Requeue(s)
  BY <1>6, RequeueKeeps DEF Requeue, TurnOver, NextTurn
<1> QED
  BY <1>1, <1>2, <1>3, <1>4, <1>5, <1>6 DEF EndTurn

LEMMA OtherThreadsLists ==
  ASSUME ListInv, OtherThreads
  PROVE  ListInv'
<1>1. PICK s \in Scripts : \/ ExternalStart(s) \/ ExternalEvent(s) \/ ExternalKill(s)
                          \/ ClientReply(s)
  BY DEF OtherThreads
<1>2. phase = "unlocked" /\ UNCHANGED <<phase, current>>
  BY <1>1 DEF ExternalStart, ExternalEvent, ExternalKill, ClientReply, Unlocked, turnVars
<1>3. CASE ExternalStart(s)
  BY <1>2, <1>3, EnlistKeeps DEF ExternalStart
<1>4. CASE ExternalEvent(s)
  BY <1>2, <1>4, SignalKeeps DEF ExternalEvent
<1>5. CASE ExternalKill(s)
  BY <1>2, <1>5, ReviveKilledKeeps DEF ExternalKill
<1>6. CASE ClientReply(s)
  BY <1>2, <1>6, ReviveKeeps DEF ClientReply
<1> QED
  BY <1>1, <1>3, <1>4, <1>5, <1>6

LEMMA DebuggerLists ==
  ASSUME ListInv, HeldMeanwhile, ~UnlockedDebugger, Debugger
  PROVE  ListInv'
<1>1. UNCHANGED <<phase, current>>
  BY DEF Debugger, BeginCommand, FinishCommand, DebugStart, cmd_attach, cmd_kill, cmd_break, DebugCheckHeld, DebugResume,
         DebugCheckDetach, DebugDetach, DebugLetGo, Commands, turnVars
<1>2. ASSUME UNCHANGED <<status, listVars>>
      PROVE  ListInv'
  BY <1>1, <1>2, StutterKeeps
<1>3. ASSUME NEW s \in Scripts, DebugStart(s)
      PROVE  ListInv'
  BY <1>1, <1>3, EnlistKeeps DEF DebugStart, Commands, Executes
<1>4. ASSUME NEW s \in Scripts, cmd_attach(s) \/ cmd_kill(s)
      PROVE  ListInv'
  BY <1>2, <1>4 DEF cmd_attach, cmd_kill
<1>5. ASSUME \/ cmd_break \/ DebugCheckDetach \/ DebugLetGo
             \/ \E cmd \in {"INS_TRACE", "RUN"} : DebugCheckHeld(cmd)
      PROVE  ListInv'
  BY <1>2, <1>5 DEF cmd_break, DebugCheckDetach, DebugLetGo, DebugCheckHeld
<1>6. CASE DebugResume
  <2>1. phase = "run" /\ Live(dbg.script) /\ in_hold_list[dbg.script] = "DEBUGGER_LIST"
    BY <1>6 DEF DebugResume, HeldMeanwhile
  <2> QED
    BY <1>1, <1>6, <2>1, ReviveDebuggedKeeps DEF DebugResume
<1>7. CASE DebugDetach
  <2>1. phase = "run" /\ Live(dbg.script) /\ in_hold_list[dbg.script] = "DEBUGGER_LIST"
    BY <1>7 DEF DebugDetach, HeldMeanwhile
  <2> QED
    BY <1>1, <1>7, <2>1, ReviveDebuggedKeeps DEF DebugDetach
<1> QED
  BY <1>3, <1>4, <1>5, <1>6, <1>7 DEF Debugger, BeginCommand, FinishCommand

\* Only the debugger changes what it is at.
LEMMA OthersLeaveDebugger ==
  ASSUME ScriptsThread \/ OtherThreads \/ Clock \/ Stop
  PROVE  UNCHANGED dbg
<1>1. CASE ScriptsThread
  <2>1. CASE BeginPass \/ BeginTurn \/ EmptyRunlist \/ EndPass \/ WakeDue \/ EndCheck
    BY <2>1 DEF BeginPass, BeginTurn, EmptyRunlist, EndPass, WakeDue, EndCheck, envVars
  <2>2. ASSUME NEW s \in Scripts, Instruction(s)
        PROVE  UNCHANGED dbg
    BY <2>2 DEF Instruction, Compute, Exit, Fail, SleepFor, wait_for_event, WaitForClient,
                SendEvent, KillScript, StartScript, RunScript, clear_event_queue,
                RunScriptReturn, set_critical, set_priority, set_event_queue_size,
                DebugStop, ExecuteDone, Fetch, Fetches
  <2>3. ASSUME NEW s \in Scripts, EndTurn(s)
        PROVE  UNCHANGED dbg
    BY <2>3 DEF EndTurn, ReturnToParent, DeleteFinished, ReturnToDeleted, MarkForDebugger,
                HoldForDebugger, HoldBlocked, Requeue, TurnOver, envVars
  <2> QED
    BY <1>1, <2>1, <2>2, <2>3 DEF ScriptsThread
<1>2. CASE OtherThreads
  BY <1>2 DEF OtherThreads, ExternalStart, ExternalEvent, ExternalKill, ClientReply, Unlocked
<1>3. CASE Clock \/ Stop
  BY <1>3 DEF Clock, Stop, Tick, Shutdown, envVars
<1> QED
  BY <1>1, <1>2, <1>3

\* Only the debugger looks, and while it is at it nobody else has a step.
LEMMA HeldMeanwhileStep ==
  ASSUME SchedulerInv, ~UnlockedDebugger, [Next]_vars
  PROVE  HeldMeanwhile'
<1> USE DEF HeldMeanwhile
<1>1. CASE UNCHANGED vars
  BY <1>1 DEF SchedulerInv, vars
<1>2. CASE ScriptsThread \/ OtherThreads \/ Clock \/ Stop
  <2>1. dbg.cmd = "none"
    BY <1>2 DEF ScriptsThread, OtherThreads, Clock, Stop, Undisturbed
  <2> QED
    BY <1>2, <2>1, OthersLeaveDebugger
<1>3. CASE Debugger
  <2>1. ASSUME dbg'.cmd \in {"none", "detached"}
        PROVE  HeldMeanwhile'
    BY <2>1
  <2>2. dbg = [dbg EXCEPT !.cmd = dbg.cmd] /\ DOMAIN dbg = {"script", "cmd"}
    BY DEF SchedulerInv, TypeOK
  <2>3. CASE \/ \E s \in Scripts : DebugStart(s) \/ cmd_attach(s) \/ cmd_kill(s)
             \/ cmd_break
    BY <2>1, <2>2, <2>3 DEF DebugStart, cmd_attach, cmd_kill, cmd_break, Commands
  <2>4. CASE \/ \E cmd \in {"INS_TRACE", "RUN"} : DebugCheckHeld(cmd)
             \/ DebugCheckDetach
    <3>1. phase = "run" /\ Live(dbg.script) /\ UNCHANGED <<phase, status, in_hold_list>>
      BY <2>4 DEF DebugCheckHeld, DebugCheckDetach, Commands, Executes, Attached, listVars, holdVars
    <3>2. /\ dbg'.script = dbg.script
          /\ dbg'.cmd # "detached" => in_hold_list[dbg.script] = "DEBUGGER_LIST"
      BY <2>2, <2>4 DEF DebugCheckHeld, DebugCheckDetach
    <3> QED
      BY <3>1, <3>2
  <2>5. CASE DebugResume \/ DebugDetach \/ DebugLetGo
    BY <2>1, <2>2, <2>5 DEF DebugResume, DebugDetach, DebugLetGo
  <2> QED
    BY <1>3, <2>3, <2>4, <2>5 DEF Debugger, BeginCommand, FinishCommand
<1> QED
  BY <1>1, <1>2, <1>3 DEF Next, Ended

LEMMA ListInit == Init => ListInv /\ HeldMeanwhile
<1>1. Range(<<>>) = {} /\ NoRepeats(<<>>) /\ <<>> \in Seq(Scripts)
  BY DEF Range, NoRepeats
<1> QED
  BY <1>1, SchedulerAssumption
  DEF SchedulerAssumption, Init, ListInv, ListTypeOK, InOneList, NoneLost, UnbornInNoList,
      Queued, HeldMeanwhile

LEMMA ListStep ==
  ASSUME SchedulerInv, ~UnlockedDebugger, [Next]_vars
  PROVE  ListInv'
<1>1. ListInv /\ HeldMeanwhile
  BY DEF SchedulerInv
<1>2. CASE ScriptsThread
  <2>1. \A s \in Scripts : os[s].sleep_until \in Nat
    BY DEF SchedulerInv, TypeOK, OsModule
  <2> QED
    BY <1>1, <1>2, <2>1, BeginPassKeeps, BeginTurnKeeps, EmptyRunlistKeeps, EndPassKeeps,
       WakeDueKeeps, EndCheckKeeps, InstructionLists, EndTurnLists DEF ScriptsThread
<1>3. CASE OtherThreads
  BY <1>1, <1>3, OtherThreadsLists
<1>4. CASE Debugger
  BY <1>1, <1>4, DebuggerLists
<1>5. CASE Clock
  BY <1>1, <1>5, StutterKeeps DEF Clock, Tick, turnVars
<1>6. CASE Stop
  BY <1>1, <1>6, ShutdownKeeps DEF Stop
<1>7. CASE UNCHANGED vars
  BY <1>1, <1>7, StutterKeeps DEF vars, listVars, holdVars
<1> QED
  BY <1>2, <1>3, <1>4, <1>5, <1>6, <1>7 DEF Next, Ended

LEMMA SchedulerInvariant ==
  ASSUME ~UnlockedDebugger
  PROVE  Spec => []SchedulerInv
<1>1. Init => SchedulerInv
  BY TypeInit, ListInit DEF SchedulerInv
<1>2. SchedulerInv /\ [Next]_vars => SchedulerInv'
  BY TypeStep, ListStep, HeldMeanwhileStep DEF SchedulerInv
<1> QED
  BY <1>1, <1>2, PTL DEF Spec

\* As long as the debugger's commands are instructions of a script, no executor is
\* ever in two places or in a list that its in_hold_list_ does not name, whatever
\* runs, waits, is killed, fails or is deleted.
THEOREM OneList ==
  ASSUME ~UnlockedDebugger
  PROVE  Spec => []InOneList
<1>1. SchedulerInv => InOneList
  BY DEF SchedulerInv, ListInv
<1> QED
  BY <1>1, SchedulerInvariant, PTL

\* ...and every executor that was not deleted is in some list or has the turn, so
\* that it is scheduled, woken, or deleted by cleanup_scripts.
THEOREM NothingLost ==
  ASSUME ~UnlockedDebugger
  PROVE  Spec => []NoneLost
<1>1. SchedulerInv => NoneLost
  BY DEF SchedulerInv, ListInv
<1> QED
  BY <1>1, SchedulerInvariant, PTL
=============================================================================
