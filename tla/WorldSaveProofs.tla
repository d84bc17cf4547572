-------------------------- MODULE WorldSaveProofs --------------------------
(***************************************************************************)
(* Theorems about WorldSave: the state is well formed, dirty flags mean    *)
(* what they say and a restart reads the world of one save, on shards that *)
(* save in full, incrementally or, if they are careful, both; and on those *)
(* that do one kind of save the saves implement DurableWorld.              *)
(***************************************************************************)
EXTENDS WorldSave, SequenceTheorems, FiniteSetTheorems, WellFoundedInduction, TLAPS

LEMMA LeastNat ==
  ASSUME NEW T \in SUBSET Nat, T # {}
  PROVE  \E n \in T : \A m \in T : n <= m
<1>1. PICK x \in T : \A y \in T : ~(<<y, x>> \in OpToRel(<, Nat))
  BY NatLessThanWellFounded, WFMin, Zenon
<1>2. \A y \in T : <<y, x>> \notin OpToRel(<, Nat) => ~(y < x)
  <2> SUFFICES ASSUME NEW y \in T, y < x PROVE <<y, x>> \in OpToRel(<, Nat)
    BY Zenon
  <2>1. <<y, x>> \in Nat \X Nat /\ <<y, x>>[1] = y /\ <<y, x>>[2] = x
    BY SMT
  <2> QED
    BY <2>1, Zenon DEF OpToRel
<1>3. \A y \in T : ~(y < x)
  BY <1>1, <1>2, Zenon
<1> QED
  BY <1>3

-----------------------------------------------------------------------------
(* Files and their contents *)

\* What a data file may hold: a picture of some things.
Pictures == UNION {[T -> Versions] : T \in SUBSET Things}
Contents(f, e) == IF f[1] = "index" /\ e # "bak" THEN Indexes ELSE Pictures

DiskTypes ==
  /\ disk \in [FileNames -> [Extensions -> Pictures \cup Indexes \cup {NoFile}]]
  /\ \A f \in FileNames, e \in Extensions : disk[f][e] \in Contents(f, e) \cup {NoFile}

LEMMA Names ==
  /\ \A g \in FileSet : World(g) \in FileNames /\ World(g)[1] = "world"
  /\ \A i \in 1..MaxIncrementals : /\ Data(i) \in FileNames /\ Data(i)[1] = "data"
                                   /\ Index(i) \in FileNames /\ Index(i)[1] = "index"
  /\ \A g, h : World(g) = World(h) => g = h
  /\ \A i, j : (Data(i) = Data(j) => i = j) /\ (Index(i) = Index(j) => i = j)
  /\ \A g, i, j : World(g) # Data(i) /\ World(g) # Index(i) /\ Data(i) # Index(j)
  /\ \A f \in FileNames : \/ \E g \in FileSet : f = World(g)
                          \/ \E i \in 1..MaxIncrementals : f = Data(i) \/ f = Index(i)
BY DEF FileNames, World, Data, Index

LEMMA Numbers ==
  /\ MaxChanges \in Nat /\ MaxIncrementals \in Nat
  /\ Versions \subseteq Nat
  /\ \A p \in Plans : p.initial \subseteq Objects /\ p.changes \in 0..MaxChanges
BY WorldAssumption DEF PlanType, Versions

LEMMA NoContents ==
  /\ NoFile \notin Pictures /\ NoFile \notin Indexes
  /\ Nothing \in Pictures /\ Blank \in Indexes
<1>1. NoFile \notin Pictures
  BY FilesAssumption, Zenon DEF Pictures, Versions
<1>2. Nothing \in [{} -> Versions]
  BY DEF Nothing
<1>3. Nothing \in Pictures
  BY <1>2, Zenon DEF Pictures
<1> QED
  BY <1>1, <1>3, FilesAssumption DEF Indexes, Blank

\* What one file operation does.
LEMMA Performs ==
  ASSUME DiskTypes, NEW step \in Steps, Perform(step)
  PROVE  /\ \A f \in FileNames \ {step.file} : disk'[f] = disk[f]
         /\ step.op = "place" =>
              /\ disk'[step.file].ndt = NoFile
              /\ disk'[step.file].txt = IF disk[step.file].ndt = NoFile
                                        THEN disk[step.file].txt ELSE disk[step.file].ndt
         /\ step.op # "place" => disk'[step.file].txt = NoFile /\ disk'[step.file].ndt = disk[step.file].ndt
         /\ DiskTypes'
<1> DEFINE f == step.file
           was == disk[f]
           now == disk'[f]
           All == Pictures \cup Indexes \cup {NoFile}
<1>1. f \in FileNames /\ step.op \in {"aside", "place", "unlink"}
  BY DEF Steps
<1>2. was \in [Extensions -> All] /\ \A e \in Extensions : was[e] \in Contents(f, e) \cup {NoFile}
  BY <1>1 DEF DiskTypes
<1>3. disk \in [FileNames -> [Extensions -> All]]
  BY DEF DiskTypes
<1>4. disk' = [disk EXCEPT ![f] = CASE step.op = "aside" -> SetAside(@)
                                   [] step.op = "place" -> PutInPlace(@)
                                   [] step.op = "unlink" -> Unlink(@)]
  BY DEF Perform
<1>5. /\ \A g \in FileNames \ {f} : disk'[g] = disk[g]
      /\ now = CASE step.op = "aside" -> SetAside(was)
                 [] step.op = "place" -> PutInPlace(was)
                 [] step.op = "unlink" -> Unlink(was)
      /\ disk' = [g \in FileNames |-> disk'[g]]
  BY <1>1, <1>3, <1>4
<1> HIDE DEF f, was, now
<1>6. /\ \A e \in Extensions : SetAside(was)[e] \in Contents(f, e) \cup {NoFile}
      /\ SetAside(was) \in [Extensions -> All]
      /\ SetAside(was).txt = NoFile /\ SetAside(was).ndt = was.ndt
  BY <1>2, NoContents DEF SetAside, Contents, Extensions
<1>7. /\ \A e \in Extensions : Unlink(was)[e] \in Contents(f, e) \cup {NoFile}
      /\ Unlink(was) \in [Extensions -> All]
      /\ Unlink(was).txt = NoFile /\ Unlink(was).ndt = was.ndt
  BY <1>2, NoContents DEF Unlink, Contents, Extensions
<1>8. /\ \A e \in Extensions : PutInPlace(was)[e] \in Contents(f, e) \cup {NoFile}
      /\ PutInPlace(was) \in [Extensions -> All]
      /\ PutInPlace(was).ndt = NoFile
      /\ PutInPlace(was).txt = IF was.ndt = NoFile THEN was.txt ELSE was.ndt
  BY <1>2, NoContents DEF PutInPlace, Contents, Extensions
<1>9. /\ \A e \in Extensions : now[e] \in Contents(f, e) \cup {NoFile}
      /\ now \in [Extensions -> All]
      /\ step.op = "place" => now.ndt = NoFile /\ now.txt = IF was.ndt = NoFile THEN was.txt ELSE was.ndt
      /\ step.op # "place" => now.txt = NoFile /\ now.ndt = was.ndt
  <2>1. CASE step.op = "aside"
    BY <2>1, <1>5, <1>6
  <2>2. CASE step.op = "place"
    BY <2>2, <1>5, <1>8
  <2>3. CASE step.op = "unlink"
    BY <2>3, <1>5, <1>7
  <2> QED
    BY <1>1, <2>1, <2>2, <2>3
<1>10. DiskTypes'
  BY <1>1, <1>3, <1>5, <1>9 DEF DiskTypes, f, now, Contents
<1> QED
  BY <1>5, <1>9, <1>10 DEF f, now, was

-----------------------------------------------------------------------------
(* What a restart reads *)

\* Indexes 1..n are there, and the next one is not.
Counts(n) ==
  /\ \A i \in 1..n : Exists(Index(i), "txt")
  /\ n < MaxIncrementals => ~Exists(Index(n + 1), "txt")

LEMMA IndexedCounts == Indexed \in 0..MaxIncrementals /\ Counts(Indexed)
<1> DEFINE T == {n \in 0..MaxIncrementals : n < MaxIncrementals => ~Exists(Index(n + 1), "txt")}
<1>1. T \in SUBSET Nat /\ MaxIncrementals \in T
  BY Numbers
<1>2. PICK n \in T : \A m \in T : n <= m
  BY <1>1, LeastNat
<1>3. \A i \in 1..n : Exists(Index(i), "txt")
  <2> SUFFICES ASSUME NEW i \in 1..n, ~Exists(Index(i), "txt") PROVE FALSE
    OBVIOUS
  <2>1. i - 1 \in T
    <3>1. i - 1 \in 0..MaxIncrementals /\ (i - 1) + 1 = i
      BY <1>2, Numbers
    <3> QED
      BY <3>1
  <2> QED
    BY <2>1, <1>2, Numbers
<1>4. n \in 0..MaxIncrementals /\ Counts(n)
  BY <1>2, <1>3 DEF Counts
<1> QED
  BY <1>4 DEF Indexed, Counts

CountedOnce == \A n \in 0..MaxIncrementals : Counts(n) => Indexed = n

LEMMA CountsOnce == CountedOnce
BY IndexedCounts, Numbers DEF Counts, CountedOnce

\* The index that says where t is, if one does: the last.
LEMMA LastOne ==
  ASSUME NEW t, NEW n \in 0..MaxIncrementals, \E i \in 1..n : Lists(i, t)
  PROVE  \E i \in 1..n : Lists(i, t) /\ \A j \in (i + 1)..n : ~Lists(j, t)
<1> DEFINE T == {m \in 0..n : m < n /\ Lists(n - m, t)}
<1>1. T \in SUBSET Nat /\ T # {}
  <2>1. PICK i \in 1..n : Lists(i, t)
    OBVIOUS
  <2>2. n - i \in 0..n /\ n - i < n /\ n - (n - i) = i
    BY Numbers
  <2>3. n - i \in T
    BY <2>1, <2>2
  <2>4. T \subseteq Nat
    BY Numbers
  <2> QED
    BY <2>3, <2>4, Zenon
<1>2. PICK m \in T : \A k \in T : m <= k
  BY <1>1, LeastNat
<1>3. n - m \in 1..n /\ Lists(n - m, t)
  BY <1>2, Numbers
<1>4. \A j \in (n - m + 1)..n : ~Lists(j, t)
  <2> SUFFICES ASSUME NEW j \in (n - m + 1)..n, Lists(j, t) PROVE FALSE
    OBVIOUS
  <2>1. n - j \in 0..n /\ n - j < n /\ n - (n - j) = j /\ n - j < m
    BY <1>2, Numbers
  <2>2. n - j \in T
    BY <2>1
  <2> QED
    BY <1>2, <2>1, <2>2
<1> QED
  BY <1>3, <1>4

LastCounts ==
  \A t : /\ (\A i \in 1..Indexed : ~Lists(i, t)) => SaveIndex(t) = 0
         /\ \A i \in 1..Indexed :
              Lists(i, t) /\ (\A j \in (i + 1)..Indexed : ~Lists(j, t)) =>
                SaveIndex(t) = IF t \in disk[Index(i)].txt.deleted THEN Deleted ELSE i

LEMMA SaveIndexes == LastCounts
<1> SUFFICES ASSUME NEW t
             PROVE  /\ (\A i \in 1..Indexed : ~Lists(i, t)) => SaveIndex(t) = 0
                    /\ \A i \in 1..Indexed :
                         Lists(i, t) /\ (\A j \in (i + 1)..Indexed : ~Lists(j, t)) =>
                           SaveIndex(t) = IF t \in disk[Index(i)].txt.deleted THEN Deleted ELSE i
  BY DEF LastCounts
<1> DEFINE P(k) == Lists(k, t) /\ \A j \in (k + 1)..Indexed : ~Lists(j, t)
           c == CHOOSE k \in 1..Indexed : P(k)
<1>1. (\E i \in 1..Indexed : Lists(i, t)) =>
        SaveIndex(t) = IF t \in disk[Index(c)].txt.deleted THEN Deleted ELSE c
  BY DEF SaveIndex
<1>2. ~(\E i \in 1..Indexed : Lists(i, t)) => SaveIndex(t) = 0
  BY DEF SaveIndex
<1>3. ASSUME NEW i \in 1..Indexed, P(i) PROVE c = i
  <2>1. c \in 1..Indexed /\ P(c)
    BY <1>3
  <2> HIDE DEF c
  <2> QED
    BY <1>3, <2>1, IndexedCounts, Numbers
<1> HIDE DEF c
<1> QED
  BY <1>1, <1>2, <1>3

LEMMA SaveIndexInRange ==
  \A t : SaveIndex(t) \in 0..Deleted
<1> SUFFICES ASSUME NEW t PROVE SaveIndex(t) \in 0..Deleted
  OBVIOUS
<1>1. CASE \A i \in 1..Indexed : ~Lists(i, t)
  BY <1>1, SaveIndexes, Numbers DEF Deleted, LastCounts
<1>2. CASE \E i \in 1..Indexed : Lists(i, t)
  <2>1. PICK i \in 1..Indexed : Lists(i, t) /\ \A j \in (i + 1)..Indexed : ~Lists(j, t)
    BY <1>2, LastOne, IndexedCounts
  <2>2. SaveIndex(t) = IF t \in disk[Index(i)].txt.deleted THEN Deleted ELSE i
    BY <2>1, SaveIndexes DEF LastCounts
  <2> QED
    BY <2>2, IndexedCounts, Numbers DEF Deleted
<1> QED
  BY <1>1, <1>2

LEMMA Sources ==
  ASSUME DiskTypes
  PROVE  \A t \in Things, i \in 0..Indexed :
           /\ Source(i, t) \in Pictures
           /\ \A u \in DOMAIN Source(i, t) : u \in Things /\ Source(i, t)[u] \in Versions
<1> SUFFICES ASSUME NEW t \in Things, NEW i \in 0..Indexed PROVE Source(i, t) \in Pictures
  BY DEF Pictures
<1>1. Home[t] \in FileSet /\ "txt" \in Extensions
  BY WorldAssumption DEF Extensions
<1>2. i = 0 \/ i \in 1..MaxIncrementals
  BY IndexedCounts, Numbers
<1> DEFINE f == IF i = 0 THEN World(Home[t]) ELSE Data(i)
<1>3. f \in FileNames /\ f[1] # "index"
  BY <1>1, <1>2, Names
<1>4. disk[f]["txt"] \in Pictures \cup {NoFile}
  BY <1>1, <1>3 DEF DiskTypes, Contents
<1>5. Source(i, t) = IF disk[f]["txt"] # NoFile THEN disk[f]["txt"] ELSE Nothing
  BY DEF Source, Exists
<1> HIDE DEF f
<1> QED
  BY <1>4, <1>5, NoContents

LEMMA RecoveredTypes ==
  ASSUME DiskTypes, NEW T \in SUBSET Things
  PROVE  Recovered(T) \in [{u \in T : Copies(u) # {}} -> Versions] /\ Recovered(T) \in Pictures
<1>1. \A t \in T : Copies(t) # {} => Stored(t) \in Versions
  <2> SUFFICES ASSUME NEW t \in T, Copies(t) # {} PROVE Stored(t) \in Versions
    OBVIOUS
  <2> DEFINE i == CHOOSE j \in Copies(t) : TRUE
  <2>1. i \in Copies(t)
    OBVIOUS
  <2>2. i \in 0..Indexed /\ t \in DOMAIN Source(i, t)
    BY <2>1 DEF Copies
  <2>3. Source(i, t)[t] \in Versions
    BY <2>2, Sources
  <2> QED
    BY <2>3 DEF Stored
<1>2. Recovered(T) \in [{u \in T : Copies(u) # {}} -> Versions]
  BY <1>1 DEF Recovered
<1> QED
  BY <1>2, Zenon DEF Pictures

-----------------------------------------------------------------------------
(* Types *)

ObjectTypes ==
  /\ plan \in Plans
  /\ life \in [Objects -> {"none", "live", "orphan"}]
  /\ version \in [Things -> Versions]
  /\ dirty \in [Objects -> BOOLEAN] /\ keep \in [Objects -> BOOLEAN]
  /\ changes \in Versions
  /\ dirty_deleted \subseteq Objects /\ clean_deleted \subseteq Objects
  /\ modified_serials \subseteq Objects /\ deleted_serials \subseteq Objects

\* How far a save has got; an incremental save under way is the one after those counted.
RoundTypes ==
  /\ phase \in Phases
  /\ incremental_save_count \in 0..MaxIncrementals
  /\ incremental_saves_disabled \in BOOLEAN
  /\ save_index \in 0..(MaxIncrementals + 1)
  /\ phase \in {"recording", "committing"} =>
       save_index = incremental_save_count + 1 /\ incremental_save_count < MaxIncrementals
  /\ phase = "retiring" => save_index # 0

QueueType == queue \in Seq(IF phase = "writing" THEN FileSet ELSE Steps)

PictureTypes == saved \in Pictures /\ saving \in Pictures

\* What is recorded goes to a file that has been opened.
Opened == phase = "recording" => disk[Data(save_index)].ndt # NoFile

TypeInv == ObjectTypes /\ RoundTypes /\ QueueType /\ DiskTypes /\ PictureTypes /\ Opened

LEMMA PictureOf ==
  ASSUME ObjectTypes
  PROVE  /\ Current \in Pictures
         /\ \A T \in SUBSET Things : [t \in T |-> version[t]] \in Pictures
         /\ saved \in Pictures => CurrentObjects \in Pictures
<1>1. \A T \in SUBSET Things : [t \in T |-> version[t]] \in Pictures
  <2> SUFFICES ASSUME NEW T \in SUBSET Things PROVE [t \in T |-> version[t]] \in Pictures
    OBVIOUS
  <2>1. [t \in T |-> version[t]] \in [T -> Versions]
    BY DEF ObjectTypes
  <2> QED
    BY <2>1, Zenon DEF Pictures
<1>2. Present \in SUBSET Things
  BY DEF Present, Live, Things
<1>3. ASSUME saved \in Pictures PROVE CurrentObjects \in Pictures
  <2> DEFINE T == (Present \cap Objects) \cup (DOMAIN saved \cap Others)
  <2>1. T \in SUBSET Things /\ \A t \in DOMAIN saved : saved[t] \in Versions
    BY <1>2, <1>3 DEF Pictures, Things
  <2>2. \A t \in T : (IF t \in Others THEN saved[t] ELSE version[t]) \in Versions
    <3>1. \A t \in Things : version[t] \in Versions
      BY DEF ObjectTypes
    <3>2. \A t \in T : t \in Things /\ (t \in Others => t \in DOMAIN saved)
      BY <2>1, WorldAssumption
    <3> QED
      BY <2>1, <3>1, <3>2
  <2>3. CurrentObjects \in [T -> Versions]
    BY <2>2 DEF CurrentObjects
  <2> QED
    BY <2>1, <2>3, Zenon DEF Pictures
<1> QED
  BY <1>1, <1>2, <1>3 DEF Current

LEMMA StepsAre ==
  /\ \A op \in {"aside", "place", "unlink"}, f \in FileNames : Step(op, f) \in Steps
  /\ Files \in Seq(FileSet) /\ DOMAIN Files = 1..Len(Files) /\ Len(Files) \in Nat
  /\ Switch \in Seq(Steps) /\ Len(Switch) = 2 * Len(Files)
  /\ \A i \in 1..MaxIncrementals : CommitSteps(i) \in Seq(Steps) /\ RetireSteps(i) \in Seq(Steps)
<1>1. \A op \in {"aside", "place", "unlink"}, f \in FileNames : Step(op, f) \in Steps
  BY DEF Step, Steps
<1>2. Files \in Seq(FileSet) /\ DOMAIN Files = 1..Len(Files) /\ Len(Files) \in Nat
  BY FilesAssumption DEF FileSet
<1>3. \A f \in FileNames : /\ Commit(f) \in Seq(Steps) /\ Len(Commit(f)) = 2
                           /\ CommitIncremental(f) \in Seq(Steps)
  BY <1>1 DEF Commit, CommitIncremental
<1>4. \A i \in 1..MaxIncrementals : CommitSteps(i) \in Seq(Steps) /\ RetireSteps(i) \in Seq(Steps)
  BY <1>3, Names DEF CommitSteps, RetireSteps
<1>5. \A k \in 1..(2 * Len(Files)) : Switch[k] \in Steps
  <2> SUFFICES ASSUME NEW k \in 1..(2 * Len(Files)) PROVE Switch[k] \in Steps
    OBVIOUS
  <2>1. (k + 1) \div 2 \in 1..Len(Files)
    BY <1>2
  <2>2. Files[(k + 1) \div 2] \in FileSet
    BY <2>1, <1>2
  <2>3. Commit(World(Files[(k + 1) \div 2])) \in Seq(Steps) /\ Len(Commit(World(Files[(k + 1) \div 2]))) = 2
    BY <2>2, <1>3, Names
  <2>4. Switch[k] = Commit(World(Files[(k + 1) \div 2]))[IF k % 2 = 1 THEN 1 ELSE 2]
    BY DEF Switch
  <2> QED
    BY <2>3, <2>4
<1>6. Switch \in [1..(2 * Len(Files)) -> Steps] /\ 2 * Len(Files) \in Nat
  BY <1>2, <1>5 DEF Switch
<1>7. Switch \in Seq(Steps) /\ Len(Switch) = 2 * Len(Files)
  BY <1>6
<1> QED
  BY <1>1, <1>2, <1>4, <1>7

LEMMA TypesInitially == Init => TypeInv
<1> SUFFICES ASSUME Init PROVE TypeInv
  OBVIOUS
<1>1. plan \in Plans /\ plan.initial \subseteq Objects
  BY Numbers DEF Init
<1>2. ObjectTypes
  BY <1>1, Numbers DEF Init, ObjectTypes, Versions
<1>3. RoundTypes
  <2>1. /\ phase = "running" /\ incremental_save_count = 0 /\ save_index = 0
        /\ incremental_saves_disabled \in BOOLEAN
    BY DEF Init
  <2> QED
    BY <2>1, Numbers DEF RoundTypes, Phases
<1>6. QueueType
  <2>1. queue = <<>> /\ phase = "running" /\ <<>> \in Seq(Steps)
    BY DEF Init
  <2> QED
    BY <2>1 DEF QueueType
<1>4. saved \in Pictures /\ saving \in Pictures
  BY <1>2, PictureOf DEF Init
<1>5. DiskTypes
  <2> DEFINE T(f) == {u \in plan.initial \cup Others : World(Home[u]) = f}
             Zero(f) == [t \in T(f) |-> 0]
  <2>1. \A f : Zero(f) \in Pictures
    <3> SUFFICES ASSUME NEW f PROVE Zero(f) \in Pictures
      OBVIOUS
    <3>1. T(f) \in SUBSET Things /\ Zero(f) \in [T(f) -> Versions]
      BY <1>1, Numbers DEF Things, Versions
    <3> HIDE DEF T, Zero
    <3> QED
      BY <3>1, Zenon DEF Pictures
  <2>2. disk = [f \in FileNames |-> [e \in Extensions |-> IF e = "txt" /\ f[1] = "world" THEN Zero(f) ELSE NoFile]]
    BY DEF Init
  <2> HIDE DEF Zero
  <2> QED
    BY <2>1, <2>2 DEF DiskTypes, Contents
<1> QED
  BY <1>2, <1>3, <1>4, <1>5, <1>6 DEF TypeInv, PictureTypes, Opened, Init

LEMMA DiskSame == DiskTypes /\ disk' = disk => DiskTypes'
BY DEF DiskTypes, Contents

LEMMA RoundSame ==
  RoundTypes /\ QueueType /\ UNCHANGED <<phase, countVars, saveVars>> => RoundTypes' /\ QueueType'
BY DEF RoundTypes, QueueType, countVars, saveVars

LEMMA ObjectSame ==
  ObjectTypes /\ UNCHANGED <<plan, objectVars, hashVars, listVars>> => ObjectTypes'
BY DEF ObjectTypes, objectVars, hashVars, listVars

LEMMA PictureSame == PictureTypes /\ UNCHANGED history => PictureTypes'
BY DEF PictureTypes, history

LEMMA GameTypes == TypeInv /\ Game => TypeInv'
<1> SUFFICES ASSUME TypeInv, Game PROVE TypeInv'
  OBVIOUS
<1>1. Unsaving
  BY DEF Game, Create, Change, SetSaveOnExit, Destroy, Reap, ChangeOther
<1>2. RoundTypes' /\ QueueType' /\ DiskTypes' /\ PictureTypes' /\ Opened'
  BY <1>1, RoundSame, DiskSame, PictureSame DEF TypeInv, Unsaving, Opened, saveVars
<1>3. ObjectTypes /\ plan' = plan /\ listVars' = listVars
  BY <1>1 DEF TypeInv, Unsaving
<1>4. plan.changes \in 0..MaxChanges /\ plan.others \subseteq Others /\ plan.flags \subseteq BOOLEAN
  BY <1>3, WorldAssumption DEF ObjectTypes, PlanType
<1>5. ASSUME Changed PROVE changes + 1 \in Versions /\ changes' \in Versions
  BY <1>3, <1>4, <1>5, Numbers DEF Changed, ObjectTypes, Versions
<1>6. CASE \E s \in Objects : Create(s) \/ Change(s)
  <2>1. ObjectTypes'
    BY <1>3, <1>5, <1>6 DEF Create, Change, ObjectTypes, hashVars, listVars
  <2> QED
    BY <1>2, <2>1 DEF TypeInv
<1>7. CASE \E s \in Objects : SetSaveOnExit(s)
  <2>1. PICK s \in Objects : SetSaveOnExit(s)
    BY <1>7
  <2>2. PICK flag \in plan.flags : keep' = [keep EXCEPT ![s] = flag]
    BY <2>1 DEF SetSaveOnExit
  <2>3. keep' \in [Objects -> BOOLEAN]
    BY <1>3, <1>4, <2>2, Zenon DEF ObjectTypes
  <2>4. ObjectTypes'
    BY <1>3, <2>1, <2>3 DEF SetSaveOnExit, ObjectTypes, hashVars, listVars
  <2> QED
    BY <1>2, <2>4 DEF TypeInv
<1>8. CASE \E s \in Objects : Destroy(s) \/ Reap(s)
  <2>1. 0 \in Versions
    BY Numbers DEF Versions
  <2>2. PICK s \in Objects : Destroy(s) \/ Reap(s)
    BY <1>8
  <2>3. /\ version' = [version EXCEPT ![s] = 0] /\ changes' = changes
        /\ clean_deleted' = clean_deleted /\ dirty_deleted' \subseteq dirty_deleted \cup {s}
    BY <2>2 DEF Destroy, Reap, Forget, hashVars
  <2>4. life' \in [Objects -> {"none", "live", "orphan"}]
    BY <1>3, <2>2 DEF Destroy, Reap, Forget, ObjectTypes
  <2>5. dirty' \in [Objects -> BOOLEAN] /\ keep' \in [Objects -> BOOLEAN]
    BY <1>3, <2>2 DEF Destroy, Reap, Forget, ObjectTypes
  <2>6. version' \in [Things -> Versions]
    BY <1>3, <2>1, <2>3 DEF ObjectTypes
  <2>7. ObjectTypes'
    BY <1>3, <2>3, <2>4, <2>5, <2>6 DEF ObjectTypes, listVars
  <2> QED
    BY <1>2, <2>7 DEF TypeInv
<1>9. CASE \E g \in plan.others : ChangeOther(g)
  <2>1. ObjectTypes'
    BY <1>3, <1>4, <1>5, <1>9 DEF ChangeOther, ObjectTypes, hashVars, listVars
  <2> QED
    BY <1>2, <2>1 DEF TypeInv
<1> QED
  BY <1>6, <1>7, <1>8, <1>9 DEF Game

LEMMA PlayFullTypes ==
  TypeInv /\ (BeginFull \/ WriteFile \/ FailFull \/ BeginSwitch) => TypeInv'
<1> SUFFICES ASSUME TypeInv, BeginFull \/ WriteFile \/ FailFull \/ BeginSwitch PROVE TypeInv'
  OBVIOUS
<1> USE DEF TypeInv
<1>5. Opened'
  BY DEF BeginFull, WriteFile, FailFull, BeginSwitch, Opened
<1>1. CASE BeginFull
  <2>1. ObjectTypes'
    BY <1>1, ObjectSame DEF BeginFull
  <2>2. RoundTypes'
    BY <1>1 DEF BeginFull, RoundTypes, Phases, countVars
  <2>3. QueueType'
    BY <1>1, StepsAre DEF BeginFull, QueueType
  <2>4. DiskTypes'
    BY <1>1, NoContents DEF BeginFull, DiskTypes, Contents, Extensions
  <2>5. PictureTypes'
    BY <1>1, PictureOf DEF BeginFull, PictureTypes
  <2> QED
    BY <1>5, <2>1, <2>2, <2>3, <2>4, <2>5
<1>2. CASE WriteFile
  <2> DEFINE written == {t \in Present : Home[t] = Head(queue)}
             lines == [t \in written |-> version[t]]
             f == World(Head(queue))
  <2>1. queue \in Seq(FileSet) /\ queue # <<>>
    BY <1>2 DEF WriteFile, QueueType
  <2>2. Head(queue) \in FileSet /\ Tail(queue) \in Seq(FileSet)
    BY <2>1
  <2>3. written \in SUBSET Things
    BY DEF Present, Live, Things
  <2>4. lines \in Pictures
    BY <2>3, PictureOf
  <2>5. disk' = [disk EXCEPT ![f].ndt = lines]
    BY <1>2 DEF WriteFile
  <2>6. dirty' = [s \in Objects |-> dirty[s] /\ s \notin written]
    BY <1>2 DEF WriteFile
  <2>7. f \in FileNames /\ f[1] = "world"
    BY <2>2, Names
  <2> HIDE DEF lines, f, written
  <2>8. DiskTypes'
    BY <2>4, <2>5, <2>7 DEF DiskTypes, Contents, Extensions
  <2>9. dirty' \in [Objects -> BOOLEAN]
    BY <2>6
  <2>10. ObjectTypes'
    BY <1>2, <2>9 DEF WriteFile, ObjectTypes, hashVars, listVars
  <2>11. RoundTypes'
    BY <1>2 DEF WriteFile, RoundTypes, countVars
  <2>12. QueueType'
    BY <1>2, <2>2 DEF WriteFile, QueueType
  <2> QED
    BY <1>2, <1>5, <2>8, <2>10, <2>11, <2>12, PictureSame DEF WriteFile
<1>3. CASE FailFull
  <2>1. ObjectTypes' /\ DiskTypes'
    BY <1>3, ObjectSame, DiskSame DEF FailFull
  <2>2. RoundTypes'
    BY <1>3 DEF FailFull, RoundTypes, Phases, countVars
  <2>3. QueueType'
    BY <1>3 DEF FailFull, QueueType
  <2> QED
    BY <1>3, <1>5, <2>1, <2>2, <2>3 DEF FailFull, PictureTypes
<1>4. CASE BeginSwitch
  <2>1. ObjectTypes' /\ DiskTypes' /\ PictureTypes'
    BY <1>4, ObjectSame, DiskSame, PictureSame DEF BeginSwitch
  <2>2. RoundTypes'
    BY <1>4 DEF BeginSwitch, RoundTypes, Phases, countVars
  <2>3. QueueType'
    BY <1>4, StepsAre DEF BeginSwitch, QueueType
  <2> QED
    BY <1>5, <2>1, <2>2, <2>3
<1> QED
  BY <1>1, <1>2, <1>3, <1>4

\* One operation is taken from the queue and performed.
LEMMA HeadTypes ==
  TypeInv /\ phase # "writing" /\ queue # <<>> =>
    Head(queue) \in Steps /\ Tail(queue) \in Seq(Steps)
BY DEF TypeInv, QueueType

LEMMA CommitTypes ==
  TypeInv /\ (SwitchFile \/ BeginRetire \/ RetireNext \/ RetireFile \/ FinishFull) => TypeInv'
<1> SUFFICES ASSUME TypeInv, SwitchFile \/ BeginRetire \/ RetireNext \/ RetireFile \/ FinishFull
             PROVE TypeInv'
  OBVIOUS
<1> USE DEF TypeInv
<1>6. Opened'
  BY DEF SwitchFile, BeginRetire, RetireNext, RetireFile, FinishFull, Opened
<1>1. CASE SwitchFile
  <2>1. phase \in {"switching", "trailing"} /\ phase' \in {"switching", "trailing"} /\ queue' = Tail(queue)
    BY <1>1 DEF SwitchFile
  <2>2. Head(queue) \in Steps /\ Tail(queue) \in Seq(Steps)
    BY <1>1, <2>1, HeadTypes DEF SwitchFile
  <2>3. DiskTypes'
    BY <1>1, <2>2, Performs DEF SwitchFile
  <2>4. ObjectTypes' /\ PictureTypes'
    BY <1>1, ObjectSame, PictureSame DEF SwitchFile
  <2>5. RoundTypes'
    BY <1>1, <2>1 DEF SwitchFile, RoundTypes, Phases, countVars
  <2>6. QueueType'
    BY <2>1, <2>2 DEF QueueType
  <2> QED
    BY <1>6, <2>3, <2>4, <2>5, <2>6
<1>2. CASE BeginRetire
  <2>1. ObjectTypes' /\ DiskTypes' /\ PictureTypes'
    BY <1>2, ObjectSame, DiskSame, PictureSame DEF BeginRetire
  <2>2. RoundTypes'
    BY <1>2, Numbers DEF BeginRetire, RoundTypes, Phases, countVars
  <2>3. QueueType'
    BY <1>2 DEF BeginRetire, QueueType
  <2> QED
    BY <1>6, <2>1, <2>2, <2>3
<1>3. CASE RetireNext
  <2>1. ObjectTypes' /\ DiskTypes' /\ PictureTypes'
    BY <1>3, ObjectSame, DiskSame, PictureSame DEF RetireNext
  <2>2. save_index \in 1..MaxIncrementals
    BY <1>3, Numbers DEF RetireNext, KnownIncremental, RoundTypes
  <2>3. RoundTypes'
    BY <1>3, <2>2, Numbers DEF RetireNext, RoundTypes, countVars
  <2>4. QueueType'
    BY <1>3, <2>2, StepsAre DEF RetireNext, QueueType
  <2> QED
    BY <1>6, <2>1, <2>3, <2>4
<1>4. CASE RetireFile
  <2>1. phase = "retiring" /\ phase' = "retiring" /\ queue' = Tail(queue)
    BY <1>4 DEF RetireFile
  <2>2. Head(queue) \in Steps /\ Tail(queue) \in Seq(Steps)
    BY <1>4, <2>1, HeadTypes DEF RetireFile
  <2>3. DiskTypes'
    BY <1>4, <2>2, Performs DEF RetireFile
  <2>4. ObjectTypes' /\ PictureTypes'
    BY <1>4, ObjectSame, PictureSame DEF RetireFile
  <2>5. RoundTypes'
    BY <1>4, <2>1 DEF RetireFile, RoundTypes, countVars
  <2>6. QueueType'
    BY <2>1, <2>2 DEF QueueType
  <2> QED
    BY <1>6, <2>3, <2>4, <2>5, <2>6
<1>5. CASE FinishFull
  <2>1. ObjectTypes' /\ DiskTypes' /\ PictureTypes'
    BY <1>5, DiskSame DEF FinishFull, ObjectTypes, PictureTypes, objectVars, listVars
  <2>2. incremental_saves_disabled' \in BOOLEAN
    BY <1>5 DEF FinishFull
  <2>3. RoundTypes'
    BY <1>5, <2>2, Numbers DEF FinishFull, RoundTypes, Phases
  <2>4. QueueType'
    BY <1>5 DEF FinishFull, QueueType
  <2> QED
    BY <1>6, <2>1, <2>3, <2>4
<1> QED
  BY <1>1, <1>2, <1>3, <1>4, <1>5

LEMMA RecordTypes ==
  TypeInv /\ (BeginIncremental \/ (\E s \in Objects : Record(s)) \/ WriteIndex) => TypeInv'
<1> SUFFICES ASSUME TypeInv, BeginIncremental \/ (\E s \in Objects : Record(s)) \/ WriteIndex
             PROVE TypeInv'
  OBVIOUS
<1> USE DEF TypeInv
<1>1. CASE BeginIncremental
  <2> DEFINE i == incremental_save_count + 1
  <2>1. i \in 1..MaxIncrementals
    BY <1>1, Numbers DEF BeginIncremental, RoundTypes
  <2>2. disk' = [disk EXCEPT ![Data(i)].ndt = Nothing, ![Index(i)].ndt = Blank]
    BY <1>1 DEF BeginIncremental
  <2>3. save_index' = i
    BY <1>1 DEF BeginIncremental
  <2>4. RoundTypes'
    BY <1>1, <2>1, <2>3, Numbers DEF BeginIncremental, RoundTypes, Phases, countVars
  <2> HIDE DEF i
  <2>5. Data(i) \in FileNames /\ Index(i) \in FileNames /\ Data(i) # Index(i)
        /\ Data(i)[1] = "data" /\ Index(i)[1] = "index"
    BY <2>1, Names
  <2>10. Opened'
    BY <2>2, <2>3, <2>5, NoContents DEF DiskTypes, Opened, Extensions
  <2>6. DiskTypes'
    BY <2>2, <2>5, NoContents DEF DiskTypes, Contents, Extensions
  <2>7. ObjectTypes'
    BY <1>1 DEF BeginIncremental, ObjectTypes, objectVars, hashVars
  <2>8. QueueType'
    BY <1>1 DEF BeginIncremental, QueueType
  <2>9. PictureTypes'
    BY <1>1, PictureOf DEF BeginIncremental, PictureTypes
  <2> QED
    BY <2>4, <2>6, <2>7, <2>8, <2>9, <2>10
<1>2. CASE \E s \in Objects : Record(s)
  <2>1. PICK s \in Objects : Record(s)
    BY <1>2
  <2>2. ObjectTypes'
    BY <2>1 DEF Record, ObjectTypes, hashVars
  <2>3. RoundTypes' /\ QueueType' /\ PictureTypes'
    BY <2>1, RoundSame, PictureSame DEF Record
  <2>4. CASE disk' = disk
    BY <2>1, <2>2, <2>3, <2>4, DiskSame DEF Opened, Record, saveVars
  <2>5. CASE disk' # disk
    <3> DEFINE f == Data(save_index)
               lines == disk[f].ndt
               more == [t \in DOMAIN lines \cup {s} |-> IF t = s THEN version[s] ELSE lines[t]]
    <3>1. disk' = [disk EXCEPT ![f].ndt = more]
      BY <2>1, <2>5 DEF Record
    <3>2. save_index \in 1..MaxIncrementals
      BY <2>1, Numbers DEF Record, RoundTypes
    <3>3. f \in FileNames /\ f[1] = "data"
      BY <3>2, Names
    <3>4. more \in Pictures
      <4>1. lines \in Pictures
        BY <2>1, <3>3 DEF DiskTypes, Contents, Extensions, Opened, Record
      <4>2. PICK T \in SUBSET Things : lines \in [T -> Versions]
        BY <4>1 DEF Pictures
      <4>3. T \cup {s} \in SUBSET Things /\ version[s] \in Versions
        BY DEF Things, ObjectTypes
      <4>4. more \in [T \cup {s} -> Versions]
        BY <4>2, <4>3
      <4>5. \A U \in SUBSET Things : \A w : w \in [U -> Versions] => w \in Pictures
        BY Zenon DEF Pictures
      <4> HIDE DEF more, lines
      <4> QED
        BY <4>3, <4>4, <4>5
    <3> HIDE DEF f, more
    <3>5. DiskTypes' /\ disk'[f].ndt = more
      BY <3>1, <3>3, <3>4 DEF DiskTypes, Contents, Extensions
    <3>6. save_index' = save_index
      BY <2>1 DEF Record, saveVars
    <3> QED
      BY <2>2, <2>3, <3>4, <3>5, <3>6, NoContents DEF Opened, f
  <2> QED
    BY <2>4, <2>5
<1>3. CASE WriteIndex
  <2> DEFINE lists == [modified |-> modified_serials, deleted |-> deleted_serials \cup dirty_deleted]
             f == Index(save_index)
  <2>1. save_index \in 1..MaxIncrementals
    BY <1>3, Numbers DEF WriteIndex, RoundTypes
  <2>2. disk' = [disk EXCEPT ![f].ndt = lists]
    BY <1>3 DEF WriteIndex
  <2>3. lists \in Indexes
    BY DEF ObjectTypes, Indexes
  <2>4. f \in FileNames /\ f[1] = "index"
    BY <2>1, Names
  <2>5. ObjectTypes'
    BY <1>3 DEF WriteIndex, ObjectTypes, objectVars
  <2>6. RoundTypes'
    BY <1>3 DEF WriteIndex, RoundTypes, Phases, countVars
  <2>7. QueueType'
    BY <1>3, <2>1, StepsAre DEF WriteIndex, QueueType
  <2> HIDE DEF lists, f
  <2>8. DiskTypes'
    BY <2>2, <2>3, <2>4 DEF DiskTypes, Contents, Extensions
  <2> QED
    BY <1>3, <2>5, <2>6, <2>7, <2>8, PictureSame DEF WriteIndex, Opened
<1> QED
  BY <1>1, <1>2, <1>3

LEMMA EndTypes ==
  TypeInv /\ (CommitFile \/ FailIncremental \/ FinishIncremental) => TypeInv'
<1> SUFFICES ASSUME TypeInv, CommitFile \/ FailIncremental \/ FinishIncremental PROVE TypeInv'
  OBVIOUS
<1> USE DEF TypeInv
<1>1. Opened'
  BY DEF CommitFile, FailIncremental, FinishIncremental, Opened
<1>2. CASE CommitFile
  <2>1. phase = "committing" /\ phase' = "committing" /\ queue' = Tail(queue)
    BY <1>2 DEF CommitFile
  <2>2. Head(queue) \in Steps /\ Tail(queue) \in Seq(Steps)
    BY <1>2, <2>1, HeadTypes DEF CommitFile
  <2>3. DiskTypes'
    BY <1>2, <2>2, Performs DEF CommitFile
  <2>4. ObjectTypes' /\ PictureTypes'
    BY <1>2, ObjectSame, PictureSame DEF CommitFile
  <2>5. RoundTypes'
    BY <1>2, <2>1 DEF CommitFile, RoundTypes, countVars
  <2>6. QueueType'
    BY <2>1, <2>2 DEF QueueType
  <2> QED
    BY <1>1, <2>3, <2>4, <2>5, <2>6
<1>3. CASE FailIncremental \/ FinishIncremental
  <2>1. ObjectTypes' /\ DiskTypes' /\ PictureTypes'
    BY <1>3, ObjectSame, DiskSame DEF FailIncremental, FinishIncremental, PictureTypes
  <2>2. incremental_saves_disabled' \in BOOLEAN
    BY <1>3 DEF FailIncremental, FinishIncremental, RoundTypes
  <2>3. incremental_save_count' \in 0..MaxIncrementals /\ save_index' = 0 /\ phase' = "running"
    BY <1>3, Numbers DEF FailIncremental, FinishIncremental, RoundTypes
  <2>4. RoundTypes'
    BY <2>2, <2>3, Numbers DEF RoundTypes, Phases
  <2>5. QueueType'
    BY <1>3 DEF FailIncremental, FinishIncremental, QueueType
  <2> QED
    BY <1>1, <2>1, <2>4, <2>5
<1> QED
  BY <1>2, <1>3

LEMMA RestartTypes ==
  TypeInv /\ (Stop \/ Refuse \/ Load) => TypeInv'
<1> SUFFICES ASSUME TypeInv, Stop \/ Refuse \/ Load PROVE TypeInv'
  OBVIOUS
<1> USE DEF TypeInv
<1>1. Opened' /\ DiskTypes'
  BY DiskSame DEF Stop, Refuse, Load, Opened
<1>2. CASE Stop
  <2>1. 0 \in Versions
    BY Numbers DEF Versions
  <2>2. ObjectTypes'
    BY <1>2, <2>1 DEF Stop, ObjectTypes
  <2>3. incremental_saves_disabled' \in BOOLEAN
    BY <1>2 DEF Stop
  <2>4. RoundTypes'
    BY <1>2, <2>3, Numbers DEF Stop, RoundTypes, Phases
  <2>5. QueueType'
    <3>1. queue' = <<>> /\ phase' = "down"
      BY <1>2 DEF Stop
    <3> QED
      BY <3>1 DEF QueueType
  <2> QED
    BY <1>1, <1>2, <2>2, <2>4, <2>5, PictureSame DEF Stop
<1>3. CASE Refuse
  <2>1. ObjectTypes' /\ PictureTypes'
    BY <1>3, ObjectSame, PictureSame DEF Refuse
  <2>2. RoundTypes'
    BY <1>3 DEF Refuse, RoundTypes, Phases, countVars, saveVars
  <2>3. QueueType'
    BY <1>3 DEF Refuse, QueueType, saveVars
  <2> QED
    BY <1>1, <2>1, <2>2, <2>3
<1>4. CASE Load
  <2> DEFINE world == Recovered(Things)
  <2>1. world \in Pictures /\ \A t \in DOMAIN world : world[t] \in Versions
    BY RecoveredTypes
  <2>2. 0 \in Versions
    BY Numbers DEF Versions
  <2>3. /\ life' = [s \in Objects |-> IF s \in DOMAIN world THEN "live" ELSE "none"]
        /\ version' = [t \in Things |-> IF t \in DOMAIN world THEN world[t] ELSE 0]
        /\ clean_deleted' \subseteq Objects
        /\ saved' = world /\ saving' = world
    BY <1>4 DEF Load
  <2> HIDE DEF world
  <2>4. ObjectTypes'
    BY <1>4, <2>1, <2>2, <2>3 DEF Load, ObjectTypes, listVars
  <2>5. RoundTypes'
    BY <1>4, IndexedCounts, Numbers DEF Load, RoundTypes, Phases, saveVars
  <2>6. QueueType'
    BY <1>4 DEF Load, QueueType, saveVars
  <2> QED
    BY <1>1, <2>1, <2>3, <2>4, <2>5, <2>6 DEF PictureTypes
<1> QED
  BY <1>2, <1>3, <1>4

LEMMA TypesKept == TypeInv /\ [Next]_vars => TypeInv'
<1> SUFFICES ASSUME TypeInv, [Next]_vars PROVE TypeInv'
  OBVIOUS
<1>1. CASE UNCHANGED vars
  <2>1. RoundTypes' /\ QueueType' /\ DiskTypes' /\ ObjectTypes' /\ PictureTypes'
    BY <1>1, RoundSame, DiskSame, ObjectSame, PictureSame DEF TypeInv, vars
  <2> QED
    BY <1>1, <2>1 DEF TypeInv, Opened, vars, saveVars
<1> QED
  BY <1>1, GameTypes, PlayFullTypes, CommitTypes, RecordTypes, EndTypes, RestartTypes
     DEF Next, FullSave, IncrementalSave

\* Whatever is saved, interrupted, loaded and saved again, the files hold worlds and
\* indexes, a save's loop counts only files there are, and no incremental save is
\* counted twice.
THEOREM TypeCorrect == Spec => []TypeOK
<1>1. Spec => []TypeInv
  BY TypesInitially, TypesKept, PTL DEF Spec
<1>2. TypeInv => TypeOK
  <2> SUFFICES ASSUME TypeInv PROVE TypeOK
    OBVIOUS
  <2>1. \A w \in Pictures : IsWorld(w)
    BY DEF Pictures, IsWorld
  <2>2. DOMAIN disk = FileNames
    BY DEF TypeInv, DiskTypes
  <2>3. \A f \in FileNames : \A e \in Extensions :
          Exists(f, e) => IF f[1] = "index" /\ e # "bak"
                          THEN disk[f][e] \in Indexes
                          ELSE IsWorld(disk[f][e])
    BY <2>1 DEF TypeInv, DiskTypes, Contents, Exists
  <2>4. IsWorld(saved) /\ IsWorld(saving)
    BY <2>1 DEF TypeInv, PictureTypes
  <2>5. queue \in Seq(IF phase = "writing" THEN FileSet ELSE Steps)
    BY DEF TypeInv, QueueType
  <2> QED
    BY <2>2, <2>3, <2>4, <2>5, Zenon DEF TypeInv, TypeOK, ObjectTypes, RoundTypes
<1> QED
  BY <1>1, <1>2, PTL

-----------------------------------------------------------------------------
(* When a restart goes on to read the same *)

LEMMA SameCount ==
  (\A i \in 1..MaxIncrementals : Exists(Index(i), "txt")' <=> Exists(Index(i), "txt"))
    => Indexed' = Indexed
<1> SUFFICES ASSUME \A i \in 1..MaxIncrementals : Exists(Index(i), "txt")' <=> Exists(Index(i), "txt")
             PROVE  Indexed' = Indexed
  OBVIOUS
<1>1. PICK n \in 0..MaxIncrementals : n = Indexed /\ Counts(n)
  BY IndexedCounts
<1>2. Counts(n)'
  BY <1>1, Numbers DEF Counts
<1>3. CountedOnce'
  BY CountsOnce, PTL
<1> QED
  BY <1>1, <1>2, <1>3 DEF CountedOnce

\* The files that are read of the things in T are the indexes, the data files that are
\* counted, and the homes.
SameFiles(T) ==
  /\ \A i \in 1..MaxIncrementals : disk'[Index(i)].txt = disk[Index(i)].txt
  /\ \A i \in 1..Indexed : disk'[Data(i)].txt = disk[Data(i)].txt
  /\ \A t \in T : disk'[World(Home[t])].txt = disk[World(Home[t])].txt

LEMMA SameRead ==
  ASSUME NEW T \in SUBSET Things, SameFiles(T)
  PROVE  /\ Indexed' = Indexed
         /\ \A t \in T : Copies(t)' = Copies(t) /\ (Copies(t) # {} => Stored(t)' = Stored(t))
         /\ Recovered(T)' = Recovered(T)
<1>1. Indexed' = Indexed
  BY SameCount DEF SameFiles, Exists
<1>2. \A i \in 1..Indexed, t \in T : Lists(i, t)' <=> Lists(i, t)
  BY IndexedCounts, Numbers DEF SameFiles, Lists
<1>3. \A t \in T : SaveIndex(t)' = SaveIndex(t)
  <2> SUFFICES ASSUME NEW t \in T PROVE SaveIndex(t)' = SaveIndex(t)
    OBVIOUS
  <2>1. CASE \A i \in 1..Indexed : ~Lists(i, t)
    BY <1>1, <1>2, <2>1 DEF SaveIndex
  <2>2. CASE \E i \in 1..Indexed : Lists(i, t)
    <3>1. PICK i \in 1..Indexed : Lists(i, t) /\ \A j \in (i + 1)..Indexed : ~Lists(j, t)
      BY <2>2, LastOne, IndexedCounts
    <3>2. SaveIndex(t) = IF t \in disk[Index(i)].txt.deleted THEN Deleted ELSE i
      BY <3>1, SaveIndexes DEF LastCounts
    <3>3. Lists(i, t)' /\ \A j \in (i + 1)..Indexed' : ~Lists(j, t)'
      BY <1>1, <1>2, <3>1, IndexedCounts, Numbers
    <3>4. LastCounts'
      BY SaveIndexes, PTL
    <3>5. SaveIndex(t)' = IF t \in disk'[Index(i)].txt.deleted THEN Deleted ELSE i
      BY <1>1, <3>1, <3>3, <3>4 DEF LastCounts
    <3>6. disk'[Index(i)].txt = disk[Index(i)].txt
      BY <3>1, IndexedCounts, Numbers DEF SameFiles
    <3> QED
      BY <3>2, <3>5, <3>6
  <2> QED
    BY <2>1, <2>2
<1>4. \A i \in 0..Indexed, t \in T : Source(i, t)' = Source(i, t)
  BY IndexedCounts, Numbers DEF SameFiles, Source, Exists
<1>5. \A t \in T : Copies(t)' = Copies(t)
  <2> SUFFICES ASSUME NEW t \in T PROVE Copies(t)' = Copies(t)
    OBVIOUS
  <2> QED
    BY <1>1, <1>3, <1>4 DEF Copies
<1>6. \A t \in T : Copies(t) # {} => Stored(t)' = Stored(t)
  <2> SUFFICES ASSUME NEW t \in T, Copies(t) # {} PROVE Stored(t)' = Stored(t)
    OBVIOUS
  <2> DEFINE i == CHOOSE j \in Copies(t) : TRUE
  <2>1. i \in Copies(t) /\ i' = i
    BY <1>5
  <2>2. i \in 0..Indexed
    BY <2>1 DEF Copies
  <2>3. Stored(t) = Source(i, t)[t] /\ Stored(t)' = (Source(i, t)[t])'
    BY DEF Stored
  <2> HIDE DEF i
  <2> QED
    BY <1>4, <2>1, <2>2, <2>3
<1>7. Recovered(T)' = Recovered(T)
  <2>1. Recovered(T) = [t \in {u \in T : Copies(u) # {}} |-> Stored(t)]
    BY DEF Recovered
  <2>2. Recovered(T)' = [t \in {u \in T : Copies(u)' # {}} |-> Stored(t)']
    BY DEF Recovered
  <2>3. {u \in T : Copies(u)' # {}} = {u \in T : Copies(u) # {}}
    BY <1>5
  <2> QED
    BY <1>6, <2>1, <2>2, <2>3
<1> QED
  BY <1>1, <1>5, <1>6, <1>7

-----------------------------------------------------------------------------
(* What is in memory, and what a restart would read *)

InMemory == {s \in Live : keep[s]}
Memory == IF phase \in {"down", "refused"} THEN NoFile ELSE [s \in InMemory |-> version[s]]
OnDisk == IF Refused THEN NoFile ELSE Recovered(Objects)

LEMMA Memories ==
  ASSUME ObjectTypes
  PROVE  /\ Part(Current, Objects) = [s \in InMemory |-> version[s]]
         /\ InMemory \in SUBSET Objects
         /\ [s \in InMemory |-> version[s]] \in [InMemory -> Versions]
<1>1. InMemory \in SUBSET Objects
  BY DEF InMemory, Live
<1>2. DOMAIN Current = Present /\ \A t \in Present : Current[t] = version[t]
  BY DEF Current
<1>3. Present \cap Objects = InMemory
  BY WorldAssumption DEF Present, InMemory, Live
<1>4. Part(Current, Objects) = [s \in InMemory |-> version[s]]
  BY <1>2, <1>3 DEF Part
<1>5. \A s \in InMemory : version[s] \in Versions
  BY <1>1 DEF ObjectTypes, Things
<1> QED
  BY <1>1, <1>4, <1>5

LEMMA InMemoryIsFile ==
  ASSUME ObjectTypes PROVE [s \in InMemory |-> version[s]] # NoFile
<1>1. InMemory \in SUBSET Things /\ [s \in InMemory |-> version[s]] \in [InMemory -> Versions]
  BY Memories DEF Things
<1>2. [s \in InMemory |-> version[s]] \in Pictures
  BY <1>1, Zenon DEF Pictures
<1> QED
  BY <1>2, NoContents

\* What each step of the abstract specification is, of what is in memory and on disk.
Plays == Memory # NoFile /\ Memory' # NoFile /\ OnDisk' = OnDisk
Saves == Memory # NoFile /\ Memory' = Memory /\ OnDisk' \in {NoFile, Memory}
Stops == Memory # NoFile /\ Memory' = NoFile /\ OnDisk' = OnDisk
Restarts == Memory = NoFile /\ OnDisk # NoFile /\ Memory' = OnDisk /\ OnDisk' = OnDisk
Stutters == Memory' = Memory /\ OnDisk' = OnDisk

AbstractStep == Plays \/ Saves \/ Stops \/ Restarts \/ Stutters

LEMMA Abstracts ==
  TypeInv /\ TypeInv' /\ AbstractStep =>
    [Store!Next]_<<IF phase \in {"down", "refused"} THEN NoFile ELSE Part(Current, Objects),
                   IF Refused THEN NoFile ELSE Recovered(Objects)>>
<1> SUFFICES ASSUME TypeInv, TypeInv', AbstractStep
             PROVE  [Store!Next]_<<IF phase \in {"down", "refused"} THEN NoFile ELSE Part(Current, Objects),
                                   IF Refused THEN NoFile ELSE Recovered(Objects)>>
  OBVIOUS
<1> DEFINE M == IF phase \in {"down", "refused"} THEN NoFile ELSE Part(Current, Objects)
           D == IF Refused THEN NoFile ELSE Recovered(Objects)
           W == UNION {[T -> Versions] : T \in SUBSET Objects}
<1>1. M = Memory /\ D = OnDisk
  BY Memories DEF Memory, OnDisk, TypeInv
<1>2. M' = Memory' /\ D' = OnDisk'
  <2>1. (Part(Current, Objects) = [s \in InMemory |-> version[s]])'
    BY Memories, PTL DEF TypeInv
  <2> QED
    BY <2>1 DEF Memory, OnDisk
<1>3. Memory' # NoFile => M' \in W
  <2>1. (InMemory \in SUBSET Objects /\ [s \in InMemory |-> version[s]] \in [InMemory -> Versions])'
    BY Memories, PTL DEF TypeInv
  <2>2. \A T \in SUBSET Objects : \A w : w \in [T -> Versions] => w \in W
    BY Zenon
  <2>3. Memory' # NoFile => Memory' = [s \in InMemory |-> version[s]]'
    BY DEF Memory
  <2> HIDE DEF W, M
  <2> QED
    BY <1>2, <2>1, <2>2, <2>3
<1> QED
  BY <1>1, <1>2, <1>3 DEF AbstractStep, Plays, Saves, Stops, Restarts, Stutters, Store!Next, Store!Play, Store!Save, Store!Hold, Store!Stop, Store!Restart

\* The game, and steps of a save that nobody would notice after a stop.
LEMMA GamePlays ==
  TypeInv /\ TypeInv' /\ Game => AbstractStep
<1> SUFFICES ASSUME TypeInv, TypeInv', Game PROVE Plays
  BY DEF AbstractStep
<1>1. phase = "running" /\ phase' = phase /\ disk' = disk
  BY DEF Game, Create, Change, SetSaveOnExit, Destroy, Reap, ChangeOther, Unsaving
<1>2. OnDisk' = OnDisk
  <2>1. SameFiles(Objects) /\ (Refused' <=> Refused)
    BY <1>1 DEF SameFiles, Refused, Exists
  <2> QED
    BY <2>1, SameRead DEF OnDisk, Things
<1>3. Memory # NoFile
  BY <1>1, InMemoryIsFile DEF Memory, TypeInv
<1>4. Memory' # NoFile
  <2>1. ([s \in InMemory |-> version[s]] # NoFile)'
    BY InMemoryIsFile, PTL DEF TypeInv
  <2> QED
    BY <1>1, <2>1 DEF Memory
<1> QED
  BY <1>2, <1>3, <1>4 DEF Plays

LEMMA StopStops ==
  TypeInv /\ Stop => AbstractStep
<1> SUFFICES ASSUME TypeInv, Stop PROVE Stops
  BY DEF AbstractStep
<1>1. disk' = disk /\ phase' = "down" /\ phase \notin {"down", "refused"}
  BY WorldAssumption DEF Stop, TypeInv, ObjectTypes, PlanType
<1>2. SameFiles(Objects) /\ (Refused' <=> Refused)
  BY <1>1 DEF SameFiles, Refused, Exists
<1>3. OnDisk' = OnDisk
  BY <1>2, SameRead DEF OnDisk, Things
<1>4. Memory # NoFile
  BY <1>1, InMemoryIsFile DEF Memory, TypeInv
<1> QED
  BY <1>1, <1>3, <1>4 DEF Stops, Memory

\* What is in memory and in the files is the same: a step of the save.
Elsewhere ==
  /\ phase \notin {"down", "refused"} /\ phase' \notin {"down", "refused"}
  /\ UNCHANGED <<life, version, keep>>

LEMMA ElsewhereStutters ==
  Elsewhere /\ OnDisk' = OnDisk => AbstractStep
<1> SUFFICES ASSUME Elsewhere, OnDisk' = OnDisk PROVE Memory' = Memory
  BY DEF AbstractStep, Stutters
<1> QED
  BY DEF Elsewhere, Memory, InMemory, Live

LEMMA RestStutters ==
  Refuse \/ UNCHANGED vars => AbstractStep
<1> SUFFICES ASSUME Refuse \/ UNCHANGED vars PROVE Memory' = Memory /\ OnDisk' = OnDisk
  BY DEF AbstractStep, Stutters
<1>1. disk' = disk /\ UNCHANGED objectVars
  BY DEF Refuse, vars
<1>2. Memory' = Memory
  BY <1>1 DEF Refuse, vars, Memory, InMemory, Live, objectVars
<1>3. SameFiles(Objects) /\ (Refused' <=> Refused)
  BY <1>1 DEF SameFiles, Refused, Exists
<1> QED
  BY <1>2, <1>3, SameRead DEF OnDisk, Things

LEMMA LoadRestarts ==
  TypeInv /\ (\A s \in Objects : keep[s]) /\ Load => AbstractStep
<1> SUFFICES ASSUME TypeInv, \A s \in Objects : keep[s], Load PROVE Restarts
  BY DEF AbstractStep
<1> DEFINE world == Recovered(Things)
<1>1. /\ phase = "down" /\ phase' = "running" /\ ~Refused /\ disk' = disk /\ keep' = keep
      /\ life' = [s \in Objects |-> IF s \in DOMAIN world THEN "live" ELSE "none"]
      /\ version' = [t \in Things |-> IF t \in DOMAIN world THEN world[t] ELSE 0]
  BY DEF Load
<1>2. world = [t \in {u \in Things : Copies(u) # {}} |-> Stored(t)]
  BY DEF Recovered
<1>3. OnDisk = [t \in {u \in Objects : Copies(u) # {}} |-> Stored(t)] /\ OnDisk # NoFile
  <2>1. OnDisk = Recovered(Objects) /\ Recovered(Objects) \in Pictures
    BY <1>1, RecoveredTypes DEF OnDisk, TypeInv, Things
  <2> QED
    BY <2>1, NoContents DEF Recovered
<1>4. InMemory' = {s \in Objects : Copies(s) # {}}
  BY <1>1, <1>2 DEF InMemory, Live, Things
<1>5. \A s \in Objects : Copies(s) # {} => version'[s] = Stored(s)
  BY <1>1, <1>2 DEF Things
<1>6. Memory' = [s \in {u \in Objects : Copies(u) # {}} |-> version'[s]]
  BY <1>1, <1>4 DEF Memory
<1>7. Memory' = OnDisk
  BY <1>3, <1>5, <1>6
<1>8. SameFiles(Objects) /\ (Refused' <=> Refused)
  BY <1>1 DEF SameFiles, Refused, Exists
<1>9. OnDisk' = OnDisk
  BY <1>8, SameRead DEF OnDisk, Things
<1> QED
  BY <1>1, <1>3, <1>7, <1>9 DEF Restarts, Memory

-----------------------------------------------------------------------------
(* Dirty flags *)

\* A restart would find s as it is.
AsOnDisk(s) == IF life[s] = "live" THEN Copies(s) # {} /\ Stored(s) = version[s] ELSE Copies(s) = {}

Clean(s) == ~dirty[s] /\ s \notin dirty_deleted

\* The objects of a server that runs, of which kind its saves may be.
Flags ==
  /\ phase = "running" /\ ~incremental_saves_disabled /\ ~Refused =>
       \A s \in Objects : Clean(s) => AsOnDisk(s)
  /\ \A s \in Objects : life[s] = "live" /\ ~keep[s] => dirty[s]
  /\ \A s \in dirty_deleted : life[s] = "none"
  /\ phase \in {"down", "refused"} =>
       dirty_deleted = {} /\ \A s \in Objects : ~dirty[s] /\ keep[s] /\ life[s] = "none"

LEMMA GameFlags == TypeInv /\ Flags /\ Game => Flags'
<1> SUFFICES ASSUME TypeInv, Flags, Game PROVE Flags'
  OBVIOUS
<1>1. /\ phase = "running" /\ phase' = "running" /\ disk' = disk
      /\ incremental_saves_disabled' = incremental_saves_disabled
  BY DEF Game, Create, Change, SetSaveOnExit, Destroy, Reap, ChangeOther, Unsaving, countVars
<1>2. SameFiles(Objects) /\ (Refused' <=> Refused)
  BY <1>1 DEF SameFiles, Refused, Exists
<1>3. \A s \in Objects : Copies(s)' = Copies(s) /\ (Copies(s) # {} => Stored(s)' = Stored(s))
  BY <1>2, SameRead DEF Things
<1>4. \A s \in Objects : \/ life'[s] = life[s] /\ version'[s] = version[s] /\ keep'[s] = keep[s]
                            /\ dirty'[s] = dirty[s] /\ (s \in dirty_deleted' <=> s \in dirty_deleted)
                         \/ dirty'[s] /\ s \notin dirty_deleted'
                         \/ ~dirty'[s] /\ s \in dirty_deleted' /\ life'[s] = "none"
  <2> SUFFICES ASSUME NEW s \in Objects
               PROVE  \/ life'[s] = life[s] /\ version'[s] = version[s] /\ keep'[s] = keep[s]
                         /\ dirty'[s] = dirty[s] /\ (s \in dirty_deleted' <=> s \in dirty_deleted)
                      \/ dirty'[s] /\ s \notin dirty_deleted'
                      \/ ~dirty'[s] /\ s \in dirty_deleted' /\ life'[s] = "none"
    OBVIOUS
  <2>1. s \in Things /\ s \notin Others
    BY WorldAssumption DEF Things
  <2>2. CASE \E g \in plan.others : ChangeOther(g)
    <3>1. plan.others \subseteq Others
      BY WorldAssumption DEF TypeInv, ObjectTypes, PlanType
    <3> QED
      BY <2>1, <2>2, <3>1 DEF ChangeOther, TypeInv, ObjectTypes, hashVars
  <2>3. CASE \E t \in Objects : Create(t)
    BY <2>1, <2>3 DEF Create, Unused, TypeInv, ObjectTypes, hashVars
  <2>4. CASE \E t \in Objects : Change(t)
    BY <2>1, <2>4 DEF Change, TypeInv, ObjectTypes, hashVars, Flags
  <2>5. CASE \E t \in Objects : SetSaveOnExit(t)
    BY <2>1, <2>5 DEF SetSaveOnExit, TypeInv, ObjectTypes, hashVars, Flags
  <2>6. CASE \E t \in Objects : Destroy(t)
    BY <2>1, <2>6 DEF Destroy, TypeInv, ObjectTypes, hashVars, Flags
  <2>7. CASE \E t \in Objects : Reap(t)
    BY <2>1, <2>7 DEF Reap, Forget, TypeInv, ObjectTypes
  <2> QED
    BY <2>2, <2>3, <2>4, <2>5, <2>6, <2>7 DEF Game
<1>5. dirty_deleted' \subseteq Objects
  BY GameTypes DEF TypeInv, ObjectTypes
<1> QED
  BY <1>1, <1>2, <1>3, <1>4, <1>5 DEF Flags, AsOnDisk, Clean, TypeInv, ObjectTypes

-----------------------------------------------------------------------------
(* Full saves *)

\* What the queue still has to do of q after its first k steps.
Left(q, k) == Len(queue) = Len(q) - k /\ \A i \in 1..Len(queue) : queue[i] = q[k + i]

LEMMA LeftTail ==
  ASSUME NEW S, NEW q \in Seq(S), NEW k \in 0..Len(q), Left(q, k), queue \in Seq(S), queue # <<>>,
         queue' = Tail(queue)
  PROVE  k + 1 \in 1..Len(q) /\ Head(queue) = q[k + 1] /\ Left(q, k + 1)'
<1>1. Len(queue) \in 1..Len(q) /\ Len(Tail(queue)) = Len(queue) - 1
      /\ \A i \in 1..Len(Tail(queue)) : Tail(queue)[i] = queue[i + 1]
  BY DEF Left
<1>2. Head(queue) = queue[1] /\ k + 1 \in 1..Len(q)
  BY <1>1 DEF Left
<1>3. Head(queue) = q[k + 1]
  BY <1>1, <1>2 DEF Left
<1>4. Len(queue') = Len(q) - (k + 1)
  BY <1>1 DEF Left
<1>5. \A i \in 1..Len(queue') : queue'[i] = q[(k + 1) + i]
  <2> SUFFICES ASSUME NEW i \in 1..Len(queue') PROVE queue'[i] = q[(k + 1) + i]
    OBVIOUS
  <2>1. i + 1 \in 1..Len(queue) /\ queue'[i] = queue[i + 1]
    BY <1>1
  <2>2. queue[i + 1] = q[k + (i + 1)] /\ k + (i + 1) = (k + 1) + i
    BY <2>1 DEF Left
  <2> QED
    BY <2>1, <2>2
<1> QED
  BY <1>2, <1>3, <1>4, <1>5 DEF Left

Written(g) == [t \in {u \in Present : Home[u] = g} |-> version[t]]

New(j) == disk[World(Files[j])].ndt
InPlace(j) == disk[World(Files[j])].txt

\* The save has written the first k files.
Writing(k) ==
  /\ Left(Files, k)
  /\ \A j \in 1..Len(Files) : New(j) # NoFile /\ (j <= k => New(j) = Written(Files[j]))

\* It has done the first k steps of the switch.
Switching(k) ==
  /\ Left(Switch, k)
  /\ \A j \in 1..Len(Files) : IF 2 * j <= k THEN New(j) = NoFile /\ InPlace(j) = Written(Files[j])
                              ELSE New(j) = Written(Files[j])
  /\ phase = "switching" <=> \E j \in 1..Len(Files) : Files[j] = "storage" /\ k < 2 * j

InSwitch == phase \in {"switching", "trailing"} => \E k \in 0..Len(Switch) : Switching(k)

\* All files of objects are those of the save.
Switched == \A s \in Objects : disk[World(Home[s])].txt = Written(Home[s])

NoIncrementals ==
  \A i \in 1..MaxIncrementals, e \in Extensions : disk[Data(i)][e] = NoFile /\ disk[Index(i)][e] = NoFile

NoIndexes == \A i \in 1..MaxIncrementals : ~Exists(Index(i), "txt")

LEMMA NoneIndexed == NoIncrementals => NoIndexes
BY DEF NoIncrementals, NoIndexes, Exists, Extensions

\* How far a full save has got, whatever incremental saves there are.
FullCore ==
  /\ phase = "writing" => \E k \in 0..Len(Files) : Writing(k)
  /\ InSwitch
  /\ phase = "retiring" => ~Refused /\ Switched

FullInv ==
  /\ NoIncrementals
  /\ FullCore
  /\ phase \notin {"recording", "committing"}
  /\ phase = "retiring" => queue = <<>> /\ save_index = 1

\* Without indexes in place a restart reads each thing from its home.
LEMMA ReadsHomes ==
  NoIndexes =>
    /\ Indexed = 0
    /\ \A t \in Things : Copies(t) = IF t \in DOMAIN Source(0, t) THEN {0} ELSE {}
    /\ \A t \in Things : t \in DOMAIN Source(0, t) => Stored(t) = Source(0, t)[t]
<1> SUFFICES ASSUME NoIndexes
             PROVE  /\ Indexed = 0
                    /\ \A t \in Things : Copies(t) = IF t \in DOMAIN Source(0, t) THEN {0} ELSE {}
                    /\ \A t \in Things : t \in DOMAIN Source(0, t) => Stored(t) = Source(0, t)[t]
  OBVIOUS
<1>1. Indexed = 0
  BY IndexedCounts, Numbers DEF Counts, NoIndexes
<1>2. \A t : SaveIndex(t) = 0
  BY <1>1, SaveIndexes DEF LastCounts
<1>3. \A t \in Things : Copies(t) = IF t \in DOMAIN Source(0, t) THEN {0} ELSE {}
  BY <1>1, <1>2 DEF Copies
<1>4. \A t \in Things : t \in DOMAIN Source(0, t) => Stored(t) = Source(0, t)[t]
  BY <1>3 DEF Stored
<1> QED
  BY <1>1, <1>3, <1>4

\* When the switch is over, a restart reads what is in memory.
LEMMA SwitchedReads ==
  TypeInv /\ NoIndexes /\ Switched =>
    /\ \A s \in Objects : Copies(s) = IF s \in InMemory THEN {0} ELSE {}
    /\ \A s \in InMemory : Stored(s) = version[s]
    /\ Recovered(Objects) = [s \in InMemory |-> version[s]]
<1> SUFFICES ASSUME TypeInv, NoIndexes, Switched
             PROVE  /\ \A s \in Objects : Copies(s) = IF s \in InMemory THEN {0} ELSE {}
                    /\ \A s \in InMemory : Stored(s) = version[s]
                    /\ Recovered(Objects) = [s \in InMemory |-> version[s]]
  OBVIOUS
<1>1. \A g : Written(g) \in Pictures
  <2> SUFFICES ASSUME NEW g PROVE Written(g) \in Pictures
    OBVIOUS
  <2>1. {u \in Present : Home[u] = g} \in SUBSET Things
    BY DEF Present, Live, Things
  <2> QED
    BY <2>1, PictureOf DEF Written, TypeInv
<1>2. \A s \in Objects : Source(0, s) = Written(Home[s])
  BY <1>1, NoContents DEF Switched, Source, Exists
<1>3. InMemory \subseteq Objects /\ \A s \in Objects : s \in InMemory <=> s \in Present
  BY WorldAssumption DEF InMemory, Present, Live
<1>4. \A s \in Objects : s \in DOMAIN Written(Home[s]) <=> s \in InMemory
  BY <1>3 DEF Written
<1>5. \A s \in InMemory : Written(Home[s])[s] = version[s]
  BY <1>3 DEF Written
<1>6. \A s \in Objects : Copies(s) = IF s \in InMemory THEN {0} ELSE {}
  BY <1>2, <1>4, ReadsHomes DEF Things
<1>7. \A s \in InMemory : Stored(s) = version[s]
  BY <1>2, <1>3, <1>4, <1>5, ReadsHomes DEF Things
<1>8. {u \in Objects : Copies(u) # {}} = InMemory
  BY <1>3, <1>6
<1> QED
  BY <1>6, <1>7, <1>8 DEF Recovered

LEMMA WorldFiles ==
  /\ \A j \in 1..Len(Files) : Files[j] \in FileSet /\ World(Files[j]) \in FileNames
                             /\ World(Files[j])[1] = "world"
  /\ \A j, k \in 1..Len(Files) : World(Files[j]) = World(Files[k]) => j = k
  /\ \E j, k \in 1..Len(Files) : Files[j] = "objects" /\ Files[k] = "storage" /\ j <= k
  /\ \A s \in Objects : \E j, k \in 1..Len(Files) : Files[j] = Home[s] /\ Files[k] = "storage" /\ j <= k
<1>1. \A g \in FileSet : \E j \in 1..Len(Files) : g = Files[j]
  BY StepsAre DEF FileSet
<1>2. \A j \in 1..Len(Files) : Files[j] \in FileSet
  BY StepsAre
<1>3. \A j, k \in 1..Len(Files) : World(Files[j]) = World(Files[k]) => j = k
  BY Names, StepsAre, FilesAssumption
<1>4. PICK k \in 1..Len(Files) : Files[k] = "storage"
  BY <1>1, WorldAssumption
<1>5. PICK j \in 1..Len(Files) : Files[j] = "objects"
  BY <1>1, WorldAssumption
<1>6. j <= k
  BY <1>4, <1>5, StepsAre, FilesAssumption
<1>7. ASSUME NEW s \in Objects
      PROVE  \E i, n \in 1..Len(Files) : Files[i] = Home[s] /\ Files[n] = "storage" /\ i <= n
  <2>1. PICK i \in 1..Len(Files) : Files[i] = Home[s]
    BY <1>1, WorldAssumption DEF Things
  <2>2. i <= k
    BY <2>1, <1>4, StepsAre, FilesAssumption
  <2> QED
    BY <2>1, <2>2, <1>4
<1> QED
  BY <1>2, <1>3, <1>4, <1>5, <1>6, <1>7, Names

LEMMA QuietFlags ==
  Flags /\ UNCHANGED <<life, keep, dirty, dirty_deleted>> /\ phase' \notin {"running", "down", "refused"}
    => Flags'
BY DEF Flags

LEMMA WrittenSame ==
  ASSUME UNCHANGED <<life, version, keep>>, NEW g PROVE Written(g)' = Written(g)
BY DEF Written, Present, Live

\* What a step of a full save does to the files of the others: nothing.
WorldOnly == \A f \in FileNames : f[1] # "world" => disk'[f] = disk[f]

LEMMA NoneComes == NoIncrementals /\ WorldOnly => NoIncrementals'
BY Names DEF NoIncrementals, WorldOnly

LEMMA WritingRefused ==
  ASSUME NEW k, Writing(k) PROVE Refused
BY WorldFiles DEF Writing, Refused, Exists, New

LEMMA BeginFullCore ==
  TypeInv /\ BeginFull => FullCore' /\ Refused' /\ WorldOnly
<1> SUFFICES ASSUME TypeInv, BeginFull PROVE FullCore' /\ Refused' /\ WorldOnly
  OBVIOUS
<1>1. /\ phase = "running" /\ phase' = "writing" /\ queue' = Files
      /\ disk' = [f \in FileNames |-> IF f[1] = "world" THEN [disk[f] EXCEPT !.ndt = Nothing] ELSE disk[f]]
  BY DEF BeginFull
<1>2. \A j \in 1..Len(Files) : New(j)' = Nothing
  <2>1. \A f \in FileNames : disk[f] = [e \in Extensions |-> disk[f][e]]
    BY DEF TypeInv, DiskTypes
  <2> QED
    BY <1>1, <2>1, WorldFiles DEF New, Extensions
<1>3. Left(Files, 0)'
  BY <1>1, StepsAre DEF Left
<1>4. Writing(0)'
  BY <1>2, <1>3, StepsAre, NoContents DEF Writing
<1>5. FullCore' /\ WorldOnly
  BY <1>1, <1>4, StepsAre DEF FullCore, InSwitch, WorldOnly
<1>6. Refused'
  <2>1. (\E k \in 0..Len(Files) : Writing(k))'
    BY <1>4, StepsAre
  <2> QED
    BY <2>1, WorldFiles DEF Writing, Refused, Exists, New
<1> QED
  BY <1>5, <1>6

LEMMA BeginFullSteps ==
  TypeInv /\ Flags /\ FullInv /\ BeginFull => FullInv' /\ Flags' /\ AbstractStep
<1> SUFFICES ASSUME TypeInv, Flags, FullInv, BeginFull PROVE FullInv' /\ Flags' /\ AbstractStep
  OBVIOUS
<1>1. /\ phase = "running" /\ phase' = "writing"
      /\ UNCHANGED <<life, version, keep, dirty, dirty_deleted>>
  BY DEF BeginFull, objectVars, hashVars
<1>2. FullCore' /\ Refused' /\ WorldOnly
  BY BeginFullCore
<1>3. FullInv'
  BY <1>1, <1>2, NoneComes DEF FullInv
<1>4. Saves
  BY <1>1, <1>2, InMemoryIsFile DEF Saves, OnDisk, Memory, InMemory, Live, TypeInv
<1> QED
  BY <1>1, <1>3, <1>4, QuietFlags DEF AbstractStep

LEMMA WriteFileCore ==
  TypeInv /\ FullCore /\ WriteFile => FullCore' /\ Refused /\ Refused' /\ WorldOnly
<1> SUFFICES ASSUME TypeInv, FullCore, WriteFile PROVE FullCore' /\ Refused /\ Refused' /\ WorldOnly
  OBVIOUS
<1> DEFINE f == World(Head(queue))
<1>1. /\ phase = "writing" /\ phase' = "writing" /\ queue # <<>> /\ queue' = Tail(queue)
      /\ UNCHANGED <<life, version, keep>>
      /\ disk' = [disk EXCEPT ![f].ndt = Written(Head(queue))]
  BY DEF WriteFile, Written
<1>2. PICK k \in 0..Len(Files) : Writing(k)
  BY <1>1 DEF FullCore
<1>3. k + 1 \in 1..Len(Files) /\ Head(queue) = Files[k + 1] /\ Left(Files, k + 1)'
  <2>1. queue \in Seq(FileSet)
    BY <1>1 DEF TypeInv, QueueType
  <2> QED
    BY <1>1, <1>2, <2>1, LeftTail, StepsAre DEF Writing
<1>4. /\ disk'[f].ndt = Written(Files[k + 1])
      /\ \A g \in FileNames : g # f => disk'[g] = disk[g]
  BY <1>1, <1>3, WorldFiles DEF TypeInv, DiskTypes, Extensions
<1>5. \A j \in 1..Len(Files) : IF j = k + 1 THEN New(j)' = Written(Files[j]) ELSE New(j)' = New(j)
  BY <1>3, <1>4, WorldFiles DEF New
<1>6. Written(Files[k + 1]) # NoFile
  <2>1. {u \in Present : Home[u] = Files[k + 1]} \in SUBSET Things
    BY DEF Present, Live, Things
  <2> QED
    BY <2>1, PictureOf, NoContents DEF Written, TypeInv
<1>7. Writing(k + 1)'
  <2> SUFFICES ASSUME NEW j \in 1..Len(Files)
               PROVE  New(j)' # NoFile /\ (j <= k + 1 => New(j)' = Written(Files[j])')
    BY <1>3 DEF Writing
  <2>1. Written(Files[j])' = Written(Files[j])
    BY <1>1, WrittenSame
  <2> QED
    BY <1>2, <1>3, <1>5, <1>6, <2>1, StepsAre DEF Writing
<1>8. WorldOnly
  BY <1>3, <1>4, WorldFiles DEF WorldOnly
<1>9. FullCore'
  BY <1>1, <1>3, <1>7 DEF FullCore, InSwitch
<1>10. Refused /\ Refused'
  BY <1>2, <1>7, WritingRefused, WorldFiles DEF Writing, Refused, Exists, New
<1> QED
  BY <1>8, <1>9, <1>10

LEMMA WriteFileFlags ==
  Flags /\ WriteFile => Flags'
<1> SUFFICES ASSUME Flags, WriteFile PROVE Flags'
  OBVIOUS
<1>1. /\ phase' = "writing" /\ UNCHANGED <<life, version, keep, dirty_deleted>>
      /\ dirty' = [s \in Objects |-> dirty[s] /\ s \notin {t \in Present : Home[t] = Head(queue)}]
  BY DEF WriteFile, hashVars
<1>2. \A s \in Objects : life[s] = "live" /\ ~keep[s] => s \notin Present
  BY WorldAssumption DEF Present, Live
<1> QED
  BY <1>1, <1>2 DEF Flags

LEMMA WriteFileSteps ==
  TypeInv /\ Flags /\ FullInv /\ WriteFile => FullInv' /\ Flags' /\ AbstractStep
<1> SUFFICES ASSUME TypeInv, Flags, FullInv, WriteFile PROVE FullInv' /\ Flags' /\ AbstractStep
  OBVIOUS
<1>1. phase = "writing" /\ phase' = "writing" /\ UNCHANGED <<life, version, keep>>
  BY DEF WriteFile
<1>2. FullCore' /\ Refused /\ Refused' /\ WorldOnly
  BY WriteFileCore DEF FullInv
<1>3. FullInv'
  BY <1>1, <1>2, NoneComes DEF FullInv
<1>4. AbstractStep
  BY <1>1, <1>2, ElsewhereStutters DEF Elsewhere, OnDisk
<1> QED
  BY <1>3, <1>4, WriteFileFlags

LEMMA FailFullCore ==
  TypeInv /\ FullCore /\ FailFull => FullCore' /\ Refused /\ Refused'
<1> SUFFICES ASSUME TypeInv, FullCore, FailFull PROVE FullCore' /\ Refused /\ Refused'
  OBVIOUS
<1>1. phase = "writing" /\ phase' = "running" /\ disk' = disk
  BY DEF FailFull
<1>2. Refused /\ Refused'
  BY <1>1, WritingRefused DEF FullCore, Refused, Exists
<1> QED
  BY <1>1, <1>2 DEF FullCore, InSwitch

LEMMA FailFullSteps ==
  TypeInv /\ Flags /\ FullInv /\ FailFull => FullInv' /\ Flags' /\ AbstractStep
<1> SUFFICES ASSUME TypeInv, Flags, FullInv, FailFull PROVE FullInv' /\ Flags' /\ AbstractStep
  OBVIOUS
<1>1. /\ phase = "writing" /\ phase' = "running" /\ disk' = disk
      /\ UNCHANGED <<life, version, keep, dirty, dirty_deleted>>
  BY DEF FailFull, objectVars, hashVars
<1>2. FullCore' /\ Refused /\ Refused'
  BY FailFullCore DEF FullInv
<1>3. FullInv'
  BY <1>1, <1>2 DEF FullInv, NoIncrementals
<1>4. Flags'
  BY <1>1, <1>2 DEF Flags
<1>5. AbstractStep
  BY <1>1, <1>2, ElsewhereStutters DEF Elsewhere, OnDisk
<1> QED
  BY <1>3, <1>4, <1>5

LEMMA BeginSwitchCore ==
  TypeInv /\ FullCore /\ BeginSwitch => FullCore' /\ Refused /\ Refused'
<1> SUFFICES ASSUME TypeInv, FullCore, BeginSwitch PROVE FullCore' /\ Refused /\ Refused'
  OBVIOUS
<1>1. /\ phase = "writing" /\ phase' = "switching" /\ queue = <<>> /\ queue' = Switch /\ disk' = disk
      /\ UNCHANGED <<life, version, keep>>
  BY DEF BeginSwitch, objectVars
<1>2. PICK k \in 0..Len(Files) : Writing(k)
  BY <1>1 DEF FullCore
<1>3. k = Len(Files)
  BY <1>1, <1>2, StepsAre DEF Writing, Left
<1>4. Left(Switch, 0)'
  BY <1>1, StepsAre DEF Left
<1>5. \A j \in 1..Len(Files) : New(j)' = Written(Files[j])'
  BY <1>1, <1>2, <1>3, WrittenSame DEF Writing, New
<1>6. Switching(0)'
  BY <1>1, <1>4, <1>5, WorldFiles, StepsAre DEF Switching
<1>7. FullCore'
  BY <1>1, <1>6, StepsAre DEF FullCore, InSwitch
<1>8. Refused /\ Refused'
  BY <1>1, <1>2, WritingRefused DEF Refused, Exists
<1> QED
  BY <1>7, <1>8

LEMMA BeginSwitchSteps ==
  TypeInv /\ Flags /\ FullInv /\ BeginSwitch => FullInv' /\ Flags' /\ AbstractStep
<1> SUFFICES ASSUME TypeInv, Flags, FullInv, BeginSwitch PROVE FullInv' /\ Flags' /\ AbstractStep
  OBVIOUS
<1>1. /\ phase = "writing" /\ phase' = "switching" /\ disk' = disk
      /\ UNCHANGED <<life, version, keep, dirty, dirty_deleted>>
  BY DEF BeginSwitch, objectVars, hashVars
<1>2. FullCore' /\ Refused /\ Refused'
  BY BeginSwitchCore DEF FullInv
<1>3. FullInv'
  BY <1>1, <1>2 DEF FullInv, NoIncrementals
<1>4. OnDisk' = OnDisk
  BY <1>2 DEF OnDisk
<1> QED
  BY <1>1, <1>3, <1>4, QuietFlags, ElsewhereStutters DEF Elsewhere

\* The two steps for each file.
LEMMA SwitchIs ==
  ASSUME NEW j \in 1..Len(Files)
  PROVE  /\ Switch[2 * j - 1] = Step("aside", World(Files[j]))
         /\ Switch[2 * j] = Step("place", World(Files[j]))
         /\ 2 * j - 1 \in 1..Len(Switch) /\ 2 * j \in 1..Len(Switch)
<1>1. /\ 2 * j - 1 \in 1..(2 * Len(Files)) /\ 2 * j \in 1..(2 * Len(Files))
      /\ ((2 * j - 1) + 1) \div 2 = j /\ (2 * j + 1) \div 2 = j
      /\ (2 * j - 1) % 2 = 1 /\ (2 * j) % 2 = 0
  BY StepsAre
<1>2. Switch[2 * j - 1] = Commit(World(Files[j]))[1]
  BY <1>1 DEF Switch
<1>3. Switch[2 * j] = Commit(World(Files[j]))[2]
  BY <1>1 DEF Switch
<1> QED
  BY <1>1, <1>2, <1>3, StepsAre DEF Commit

LEMMA SwitchFileKeeps ==
  ASSUME TypeInv, SwitchFile, NEW k \in 0..Len(Switch), Switching(k)
  PROVE  k + 1 \in 1..Len(Switch) /\ Switching(k + 1)' /\ WorldOnly
<1> DEFINE step == Head(queue)
<1>1. /\ phase \in {"switching", "trailing"} /\ queue # <<>> /\ queue' = Tail(queue)
      /\ UNCHANGED <<life, version, keep, dirty, dirty_deleted>>
      /\ Perform(step)
      /\ phase' = IF step = Step("place", World("storage")) THEN "trailing" ELSE phase
  BY DEF SwitchFile, objectVars, hashVars
<1>2. k + 1 \in 1..Len(Switch) /\ step = Switch[k + 1] /\ Left(Switch, k + 1)'
  <2>1. queue \in Seq(Steps)
    BY <1>1 DEF TypeInv, QueueType
  <2> QED
    BY <1>1, <2>1, LeftTail, StepsAre DEF Switching
<1>3. PICK j \in 1..Len(Files) : k + 1 = 2 * j - 1 \/ k + 1 = 2 * j
  <2>1. (k + 2) \div 2 \in 1..Len(Files) /\ (k + 1 = 2 * ((k + 2) \div 2) - 1 \/ k + 1 = 2 * ((k + 2) \div 2))
    BY <1>2, StepsAre
  <2> QED
    BY <2>1
<1>4. /\ k + 1 = 2 * j - 1 => step = Step("aside", World(Files[j]))
      /\ k + 1 = 2 * j => step = Step("place", World(Files[j]))
      /\ step.file = World(Files[j])
  <2>1. Switch[2 * j - 1] = Step("aside", World(Files[j])) /\ Switch[2 * j] = Step("place", World(Files[j]))
    BY SwitchIs
  <2>2. /\ k + 1 = 2 * j - 1 => step = Step("aside", World(Files[j]))
        /\ k + 1 = 2 * j => step = Step("place", World(Files[j]))
    BY <1>2, <2>1
  <2> HIDE DEF step
  <2> QED
    BY <1>3, <2>2 DEF Step
<1>5. step \in Steps
  BY <1>2, StepsAre
<1> HIDE DEF step
<1>6. /\ \A f \in FileNames : f # World(Files[j]) => disk'[f] = disk[f]
      /\ k + 1 = 2 * j => disk'[World(Files[j])].ndt = NoFile
           /\ disk'[World(Files[j])].txt = IF disk[World(Files[j])].ndt = NoFile
                THEN disk[World(Files[j])].txt ELSE disk[World(Files[j])].ndt
      /\ k + 1 = 2 * j - 1 => disk'[World(Files[j])].ndt = disk[World(Files[j])].ndt
  BY <1>1, <1>4, <1>5, Performs DEF Step, TypeInv
<1>7. WorldOnly
  BY <1>6, WorldFiles DEF WorldOnly
<1>8. \A i \in 1..Len(Files) : Written(Files[i]) # NoFile /\ Written(Files[i])' = Written(Files[i])
  <2> SUFFICES ASSUME NEW i \in 1..Len(Files)
               PROVE  Written(Files[i]) # NoFile /\ Written(Files[i])' = Written(Files[i])
    OBVIOUS
  <2>1. {u \in Present : Home[u] = Files[i]} \in SUBSET Things
    BY DEF Present, Live, Things
  <2> QED
    BY <1>1, <2>1, WrittenSame, PictureOf, NoContents DEF Written, TypeInv
<1>9. \A i \in 1..Len(Files) : i # j => New(i)' = New(i) /\ InPlace(i)' = InPlace(i)
  BY <1>6, WorldFiles DEF New, InPlace
<1>10. \A i \in 1..Len(Files) :
         IF 2 * i <= k + 1 THEN New(i)' = NoFile /\ InPlace(i)' = Written(Files[i])
                           ELSE New(i)' = Written(Files[i])
  <2> SUFFICES ASSUME NEW i \in 1..Len(Files)
               PROVE  IF 2 * i <= k + 1 THEN New(i)' = NoFile /\ InPlace(i)' = Written(Files[i])
                                        ELSE New(i)' = Written(Files[i])
    OBVIOUS
  <2>1. IF 2 * i <= k THEN New(i) = NoFile /\ InPlace(i) = Written(Files[i])
                      ELSE New(i) = Written(Files[i])
    BY DEF Switching
  <2>2. CASE i # j
    <3>1. 2 * i <= k + 1 <=> 2 * i <= k
      BY <1>3, <2>2, StepsAre
    <3> QED
      BY <1>9, <2>1, <2>2, <3>1
  <2>3. CASE i = j /\ k + 1 = 2 * j
    <3>1. ~(2 * i <= k) /\ 2 * i <= k + 1
      BY <2>3, StepsAre
    <3> QED
      BY <1>6, <1>8, <2>1, <2>3, <3>1 DEF New, InPlace
  <2>4. CASE i = j /\ k + 1 = 2 * j - 1
    <3>1. ~(2 * i <= k) /\ ~(2 * i <= k + 1)
      BY <2>4, StepsAre
    <3> QED
      BY <1>6, <2>1, <2>4, <3>1 DEF New
  <2> QED
    BY <1>3, <2>2, <2>3, <2>4
<1>11. phase' = "switching" <=> \E i \in 1..Len(Files) : Files[i] = "storage" /\ k + 1 < 2 * i
  <2>1. PICK n \in 1..Len(Files) : Files[n] = "storage"
    BY WorldFiles
  <2>2. \A i \in 1..Len(Files) : Files[i] = "storage" <=> i = n
    BY <2>1, StepsAre, FilesAssumption
  <2>3. step = Step("place", World("storage")) <=> k + 1 = 2 * n
    <3>1. CASE k + 1 = 2 * j
      <4>1. step = Step("place", World(Files[j]))
        BY <3>1, <1>4
      <4>2. World(Files[j]) = World("storage") <=> j = n
        BY <2>2, Names
      <4> QED
        BY <3>1, <4>1, <4>2, StepsAre DEF Step
    <3>2. CASE k + 1 = 2 * j - 1
      <4>1. step.op = "aside" /\ k + 1 # 2 * n
        BY <3>2, <1>4, StepsAre DEF Step
      <4> QED
        BY <4>1 DEF Step
    <3> QED
      BY <1>3, <3>1, <3>2
  <2>4. phase = "switching" <=> k < 2 * n
    BY <2>2 DEF Switching
  <2>5. k + 1 < 2 * n <=> (k < 2 * n /\ k + 1 # 2 * n)
    BY StepsAre
  <2> QED
    BY <1>1, <2>2, <2>3, <2>4, <2>5
<1>12. Switching(k + 1)'
  BY <1>2, <1>8, <1>10, <1>11 DEF Switching
<1> QED
  BY <1>2, <1>7, <1>12

LEMMA SwitchFileCore ==
  TypeInv /\ FullCore /\ SwitchFile => FullCore' /\ WorldOnly
<1> SUFFICES ASSUME TypeInv, FullCore, SwitchFile PROVE FullCore' /\ WorldOnly
  OBVIOUS
<1>1. phase \in {"switching", "trailing"} /\ phase' \in {phase, "trailing"}
  BY DEF SwitchFile
<1>2. PICK k \in 0..Len(Switch) : Switching(k)
  BY <1>1 DEF FullCore, InSwitch
<1>3. k + 1 \in 0..Len(Switch) /\ Switching(k + 1)' /\ WorldOnly
  BY <1>2, SwitchFileKeeps, StepsAre
<1> QED
  BY <1>1, <1>3, StepsAre DEF FullCore, InSwitch

\* A restart can tell the save under way until storage is in place, and has all objects then.
Placing ==
  /\ phase = "switching" => Refused
  /\ phase = "trailing" => ~Refused /\ Switched

LEMMA SwitchPlaces == TypeInv /\ InSwitch => Placing
<1> SUFFICES ASSUME TypeInv, InSwitch, phase \in {"switching", "trailing"} PROVE Placing
  BY DEF Placing
<1>1. PICK k \in 0..Len(Switch) : Switching(k)
  BY DEF InSwitch
<1>2. PICK m, n \in 1..Len(Files) : Files[m] = "objects" /\ Files[n] = "storage" /\ m <= n
  BY WorldFiles
<1>3. \A i \in 1..Len(Files) : Files[i] = "storage" => i = n
  BY <1>2, StepsAre, FilesAssumption
<1>4. phase = "switching" <=> k < 2 * n
  BY <1>1, <1>2, <1>3 DEF Switching
<1>5. \A j \in 1..Len(Files) : Written(Files[j]) # NoFile
  <2> SUFFICES ASSUME NEW j \in 1..Len(Files) PROVE Written(Files[j]) # NoFile
    OBVIOUS
  <2>1. {u \in Present : Home[u] = Files[j]} \in SUBSET Things
    BY DEF Present, Live, Things
  <2> QED
    BY <2>1, PictureOf, NoContents DEF Written, TypeInv
<1>6. CASE phase = "switching"
  <2>1. Refused
    BY <1>1, <1>2, <1>4, <1>5, <1>6, StepsAre DEF Switching, New, Refused, Exists
  <2> QED
    BY <1>6, <2>1 DEF Placing
<1>7. CASE phase = "trailing"
  <2>1. 2 * n <= k /\ 2 * m <= k
    BY <1>2, <1>4, <1>7, StepsAre
  <2>2. ~Refused
    BY <1>1, <1>2, <2>1 DEF Switching, New, Refused, Exists
  <2>3. Switched
    <3> SUFFICES ASSUME NEW s \in Objects PROVE disk[World(Home[s])].txt = Written(Home[s])
      BY DEF Switched
    <3>1. PICK j \in 1..Len(Files) : Files[j] = Home[s] /\ j <= n
      BY WorldFiles, <1>3
    <3>2. 2 * j <= k
      BY <2>1, <3>1, StepsAre
    <3> QED
      BY <1>1, <3>1, <3>2 DEF Switching, InPlace
  <2> QED
    BY <1>7, <2>2, <2>3 DEF Placing
<1> QED
  BY <1>6, <1>7

\* Without incremental saves a restart reads it then.
Telling ==
  /\ phase = "switching" => OnDisk = NoFile
  /\ phase = "trailing" => OnDisk = [s \in InMemory |-> version[s]]

LEMMA SwitchTells == TypeInv /\ NoIncrementals /\ InSwitch => Telling
BY SwitchPlaces, SwitchedReads, NoneIndexed DEF Placing, Telling, OnDisk

LEMMA SwitchFileSteps ==
  TypeInv /\ TypeInv' /\ Flags /\ FullInv /\ SwitchFile => FullInv' /\ Flags' /\ AbstractStep
<1> SUFFICES ASSUME TypeInv, TypeInv', Flags, FullInv, SwitchFile PROVE FullInv' /\ Flags' /\ AbstractStep
  OBVIOUS
<1>1. /\ phase \in {"switching", "trailing"} /\ phase' \in {phase, "trailing"}
      /\ UNCHANGED <<life, version, keep, dirty, dirty_deleted>>
  BY DEF SwitchFile, objectVars, hashVars
<1>2. FullCore' /\ WorldOnly
  BY SwitchFileCore DEF FullInv
<1>3. FullInv'
  BY <1>1, <1>2, NoneComes DEF FullInv
<1>4. NoIncrementals' /\ InSwitch'
  BY <1>3 DEF FullInv, FullCore
<1>6. Telling
  BY SwitchTells DEF FullInv, FullCore
<1>7. Telling'
  BY <1>4, SwitchTells, PTL
<1>8. [s \in InMemory |-> version[s]]' = [s \in InMemory |-> version[s]]
  BY <1>1 DEF InMemory, Live
<1>9. ASSUME OnDisk' = OnDisk PROVE AbstractStep
  BY <1>1, <1>9, ElsewhereStutters DEF Elsewhere
<1>10. ASSUME OnDisk' # OnDisk PROVE AbstractStep
  <2>1. OnDisk' = [s \in InMemory |-> version[s]]
    BY <1>1, <1>6, <1>7, <1>8, <1>10 DEF Telling
  <2>2. Memory = [s \in InMemory |-> version[s]] /\ Memory' = Memory
    BY <1>1, <1>8 DEF Memory
  <2>3. Memory # NoFile
    BY <2>2, InMemoryIsFile DEF TypeInv
  <2> QED
    BY <2>1, <2>2, <2>3 DEF AbstractStep, Saves
<1> QED
  BY <1>1, <1>3, <1>9, <1>10, QuietFlags

LEMMA BeginRetireCore ==
  TypeInv /\ FullCore /\ BeginRetire => FullCore' /\ phase = "trailing" /\ ~Refused
<1> SUFFICES ASSUME TypeInv, FullCore, BeginRetire PROVE FullCore' /\ phase = "trailing" /\ ~Refused
  OBVIOUS
<1>1. /\ phase \in {"switching", "trailing"} /\ phase' = "retiring" /\ disk' = disk
      /\ queue = <<>> /\ UNCHANGED <<life, version, keep>>
  BY DEF BeginRetire, objectVars
<1>2. PICK k \in 0..Len(Switch) : Switching(k)
  BY <1>1 DEF FullCore, InSwitch
<1>3. k = 2 * Len(Files)
  BY <1>1, <1>2, StepsAre DEF Switching, Left
<1>4. phase = "trailing"
  BY <1>1, <1>2, <1>3, StepsAre DEF Switching
<1>5. ~Refused /\ Switched
  BY <1>4, SwitchPlaces DEF FullCore, Placing
<1>6. Switched'
  BY <1>1, <1>5, WrittenSame DEF Switched
<1> QED
  BY <1>1, <1>4, <1>5, <1>6 DEF FullCore, Refused, Exists, InSwitch

LEMMA BeginRetireSteps ==
  TypeInv /\ Flags /\ FullInv /\ (BeginRetire \/ RetireNext \/ RetireFile) =>
    FullInv' /\ Flags' /\ AbstractStep
<1> SUFFICES ASSUME TypeInv, Flags, FullInv, BeginRetire \/ RetireNext \/ RetireFile
             PROVE  FullInv' /\ Flags' /\ AbstractStep
  OBVIOUS
<1>1. ~RetireNext /\ ~RetireFile
  <2>1. 1 <= MaxIncrementals => ~Known(Data(1)) /\ ~Known(Index(1))
    BY Numbers DEF FullInv, NoIncrementals, Known, Exists
  <2> QED
    BY <2>1 DEF RetireNext, RetireFile, FullInv, KnownIncremental
<1>2. /\ phase \in {"switching", "trailing"} /\ phase' = "retiring" /\ disk' = disk
      /\ queue = <<>> /\ queue' = <<>> /\ save_index' = 1
      /\ UNCHANGED <<life, version, keep, dirty, dirty_deleted>>
  BY <1>1 DEF BeginRetire, objectVars, hashVars
<1>3. FullCore'
  BY <1>1, BeginRetireCore DEF FullInv
<1>4. FullInv'
  BY <1>2, <1>3 DEF FullInv, NoIncrementals
<1>5. OnDisk' = OnDisk
  <2>1. SameFiles(Objects) /\ (Refused' <=> Refused)
    BY <1>2 DEF SameFiles, Refused, Exists
  <2> QED
    BY <2>1, SameRead DEF OnDisk, Things
<1> QED
  BY <1>2, <1>4, <1>5, QuietFlags, ElsewhereStutters DEF Elsewhere

\* A full save that returns leaves all objects on disk as they are.
LEMMA FinishFullReads ==
  TypeInv /\ Flags /\ FullCore /\ NoIndexes /\ FinishFull =>
    /\ OnDisk = [s \in InMemory |-> version[s]] /\ OnDisk' = OnDisk
    /\ ~Refused' /\ FullCore' /\ Flags'
<1> SUFFICES ASSUME TypeInv, Flags, FullCore, NoIndexes, FinishFull
             PROVE  /\ OnDisk = [s \in InMemory |-> version[s]] /\ OnDisk' = OnDisk
                    /\ ~Refused' /\ FullCore' /\ Flags'
  OBVIOUS
<1>1. /\ phase = "retiring" /\ phase' = "running" /\ disk' = disk /\ dirty_deleted' = {}
      /\ UNCHANGED <<life, version, keep, dirty>>
  BY DEF FinishFull, objectVars
<1>2. ~Refused /\ Switched
  BY <1>1 DEF FullCore
<1>3. SameFiles(Objects) /\ (Refused' <=> Refused)
  BY <1>1 DEF SameFiles, Refused, Exists
<1>4. \A s \in Objects : Copies(s)' = Copies(s) /\ (Copies(s) # {} => Stored(s)' = Stored(s))
  BY <1>3, SameRead DEF Things
<1>5. \A s \in Objects : Copies(s) = (IF s \in InMemory THEN {0} ELSE {})
        /\ (s \in InMemory => Stored(s) = version[s])
  BY <1>2, SwitchedReads
<1>6. \A s \in Objects : ~dirty[s] => AsOnDisk(s)'
  BY <1>1, <1>4, <1>5 DEF AsOnDisk, InMemory, Live, Flags
<1>7. Flags'
  BY <1>1, <1>6 DEF Flags, Clean
<1>8. OnDisk' = OnDisk
  BY <1>3, SameRead DEF OnDisk, Things
<1>9. OnDisk = [s \in InMemory |-> version[s]]
  BY <1>2, SwitchedReads DEF OnDisk
<1> QED
  BY <1>1, <1>2, <1>3, <1>7, <1>8, <1>9 DEF FullCore, InSwitch

LEMMA FinishFullSteps ==
  TypeInv /\ Flags /\ FullInv /\ FinishFull => FullInv' /\ Flags' /\ AbstractStep
<1> SUFFICES ASSUME TypeInv, Flags, FullInv, FinishFull PROVE FullInv' /\ Flags' /\ AbstractStep
  OBVIOUS
<1>1. /\ phase = "retiring" /\ phase' = "running" /\ disk' = disk /\ UNCHANGED <<life, version, keep>>
  BY DEF FinishFull, objectVars
<1>2. OnDisk' = OnDisk /\ FullCore' /\ Flags'
  BY FinishFullReads, NoneIndexed DEF FullInv
<1>3. FullInv'
  BY <1>1, <1>2 DEF FullInv, NoIncrementals
<1> QED
  BY <1>1, <1>2, <1>3, ElsewhereStutters DEF Elsewhere

LEMMA StopSteps ==
  TypeInv /\ Flags /\ Stop => Flags' /\ AbstractStep
<1>1. TypeInv /\ Flags /\ Stop => Flags'
  BY DEF Stop, Flags
<1> QED
  BY <1>1, StopStops

LEMMA LoadSteps ==
  TypeInv /\ Flags /\ (Load \/ Refuse) => Flags' /\ AbstractStep
<1> SUFFICES ASSUME TypeInv, Flags, Load \/ Refuse PROVE Flags' /\ AbstractStep
  OBVIOUS
<1>1. CASE Refuse
  BY <1>1, RestStutters DEF Refuse, Flags, objectVars, hashVars
<1>2. CASE Load
  <2> DEFINE world == Recovered(Things)
  <2>1. /\ phase = "down" /\ phase' = "running" /\ disk' = disk
        /\ UNCHANGED <<keep, dirty, dirty_deleted>>
        /\ life' = [s \in Objects |-> IF s \in DOMAIN world THEN "live" ELSE "none"]
        /\ version' = [t \in Things |-> IF t \in DOMAIN world THEN world[t] ELSE 0]
    BY <1>2 DEF Load
  <2>2. world = [t \in {u \in Things : Copies(u) # {}} |-> Stored(t)]
    BY DEF Recovered
  <2>3. SameFiles(Objects)
    BY <2>1 DEF SameFiles
  <2>4. \A s \in Objects : Copies(s)' = Copies(s) /\ (Copies(s) # {} => Stored(s)' = Stored(s))
    BY <2>3, SameRead DEF Things
  <2>5. \A s \in Objects : AsOnDisk(s)'
    BY <2>1, <2>2, <2>4 DEF AsOnDisk, Things
  <2>6. Flags'
    BY <2>1, <2>5 DEF Flags
  <2> QED
    BY <1>2, <2>1, <2>6, LoadRestarts DEF Flags
<1> QED
  BY <1>1, <1>2

\* Flags that nothing changes, and that what a restart reads goes on to bear out.
LEMMA SameFlags ==
  ASSUME Flags, SameFiles(Objects), Refused' <=> Refused,
         UNCHANGED <<phase, life, version, keep, dirty, dirty_deleted, incremental_saves_disabled>>
  PROVE  Flags'
<1>1. \A s \in Objects : Copies(s)' = Copies(s) /\ (Copies(s) # {} => Stored(s)' = Stored(s))
  BY SameRead DEF Things
<1>2. \A s \in Objects : AsOnDisk(s) => AsOnDisk(s)'
  BY <1>1 DEF AsOnDisk
<1> QED
  BY <1>2 DEF Flags, Clean

LEMMA FullSteps ==
  TypeInv /\ TypeInv' /\ Flags /\ FullInv /\ ~plan.incremental /\ [Next]_vars =>
    Flags' /\ FullInv' /\ AbstractStep
<1> SUFFICES ASSUME TypeInv, TypeInv', Flags, FullInv, ~plan.incremental, [Next]_vars
             PROVE  Flags' /\ FullInv' /\ AbstractStep
  OBVIOUS
<1>1. ~IncrementalSave
  BY DEF IncrementalSave, BeginIncremental, FailIncremental, Record, WriteIndex, CommitFile,
         FinishIncremental, FullInv
<1>2. CASE Game
  <2>1. disk' = disk /\ phase = "running" /\ phase' = "running"
    BY <1>2 DEF Game, Create, Change, SetSaveOnExit, Destroy, Reap, ChangeOther, Unsaving
  <2>2. FullInv'
    BY <2>1 DEF FullInv, FullCore, NoIncrementals, InSwitch
  <2> QED
    BY <1>2, <2>2, GameFlags, GamePlays
<1>3. CASE FullSave
  BY <1>3, BeginFullSteps, WriteFileSteps, FailFullSteps, BeginSwitchSteps, SwitchFileSteps,
     BeginRetireSteps, FinishFullSteps DEF FullSave
<1>4. CASE Stop \/ Load \/ Refuse
  <2>1. disk' = disk /\ phase' \in {"down", "running", "refused"}
    BY <1>4 DEF Stop, Load, Refuse
  <2>2. FullInv'
    BY <2>1 DEF FullInv, FullCore, NoIncrementals, InSwitch
  <2> QED
    BY <1>4, <2>2, StopSteps, LoadSteps
<1>5. CASE UNCHANGED vars
  <2>1. UNCHANGED <<phase, life, version, keep, dirty, dirty_deleted, queue, save_index, disk,
                    incremental_saves_disabled>>
    BY <1>5 DEF vars, saveVars, objectVars, hashVars, countVars
  <2>2. \A g : Written(g)' = Written(g)
    BY <2>1 DEF Written, Present, Live
  <2>3. NoIncrementals' /\ InSwitch' /\ (Switched => Switched')
    BY <2>1, <2>2 DEF FullInv, FullCore, NoIncrementals, InSwitch, Switching, Left, New, InPlace, Switched
  <2>4. \A k : Writing(k) => Writing(k)'
    BY <2>1, <2>2 DEF Writing, Left, New
  <2>5. FullInv'
    BY <2>1, <2>3, <2>4 DEF FullInv, FullCore, Refused, Exists
  <2>6. SameFiles(Objects) /\ (Refused' <=> Refused)
    BY <2>1 DEF SameFiles, Refused, Exists
  <2> QED
    BY <1>5, <2>1, <2>5, <2>6, SameFlags, RestStutters
<1> QED
  BY <1>1, <1>2, <1>3, <1>4, <1>5 DEF Next

-----------------------------------------------------------------------------
(* Incremental saves *)

\* The save under way, its index, and what goes with it.
Lines == disk[Data(save_index)]
Listing == disk[Index(save_index)]

\* The objects a save has listed: what p has of x.modified is as in memory, and what is
\* in x.deleted is not in the game.
ListsRight(x, p) ==
  /\ x.modified \subseteq Objects /\ x.deleted \subseteq Objects
  /\ DOMAIN p = x.modified
  /\ \A s \in x.modified : life[s] = "live" /\ p[s] = version[s]
  /\ \A s \in x.deleted : life[s] # "live"

Recorded == [modified |-> modified_serials, deleted |-> deleted_serials \cup dirty_deleted]

\* All the rest is on disk already.
RestOnDisk(x) == \A s \in Objects \ (x.modified \cup x.deleted) : AsOnDisk(s)

\* No index is left over after those that are counted, and what a counted save wrote its
\* index lists.
IndexesRight ==
  /\ \A i \in 1..MaxIncrementals : Exists(Index(i), "txt") => i <= Indexed
  /\ \A i \in 1..Indexed :
       Exists(Data(i), "txt") => DOMAIN disk[Data(i)].txt \subseteq disk[Index(i)].txt.modified

AllClean == dirty_deleted = {} /\ \A s \in Objects : ~dirty[s]

\* The operations of the commit that are done: k of four.  The index is placed last.
Committing(k) ==
  /\ Left(CommitSteps(save_index), k)
  /\ AllClean
  /\ k < 4 => /\ Indexed = save_index - 1
              /\ Listing.ndt # NoFile
              /\ (IF k < 2 THEN Lines.ndt ELSE Lines.txt) # NoFile
              /\ ListsRight(Listing.ndt, IF k < 2 THEN Lines.ndt ELSE Lines.txt)
              /\ RestOnDisk(Listing.ndt)
  /\ k = 4 => Indexed = save_index /\ \A s \in Objects : AsOnDisk(s)

InCommit == phase = "committing" => \E k \in 0..4 : Committing(k)

InRecord ==
  phase = "recording" =>
    /\ ListsRight(Recorded, Lines.ndt)
    /\ \A s \in Objects : Clean(s) /\ s \notin modified_serials \cup deleted_serials => AsOnDisk(s)

IncInv ==
  /\ phase \in {"running", "recording", "committing", "down", "refused"}
  /\ ~Refused
  /\ \A s \in Objects : keep[s]
  /\ IndexesRight
  /\ phase \in {"running", "recording"} => Indexed = incremental_save_count
  /\ InRecord
  /\ InCommit

\* What the steps of an incremental save do not touch.
SaveOnly == UNCHANGED <<life, version, keep>>

LEMMA RefusedSame ==
  ASSUME \A g \in FileSet : disk'[World(g)].ndt = disk[World(g)].ndt
  PROVE  Refused' <=> Refused
BY WorldAssumption DEF Refused, Exists

LEMMA IndexesSame ==
  ASSUME IndexesRight, SameFiles(Objects)
  PROVE  IndexesRight'
<1>1. Indexed' = Indexed
  BY SameRead DEF Things
<1>2. \A i \in 1..Indexed : i \in 1..MaxIncrementals
  BY IndexedCounts, Numbers
<1> QED
  BY <1>1, <1>2 DEF IndexesRight, SameFiles, Exists

\* What the files have of each object, if a restart reads the same and the object stays.
LEMMA AsOnDiskSame ==
  ASSUME SameFiles(Objects), UNCHANGED <<life, version>>
  PROVE  \A s \in Objects : AsOnDisk(s)' <=> AsOnDisk(s)
<1>1. \A s \in Objects : Copies(s)' = Copies(s) /\ (Copies(s) # {} => Stored(s)' = Stored(s))
  BY SameRead DEF Things
<1> QED
  BY <1>1 DEF AsOnDisk

\* When all objects are on disk as they are, a restart reads what is in memory.
LEMMA AllOnDisk ==
  ASSUME \A s \in Objects : keep[s], \A s \in Objects : AsOnDisk(s)
  PROVE  Recovered(Objects) = [s \in InMemory |-> version[s]]
<1>1. {u \in Objects : Copies(u) # {}} = InMemory
  BY DEF AsOnDisk, InMemory, Live
<1>2. \A s \in InMemory : Stored(s) = version[s]
  BY DEF AsOnDisk, InMemory, Live
<1> QED
  BY <1>1, <1>2 DEF Recovered

\* Once its index is in place a restart reads an incremental save, and only then.
LEMMA PlaceIndex ==
  ASSUME NEW i \in 1..MaxIncrementals, NEW x, NEW p,
         Indexed = i - 1, IndexesRight, disk[Data(i)].txt = p, p # NoFile, x # NoFile,
         ListsRight(x, p), RestOnDisk(x), UNCHANGED <<life, version>>,
         \A f \in FileNames \ {Index(i)} : disk'[f] = disk[f],
         disk'[Index(i)].txt = x
  PROVE  Indexed' = i /\ IndexesRight' /\ \A s \in Objects : AsOnDisk(s)'
<1>1. \A j \in 1..MaxIncrementals : j # i => disk'[Index(j)] = disk[Index(j)]
  BY Names
<1>2. \A j \in 1..MaxIncrementals : disk'[Data(j)] = disk[Data(j)]
  BY Names
<1>3. \A s \in Objects : disk'[World(Home[s])] = disk[World(Home[s])]
  BY Names, WorldAssumption DEF Things
<1>4. Indexed' = i
  <2>1. \A j \in 1..i : Exists(Index(j), "txt")'
    <3> SUFFICES ASSUME NEW j \in 1..i PROVE Exists(Index(j), "txt")'
      OBVIOUS
    <3>1. CASE j = i
      BY <3>1 DEF Exists
    <3>2. CASE j # i
      <4>1. j \in 1..Indexed /\ j \in 1..MaxIncrementals
        BY <3>2, Numbers
      <4> QED
        BY <1>1, <3>2, <4>1, IndexedCounts DEF Counts, Exists
    <3> QED
      BY <3>1, <3>2
  <2>2. i < MaxIncrementals => ~Exists(Index(i + 1), "txt")'
    <3> SUFFICES ASSUME i < MaxIncrementals PROVE ~Exists(Index(i + 1), "txt")'
      OBVIOUS
    <3>1. i + 1 \in 1..MaxIncrementals /\ i + 1 # i /\ ~(i + 1 <= Indexed)
      BY Numbers
    <3> QED
      BY <1>1, <3>1 DEF IndexesRight, Exists
  <2>3. Counts(i)'
    BY <2>1, <2>2 DEF Counts
  <2>4. CountedOnce'
    BY CountsOnce, PTL
  <2> QED
    BY <2>3, <2>4, Numbers DEF CountedOnce
<1>5. IndexesRight'
  <2>1. ASSUME NEW j \in 1..MaxIncrementals, Exists(Index(j), "txt")' PROVE j <= i
    <3>1. j # i => j <= Indexed
      BY <1>1, <2>1 DEF IndexesRight, Exists
    <3> QED
      BY <3>1, Numbers
  <2>2. ASSUME NEW j \in 1..i, Exists(Data(j), "txt")'
        PROVE  DOMAIN disk'[Data(j)].txt \subseteq disk'[Index(j)].txt.modified
    <3>1. CASE j = i
      BY <1>2, <3>1 DEF ListsRight
    <3>2. CASE j # i
      <4>1. j \in 1..Indexed /\ j \in 1..MaxIncrementals
        BY <3>2, Numbers
      <4> QED
        BY <1>1, <1>2, <2>2, <3>2, <4>1 DEF IndexesRight, Exists
    <3> QED
      BY <3>1, <3>2
  <2> QED
    BY <1>4, <2>1, <2>2 DEF IndexesRight
<1>6. LastCounts'
  BY SaveIndexes, PTL
<1>7. ASSUME NEW s \in Objects PROVE AsOnDisk(s)'
  <2>1. Source(i, s)' = p
    BY <1>2, Numbers DEF Source, Exists
  <2>2. Lists(i, s)' <=> s \in x.modified \cup x.deleted
    BY DEF Lists
  <2>3. CASE s \in x.modified \cup x.deleted
    <3>1. SaveIndex(s)' = IF s \in x.deleted THEN Deleted ELSE i
      <4>1. \A j \in (i + 1)..i : ~Lists(j, s)'
        BY Numbers
      <4> QED
        BY <1>4, <1>6, <2>2, <2>3, <4>1, Numbers DEF LastCounts
    <3>2. Copies(s)' = {j \in 0..i : SaveIndex(s)' <= j /\ s \in DOMAIN Source(j, s)'}
      BY <1>4 DEF Copies
    <3>3. CASE s \in x.deleted
      <4>1. Copies(s)' = {}
        BY <3>1, <3>2, <3>3, Numbers DEF Deleted
      <4>2. life'[s] # "live"
        BY <3>3 DEF ListsRight
      <4> QED
        BY <4>1, <4>2 DEF AsOnDisk
    <3>4. CASE s \notin x.deleted
      <4>1. s \in x.modified /\ life[s] = "live" /\ p[s] = version[s] /\ s \in DOMAIN p
        BY <2>3, <3>4 DEF ListsRight
      <4>2. \A j \in 0..i : i <= j <=> j = i
        BY Numbers
      <4>3. Copies(s)' = {i}
        BY <2>1, <3>1, <3>2, <3>4, <4>1, <4>2, Numbers
      <4>4. Stored(s)' = Source(i, s)'[s]
        BY <4>3 DEF Stored
      <4> QED
        BY <2>1, <4>1, <4>3, <4>4 DEF AsOnDisk
    <3> QED
      BY <3>3, <3>4
  <2>4. CASE s \notin x.modified \cup x.deleted
    <3>1. AsOnDisk(s)
      BY <2>4 DEF RestOnDisk
    <3>2. \A j \in 1..Indexed : (Lists(j, s)' <=> Lists(j, s)) /\ disk'[Index(j)] = disk[Index(j)]
      <4>1. \A j \in 1..Indexed : j \in 1..MaxIncrementals /\ j # i
        BY Numbers
      <4> QED
        BY <1>1, <4>1 DEF Lists
    <3>3. \A j \in 1..i : j = i \/ j \in 1..Indexed
      BY Numbers
    <3>4. SaveIndex(s)' = SaveIndex(s)
      <4>1. CASE \A j \in 1..Indexed : ~Lists(j, s)
        <5>1. \A j \in 1..Indexed' : ~Lists(j, s)'
          BY <1>4, <2>2, <2>4, <3>2, <3>3, <4>1
        <5>2. SaveIndex(s) = 0 /\ SaveIndex(s)' = 0
          BY <1>6, <4>1, <5>1, SaveIndexes DEF LastCounts
        <5> QED
          BY <5>2
      <4>2. CASE \E j \in 1..Indexed : Lists(j, s)
        <5>1. PICK j \in 1..Indexed : Lists(j, s) /\ \A k \in (j + 1)..Indexed : ~Lists(k, s)
          BY <4>2, LastOne, IndexedCounts
        <5>2. SaveIndex(s) = IF s \in disk[Index(j)].txt.deleted THEN Deleted ELSE j
          BY <5>1, SaveIndexes DEF LastCounts
        <5>3. j \in 1..i /\ Lists(j, s)' /\ \A k \in (j + 1)..i : ~Lists(k, s)'
          <6>1. \A k \in (j + 1)..i : k = i \/ (k \in (j + 1)..Indexed /\ k \in 1..Indexed)
            BY <5>1, Numbers
          <6>2. j \in 1..i
            BY <5>1, Numbers
          <6> QED
            BY <2>2, <2>4, <3>2, <5>1, <6>1, <6>2
        <5>4. SaveIndex(s)' = IF s \in disk'[Index(j)].txt.deleted THEN Deleted ELSE j
          BY <1>4, <1>6, <5>3 DEF LastCounts
        <5> QED
          BY <3>2, <5>1, <5>2, <5>4
      <4> QED
        BY <4>1, <4>2
    <3>5. \A j \in 0..Indexed : Source(j, s)' = Source(j, s)
      <4>1. \A j \in 0..Indexed : j = 0 \/ j \in 1..MaxIncrementals
        BY Numbers
      <4> QED
        BY <1>2, <1>3, <4>1 DEF Source, Exists
    <3>6. s \notin DOMAIN Source(i, s)'
      BY <2>1, <2>4 DEF ListsRight
    <3>7. \A j \in 0..i : j = i \/ j \in 0..Indexed
      BY Numbers
    <3>8. \A j \in 0..Indexed : j \in 0..i
      BY Numbers
    <3>9. Copies(s)' = Copies(s)
      BY <1>4, <3>4, <3>5, <3>6, <3>7, <3>8 DEF Copies
    <3>10. Copies(s) # {} => Stored(s)' = Stored(s)
      <4> SUFFICES ASSUME Copies(s) # {} PROVE Stored(s)' = Stored(s)
        OBVIOUS
      <4> DEFINE c == CHOOSE j \in Copies(s) : TRUE
      <4>1. c \in Copies(s) /\ c' = c
        BY <3>9
      <4>2. c \in 0..Indexed
        BY <4>1 DEF Copies
      <4>3. Stored(s) = Source(c, s)[s] /\ Stored(s)' = (Source(c, s)[s])'
        BY DEF Stored
      <4> HIDE DEF c
      <4> QED
        BY <3>5, <4>1, <4>2, <4>3
    <3> QED
      BY <3>1, <3>9, <3>10 DEF AsOnDisk
  <2> QED
    BY <2>3, <2>4
<1> QED
  BY <1>4, <1>5, <1>7

\* The steps of an incremental save: none changes an object, a file of the full save or
\* an index in place, except that the commit places the save's own.
LEMMA BeginIncrementalSteps ==
  TypeInv /\ Flags /\ IncInv /\ BeginIncremental => IncInv' /\ Flags' /\ AbstractStep /\ OnDisk' = OnDisk
<1> SUFFICES ASSUME TypeInv, Flags, IncInv, BeginIncremental
             PROVE  IncInv' /\ Flags' /\ AbstractStep /\ OnDisk' = OnDisk
  OBVIOUS
<1> DEFINE i == incremental_save_count + 1
<1>1. /\ phase = "running" /\ phase' = "recording" /\ save_index' = i
      /\ ~incremental_saves_disabled
      /\ modified_serials' = {} /\ deleted_serials' = {}
      /\ disk' = [disk EXCEPT ![Data(i)].ndt = Nothing, ![Index(i)].ndt = Blank]
      /\ UNCHANGED <<life, version, keep, dirty, dirty_deleted, incremental_save_count>>
  BY DEF BeginIncremental, objectVars, hashVars, countVars
<1>2. i \in 1..MaxIncrementals
  BY Numbers DEF BeginIncremental, TypeInv, RoundTypes
<1> HIDE DEF i
<1>3. Data(i) \in FileNames /\ Index(i) \in FileNames /\ Data(i) # Index(i)
  BY <1>2, Names
<1>4. /\ \A f \in FileNames : disk'[f].txt = disk[f].txt
      /\ \A f \in FileNames \ {Data(i), Index(i)} : disk'[f] = disk[f]
      /\ disk'[Data(i)].ndt = Nothing
  BY <1>1, <1>3 DEF TypeInv, DiskTypes, Extensions
<1>5. SameFiles(Objects)
  BY <1>4, Names, WorldAssumption, IndexedCounts, Numbers DEF SameFiles, Things
<1>6. Refused' <=> Refused
  BY <1>4, Names, RefusedSame
<1>7. Indexed' = Indexed
  BY <1>5, SameRead DEF Things
<1>8. IndexesRight'
  BY <1>5, IndexesSame DEF IncInv
<1>9. \A s \in Objects : AsOnDisk(s)' <=> AsOnDisk(s)
  BY <1>1, <1>5, AsOnDiskSame
<1>10. \A s \in Objects : Clean(s)' => AsOnDisk(s)'
  BY <1>1, <1>9 DEF Flags, IncInv, Clean
<1>11. ListsRight(Recorded, Lines.ndt)'
  BY <1>1, <1>4 DEF ListsRight, Recorded, Lines, Nothing, Flags, TypeInv, ObjectTypes
<1>12. InRecord'
  BY <1>10, <1>11 DEF InRecord
<1>13. IncInv'
  BY <1>1, <1>6, <1>7, <1>8, <1>12 DEF IncInv, InCommit
<1>14. OnDisk' = OnDisk
  BY <1>5, <1>6, SameRead DEF OnDisk, Things
<1> QED
  BY <1>1, <1>13, <1>14, QuietFlags, ElsewhereStutters DEF Elsewhere

LEMMA RecordSteps ==
  ASSUME NEW s \in Objects
  PROVE  TypeInv /\ Flags /\ IncInv /\ Record(s) =>
           IncInv' /\ Flags' /\ AbstractStep /\ OnDisk' = OnDisk
<1> SUFFICES ASSUME TypeInv, Flags, IncInv, Record(s)
             PROVE  IncInv' /\ Flags' /\ AbstractStep /\ OnDisk' = OnDisk
  OBVIOUS
<1> DEFINE f == Data(save_index)
           more == [t \in DOMAIN Lines.ndt \cup {s} |-> IF t = s THEN version[s] ELSE Lines.ndt[t]]
<1>1. /\ phase = "recording" /\ phase' = "recording" /\ save_index' = save_index
      /\ dirty' = [dirty EXCEPT ![s] = FALSE]
      /\ UNCHANGED <<life, version, keep, dirty_deleted, incremental_save_count>>
  BY DEF Record, hashVars, countVars, saveVars
<1>2. \/ /\ life[s] = "live" /\ disk' = [disk EXCEPT ![f].ndt = more]
         /\ modified_serials' = modified_serials \cup {s} /\ deleted_serials' = deleted_serials
      \/ /\ life[s] = "orphan" /\ disk' = disk
         /\ modified_serials' = modified_serials /\ deleted_serials' = deleted_serials \cup {s}
  BY DEF Record, Lines
<1> HIDE DEF more
<1>3. save_index \in 1..MaxIncrementals
  BY <1>1, Numbers DEF TypeInv, RoundTypes
<1>4. f \in FileNames /\ \A i : f # Index(i)
  BY <1>3, Names
<1>5. /\ \A g \in FileNames : disk'[g].txt = disk[g].txt
      /\ \A g \in FileNames \ {f} : disk'[g] = disk[g]
      /\ life[s] = "live" => disk'[f].ndt = more
  BY <1>2, <1>4 DEF TypeInv, DiskTypes, Extensions
<1>6. SameFiles(Objects)
  BY <1>5, Names, WorldAssumption, IndexedCounts, Numbers DEF SameFiles, Things
<1>7. Refused' <=> Refused
  BY <1>5, Names, RefusedSame
<1>8. Indexed' = Indexed
  BY <1>6, SameRead DEF Things
<1>9. IndexesRight'
  BY <1>6, IndexesSame DEF IncInv
<1>10. \A t \in Objects : AsOnDisk(t)' <=> AsOnDisk(t)
  BY <1>1, <1>6, AsOnDiskSame
<1>11. InRecord
  BY DEF IncInv
<1>12. \A t \in Objects : (Clean(t) /\ t \notin modified_serials \cup deleted_serials => AsOnDisk(t))'
  <2> SUFFICES ASSUME NEW t \in Objects, Clean(t)', t \notin modified_serials' \cup deleted_serials'
               PROVE  AsOnDisk(t)'
    OBVIOUS
  <2>1. t # s
    BY <1>2
  <2>2. Clean(t) /\ t \notin modified_serials \cup deleted_serials
    BY <1>1, <1>2, <2>1 DEF Clean, TypeInv, ObjectTypes
  <2> QED
    BY <1>1, <1>10, <1>11, <2>2 DEF InRecord
<1>13. ListsRight(Recorded, Lines.ndt)'
  <2>1. ListsRight(Recorded, Lines.ndt)
    BY <1>1, <1>11 DEF InRecord
  <2>2. CASE life[s] = "live"
    <3>1. modified_serials' = modified_serials \cup {s} /\ deleted_serials' = deleted_serials
      BY <1>2, <2>2
    <3>2. (Lines.ndt)' = more
      BY <1>1, <1>5, <2>2 DEF Lines
    <3>3. /\ modified_serials \subseteq Objects /\ DOMAIN Lines.ndt = modified_serials
          /\ deleted_serials \cup dirty_deleted \subseteq Objects
          /\ \A t \in modified_serials : life[t] = "live" /\ Lines.ndt[t] = version[t]
          /\ \A t \in deleted_serials \cup dirty_deleted : life[t] # "live"
      BY <2>1 DEF ListsRight, Recorded
    <3>4. DOMAIN more = modified_serials \cup {s} /\ \A t \in modified_serials \cup {s} : more[t] = version[t]
      BY <3>3 DEF more
    <3> QED
      BY <1>1, <3>1, <3>2, <3>3, <3>4, <2>2 DEF ListsRight, Recorded
  <2>3. CASE life[s] = "orphan"
    BY <1>1, <1>2, <2>1, <2>3 DEF ListsRight, Recorded, Lines
  <2> QED
    BY <1>2, <2>2, <2>3
<1>14. InRecord'
  BY <1>12, <1>13 DEF InRecord
<1>15. IncInv'
  BY <1>1, <1>7, <1>8, <1>9, <1>14 DEF IncInv, InCommit
<1>16. OnDisk' = OnDisk
  BY <1>6, <1>7, SameRead DEF OnDisk, Things
<1>17. Flags'
  BY <1>1 DEF Flags, IncInv
<1> QED
  BY <1>1, <1>15, <1>16, <1>17, ElsewhereStutters DEF Elsewhere

LEMMA WriteIndexSteps ==
  TypeInv /\ Flags /\ IncInv /\ WriteIndex => IncInv' /\ Flags' /\ AbstractStep
<1> SUFFICES ASSUME TypeInv, Flags, IncInv, WriteIndex PROVE IncInv' /\ Flags' /\ AbstractStep
  OBVIOUS
<1> DEFINE f == Index(save_index)
<1>1. /\ phase = "recording" /\ phase' = "committing" /\ save_index' = save_index
      /\ \A s \in Objects : ~dirty[s]
      /\ dirty_deleted' = {} /\ queue' = CommitSteps(save_index)
      /\ UNCHANGED <<life, version, keep, dirty>>
      /\ disk' = [disk EXCEPT ![f].ndt = Recorded]
  BY DEF WriteIndex, objectVars, Recorded
<1>2. save_index \in 1..MaxIncrementals /\ save_index = incremental_save_count + 1
  BY <1>1, Numbers DEF TypeInv, RoundTypes
<1>3. f \in FileNames /\ f # Data(save_index)
  BY <1>2, Names
<1>4. /\ \A g \in FileNames : disk'[g].txt = disk[g].txt
      /\ \A g \in FileNames \ {f} : disk'[g] = disk[g]
      /\ disk'[f].ndt = Recorded
  BY <1>1, <1>3 DEF TypeInv, DiskTypes, Extensions
<1>5. SameFiles(Objects)
  BY <1>4, Names, WorldAssumption, IndexedCounts, Numbers DEF SameFiles, Things
<1>6. Refused' <=> Refused
  BY <1>4, Names, RefusedSame
<1>7. Indexed' = Indexed
  BY <1>5, SameRead DEF Things
<1>8. IndexesRight'
  BY <1>5, IndexesSame DEF IncInv
<1>9. \A s \in Objects : AsOnDisk(s)' <=> AsOnDisk(s)
  BY <1>1, <1>5, AsOnDiskSame
<1>10. /\ Listing.ndt' = Recorded /\ Lines.ndt' = Lines.ndt
  BY <1>1, <1>2, <1>3, <1>4, Names DEF Listing, Lines
<1>11. Recorded # NoFile /\ Lines.ndt # NoFile
  <2>1. Recorded \in Indexes
    BY DEF Recorded, Indexes, TypeInv, ObjectTypes
  <2> QED
    BY <1>1, <2>1, NoContents DEF TypeInv, Opened, Lines
<1>12. ListsRight(Recorded, Lines.ndt)
  BY <1>1 DEF IncInv, InRecord
<1>13. ListsRight(Listing.ndt, Lines.ndt)'
  BY <1>1, <1>10, <1>12 DEF ListsRight
<1>14. RestOnDisk(Listing.ndt)'
  <2> SUFFICES ASSUME NEW s \in Objects, s \notin Recorded.modified \cup Recorded.deleted
               PROVE  AsOnDisk(s)'
    BY <1>10 DEF RestOnDisk
  <2>1. Clean(s) /\ s \notin modified_serials \cup deleted_serials
    BY <1>1 DEF Clean, Recorded
  <2> QED
    BY <1>1, <1>9, <2>1 DEF IncInv, InRecord
<1>15. Left(CommitSteps(save_index), 0)'
  BY <1>1, <1>2, StepsAre DEF Left
<1>16. Indexed' = save_index' - 1
  BY <1>1, <1>2, <1>7, Numbers DEF IncInv, TypeInv, RoundTypes
<1>17. Committing(0)'
  BY <1>1, <1>10, <1>11, <1>13, <1>14, <1>15, <1>16 DEF Committing, AllClean
<1>18. IncInv'
  BY <1>1, <1>6, <1>8, <1>17 DEF IncInv, InRecord, InCommit
<1>19. OnDisk' = OnDisk
  BY <1>5, <1>6, SameRead DEF OnDisk, Things
<1>20. Flags'
  BY <1>1 DEF Flags
<1> QED
  BY <1>1, <1>18, <1>19, <1>20, ElsewhereStutters DEF Elsewhere

LEMMA CommitStepsAre ==
  ASSUME NEW i \in 1..MaxIncrementals
  PROVE  /\ Len(CommitSteps(i)) = 4
         /\ CommitSteps(i)[1] = Step("unlink", Data(i)) /\ CommitSteps(i)[2] = Step("place", Data(i))
         /\ CommitSteps(i)[3] = Step("unlink", Index(i)) /\ CommitSteps(i)[4] = Step("place", Index(i))
BY DEF CommitSteps, CommitIncremental

\* Until its index is placed the save changes nothing that a restart reads.
LEMMA CommitKeeps ==
  ASSUME TypeInv, IncInv, phase = "committing",
         \A f \in FileNames \ {Data(save_index), Index(save_index)} : disk'[f] = disk[f],
         disk'[Index(save_index)].txt = disk[Index(save_index)].txt,
         Indexed = save_index - 1, UNCHANGED <<life, version, keep>>
  PROVE  /\ SameFiles(Objects) /\ Indexed' = Indexed /\ IndexesRight' /\ OnDisk' = OnDisk
         /\ \A s \in Objects : AsOnDisk(s)' <=> AsOnDisk(s)
<1>1. save_index \in 1..MaxIncrementals
  BY Numbers DEF TypeInv, RoundTypes
<1>2. \A i \in 1..MaxIncrementals : disk'[Index(i)].txt = disk[Index(i)].txt
  BY Names
<1>3. \A i \in 1..Indexed : disk'[Data(i)].txt = disk[Data(i)].txt
  <2>1. \A i \in 1..Indexed : i \in 1..MaxIncrementals /\ i # save_index
    BY <1>1, Numbers
  <2> QED
    BY <2>1, Names
<1>4. \A g \in FileSet : disk'[World(g)] = disk[World(g)]
  BY Names
<1>5. SameFiles(Objects)
  BY <1>2, <1>3, <1>4, WorldAssumption DEF SameFiles, Things
<1>6. Refused' <=> Refused
  BY <1>4, RefusedSame
<1>7. IndexesRight'
  BY <1>5, IndexesSame DEF IncInv
<1> QED
  BY <1>5, <1>6, <1>7, SameRead, AsOnDiskSame DEF OnDisk, Things

LEMMA CommitFileKeeps ==
  ASSUME TypeInv, IncInv, CommitFile, NEW k \in 0..4, Committing(k)
  PROVE  /\ k + 1 \in 0..4 /\ Committing(k + 1)' /\ IndexesRight'
         /\ OnDisk' = OnDisk \/ \A s \in Objects : AsOnDisk(s)'
<1> DEFINE step == Head(queue)
           d == Data(save_index)
           x == Index(save_index)
<1>1. /\ phase = "committing" /\ queue # <<>> /\ queue' = Tail(queue) /\ save_index' = save_index
      /\ UNCHANGED <<life, version, keep, dirty, dirty_deleted>>
      /\ Perform(step)
  BY DEF CommitFile, objectVars, hashVars
<1>2. save_index \in 1..MaxIncrementals
  BY <1>1, Numbers DEF TypeInv, RoundTypes
<1>3. /\ Len(CommitSteps(save_index)) = 4 /\ CommitSteps(save_index) \in Seq(Steps)
      /\ CommitSteps(save_index)[1] = Step("unlink", d) /\ CommitSteps(save_index)[2] = Step("place", d)
      /\ CommitSteps(save_index)[3] = Step("unlink", x) /\ CommitSteps(save_index)[4] = Step("place", x)
  BY <1>2, CommitStepsAre, StepsAre
<1>4. k + 1 \in 1..4 /\ step = CommitSteps(save_index)[k + 1] /\ Left(CommitSteps(save_index), k + 1)'
  <2>1. queue \in Seq(Steps)
    BY <1>1 DEF TypeInv, QueueType
  <2>2. PICK q \in Seq(Steps) : q = CommitSteps(save_index)
    BY <1>3
  <2>3. Left(q, k) /\ k \in 0..Len(q) /\ Len(q) = 4
    BY <1>3, <2>2 DEF Committing
  <2>4. k + 1 \in 1..Len(q) /\ step = q[k + 1] /\ Left(q, k + 1)'
    BY <1>1, <2>1, <2>3, LeftTail
  <2>5. CommitSteps(save_index)' = q
    BY <1>1, <2>2 DEF CommitSteps, CommitIncremental, Step, Data, Index
  <2> QED
    BY <2>2, <2>3, <2>4, <2>5 DEF Left
<1>5. step \in Steps /\ d \in FileNames /\ x \in FileNames /\ d # x
  <2>1. d \in FileNames /\ x \in FileNames /\ d # x
    BY <1>2, Names
  <2>2. queue \in Seq(Steps)
    BY <1>1 DEF TypeInv, QueueType
  <2> QED
    BY <1>1, <2>1, <2>2
<1>6. k \in 0..3 /\ AllClean /\ AllClean'
  BY <1>1, <1>4 DEF Committing, AllClean
<1>7. /\ Indexed = save_index - 1
      /\ Listing.ndt # NoFile
      /\ (IF k < 2 THEN Lines.ndt ELSE Lines.txt) # NoFile
      /\ ListsRight(Listing.ndt, IF k < 2 THEN Lines.ndt ELSE Lines.txt)
      /\ RestOnDisk(Listing.ndt)
  BY <1>6 DEF Committing
<1> HIDE DEF step
<1>8. k \in {0, 1} => /\ disk'[x] = disk[x] /\ \A f \in FileNames \ {d, x} : disk'[f] = disk[f]
                      /\ k = 0 => disk'[d].ndt = disk[d].ndt
                      /\ k = 1 => disk'[d].txt = IF disk[d].ndt = NoFile THEN disk[d].txt ELSE disk[d].ndt
  <2>1. k \in {0, 1} => step.file = d
    BY <1>3, <1>4 DEF Step
  <2>2. (k = 0 => step.op = "unlink") /\ (k = 1 => step.op = "place")
    BY <1>3, <1>4 DEF Step
  <2> QED
    BY <1>1, <1>5, <2>1, <2>2, Performs DEF TypeInv
<1>9. k \in {2, 3} => /\ \A f \in FileNames \ {x} : disk'[f] = disk[f]
                      /\ k = 2 => disk'[x].ndt = disk[x].ndt /\ disk'[x].txt = NoFile
                      /\ k = 3 => disk'[x].txt = IF disk[x].ndt = NoFile THEN disk[x].txt ELSE disk[x].ndt
  <2>1. k \in {2, 3} => step.file = x
    BY <1>3, <1>4 DEF Step
  <2>2. (k = 2 => step.op = "unlink") /\ (k = 3 => step.op = "place")
    BY <1>3, <1>4 DEF Step
  <2> QED
    BY <1>1, <1>5, <2>1, <2>2, Performs DEF TypeInv
<1>10. disk[x].txt = NoFile
  <2>1. ~(save_index <= Indexed)
    BY <1>2, <1>7, Numbers
  <2> QED
    BY <1>2, <2>1 DEF IncInv, IndexesRight, Exists
<1>11. CASE k < 3
  <2>1. k \in {0, 1} \/ k = 2
    BY <1>6, <1>11
  <2>2. disk'[x].txt = disk[x].txt /\ \A f \in FileNames \ {d, x} : disk'[f] = disk[f]
    BY <1>8, <1>9, <1>10, <2>1
  <2>3. /\ Indexed' = Indexed /\ IndexesRight' /\ OnDisk' = OnDisk
        /\ \A s \in Objects : AsOnDisk(s)' <=> AsOnDisk(s)
    BY <1>1, <1>7, <2>2, CommitKeeps
  <2>4. Listing.ndt' = Listing.ndt
    BY <1>1, <1>8, <1>9, <2>1 DEF Listing
  <2>5. (IF k < 2 THEN Lines.ndt ELSE Lines.txt) = (IF k + 1 < 2 THEN Lines.ndt ELSE Lines.txt)'
    <3>1. CASE k = 0
      BY <1>1, <1>8, <3>1 DEF Lines
    <3>2. CASE k = 1
      BY <1>1, <1>7, <1>8, <3>2 DEF Lines
    <3>3. CASE k = 2
      BY <1>1, <1>5, <1>9, <3>3 DEF Lines
    <3> QED
      BY <2>1, <3>1, <3>2, <3>3
  <2>6. ListsRight(Listing.ndt, IF k + 1 < 2 THEN Lines.ndt ELSE Lines.txt)'
    BY <1>1, <1>7, <2>4, <2>5 DEF ListsRight
  <2>7. RestOnDisk(Listing.ndt)'
    BY <1>7, <2>3, <2>4 DEF RestOnDisk
  <2>8. k + 1 \in 0..4 /\ k + 1 # 4
    BY <1>6, <1>11
  <2> QED
    BY <1>1, <1>4, <1>6, <1>7, <2>3, <2>4, <2>5, <2>6, <2>7, <2>8 DEF Committing
<1>12. CASE k = 3
  <2>1. disk'[x].txt = Listing.ndt /\ \A f \in FileNames \ {x} : disk'[f] = disk[f]
    BY <1>7, <1>9, <1>12 DEF Listing
  <2>2. Lines.txt # NoFile /\ ListsRight(Listing.ndt, Lines.txt) /\ disk[d].txt = Lines.txt
    BY <1>7, <1>12 DEF Lines
  <2>3. IndexesRight
    BY DEF IncInv
  <2>4. Indexed' = save_index /\ IndexesRight' /\ \A s \in Objects : AsOnDisk(s)'
    BY <1>1, <1>2, <1>7, <2>1, <2>2, <2>3, PlaceIndex
  <2>5. k + 1 = 4
    BY <1>12
  <2> QED
    BY <1>1, <1>4, <1>6, <2>4, <2>5 DEF Committing
<1> QED
  BY <1>6, <1>11, <1>12

LEMMA CommitFileSteps ==
  TypeInv /\ Flags /\ IncInv /\ CommitFile => IncInv' /\ Flags' /\ AbstractStep
<1> SUFFICES ASSUME TypeInv, Flags, IncInv, CommitFile PROVE IncInv' /\ Flags' /\ AbstractStep
  OBVIOUS
<1> DEFINE step == Head(queue)
<1>1. /\ phase = "committing" /\ phase' = "committing" /\ queue # <<>> /\ save_index' = save_index
      /\ UNCHANGED <<life, version, keep, dirty, dirty_deleted>>
      /\ Perform(step)
  BY DEF CommitFile, objectVars, hashVars
<1>2. PICK k \in 0..4 : Committing(k)
  BY <1>1 DEF IncInv, InCommit
<1>3. /\ k + 1 \in 0..4 /\ Committing(k + 1)' /\ IndexesRight'
      /\ OnDisk' = OnDisk \/ \A s \in Objects : AsOnDisk(s)'
  BY <1>2, CommitFileKeeps
<1>4. InCommit'
  BY <1>3 DEF InCommit
<1>5. \A g \in FileSet : disk'[World(g)] = disk[World(g)]
  <2>1. save_index \in 1..MaxIncrementals
    BY <1>1, Numbers DEF TypeInv, RoundTypes
  <2>2. /\ queue \in Seq(Steps) /\ Len(queue) # 0
        /\ Len(queue) = Len(CommitSteps(save_index)) - k
        /\ \A i \in 1..Len(queue) : queue[i] = CommitSteps(save_index)[k + i]
    BY <1>1, <1>2 DEF TypeInv, QueueType, Committing, Left
  <2>3. step = queue[1] /\ 1 \in 1..Len(queue)
    BY <1>1, <2>2
  <2>4. k \in 0..3 /\ step = CommitSteps(save_index)[k + 1]
    <3>1. Len(queue) = 4 - k
      BY <2>1, <2>2, CommitStepsAre
    <3> QED
      BY <2>2, <2>3, <3>1
  <2> HIDE DEF step
  <2>5. step.file \in {Data(save_index), Index(save_index)}
    <3>1. \A op, f : Step(op, f).file = f
      BY DEF Step
    <3>2. k = 0 \/ k = 1 \/ k = 2 \/ k = 3
      BY <2>4
    <3> QED
      BY <2>1, <2>4, <3>1, <3>2, CommitStepsAre
  <2> USE DEF step
  <2>6. step \in Steps
    BY <1>1, <2>2
  <2> HIDE DEF step
  <2> QED
    BY <1>1, <2>1, <2>5, <2>6, Performs, Names DEF TypeInv
<1>6. Refused' <=> Refused
  BY <1>5, RefusedSame
<1>7. IncInv'
  BY <1>1, <1>3, <1>4, <1>6 DEF IncInv, InRecord
<1>8. Flags'
  BY <1>1 DEF Flags
<1>9. CASE OnDisk' = OnDisk
  BY <1>1, <1>7, <1>8, <1>9, ElsewhereStutters DEF Elsewhere
<1>10. CASE \A s \in Objects : AsOnDisk(s)'
  <2>1. ((\A s \in Objects : keep[s]) /\ (\A s \in Objects : AsOnDisk(s)) =>
           Recovered(Objects) = [s \in InMemory |-> version[s]])'
    BY AllOnDisk, PTL
  <2>2. OnDisk' = [s \in InMemory |-> version[s]]'
    BY <1>7, <1>10, <2>1 DEF OnDisk, IncInv
  <2>3. Memory = [s \in InMemory |-> version[s]] /\ Memory' = Memory /\ OnDisk' = Memory
    BY <1>1, <2>2 DEF Memory, InMemory, Live
  <2>4. Memory # NoFile
    BY <2>3, InMemoryIsFile DEF TypeInv
  <2> QED
    BY <1>7, <1>8, <2>3, <2>4 DEF AbstractStep, Saves
<1> QED
  BY <1>3, <1>9, <1>10

LEMMA EndIncrementalSteps ==
  TypeInv /\ Flags /\ IncInv /\ (FinishIncremental \/ FailIncremental) => IncInv' /\ Flags' /\ AbstractStep
<1> SUFFICES ASSUME TypeInv, Flags, IncInv, FinishIncremental \/ FailIncremental
             PROVE  IncInv' /\ Flags' /\ AbstractStep
  OBVIOUS
<1>1. /\ phase \in {"recording", "committing"} /\ phase' = "running" /\ disk' = disk
      /\ UNCHANGED <<life, version, keep, dirty, dirty_deleted>>
  BY DEF FinishIncremental, FailIncremental, objectVars, hashVars
<1>2. SameFiles(Objects) /\ (Refused' <=> Refused)
  BY <1>1 DEF SameFiles, Refused, Exists
<1>3. Indexed' = Indexed /\ OnDisk' = OnDisk
  BY <1>2, SameRead DEF OnDisk, Things
<1>4. IndexesRight'
  BY <1>2, IndexesSame DEF IncInv
<1>5. \A s \in Objects : AsOnDisk(s)' <=> AsOnDisk(s)
  BY <1>1, <1>2, AsOnDiskSame
<1>6. CASE FailIncremental
  <2>1. phase = "recording" /\ incremental_saves_disabled' /\ incremental_save_count' = incremental_save_count
    BY <1>6 DEF FailIncremental
  <2>2. IncInv'
    BY <1>1, <1>2, <1>3, <1>4, <2>1 DEF IncInv, InRecord, InCommit
  <2>3. Flags'
    BY <1>1, <2>1 DEF Flags
  <2> QED
    BY <1>1, <1>3, <2>2, <2>3, ElsewhereStutters DEF Elsewhere
<1>7. CASE FinishIncremental
  <2>1. phase = "committing" /\ queue = <<>> /\ incremental_save_count' = incremental_save_count + 1
    BY <1>7 DEF FinishIncremental
  <2>2. PICK k \in 0..4 : Committing(k)
    BY <2>1 DEF IncInv, InCommit
  <2>3. save_index \in 1..MaxIncrementals /\ save_index = incremental_save_count + 1
    BY <2>1, Numbers DEF TypeInv, RoundTypes
  <2>4. k = 4
    BY <2>1, <2>2, <2>3, CommitStepsAre DEF Committing, Left
  <2>5. Indexed = save_index /\ \A s \in Objects : AsOnDisk(s)
    BY <2>2, <2>4 DEF Committing
  <2>6. IncInv'
    BY <1>1, <1>2, <1>3, <1>4, <2>1, <2>3, <2>5 DEF IncInv, InRecord, InCommit
  <2>7. Flags'
    BY <1>1, <1>5, <2>5 DEF Flags
  <2> QED
    BY <1>1, <1>3, <2>6, <2>7, ElsewhereStutters DEF Elsewhere
<1> QED
  BY <1>6, <1>7

\* Where scripts leave saveonexit alone nothing else clears it.
LEMMA KeepsAll ==
  TypeInv /\ (\A s \in Objects : keep[s]) /\ plan.flags \subseteq {TRUE} /\ [Next]_vars =>
    \A s \in Objects : keep'[s]
<1> SUFFICES ASSUME TypeInv, \A s \in Objects : keep[s], plan.flags \subseteq {TRUE}, [Next]_vars
             PROVE  \A s \in Objects : keep'[s]
  OBVIOUS
<1>1. ASSUME NEW t \in Objects, SetSaveOnExit(t) PROVE \A s \in Objects : keep'[s]
  <2>1. PICK flag \in plan.flags : keep' = [keep EXCEPT ![t] = flag]
    BY <1>1 DEF SetSaveOnExit
  <2>2. flag
    OBVIOUS
  <2> QED
    BY <2>1, <2>2 DEF TypeInv, ObjectTypes
<1>2. CASE Game
  BY <1>1, <1>2 DEF Game, Create, Change, Destroy, Reap, Forget, ChangeOther, TypeInv, ObjectTypes
<1>3. CASE FullSave
  BY <1>3 DEF FullSave, BeginFull, WriteFile, FailFull, BeginSwitch, SwitchFile, BeginRetire, RetireNext,
              RetireFile, FinishFull, objectVars
<1>4. CASE IncrementalSave
  BY <1>4 DEF IncrementalSave, BeginIncremental, FailIncremental, Record, WriteIndex, CommitFile,
              FinishIncremental, objectVars
<1>5. CASE Stop
  BY <1>5 DEF Stop
<1>6. CASE Refuse \/ Load \/ UNCHANGED vars
  BY <1>6 DEF Refuse, Load, vars, objectVars
<1> QED
  BY <1>2, <1>3, <1>4, <1>5, <1>6 DEF Next

LEMMA IncSteps ==
  TypeInv /\ TypeInv' /\ Flags /\ IncInv /\ ~FullSave /\ plan.flags \subseteq {TRUE} /\ [Next]_vars =>
    Flags' /\ IncInv' /\ AbstractStep
<1> SUFFICES ASSUME TypeInv, TypeInv', Flags, IncInv, ~FullSave, plan.flags \subseteq {TRUE}, [Next]_vars
             PROVE  Flags' /\ IncInv' /\ AbstractStep
  OBVIOUS
<1>1. \A s \in Objects : keep'[s]
  BY KeepsAll DEF IncInv
<1>2. ASSUME disk' = disk
      PROVE  SameFiles(Objects) /\ (Refused' <=> Refused) /\ Indexed' = Indexed /\ IndexesRight'
  <2>1. SameFiles(Objects) /\ (Refused' <=> Refused)
    BY <1>2 DEF SameFiles, Refused, Exists
  <2> QED
    BY <1>2, <2>1, SameRead, IndexesSame DEF Things, IncInv
<1>3. CASE Game
  <2>1. /\ disk' = disk /\ phase = "running" /\ phase' = "running"
        /\ incremental_save_count' = incremental_save_count
    BY <1>3 DEF Game, Create, Change, SetSaveOnExit, Destroy, Reap, ChangeOther, Unsaving, countVars
  <2>2. IncInv'
    BY <1>1, <1>2, <2>1 DEF IncInv, InRecord, InCommit
  <2> QED
    BY <1>3, <2>2, GameFlags, GamePlays
<1>4. CASE IncrementalSave
  BY <1>4, BeginIncrementalSteps, RecordSteps, WriteIndexSteps, CommitFileSteps, EndIncrementalSteps
     DEF IncrementalSave
<1>5. CASE Stop
  <2>1. disk' = disk /\ phase' = "down"
    BY <1>5 DEF Stop
  <2>2. IncInv'
    BY <1>1, <1>2, <2>1 DEF IncInv, InRecord, InCommit
  <2> QED
    BY <1>5, <2>2, StopSteps
<1>6. CASE Refuse
  <2>1. disk' = disk /\ phase' = "refused"
    BY <1>6 DEF Refuse
  <2>2. IncInv'
    BY <1>1, <1>2, <2>1 DEF IncInv, InRecord, InCommit
  <2> QED
    BY <1>6, <2>2, LoadSteps
<1>7. CASE Load
  <2>1. disk' = disk /\ phase' = "running" /\ incremental_save_count' = Indexed
    BY <1>7 DEF Load
  <2>2. IncInv'
    BY <1>1, <1>2, <2>1 DEF IncInv, InRecord, InCommit
  <2> QED
    BY <1>7, <2>2, LoadSteps
<1>8. CASE UNCHANGED vars
  <2>1. UNCHANGED <<phase, life, version, keep, dirty, dirty_deleted, queue, save_index, disk,
                    modified_serials, deleted_serials, incremental_save_count, incremental_saves_disabled>>
    BY <1>8 DEF vars, saveVars, objectVars, hashVars, countVars, listVars
  <2>2. \A s \in Objects : AsOnDisk(s)' <=> AsOnDisk(s)
    BY <1>2, <2>1, AsOnDiskSame
  <2>3. InRecord'
    BY <2>1, <2>2 DEF IncInv, InRecord, ListsRight, Recorded, Lines, Clean
  <2>4. \A k \in 0..4 : Committing(k) => Committing(k)'
    <3> SUFFICES ASSUME NEW k \in 0..4, Committing(k) PROVE Committing(k)'
      OBVIOUS
    <3>1. Left(CommitSteps(save_index), k)'
      BY <2>1 DEF Committing, Left, CommitSteps, CommitIncremental, Step, Data, Index
    <3>2. Listing' = Listing /\ Lines' = Lines
      BY <2>1 DEF Listing, Lines
    <3>3. RestOnDisk(Listing.ndt) => RestOnDisk(Listing.ndt)'
      BY <2>2, <3>2 DEF RestOnDisk
    <3>4. \A p : ListsRight(Listing.ndt, p) => ListsRight(Listing.ndt, p)'
      BY <2>1, <3>2 DEF ListsRight
    <3> QED
      BY <1>2, <2>1, <2>2, <3>1, <3>2, <3>3, <3>4 DEF Committing, AllClean
  <2>5. InCommit'
    BY <2>1, <2>4 DEF IncInv, InCommit
  <2>6. IncInv'
    BY <1>1, <1>2, <2>1, <2>3, <2>5 DEF IncInv
  <2>7. Flags'
    BY <1>2, <2>1, SameFlags
  <2> QED
    BY <1>8, <2>6, <2>7, RestStutters
<1> QED
  BY <1>3, <1>4, <1>5, <1>6, <1>7, <1>8 DEF Next

-----------------------------------------------------------------------------
(* Both kinds of save on one shard *)

FullPhases == {"writing", "switching", "trailing", "retiring"}

\* How the files of the incremental save i lie, if n are counted.
Placed(i, n) == (Exists(Index(i), "txt") <=> i <= n) /\ (Exists(Data(i), "txt") => i <= n)

Gone(f) == disk[f].txt = NoFile
NoneNew(i) == disk[Data(i)].ndt = NoFile /\ disk[Index(i)].ndt = NoFile

\* Incremental saves are numbered without gaps, and none leaves a .ndt behind.
Numbered ==
  /\ \A i \in 1..MaxIncrementals :
       (phase \in {"recording", "committing"} => i # save_index) => NoneNew(i)
  /\ phase \notin {"committing", "retiring"} => \A i \in 1..MaxIncrementals : Placed(i, Indexed)
  /\ phase \notin {"committing", "retiring", "down", "refused"} => Indexed = incremental_save_count

\* A commit has done k of its four operations.
Commits(k) ==
  /\ Left(CommitSteps(save_index), k)
  /\ \A i \in 1..MaxIncrementals \ {save_index} : Placed(i, save_index - 1)
  /\ k <= 3 => disk[Index(save_index)].ndt # NoFile
  /\ k >= 2 => disk[Data(save_index)].ndt = NoFile
  /\ k = 4 => NoneNew(save_index) /\ ~Gone(Index(save_index))

\* commit_incremental_saves has done k of the four operations on the files before save_index.
Retires(k) ==
  /\ save_index > 1
  /\ Left(RetireSteps(save_index - 1), k)
  /\ k >= 1 => Gone(Data(save_index - 1))
  /\ k >= 3 => Gone(Index(save_index - 1))

Retiring ==
  /\ \A i \in 1..MaxIncrementals :
       /\ i >= save_index => Placed(i, incremental_save_count)
       /\ i < save_index - 1 => Gone(Data(i)) /\ Gone(Index(i))
  /\ (save_index = 1 /\ queue = <<>>) \/ \E k \in 0..4 : Retires(k)

Shape ==
  /\ Numbered
  /\ phase = "committing" => \E k \in 0..4 : Commits(k)
  /\ phase = "retiring" => Retiring

\* A restart that is not refused reads what the incremental saves go on from; one that is
\* refused waits for a full save, which retires them all.
BothInv ==
  /\ FullCore
  /\ Shape
  /\ \A s \in Objects : keep[s]
  /\ ~incremental_saves_disabled
  /\ phase \notin FullPhases /\ ~Refused => IncInv

GuardedStops == {"running", "writing", "switching"}

\* A shard that saves in full and incrementally, stops where a restart notices or where the
\* files are as they were, and raises no exception in an incremental save.
GuardedBoth(p) ==
  /\ p.flags \subseteq {TRUE}
  /\ p.stops \subseteq GuardedStops
  /\ p.failures \subseteq {"writing"}

PlacedCounts ==
  \A n \in 0..MaxIncrementals : (\A i \in 1..MaxIncrementals : Placed(i, n)) => Indexed = n

LEMMA CountsPlaced == PlacedCounts
<1> SUFFICES ASSUME NEW n \in 0..MaxIncrementals, \A i \in 1..MaxIncrementals : Placed(i, n)
             PROVE  Indexed = n
  BY DEF PlacedCounts
<1>1. Counts(n)
  BY Numbers DEF Placed, Counts
<1> QED
  BY <1>1, CountsOnce DEF CountedOnce

\* The files of incremental saves are as they were.
IncrementalsSame ==
  \A i \in 1..MaxIncrementals : disk'[Data(i)] = disk[Data(i)] /\ disk'[Index(i)] = disk[Index(i)]

LEMMA OnlyWorld == WorldOnly \/ disk' = disk => IncrementalsSame
BY Names DEF WorldOnly, IncrementalsSame

\* Steps that leave these files alone, between phases that do not work on them.
Counting == {"running", "writing", "switching", "trailing"}
Stopped == {"down", "refused"}

LEMMA QuietShape ==
  ASSUME TypeInv, Shape, IncrementalsSame, phase \in Counting \cup Stopped,
         \/ phase' \in Stopped
         \/ (phase \in Counting /\ phase' \in Counting /\ UNCHANGED incremental_save_count)
         \/ (phase' \in Counting /\ incremental_save_count' = Indexed)
  PROVE  Shape'
<1>1. Indexed' = Indexed
  BY SameCount DEF IncrementalsSame, Exists
<1>2. \A i \in 1..MaxIncrementals : (NoneNew(i) => NoneNew(i)') /\ (Placed(i, Indexed) => Placed(i, Indexed)')
  BY <1>1 DEF IncrementalsSame, NoneNew, Placed, Exists
<1> QED
  BY <1>1, <1>2 DEF Shape, Numbered, Counting, Stopped

LEMMA BeginIncrementalShape ==
  TypeInv /\ Shape /\ BeginIncremental => Shape' /\ (Refused' <=> Refused)
<1> SUFFICES ASSUME TypeInv, Shape, BeginIncremental PROVE Shape' /\ (Refused' <=> Refused)
  OBVIOUS
<1> DEFINE i == incremental_save_count + 1
<1>1. /\ phase = "running" /\ phase' = "recording" /\ save_index' = i
      /\ incremental_save_count' = incremental_save_count
      /\ disk' = [disk EXCEPT ![Data(i)].ndt = Nothing, ![Index(i)].ndt = Blank]
  BY DEF BeginIncremental, countVars
<1>2. i \in 1..MaxIncrementals
  BY Numbers DEF BeginIncremental, TypeInv, RoundTypes
<1> HIDE DEF i
<1>3. Data(i) \in FileNames /\ Index(i) \in FileNames /\ Data(i) # Index(i)
  BY <1>2, Names
<1>4. /\ \A f \in FileNames : disk'[f].txt = disk[f].txt
      /\ \A f \in FileNames \ {Data(i), Index(i)} : disk'[f] = disk[f]
  BY <1>1, <1>3 DEF TypeInv, DiskTypes, Extensions
<1>5. \A j \in 1..MaxIncrementals : /\ disk'[Data(j)].txt = disk[Data(j)].txt
                                    /\ disk'[Index(j)].txt = disk[Index(j)].txt
                                    /\ j # i => disk'[Data(j)] = disk[Data(j)] /\ disk'[Index(j)] = disk[Index(j)]
  BY <1>4, Names
<1>6. Indexed' = Indexed
  BY <1>5, SameCount DEF Exists
<1>7. Refused' <=> Refused
  BY <1>4, Names, RefusedSame
<1> QED
  BY <1>1, <1>5, <1>6, <1>7 DEF Shape, Numbered, NoneNew, Placed, Exists

LEMMA RecordShape ==
  ASSUME NEW s \in Objects
  PROVE  TypeInv /\ Shape /\ Record(s) => Shape' /\ (Refused' <=> Refused)
<1> SUFFICES ASSUME TypeInv, Shape, Record(s) PROVE Shape' /\ (Refused' <=> Refused)
  OBVIOUS
<1> DEFINE f == Data(save_index)
<1>1. /\ phase = "recording" /\ phase' = "recording" /\ save_index' = save_index
      /\ incremental_save_count' = incremental_save_count
      /\ \/ \E p : disk' = [disk EXCEPT ![f].ndt = p]
         \/ disk' = disk
  BY DEF Record, countVars, saveVars
<1>2. save_index \in 1..MaxIncrementals
  BY <1>1, Numbers DEF TypeInv, RoundTypes
<1>3. f \in FileNames
  BY <1>2, Names
<1>4. /\ \A g \in FileNames : disk'[g].txt = disk[g].txt
      /\ \A g \in FileNames \ {f} : disk'[g] = disk[g]
  BY <1>1, <1>3 DEF TypeInv, DiskTypes, Extensions
<1>5. \A j \in 1..MaxIncrementals : /\ disk'[Data(j)].txt = disk[Data(j)].txt
                                    /\ disk'[Index(j)].txt = disk[Index(j)].txt
                                    /\ j # save_index => disk'[Data(j)] = disk[Data(j)] /\ disk'[Index(j)] = disk[Index(j)]
  BY <1>4, Names
<1>6. Indexed' = Indexed
  BY <1>5, SameCount DEF Exists
<1>7. Refused' <=> Refused
  BY <1>4, Names, RefusedSame
<1> QED
  BY <1>1, <1>5, <1>6, <1>7 DEF Shape, Numbered, NoneNew, Placed, Exists

LEMMA WriteIndexShape ==
  TypeInv /\ Shape /\ WriteIndex => Shape' /\ (Refused' <=> Refused)
<1> SUFFICES ASSUME TypeInv, Shape, WriteIndex PROVE Shape' /\ (Refused' <=> Refused)
  OBVIOUS
<1> DEFINE f == Index(save_index)
<1>1. /\ phase = "recording" /\ phase' = "committing" /\ save_index' = save_index
      /\ incremental_save_count' = incremental_save_count
      /\ queue' = CommitSteps(save_index)
      /\ disk' = [disk EXCEPT ![f].ndt = Recorded]
  BY DEF WriteIndex, countVars, Recorded
<1>2. save_index \in 1..MaxIncrementals /\ save_index = incremental_save_count + 1
  BY <1>1, Numbers DEF TypeInv, RoundTypes
<1>3. f \in FileNames
  BY <1>2, Names
<1>4. /\ \A g \in FileNames : disk'[g].txt = disk[g].txt
      /\ \A g \in FileNames \ {f} : disk'[g] = disk[g]
      /\ disk'[f].ndt = Recorded
  BY <1>1, <1>3 DEF TypeInv, DiskTypes, Extensions
<1>5. \A j \in 1..MaxIncrementals : /\ disk'[Data(j)].txt = disk[Data(j)].txt
                                    /\ disk'[Index(j)].txt = disk[Index(j)].txt
                                    /\ j # save_index => disk'[Data(j)] = disk[Data(j)] /\ disk'[Index(j)] = disk[Index(j)]
  BY <1>4, Names
<1>6. Recorded # NoFile
  <2>1. Recorded \in Indexes
    BY DEF Recorded, Indexes, TypeInv, ObjectTypes
  <2> QED
    BY <2>1, NoContents
<1>7. Refused' <=> Refused
  BY <1>4, Names, RefusedSame
<1>8. Left(CommitSteps(save_index), 0)'
  BY <1>1, <1>2, StepsAre DEF Left
<1>9. \A j \in 1..MaxIncrementals : Placed(j, save_index - 1)'
  <2>1. Indexed = save_index - 1
    BY <1>1, <1>2, Numbers DEF Shape, Numbered, TypeInv, RoundTypes
  <2>2. \A j \in 1..MaxIncrementals : Placed(j, Indexed)
    BY <1>1 DEF Shape, Numbered
  <2> QED
    BY <1>1, <1>5, <2>1, <2>2 DEF Placed, Exists
<1>10. Commits(0)'
  BY <1>1, <1>4, <1>6, <1>8, <1>9 DEF Commits
<1>11. \A i \in 1..MaxIncrementals \ {save_index} : NoneNew(i)'
  BY <1>1, <1>5 DEF Shape, Numbered, NoneNew
<1>12. \E k \in 0..4 : Commits(k)'
  BY <1>10
<1> QED
  BY <1>1, <1>7, <1>11, <1>12 DEF Shape, Numbered

LEMMA CommitFileShape ==
  TypeInv /\ Shape /\ CommitFile => Shape' /\ (Refused' <=> Refused)
<1> SUFFICES ASSUME TypeInv, Shape, CommitFile PROVE Shape' /\ (Refused' <=> Refused)
  OBVIOUS
<1> DEFINE step == Head(queue)
           d == Data(save_index)
           x == Index(save_index)
<1>1. /\ phase = "committing" /\ phase' = "committing" /\ queue # <<>> /\ queue' = Tail(queue)
      /\ save_index' = save_index
      /\ Perform(step)
  BY DEF CommitFile
<1>2. save_index \in 1..MaxIncrementals
  BY <1>1, Numbers DEF TypeInv, RoundTypes
<1>3. PICK k \in 0..4 : Commits(k)
  BY <1>1 DEF Shape
<1>4. /\ Len(CommitSteps(save_index)) = 4 /\ CommitSteps(save_index) \in Seq(Steps)
      /\ CommitSteps(save_index)[1] = Step("unlink", d) /\ CommitSteps(save_index)[2] = Step("place", d)
      /\ CommitSteps(save_index)[3] = Step("unlink", x) /\ CommitSteps(save_index)[4] = Step("place", x)
  BY <1>2, CommitStepsAre, StepsAre
<1>5. k + 1 \in 1..4 /\ step = CommitSteps(save_index)[k + 1] /\ Left(CommitSteps(save_index), k + 1)'
  <2>1. queue \in Seq(Steps)
    BY <1>1 DEF TypeInv, QueueType
  <2>2. PICK q \in Seq(Steps) : q = CommitSteps(save_index)
    BY <1>4
  <2>3. Left(q, k) /\ k \in 0..Len(q) /\ Len(q) = 4
    BY <1>3, <1>4, <2>2 DEF Commits
  <2>4. k + 1 \in 1..Len(q) /\ step = q[k + 1] /\ Left(q, k + 1)'
    BY <1>1, <2>1, <2>3, LeftTail
  <2>5. CommitSteps(save_index)' = q
    BY <1>1, <2>2 DEF CommitSteps, CommitIncremental, Step, Data, Index
  <2> QED
    BY <2>2, <2>3, <2>4, <2>5 DEF Left
<1>6. step \in Steps /\ d \in FileNames /\ x \in FileNames /\ d # x
  <2>1. d \in FileNames /\ x \in FileNames /\ d # x
    BY <1>2, Names
  <2>2. queue \in Seq(Steps)
    BY <1>1 DEF TypeInv, QueueType
  <2> QED
    BY <1>1, <2>1, <2>2
<1> HIDE DEF step
<1>7. k + 1 \in {1, 2} => /\ \A f \in FileNames \ {d} : disk'[f] = disk[f]
                          /\ k + 1 = 2 => disk'[d].ndt = NoFile
  <2>1. k + 1 \in {1, 2} => step.file = d /\ (k + 1 = 2 => step.op = "place")
    BY <1>4, <1>5 DEF Step
  <2> QED
    BY <1>1, <1>6, <2>1, Performs DEF TypeInv
<1>8. k + 1 \in {3, 4} => /\ \A f \in FileNames \ {x} : disk'[f] = disk[f]
                          /\ k + 1 = 3 => disk'[x].ndt = disk[x].ndt
                          /\ k + 1 = 4 => disk'[x].ndt = NoFile
                               /\ disk'[x].txt = IF disk[x].ndt = NoFile THEN disk[x].txt ELSE disk[x].ndt
  <2>1. k + 1 \in {3, 4} => step.file = x /\ (k + 1 = 3 => step.op = "unlink") /\ (k + 1 = 4 => step.op = "place")
    BY <1>4, <1>5 DEF Step
  <2> QED
    BY <1>1, <1>6, <2>1, Performs DEF TypeInv
<1>9. k + 1 \in {1, 2} \/ k + 1 \in {3, 4}
  BY <1>5
<1>10. \A f \in FileNames \ {d, x} : disk'[f] = disk[f]
  BY <1>7, <1>8, <1>9
<1>11. \A i \in 1..MaxIncrementals \ {save_index} :
         disk'[Data(i)] = disk[Data(i)] /\ disk'[Index(i)] = disk[Index(i)]
  BY <1>10, Names
<1>12. Refused' <=> Refused
  BY <1>10, Names, RefusedSame
<1>13. \A i \in 1..MaxIncrementals \ {save_index} : Placed(i, save_index - 1)'
  BY <1>1, <1>3, <1>11 DEF Commits, Placed, Exists
<1>14. /\ k + 1 <= 3 => disk'[x].ndt # NoFile
       /\ k + 1 >= 2 => disk'[d].ndt = NoFile
       /\ k + 1 = 4 => disk'[x].ndt = NoFile /\ disk'[x].txt # NoFile
  <2>1. k <= 3 /\ disk[x].ndt # NoFile
    BY <1>3, <1>5 DEF Commits
  <2>2. k >= 2 => disk[d].ndt = NoFile
    BY <1>3 DEF Commits
  <2>3. CASE k + 1 \in {1, 2}
    BY <1>6, <1>7, <2>1, <2>3
  <2>4. CASE k + 1 \in {3, 4}
    BY <1>6, <1>8, <2>1, <2>2, <2>4
  <2> QED
    BY <1>9, <2>3, <2>4
<1>15. Commits(k + 1)'
  BY <1>1, <1>5, <1>13, <1>14 DEF Commits, NoneNew, Gone
<1>16. \A i \in 1..MaxIncrementals \ {save_index} : NoneNew(i)'
  BY <1>1, <1>11 DEF Shape, Numbered, NoneNew
<1>17. k + 1 \in 0..4
  BY <1>5
<1> QED
  BY <1>1, <1>12, <1>15, <1>16, <1>17 DEF Shape, Numbered

LEMMA FinishIncrementalShape ==
  TypeInv /\ Shape /\ FinishIncremental => Shape' /\ (Refused' <=> Refused)
<1> SUFFICES ASSUME TypeInv, Shape, FinishIncremental PROVE Shape' /\ (Refused' <=> Refused)
  OBVIOUS
<1>1. /\ phase = "committing" /\ queue = <<>> /\ phase' = "running" /\ disk' = disk
      /\ incremental_save_count' = incremental_save_count + 1
  BY DEF FinishIncremental
<1>2. save_index \in 1..MaxIncrementals /\ save_index = incremental_save_count + 1
  BY <1>1, Numbers DEF TypeInv, RoundTypes
<1>3. PICK k \in 0..4 : Commits(k)
  BY <1>1 DEF Shape
<1>4. k = 4
  BY <1>1, <1>2, <1>3, CommitStepsAre DEF Commits, Left
<1>5. \A i \in 1..MaxIncrementals : Placed(i, save_index) /\ NoneNew(i)
  <2> SUFFICES ASSUME NEW i \in 1..MaxIncrementals PROVE Placed(i, save_index) /\ NoneNew(i)
    OBVIOUS
  <2>1. CASE i = save_index
    BY <1>2, <1>3, <1>4, <2>1 DEF Commits, Placed, Gone, Exists
  <2>2. CASE i # save_index
    <3>1. Placed(i, save_index - 1)
      BY <1>3, <2>2 DEF Commits
    <3>2. i <= save_index - 1 <=> i <= save_index
      BY <1>2, <2>2, Numbers
    <3> QED
      BY <1>1, <2>2, <3>1, <3>2 DEF Placed, Shape, Numbered
  <2> QED
    BY <2>1, <2>2
<1>6. Indexed = save_index
  BY <1>2, <1>5, CountsPlaced, Numbers DEF PlacedCounts
<1>7. Indexed' = Indexed
  BY <1>1, SameCount DEF Exists
<1>8. Refused' <=> Refused
  BY <1>1 DEF Refused, Exists
<1> QED
  BY <1>1, <1>2, <1>5, <1>6, <1>7, <1>8 DEF Shape, Numbered, Placed, NoneNew, Exists

\* The files of incremental saves that a full save retires.
LEMMA RetireStepsAre ==
  ASSUME NEW i \in 1..MaxIncrementals
  PROVE  /\ Len(RetireSteps(i)) = 4 /\ RetireSteps(i) \in Seq(Steps)
         /\ RetireSteps(i)[1] = Step("aside", Data(i)) /\ RetireSteps(i)[2] = Step("place", Data(i))
         /\ RetireSteps(i)[3] = Step("aside", Index(i)) /\ RetireSteps(i)[4] = Step("place", Index(i))
<1>1. RetireSteps(i) \in Seq(Steps)
  BY StepsAre
<1> QED
  BY <1>1 DEF RetireSteps, Commit

LEMMA BeginRetireShape ==
  TypeInv /\ FullCore /\ Shape /\ BeginRetire => Shape'
<1> SUFFICES ASSUME TypeInv, FullCore, Shape, BeginRetire PROVE Shape'
  OBVIOUS
<1>1. /\ phase \in {"switching", "trailing"} /\ phase' = "retiring" /\ disk' = disk /\ queue' = queue
      /\ queue = <<>> /\ save_index' = 1 /\ incremental_save_count' = incremental_save_count
  BY DEF BeginRetire, countVars
<1>2. \A i \in 1..MaxIncrementals : NoneNew(i) /\ Placed(i, incremental_save_count)
  BY <1>1 DEF Shape, Numbered
<1>3. \A i \in 1..MaxIncrementals : NoneNew(i)' /\ Placed(i, incremental_save_count)'
  BY <1>1, <1>2 DEF NoneNew, Placed, Exists
<1>4. Retiring'
  BY <1>1, <1>3, Numbers DEF Retiring
<1> QED
  BY <1>1, <1>3, <1>4 DEF Shape, Numbered

LEMMA RetireNextShape ==
  TypeInv /\ Shape /\ RetireNext => Shape'
<1> SUFFICES ASSUME TypeInv, Shape, RetireNext PROVE Shape'
  OBVIOUS
<1>1. /\ phase = "retiring" /\ phase' = "retiring" /\ disk' = disk /\ queue = <<>>
      /\ save_index <= MaxIncrementals /\ queue' = RetireSteps(save_index) /\ save_index' = save_index + 1
      /\ incremental_save_count' = incremental_save_count
  BY DEF RetireNext, KnownIncremental, countVars
<1>2. save_index \in 1..MaxIncrementals
  BY <1>1, Numbers DEF TypeInv, RoundTypes
<1>3. Retiring
  BY <1>1 DEF Shape
<1>4. \A i \in 1..MaxIncrementals : i < save_index => Gone(Data(i)) /\ Gone(Index(i))
  <2> SUFFICES ASSUME NEW i \in 1..MaxIncrementals, i < save_index PROVE Gone(Data(i)) /\ Gone(Index(i))
    OBVIOUS
  <2>1. CASE i < save_index - 1
    BY <1>3, <2>1 DEF Retiring
  <2>2. CASE i = save_index - 1
    <3>1. PICK k \in 0..4 : Retires(k)
      BY <1>2, <1>3, <2>2 DEF Retiring
    <3>2. k = 4
      BY <1>1, <2>2, <3>1, RetireStepsAre DEF Retires, Left
    <3> QED
      BY <2>2, <3>1, <3>2 DEF Retires
  <2> QED
    BY <1>2, <2>1, <2>2, Numbers
<1>5. save_index' - 1 = save_index
  BY <1>1, <1>2
<1>6. Retires(0)'
  <2>1. PICK q \in Seq(Steps) : q = RetireSteps(save_index)
    BY <1>2, RetireStepsAre
  <2>2. RetireSteps(save_index - 1)' = q
    BY <1>5, <2>1 DEF RetireSteps, Commit, Step, Data, Index
  <2>3. Left(q, 0)'
    BY <1>1, <2>1 DEF Left
  <2>4. Left(RetireSteps(save_index - 1), 0)'
    BY <2>2, <2>3 DEF Left
  <2> QED
    BY <1>1, <1>2, <2>4 DEF Retires
<1>7. \A i \in 1..MaxIncrementals : /\ i >= save_index' => Placed(i, incremental_save_count)'
                                    /\ i < save_index' - 1 => Gone(Data(i))' /\ Gone(Index(i))'
                                    /\ NoneNew(i)'
  <2> SUFFICES ASSUME NEW i \in 1..MaxIncrementals
               PROVE  /\ i >= save_index' => Placed(i, incremental_save_count)'
                      /\ i < save_index' - 1 => Gone(Data(i))' /\ Gone(Index(i))'
                      /\ NoneNew(i)'
    OBVIOUS
  <2>1. i >= save_index' => i >= save_index
    BY <1>1, <1>2
  <2> QED
    BY <1>1, <1>3, <1>4, <1>5, <2>1 DEF Retiring, Placed, Gone, NoneNew, Exists, Shape, Numbered
<1>8. Retiring'
  BY <1>6, <1>7 DEF Retiring
<1> QED
  BY <1>1, <1>7, <1>8 DEF Shape, Numbered

LEMMA RetireFileShape ==
  TypeInv /\ FullCore /\ Shape /\ RetireFile => Shape' /\ FullCore'
<1> SUFFICES ASSUME TypeInv, FullCore, Shape, RetireFile PROVE Shape' /\ FullCore'
  OBVIOUS
<1> DEFINE step == Head(queue)
           i == save_index - 1
           d == Data(i)
           x == Index(i)
<1>1. /\ phase = "retiring" /\ phase' = "retiring" /\ queue # <<>> /\ queue' = Tail(queue)
      /\ save_index' = save_index /\ incremental_save_count' = incremental_save_count
      /\ UNCHANGED <<life, version, keep>>
      /\ Perform(step)
  BY DEF RetireFile, countVars, objectVars
<1>2. Retiring
  BY <1>1 DEF Shape
<1>3. PICK k \in 0..4 : Retires(k)
  BY <1>1, <1>2 DEF Retiring
<1>4. i \in 1..MaxIncrementals /\ save_index = i + 1
  BY <1>3, Numbers DEF Retires, TypeInv, RoundTypes
<1>5. /\ Len(RetireSteps(i)) = 4 /\ RetireSteps(i) \in Seq(Steps)
      /\ RetireSteps(i)[1] = Step("aside", d) /\ RetireSteps(i)[2] = Step("place", d)
      /\ RetireSteps(i)[3] = Step("aside", x) /\ RetireSteps(i)[4] = Step("place", x)
  BY <1>4, RetireStepsAre
<1>6. k + 1 \in 1..4 /\ step = RetireSteps(i)[k + 1] /\ Left(RetireSteps(save_index - 1), k + 1)'
  <2>1. queue \in Seq(Steps)
    BY <1>1 DEF TypeInv, QueueType
  <2>2. PICK q \in Seq(Steps) : q = RetireSteps(i)
    BY <1>5
  <2>3. Left(q, k) /\ k \in 0..Len(q) /\ Len(q) = 4
    BY <1>3, <1>5, <2>2 DEF Retires
  <2>4. k + 1 \in 1..Len(q) /\ step = q[k + 1] /\ Left(q, k + 1)'
    BY <1>1, <2>1, <2>3, LeftTail
  <2>5. RetireSteps(save_index - 1)' = q
    BY <1>1, <2>2 DEF RetireSteps, Commit, Step, Data, Index
  <2> QED
    BY <2>2, <2>3, <2>4, <2>5 DEF Left
<1>7. step \in Steps /\ d \in FileNames /\ x \in FileNames /\ d # x
  <2>1. d \in FileNames /\ x \in FileNames /\ d # x
    BY <1>4, Names
  <2>2. queue \in Seq(Steps)
    BY <1>1 DEF TypeInv, QueueType
  <2> QED
    BY <1>1, <2>1, <2>2
<1>8. NoneNew(i)
  BY <1>1, <1>4 DEF Shape, Numbered
<1> HIDE DEF step, i
<1>9. k + 1 \in {1, 2} => /\ \A f \in FileNames \ {d} : disk'[f] = disk[f]
                          /\ disk'[d].ndt = NoFile
                          /\ disk'[d].txt = IF k + 1 = 1 THEN NoFile ELSE disk[d].txt
  <2>1. k + 1 \in {1, 2} => step.file = d /\ step.op = IF k + 1 = 1 THEN "aside" ELSE "place"
    BY <1>5, <1>6 DEF Step
  <2> QED
    BY <1>1, <1>7, <1>8, <2>1, Performs DEF TypeInv, NoneNew
<1>10. k + 1 \in {3, 4} => /\ \A f \in FileNames \ {x} : disk'[f] = disk[f]
                           /\ disk'[x].ndt = NoFile
                           /\ disk'[x].txt = IF k + 1 = 3 THEN NoFile ELSE disk[x].txt
  <2>1. k + 1 \in {3, 4} => step.file = x /\ step.op = IF k + 1 = 3 THEN "aside" ELSE "place"
    BY <1>5, <1>6 DEF Step
  <2> QED
    BY <1>1, <1>7, <1>8, <2>1, Performs DEF TypeInv, NoneNew
<1>11. k + 1 \in {1, 2} \/ k + 1 \in {3, 4}
  BY <1>6
<1>12. \A f \in FileNames \ {d, x} : disk'[f] = disk[f]
  BY <1>9, <1>10, <1>11
<1>13. disk'[d].ndt = NoFile /\ disk'[x].ndt = NoFile
  BY <1>7, <1>8, <1>9, <1>10, <1>11 DEF NoneNew
<1>14. \A j \in 1..MaxIncrementals : j # i => disk'[Data(j)] = disk[Data(j)] /\ disk'[Index(j)] = disk[Index(j)]
  BY <1>12, Names
<1>15. \A j \in 1..MaxIncrementals : NoneNew(j)'
  BY <1>1, <1>13, <1>14 DEF Shape, Numbered, NoneNew
<1>16. (k + 1 >= 1 => disk'[d].txt = NoFile) /\ (k + 1 >= 3 => disk'[x].txt = NoFile)
  <2>1. (k >= 1 => disk[d].txt = NoFile) /\ (k >= 3 => disk[x].txt = NoFile)
    BY <1>3 DEF Retires, Gone, i
  <2>2. CASE k + 1 \in {1, 2}
    BY <1>6, <1>9, <2>1, <2>2
  <2>3. CASE k + 1 \in {3, 4}
    BY <1>6, <1>7, <1>10, <2>1, <2>3
  <2> QED
    BY <1>11, <2>2, <2>3
<1>17. Retires(k + 1)'
  BY <1>1, <1>3, <1>6, <1>16 DEF Retires, Gone, i
<1>18. \A j \in 1..MaxIncrementals : /\ j >= save_index' => Placed(j, incremental_save_count)'
                                     /\ j < save_index' - 1 => Gone(Data(j))' /\ Gone(Index(j))'
  <2>1. \A j \in 1..MaxIncrementals : j >= save_index \/ j < save_index - 1 => j # i
    BY <1>4, Numbers
  <2> QED
    BY <1>1, <1>2, <1>14, <2>1 DEF Retiring, Placed, Gone, Exists
<1>19. Retiring'
  BY <1>6, <1>17, <1>18 DEF Retiring
<1>20. Shape'
  BY <1>1, <1>15, <1>19 DEF Shape, Numbered
<1>21. \A g \in FileSet : disk'[World(g)] = disk[World(g)]
  BY <1>12, Names
<1>22. Refused' <=> Refused
  BY <1>21, RefusedSame
<1>23. Switched'
  BY <1>1, <1>21, WrittenSame, WorldAssumption DEF FullCore, Switched, Things
<1> QED
  BY <1>1, <1>20, <1>22, <1>23 DEF FullCore, InSwitch

\* When no file is known of the next incremental save, none is left in place.
LEMMA FinishFullShape ==
  TypeInv /\ Shape /\ FinishFull => Shape' /\ NoIndexes /\ NoIndexes'
<1> SUFFICES ASSUME TypeInv, Shape, FinishFull PROVE Shape' /\ NoIndexes /\ NoIndexes'
  OBVIOUS
<1>1. /\ phase = "retiring" /\ phase' = "running" /\ disk' = disk /\ queue = <<>>
      /\ ~KnownIncremental(save_index) /\ incremental_save_count' = 0
  BY DEF FinishFull
<1>2. Retiring
  BY <1>1 DEF Shape
<1>3. save_index \in 1..(MaxIncrementals + 1) /\ incremental_save_count \in 0..MaxIncrementals
  BY <1>1, Numbers DEF TypeInv, RoundTypes
<1>4. save_index > incremental_save_count
  <2> SUFFICES ASSUME save_index <= incremental_save_count PROVE FALSE
    BY <1>3, Numbers
  <2>1. save_index \in 1..MaxIncrementals
    BY <1>3, Numbers
  <2>2. Exists(Index(save_index), "txt")
    BY <1>2, <1>3, <2>1 DEF Retiring, Placed
  <2>3. KnownIncremental(save_index)
    BY <2>1, <2>2 DEF KnownIncremental, Known, Extensions
  <2> QED
    BY <1>1, <2>3
<1>5. \A i \in 1..MaxIncrementals : Gone(Data(i)) /\ Gone(Index(i))
  <2> SUFFICES ASSUME NEW i \in 1..MaxIncrementals PROVE Gone(Data(i)) /\ Gone(Index(i))
    OBVIOUS
  <2>1. CASE i >= save_index
    <3>1. ~(i <= incremental_save_count)
      BY <1>3, <1>4, <2>1, Numbers
    <3> QED
      BY <1>2, <2>1, <3>1 DEF Retiring, Placed, Exists, Gone
  <2>2. CASE i < save_index - 1
    BY <1>2, <2>2 DEF Retiring
  <2>3. CASE i = save_index - 1
    <3>1. PICK k \in 0..4 : Retires(k)
      BY <1>2, <1>3, <2>3 DEF Retiring
    <3>2. k = 4
      BY <1>1, <2>3, <3>1, RetireStepsAre DEF Retires, Left
    <3> QED
      BY <2>3, <3>1, <3>2 DEF Retires
  <2> QED
    BY <1>3, <2>1, <2>2, <2>3, Numbers
<1>6. \A i \in 1..MaxIncrementals : Placed(i, 0)' /\ NoneNew(i)' /\ ~Exists(Index(i), "txt")
  BY <1>1, <1>5 DEF Placed, Gone, Exists, NoneNew, Shape, Numbered
<1>7. Indexed' = 0
  <2>1. PlacedCounts'
    BY CountsPlaced, PTL
  <2> QED
    BY <1>6, <2>1, Numbers DEF PlacedCounts
<1> QED
  BY <1>1, <1>6, <1>7 DEF Shape, Numbered, NoIndexes, Exists


\* A step that changes nothing.
LEMMA StutterSame ==
  ASSUME FullCore, Shape,
         UNCHANGED <<phase, life, version, keep, queue, save_index, disk, incremental_save_count>>
  PROVE  FullCore' /\ Shape'
<1>1. \A g : Written(g)' = Written(g)
  BY DEF Written, Present, Live
<1>2. InSwitch' /\ (Switched => Switched')
  BY <1>1 DEF FullCore, InSwitch, Switching, Left, New, InPlace, Switched
<1>3. \A k : Writing(k) => Writing(k)'
  BY <1>1 DEF Writing, Left, New
<1>4. FullCore'
  BY <1>2, <1>3 DEF FullCore, Refused, Exists
<1>5. Indexed' = Indexed
  BY SameCount DEF Exists
<1>6. Numbered'
  BY <1>5 DEF Shape, Numbered, NoneNew, Placed, Exists
<1>7. \A k : Commits(k) => Commits(k)'
  BY DEF Commits, Left, CommitSteps, CommitIncremental, Step, Data, Index, NoneNew, Gone, Placed, Exists
<1>8. \A k : Retires(k) => Retires(k)'
  BY DEF Retires, Left, RetireSteps, Commit, Step, Data, Index, Gone
<1>9. Retiring => Retiring'
  BY <1>8 DEF Retiring, Gone, Placed, Exists
<1>10. Shape'
  BY <1>6, <1>7, <1>9 DEF Shape
<1> QED
  BY <1>4, <1>10

\* All steps but those of full saves.
LEMMA OthersShape ==
  TypeInv /\ BothInv /\ GuardedBoth(plan) /\ [Next]_vars /\ ~FullSave =>
    FullCore' /\ Shape' /\ (Refused' <=> Refused) /\ ~incremental_saves_disabled'
<1> SUFFICES ASSUME TypeInv, BothInv, GuardedBoth(plan), [Next]_vars, ~FullSave
             PROVE  FullCore' /\ Shape' /\ (Refused' <=> Refused) /\ ~incremental_saves_disabled'
  OBVIOUS
<1>1. FullCore /\ Shape /\ ~incremental_saves_disabled
  BY DEF BothInv
<1>2. ASSUME disk' = disk PROVE IncrementalsSame /\ (Refused' <=> Refused)
  BY <1>2 DEF IncrementalsSame, Refused, Exists
<1>3. ASSUME phase' \notin FullPhases PROVE FullCore'
  BY <1>3 DEF FullCore, InSwitch, FullPhases
<1>4. CASE Game
  <2>1. /\ disk' = disk /\ phase = "running" /\ phase' = "running"
        /\ UNCHANGED <<incremental_save_count, incremental_saves_disabled>>
    BY <1>4 DEF Game, Create, Change, SetSaveOnExit, Destroy, Reap, ChangeOther, Unsaving, countVars
  <2> QED
    BY <1>1, <1>2, <1>3, <2>1, QuietShape DEF Counting, FullPhases
<1>5. CASE IncrementalSave
  <2>1. ~FailIncremental
    BY DEF FailIncremental, GuardedBoth
  <2>2. Shape' /\ (Refused' <=> Refused)
    BY <1>1, <1>5, <2>1, BeginIncrementalShape, RecordShape, WriteIndexShape, CommitFileShape,
       FinishIncrementalShape DEF IncrementalSave
  <2>3. phase' \in {"running", "recording", "committing"} /\ incremental_saves_disabled' = incremental_saves_disabled
    BY <1>5, <2>1 DEF IncrementalSave, BeginIncremental, Record, WriteIndex, CommitFile,
                      FinishIncremental, countVars
  <2> QED
    BY <1>1, <1>3, <2>2, <2>3 DEF FullPhases
<1>6. CASE Stop
  <2>1. disk' = disk /\ phase \in Counting /\ phase' = "down" /\ ~incremental_saves_disabled'
    BY <1>6 DEF Stop, GuardedBoth, GuardedStops, Counting
  <2> QED
    BY <1>1, <1>2, <1>3, <2>1, QuietShape DEF Stopped, FullPhases
<1>7. CASE Refuse \/ Load
  <2>1. /\ disk' = disk /\ phase = "down" /\ ~incremental_saves_disabled'
        /\ phase' = "refused" \/ (phase' = "running" /\ incremental_save_count' = Indexed)
    BY <1>1, <1>7 DEF Refuse, Load, countVars
  <2> QED
    BY <1>1, <1>2, <1>3, <2>1, QuietShape DEF Stopped, Counting, FullPhases
<1>8. CASE UNCHANGED vars
  <2>1. /\ UNCHANGED <<phase, life, version, keep, queue, save_index, disk, incremental_save_count>>
        /\ incremental_saves_disabled' = incremental_saves_disabled
    BY <1>8 DEF vars, saveVars, objectVars, countVars
  <2> QED
    BY <1>1, <1>2, <2>1, StutterSame
<1> QED
  BY <1>4, <1>5, <1>6, <1>7, <1>8 DEF Next

\* They leave the flags right, whatever a failed full save left.
LEMMA OthersFlags ==
  TypeInv /\ TypeInv' /\ Flags /\ BothInv /\ GuardedBoth(plan) /\ [Next]_vars /\ ~FullSave =>
    Flags' /\ (phase' \notin FullPhases /\ ~Refused' => IncInv')
<1> SUFFICES ASSUME TypeInv, TypeInv', Flags, BothInv, GuardedBoth(plan), [Next]_vars, ~FullSave
             PROVE  Flags' /\ (phase' \notin FullPhases /\ ~Refused' => IncInv')
  OBVIOUS
<1>1. Refused' <=> Refused
  BY OthersShape
<1>2. CASE phase \notin FullPhases /\ ~Refused
  BY <1>2, IncSteps DEF BothInv, GuardedBoth
<1>3. CASE phase \in FullPhases \/ Refused
  <2>1. Stop => Refused
    <3>1. Stop => phase \in GuardedStops
      BY DEF Stop, GuardedBoth
    <3>2. phase = "writing" => Refused
      BY WritingRefused DEF BothInv, FullCore
    <3>3. phase = "switching" => Refused
      BY SwitchPlaces DEF BothInv, FullCore, Placing
    <3> QED
      BY <1>3, <3>1, <3>2, <3>3 DEF GuardedStops, FullPhases
  <2>2. phase' \notin FullPhases => Refused'
    BY <1>1, <1>3, <2>1 DEF Next, Game, Create, Change, SetSaveOnExit, Destroy, Reap, ChangeOther, Unsaving,
       IncrementalSave, BeginIncremental, FailIncremental, Record, WriteIndex, CommitFile,
       FinishIncremental, Refuse, Load, vars, FullPhases
  <2>3. CASE IncrementalSave
    <3>1. phase' \in {"running", "recording", "committing"} /\ life' = life /\ dirty_deleted' \subseteq dirty_deleted
      BY <2>3 DEF IncrementalSave, BeginIncremental, FailIncremental, Record, WriteIndex, CommitFile,
                  FinishIncremental, objectVars, hashVars
    <3>2. \A s \in Objects : keep'[s]
      BY KeepsAll DEF BothInv, GuardedBoth
    <3>3. Refused'
      BY <2>2, <3>1 DEF FullPhases
    <3> QED
      BY <3>1, <3>2, <3>3 DEF Flags
  <2>4. CASE Game \/ Stop \/ Refuse \/ Load
    BY <2>2, <2>4, GameFlags, StopSteps, LoadSteps
  <2>5. CASE UNCHANGED vars
    <3>1. UNCHANGED <<phase, life, version, keep, dirty, dirty_deleted, incremental_saves_disabled, disk>>
      BY <2>5 DEF vars, objectVars, hashVars, countVars
    <3>2. SameFiles(Objects)
      BY <3>1 DEF SameFiles
    <3> QED
      BY <1>1, <2>2, <3>1, <3>2, SameFlags
  <2> QED
    BY <2>2, <2>3, <2>4, <2>5 DEF Next
<1> QED
  BY <1>2, <1>3

LEMMA FullBothSteps ==
  TypeInv /\ Flags /\ BothInv /\ FullSave =>
    /\ Flags' /\ FullCore' /\ Shape' /\ incremental_saves_disabled' = FALSE
    /\ phase' \notin FullPhases /\ ~Refused' =>
         IndexesRight' /\ phase' = "running" /\ Indexed' = incremental_save_count'
<1> SUFFICES ASSUME TypeInv, Flags, BothInv, FullSave
             PROVE  /\ Flags' /\ FullCore' /\ Shape' /\ incremental_saves_disabled' = FALSE
                    /\ phase' \notin FullPhases /\ ~Refused' =>
                         IndexesRight' /\ phase' = "running" /\ Indexed' = incremental_save_count'
  OBVIOUS
<1>1. FullCore /\ Shape /\ incremental_saves_disabled = FALSE
  BY DEF BothInv, TypeInv, RoundTypes
<1>2. CASE BeginFull \/ WriteFile \/ BeginSwitch \/ SwitchFile
  <2>1. /\ phase \in Counting /\ phase' \in {"writing", "switching", "trailing"}
        /\ UNCHANGED <<incremental_save_count, incremental_saves_disabled>>
    BY <1>2 DEF BeginFull, WriteFile, BeginSwitch, SwitchFile, countVars, Counting
  <2>2. FullCore' /\ (WorldOnly \/ disk' = disk)
    BY <1>1, <1>2, BeginFullCore, WriteFileCore, BeginSwitchCore, SwitchFileCore DEF BeginSwitch
  <2>3. Shape'
    BY <1>1, <2>1, <2>2, OnlyWorld, QuietShape DEF Counting
  <2>4. Flags'
    <3>1. CASE WriteFile
      BY <3>1, WriteFileFlags
    <3>2. CASE ~WriteFile
      BY <1>2, <2>1, <3>2, QuietFlags DEF BeginFull, BeginSwitch, SwitchFile, objectVars, hashVars
    <3> QED
      BY <3>1, <3>2
  <2> QED
    BY <1>1, <2>1, <2>2, <2>3, <2>4 DEF FullPhases
<1>3. CASE FailFull
  <2>1. /\ phase = "writing" /\ phase' = "running" /\ disk' = disk
        /\ UNCHANGED <<life, keep, dirty, dirty_deleted, incremental_save_count, incremental_saves_disabled>>
    BY <1>3 DEF FailFull, objectVars, hashVars, countVars
  <2>2. FullCore' /\ Refused'
    BY <1>1, <1>3, FailFullCore
  <2>3. Shape'
    BY <1>1, <2>1, OnlyWorld, QuietShape DEF Counting
  <2>4. Flags'
    BY <2>1, <2>2 DEF Flags
  <2> QED
    BY <1>1, <2>1, <2>2, <2>3, <2>4
<1>4. CASE BeginRetire \/ RetireNext \/ RetireFile
  <2>1. /\ phase' = "retiring" /\ incremental_saves_disabled' = incremental_saves_disabled
        /\ UNCHANGED <<life, version, keep, dirty, dirty_deleted>>
    BY <1>4 DEF BeginRetire, RetireNext, RetireFile, objectVars, hashVars, countVars
  <2>2. Flags'
    BY <2>1, QuietFlags
  <2>3. Shape'
    BY <1>1, <1>4, BeginRetireShape, RetireNextShape, RetireFileShape
  <2>4. FullCore'
    <3>1. CASE RetireNext
      <4>1. phase = "retiring" /\ disk' = disk
        BY <3>1 DEF RetireNext
      <4>2. Switched'
        BY <1>1, <2>1, <4>1, WrittenSame DEF FullCore, Switched
      <4> QED
        BY <1>1, <2>1, <4>1, <4>2 DEF FullCore, InSwitch, Refused, Exists
    <3> QED
      BY <1>1, <1>4, <3>1, BeginRetireCore, RetireFileShape
  <2> QED
    BY <1>1, <2>1, <2>2, <2>3, <2>4 DEF FullPhases
<1>5. CASE FinishFull
  <2>1. /\ phase' = "running" /\ incremental_saves_disabled' = FALSE /\ incremental_save_count' = 0
    BY <1>5 DEF FinishFull
  <2>2. Shape' /\ NoIndexes
    BY <1>1, <1>5, FinishFullShape
  <2>3. FullCore' /\ Flags'
    BY <1>1, <1>5, <2>2, FinishFullReads
  <2>4. Indexed' = incremental_save_count' /\ \A i \in 1..MaxIncrementals : Placed(i, Indexed)'
    BY <2>1, <2>2 DEF Shape, Numbered
  <2>5. IndexesRight'
    BY <2>1, <2>4 DEF IndexesRight, Placed
  <2> QED
    BY <2>1, <2>2, <2>3, <2>4, <2>5
<1> QED
  BY <1>2, <1>3, <1>4, <1>5 DEF FullSave

LEMMA BothSteps ==
  TypeInv /\ TypeInv' /\ Flags /\ BothInv /\ GuardedBoth(plan) /\ [Next]_vars => Flags' /\ BothInv'
<1> SUFFICES ASSUME TypeInv, TypeInv', Flags, BothInv, GuardedBoth(plan), [Next]_vars
             PROVE  Flags' /\ BothInv'
  OBVIOUS
<1>1. \A s \in Objects : keep'[s]
  BY KeepsAll DEF BothInv, GuardedBoth
<1>2. CASE FullSave
  <2>1. /\ Flags' /\ FullCore' /\ Shape' /\ incremental_saves_disabled' = FALSE
        /\ phase' \notin FullPhases /\ ~Refused' =>
             IndexesRight' /\ phase' = "running" /\ Indexed' = incremental_save_count'
    BY <1>2, FullBothSteps
  <2>2. phase' \notin FullPhases /\ ~Refused' => IncInv'
    BY <1>1, <2>1 DEF IncInv, InRecord, InCommit
  <2> QED
    BY <1>1, <2>1, <2>2 DEF BothInv
<1>3. CASE ~FullSave
  BY <1>1, <1>3, OthersShape, OthersFlags DEF BothInv
<1> QED
  BY <1>2, <1>3

-----------------------------------------------------------------------------
(* Dirty flags and atomic saves *)

LEMMA SavesInitially ==
  Init => /\ Flags /\ FullInv /\ IncInv /\ BothInv
          /\ \A s \in Objects : AsOnDisk(s)
<1> SUFFICES ASSUME Init PROVE Flags /\ FullInv /\ IncInv /\ BothInv /\ \A s \in Objects : AsOnDisk(s)
  OBVIOUS
<1> DEFINE Zero(f) == [t \in {u \in plan.initial \cup Others : World(Home[u]) = f} |-> 0]
<1>1. /\ phase = "running" /\ dirty_deleted = {} /\ incremental_save_count = 0
      /\ life = [s \in Objects |-> IF s \in plan.initial THEN "live" ELSE "none"]
      /\ version = [t \in Things |-> 0]
      /\ \A s \in Objects : ~dirty[s] /\ keep[s]
      /\ disk = [f \in FileNames |-> [e \in Extensions |->
                   IF e = "txt" /\ f[1] = "world" THEN Zero(f) ELSE NoFile]]
  BY DEF Init
<1> HIDE DEF Zero
<1>2. /\ \A g \in FileSet : disk[World(g)].ndt = NoFile /\ disk[World(g)].txt = Zero(World(g))
      /\ NoIncrementals
  BY <1>1, Names DEF NoIncrementals, Extensions
<1>3. ~Refused
  BY <1>2, WorldAssumption DEF Refused, Exists
<1>4. IndexesRight /\ Indexed = 0
  BY <1>2, NoneIndexed, ReadsHomes, Numbers DEF IndexesRight, NoIndexes
<1>5. ASSUME NEW s \in Objects PROVE AsOnDisk(s)
  <2>1. Home[s] \in FileSet /\ s \notin Others /\ s \in Things
    BY WorldAssumption DEF Things
  <2>2. Zero(World(Home[s])) # NoFile
    <3>1. TypeInv
      BY TypesInitially
    <3>2. {u \in plan.initial \cup Others : World(Home[u]) = World(Home[s])} \in SUBSET Things
      BY <3>1, Numbers DEF TypeInv, ObjectTypes, Things
    <3>3. Zero(World(Home[s])) = [t \in {u \in plan.initial \cup Others : World(Home[u]) = World(Home[s])} |-> version[t]]
      BY <1>1, <3>2 DEF Zero
    <3> QED
      BY <3>1, <3>2, <3>3, PictureOf, NoContents DEF TypeInv
  <2>3. Source(0, s) = Zero(World(Home[s]))
    BY <1>2, <2>1, <2>2 DEF Source, Exists
  <2>4. (s \in DOMAIN Source(0, s) <=> s \in plan.initial)
        /\ (s \in plan.initial => Source(0, s)[s] = 0)
    BY <2>1, <2>3 DEF Zero
  <2> QED
    BY <1>1, <1>2, <2>1, <2>4, NoneIndexed, ReadsHomes DEF AsOnDisk
<1>6. Flags
  BY <1>1, <1>5 DEF Flags
<1>7. FullInv
  BY <1>1, <1>2 DEF FullInv, FullCore, InSwitch
<1>8. IncInv
  BY <1>1, <1>3, <1>4 DEF IncInv, InRecord, InCommit
<1>9. Shape
  <2>1. \A i \in 1..MaxIncrementals : NoneNew(i) /\ ~Exists(Data(i), "txt") /\ ~Exists(Index(i), "txt")
    BY <1>2 DEF NoneNew, Exists, NoIncrementals, Extensions
  <2>2. \A i \in 1..MaxIncrementals : Placed(i, Indexed)
    BY <1>4, <2>1, Numbers DEF Placed
  <2> QED
    BY <1>1, <1>4, <2>1, <2>2 DEF Shape, Numbered
<1>10. BothInv
  BY <1>1, <1>7, <1>8, <1>9 DEF BothInv, FullInv, Init
<1> QED
  BY <1>5, <1>6, <1>7, <1>8, <1>10

\* Where scripts save incrementally they leave saveonexit alone, and where they save in full too
\* the shard is careful.
GuardedShard(p) == p.incremental => IF p.full THEN GuardedBoth(p) ELSE p.flags \subseteq {TRUE}

Guarded == \A p \in Plans : GuardedShard(p)

\* Scripts save in full or incrementally, never both.
EachKindAlone == Guarded /\ \A p \in Plans : ~(p.full /\ p.incremental)

OneKind == ~(plan.full /\ plan.incremental)

SaveInv ==
  /\ TypeInv /\ Flags /\ GuardedShard(plan)
  /\ ~plan.incremental => FullInv
  /\ plan.incremental /\ ~plan.full => IncInv
  /\ plan.incremental /\ plan.full => BothInv

LEMMA PlanSame == [Next]_vars => plan' = plan
BY DEF Next, Game, Create, Change, SetSaveOnExit, Destroy, Reap, ChangeOther, Unsaving,
       FullSave, BeginFull, WriteFile, FailFull, BeginSwitch, SwitchFile, BeginRetire, RetireNext,
       RetireFile, FinishFull, IncrementalSave, BeginIncremental, FailIncremental, Record, WriteIndex,
       CommitFile, FinishIncremental, Stop, Refuse, Load, vars

LEMMA SaveInvInitially == Init /\ Guarded => SaveInv
BY SavesInitially, TypesInitially DEF SaveInv, Guarded, Init

LEMMA SaveInvKept == SaveInv /\ [Next]_vars => SaveInv' /\ (OneKind => AbstractStep)
<1> SUFFICES ASSUME SaveInv, [Next]_vars PROVE SaveInv' /\ (OneKind => AbstractStep)
  OBVIOUS
<1>1. TypeInv' /\ plan' = plan
  BY TypesKept, PlanSame DEF SaveInv
<1>2. CASE plan.incremental /\ ~plan.full
  <2>1. IncInv /\ plan.flags \subseteq {TRUE}
    BY <1>2 DEF SaveInv, GuardedShard
  <2>2. ~FullSave
    BY <1>2, <2>1 DEF FullSave, BeginFull, WriteFile, FailFull, BeginSwitch, SwitchFile, BeginRetire,
                      RetireNext, RetireFile, FinishFull, IncInv
  <2>3. Flags' /\ IncInv' /\ AbstractStep
    BY <1>1, <2>1, <2>2, IncSteps DEF SaveInv
  <2> QED
    BY <1>1, <1>2, <2>3 DEF SaveInv, GuardedShard, GuardedBoth
<1>3. CASE ~plan.incremental
  <2>1. Flags' /\ FullInv' /\ AbstractStep
    BY <1>1, <1>3, FullSteps DEF SaveInv
  <2> QED
    BY <1>1, <1>3, <2>1 DEF SaveInv, GuardedShard, GuardedBoth
<1>4. CASE plan.incremental /\ plan.full
  <2>1. Flags' /\ BothInv'
    BY <1>1, <1>4, BothSteps DEF SaveInv, GuardedShard
  <2> QED
    BY <1>1, <1>4, <2>1 DEF SaveInv, GuardedShard, GuardedBoth, OneKind
<1> QED
  BY <1>2, <1>3, <1>4

LEMMA SaveInvAlways == Guarded => (Spec => []SaveInv)
BY SaveInvInitially, SaveInvKept, PTL DEF Spec

\* A dirty flag means what it says: what is neither dirty nor listed as deleted is on disk just
\* as it is in the game.  Where a full save failed, it will after the next one that returns.
THEOREM DirtyFlagsRight == Guarded => (Spec => []OnlyDirtyDiffers)
<1>1. SaveInv => OnlyDirtyDiffers
  BY DEF SaveInv, Flags, OnlyDirtyDiffers, Clean, AsOnDisk
<1> QED
  BY <1>1, SaveInvAlways, PTL

\* On a shard that does one kind of save, saves are atomic, wherever the server stops and
\* whatever it writes next: a restart reads the world of one save, whole, or refuses to load.
THEOREM SavesImplement == EachKindAlone => (Spec => SavesAreAtomic)
<1> DEFINE M == IF phase \in {"down", "refused"} THEN NoFile ELSE Part(Current, Objects)
           D == IF Refused THEN NoFile ELSE Recovered(Objects)
<1>1. Init => Store!Init
  <2> SUFFICES ASSUME Init PROVE Store!Init
    OBVIOUS
  <2>1. TypeInv /\ ~Refused /\ phase = "running" /\ \A s \in Objects : keep[s] /\ AsOnDisk(s)
    BY SavesInitially, TypesInitially DEF IncInv, Init
  <2>2. M = [s \in InMemory |-> version[s]] /\ D = M
    BY <2>1, AllOnDisk, Memories DEF TypeInv
  <2>3. M \in UNION {[T -> Versions] : T \in SUBSET Objects}
    <3>1. InMemory \in SUBSET Objects /\ [s \in InMemory |-> version[s]] \in [InMemory -> Versions]
      BY <2>1, Memories DEF TypeInv
    <3> QED
      BY <2>2, <3>1, Zenon
  <2> QED
    BY <2>2, <2>3 DEF Store!Init
<1>2. SaveInv /\ SaveInv' /\ OneKind /\ [Next]_vars => [Store!Next]_<<M, D>>
  BY SaveInvKept, Abstracts DEF SaveInv
<1>3. EachKindAlone => (Spec => []SaveInv)
  BY SaveInvAlways DEF EachKindAlone
<1>4. EachKindAlone => (Spec => []OneKind)
  <2>1. EachKindAlone /\ Init => OneKind
    BY DEF EachKindAlone, OneKind, Init
  <2>2. OneKind /\ [Next]_vars => OneKind'
    BY PlanSame DEF OneKind
  <2> QED
    BY <2>1, <2>2, PTL DEF Spec
<1> QED
  BY <1>1, <1>2, <1>3, <1>4, PTL DEF Spec, SavesAreAtomic, Store!Spec

-----------------------------------------------------------------------------
(* What a restart reads is the last save, or the one under way *)

\* No object is loaded twice: the one pass that may load t is the one its index names.
LEMMA LoadedOnce ==
  IndexesRight => Inserted
<1> SUFFICES ASSUME IndexesRight, NEW t \in Things PROVE Cardinality(Copies(t)) <= 1
  BY DEF Inserted
<1>1. ASSUME NEW i \in Copies(t) PROVE i = SaveIndex(t)
  <2>1. i \in 0..Indexed /\ SaveIndex(t) <= i /\ t \in DOMAIN Source(i, t)
    BY DEF Copies
  <2>2. SaveIndex(t) \in 0..Deleted /\ Indexed \in 0..MaxIncrementals
    BY SaveIndexInRange, IndexedCounts
  <2>3. CASE i = 0
    BY <2>1, <2>2, <2>3, Numbers DEF Deleted
  <2>4. CASE i # 0
    <3>1. i \in 1..Indexed
      BY <2>1, <2>2, <2>4, Numbers
    <3>2. Lists(i, t)
      <4>1. Source(i, t) = IF Exists(Data(i), "txt") THEN disk[Data(i)].txt ELSE Nothing
        BY <2>4 DEF Source
      <4>2. t \notin DOMAIN Nothing
        BY DEF Nothing
      <4> QED
        BY <2>1, <3>1, <4>1, <4>2 DEF IndexesRight, Lists
    <3>3. PICK j \in 1..Indexed : Lists(j, t) /\ \A k \in (j + 1)..Indexed : ~Lists(k, t)
      BY <2>2, <3>1, <3>2, LastOne
    <3>4. i <= j
      BY <2>2, <3>1, <3>2, <3>3, Numbers
    <3>5. SaveIndex(t) = IF t \in disk[Index(j)].txt.deleted THEN Deleted ELSE j
      BY <3>3, SaveIndexes DEF LastCounts
    <3> QED
      BY <2>1, <2>2, <3>1, <3>3, <3>4, <3>5, Numbers DEF Deleted
  <2> QED
    BY <2>3, <2>4
<1>2. Copies(t) = {} \/ Copies(t) = {SaveIndex(t)}
  BY <1>1
<1>3. Cardinality({}) = 0 /\ Cardinality({SaveIndex(t)}) = 1
  BY FS_EmptySet, FS_Singleton
<1> QED
  BY <1>2, <1>3

LEMMA SaveInvLoads == SaveInv => Inserted \/ Refused \/ phase \in FullPhases
<1>1. NoIncrementals => IndexesRight
  BY NoneIndexed, ReadsHomes, Numbers DEF IndexesRight, NoIndexes
<1> QED
  BY <1>1, LoadedOnce DEF SaveInv, IncInv, FullInv, BothInv

InMemoryNow == [s \in InMemory |-> version[s]]
LastSave == Part(saved, Objects)
ThisSave == Part(saving, Objects)

Saving == {"writing", "switching", "trailing", "retiring", "recording", "committing"}

Pictured == phase \in Saving => ThisSave = InMemoryNow
OneOfTwo == OnDisk \in {NoFile, LastSave, ThisSave}
Settled == phase \in {"running", "recording"} => OnDisk \in {NoFile, LastSave}

\* A full save that replaces incremental saves has all its files in place, and theirs not
\* yet out of the way.
Replacing == ~OneKind /\ phase \in {"trailing", "retiring"}

DurInv == Pictured /\ (~Replacing => OneOfTwo) /\ Settled

LEMMA DiskStays ==
  ASSUME disk' = disk PROVE OnDisk' = OnDisk
<1>1. SameFiles(Objects) /\ (Refused' <=> Refused)
  BY DEF SameFiles, Refused, Exists
<1> QED
  BY <1>1, SameRead DEF OnDisk, Things

LEMMA Parts ==
  ASSUME ObjectTypes
  PROVE  /\ Part(Current, Objects) = InMemoryNow
         /\ Part(CurrentObjects, Objects) = InMemoryNow
         /\ Part(Recovered(Things), Objects) = Recovered(Objects)
<1>1. Part(Current, Objects) = InMemoryNow
  BY Memories DEF InMemoryNow
<1>2. Part(CurrentObjects, Objects) = InMemoryNow
  <2>1. /\ DOMAIN CurrentObjects = (Present \cap Objects) \cup (DOMAIN saved \cap Others)
        /\ \A t \in DOMAIN CurrentObjects : t \notin Others => CurrentObjects[t] = version[t]
    BY DEF CurrentObjects
  <2>2. DOMAIN CurrentObjects \cap Objects = InMemory
    BY <2>1, WorldAssumption DEF Present, InMemory, Live
  <2>3. \A s \in InMemory : CurrentObjects[s] = version[s]
    BY <2>1, <2>2, WorldAssumption
  <2> QED
    BY <2>2, <2>3 DEF Part, InMemoryNow
<1>3. Part(Recovered(Things), Objects) = Recovered(Objects)
  <2>1. DOMAIN Recovered(Things) \cap Objects = {u \in Objects : Copies(u) # {}}
    BY DEF Recovered, Things
  <2>2. \A s \in {u \in Objects : Copies(u) # {}} : Recovered(Things)[s] = Stored(s)
    BY DEF Recovered, Things
  <2> QED
    BY <2>1, <2>2 DEF Part, Recovered
<1> QED
  BY <1>1, <1>2, <1>3

\* A save that goes on: what it is to leave is what is in memory.
LEMMA Ongoing ==
  ASSUME Pictured, phase \in Saving, UNCHANGED <<life, version, keep, saved, saving>>
  PROVE  Pictured' /\ (OneOfTwo /\ AbstractStep => OneOfTwo')
<1>1. InMemoryNow' = InMemoryNow /\ LastSave' = LastSave /\ ThisSave' = ThisSave
  BY DEF InMemoryNow, InMemory, Live, LastSave, ThisSave, Part
<1>2. ThisSave = InMemoryNow
  BY DEF Pictured
<1>3. ASSUME AbstractStep PROVE OnDisk' \in {OnDisk, NoFile, InMemoryNow}
  <2>1. Memory = InMemoryNow
    BY DEF Memory, Saving, InMemoryNow
  <2> QED
    BY <1>3, <2>1 DEF AbstractStep, Plays, Saves, Stops, Restarts, Stutters
<1> QED
  BY <1>1, <1>2, <1>3 DEF Pictured, OneOfTwo

LEMMA DurFull ==
  SaveInv /\ SaveInv' /\ (OneKind => AbstractStep) /\ DurInv /\ FullSave /\ plan' = plan => DurInv'
<1> SUFFICES ASSUME SaveInv, SaveInv', OneKind => AbstractStep, DurInv, FullSave, plan' = plan
             PROVE  DurInv'
  OBVIOUS
<1>1. TypeInv /\ Flags /\ FullCore /\ FullCore' /\ (FinishFull => NoIndexes)
  <2>1. CASE ~plan.incremental
    BY <2>1, NoneIndexed DEF SaveInv, FullInv
  <2>2. CASE plan.incremental /\ plan.full
    BY <2>2, FinishFullShape DEF SaveInv, BothInv
  <2>3. ~(plan.incremental /\ ~plan.full)
    BY DEF FullSave, BeginFull, WriteFile, FailFull, BeginSwitch, SwitchFile, BeginRetire, RetireNext,
           RetireFile, FinishFull, SaveInv, IncInv
  <2> QED
    BY <2>1, <2>2, <2>3
<1>2. ASSUME phase' \in {"writing", "switching"} PROVE OnDisk' = NoFile
  <2>1. TypeInv' /\ InSwitch'
    BY <1>1 DEF SaveInv, FullCore
  <2>2. Placing'
    BY <2>1, SwitchPlaces, PTL
  <2>3. phase' = "writing" => Refused'
    BY <1>1, WorldFiles DEF FullCore, Writing, Refused, Exists, New
  <2> QED
    BY <1>2, <2>2, <2>3 DEF Placing, OnDisk
<1>3. CASE BeginFull
  <2>1. phase' = "writing" /\ saving' = Current /\ UNCHANGED <<life, version, keep>>
    BY <1>3 DEF BeginFull, objectVars
  <2>2. ThisSave' = InMemoryNow'
    <3>1. Part(Current, Objects) = InMemoryNow /\ InMemoryNow' = InMemoryNow
      BY <1>1, <2>1, Parts DEF TypeInv, InMemoryNow, InMemory, Live
    <3>2. ThisSave' = Part(Current, Objects)
      BY <2>1 DEF ThisSave, Part
    <3> QED
      BY <3>1, <3>2
  <2> QED
    BY <1>2, <2>1, <2>2 DEF DurInv, Pictured, OneOfTwo, Settled
<1>4. CASE WriteFile \/ BeginSwitch \/ SwitchFile \/ BeginRetire \/ RetireNext \/ RetireFile
  <2>1. /\ phase \in Saving /\ phase' \in Saving /\ phase' # "recording"
        /\ UNCHANGED <<life, version, keep, saved, saving>>
    BY <1>4 DEF WriteFile, BeginSwitch, SwitchFile, BeginRetire, RetireNext, RetireFile, objectVars,
                history, Saving
  <2>2. Pictured' /\ Settled' /\ (OneOfTwo /\ AbstractStep => OneOfTwo')
    BY <2>1, Ongoing DEF DurInv, Settled, Saving
  <2>3. CASE OneKind
    BY <2>2, <2>3 DEF DurInv, Replacing
  <2>4. CASE ~OneKind
    <3>1. phase' \in {"writing", "switching", "trailing", "retiring"}
      BY <1>4 DEF WriteFile, BeginSwitch, SwitchFile, BeginRetire, RetireNext, RetireFile
    <3> QED
      BY <1>2, <2>2, <2>4, <3>1 DEF DurInv, Replacing, OneKind, OneOfTwo
  <2> QED
    BY <2>3, <2>4
<1>5. CASE FailFull
  <2>1. phase = "writing" /\ phase' = "running" /\ disk' = disk
    BY <1>5 DEF FailFull
  <2>2. OnDisk = NoFile
    BY <1>1, <2>1, WritingRefused DEF FullCore, OnDisk
  <2>3. OnDisk' = NoFile
    BY <2>1, <2>2, DiskStays
  <2> QED
    BY <2>1, <2>3 DEF DurInv, Pictured, OneOfTwo, Settled, Saving
<1>6. CASE FinishFull
  <2>1. /\ phase = "retiring" /\ phase' = "running" /\ disk' = disk
        /\ saved' = saving
    BY <1>6 DEF FinishFull
  <2>2. OnDisk = InMemoryNow
    BY <1>1, <1>6, FinishFullReads DEF InMemoryNow
  <2>3. OnDisk' = ThisSave
    BY <2>1, <2>2, DiskStays DEF DurInv, Pictured, Saving
  <2>4. LastSave' = ThisSave
    BY <2>1 DEF LastSave, ThisSave, Part
  <2> QED
    BY <2>1, <2>3, <2>4 DEF DurInv, Pictured, OneOfTwo, Settled, Saving
<1> QED
  BY <1>3, <1>4, <1>5, <1>6 DEF FullSave

LEMMA DurIncremental ==
  SaveInv /\ DurInv /\ IncrementalSave => DurInv'
<1> SUFFICES ASSUME SaveInv, DurInv, IncrementalSave PROVE DurInv'
  OBVIOUS
<1>1. TypeInv /\ Flags /\ OneOfTwo /\ (~Refused => IncInv)
      /\ (Refused => plan.full /\ plan.incremental)
  <2>1. plan.incremental /\ phase \notin FullPhases
    BY DEF IncrementalSave, BeginIncremental, FailIncremental, Record, WriteIndex, CommitFile,
           FinishIncremental, SaveInv, FullInv, FullPhases
  <2> QED
    BY <2>1 DEF SaveInv, IncInv, BothInv, DurInv, Replacing, FullPhases
<1>2. ~Refused => AbstractStep
  BY <1>1, BeginIncrementalSteps, RecordSteps, WriteIndexSteps, CommitFileSteps, EndIncrementalSteps
     DEF IncrementalSave
<1>3. Refused => OnDisk = NoFile /\ OnDisk' = NoFile
  <2>1. Refused => Shape
    BY <1>1 DEF SaveInv, BothInv
  <2>2. Refused => Refused'
    BY <1>1, <2>1, BeginIncrementalShape, RecordShape, WriteIndexShape, CommitFileShape,
       FinishIncrementalShape DEF IncrementalSave, FailIncremental, Refused, Exists
  <2> QED
    BY <2>2 DEF OnDisk
<1>4. CASE BeginIncremental
  <2>1. /\ phase = "running" /\ phase' = "recording" /\ saving' = CurrentObjects /\ saved' = saved
        /\ UNCHANGED <<life, version, keep>>
    BY <1>4 DEF BeginIncremental, objectVars
  <2>2. OnDisk' = OnDisk
    BY <1>1, <1>3, <1>4, BeginIncrementalSteps
  <2>3. ThisSave' = InMemoryNow'
    <3>1. Part(CurrentObjects, Objects) = InMemoryNow /\ InMemoryNow' = InMemoryNow
      BY <1>1, <2>1, Parts DEF TypeInv, InMemoryNow, InMemory, Live
    <3>2. ThisSave' = Part(CurrentObjects, Objects)
      BY <2>1 DEF ThisSave, Part
    <3> QED
      BY <3>1, <3>2
  <2>4. LastSave' = LastSave
    BY <2>1 DEF LastSave, Part
  <2> QED
    BY <2>1, <2>2, <2>3, <2>4 DEF DurInv, Pictured, OneOfTwo, Settled
<1>5. CASE \E s \in Objects : Record(s)
  <2>1. PICK s \in Objects : Record(s)
    BY <1>5
  <2>2. /\ phase = "recording" /\ phase' = "recording" /\ UNCHANGED <<life, version, keep, saved, saving>>
    BY <2>1 DEF Record, history
  <2>3. OnDisk' = OnDisk
    BY <1>1, <1>3, <2>1, RecordSteps
  <2>4. LastSave' = LastSave /\ ThisSave' = ThisSave
    BY <2>2 DEF LastSave, ThisSave, Part
  <2>5. Pictured'
    BY <2>2, Ongoing DEF DurInv, Saving
  <2> QED
    BY <1>1, <2>2, <2>3, <2>4, <2>5 DEF DurInv, OneOfTwo, Settled
<1>6. CASE WriteIndex \/ CommitFile
  <2>1. /\ phase \in {"recording", "committing"} /\ phase' = "committing"
        /\ UNCHANGED <<life, version, keep, saved, saving>>
    BY <1>6 DEF WriteIndex, CommitFile, objectVars, history
  <2>2. Pictured' /\ OneOfTwo'
    BY <1>1, <1>2, <1>3, <2>1, Ongoing DEF DurInv, OneOfTwo, Saving
  <2> QED
    BY <2>1, <2>2 DEF DurInv, Settled
<1>7. CASE FailIncremental
  <2>1. phase = "recording" /\ phase' = "running" /\ disk' = disk /\ saved' = saved
    BY <1>7 DEF FailIncremental
  <2>2. LastSave' = LastSave /\ OnDisk' = OnDisk
    BY <2>1, DiskStays DEF LastSave, Part
  <2> QED
    BY <2>1, <2>2 DEF DurInv, Pictured, OneOfTwo, Settled, Saving
<1>8. CASE FinishIncremental
  <2>1. phase = "committing" /\ queue = <<>> /\ phase' = "running" /\ disk' = disk /\ saved' = saving
    BY <1>8 DEF FinishIncremental
  <2>2. LastSave' = ThisSave
    BY <2>1 DEF LastSave, ThisSave, Part
  <2>3. CASE ~Refused
    <3>1. PICK k \in 0..4 : Committing(k)
      BY <1>1, <2>1, <2>3 DEF IncInv, InCommit
    <3>2. save_index \in 1..MaxIncrementals
      BY <1>1, <2>1, Numbers DEF TypeInv, RoundTypes
    <3>3. k = 4
      BY <2>1, <3>1, <3>2, CommitStepsAre DEF Committing, Left
    <3>4. OnDisk = InMemoryNow
      BY <1>1, <2>3, <3>1, <3>3, AllOnDisk DEF Committing, IncInv, OnDisk, InMemoryNow
    <3>5. OnDisk' = ThisSave
      BY <2>1, <3>4, DiskStays DEF DurInv, Pictured, Saving
    <3> QED
      BY <2>1, <2>2, <3>5 DEF DurInv, Pictured, OneOfTwo, Settled, Saving
  <2>4. CASE Refused
    BY <1>3, <2>1, <2>4 DEF DurInv, Pictured, OneOfTwo, Settled, Saving
  <2> QED
    BY <2>3, <2>4
<1> QED
  BY <1>4, <1>5, <1>6, <1>7, <1>8 DEF IncrementalSave

LEMMA DurRest ==
  TypeInv /\ (Game \/ Stop \/ Refuse \/ Load \/ UNCHANGED vars) =>
    (Pictured => Pictured') /\ (OneOfTwo => OneOfTwo') /\ (Settled => Settled')
<1> SUFFICES ASSUME TypeInv, Game \/ Stop \/ Refuse \/ Load \/ UNCHANGED vars
             PROVE  (Pictured => Pictured') /\ (OneOfTwo => OneOfTwo') /\ (Settled => Settled')
  OBVIOUS
<1>1. CASE Game
  <2>1. phase = "running" /\ phase' = "running" /\ disk' = disk /\ saved' = saved /\ saving' = saving
    BY <1>1 DEF Game, Create, Change, SetSaveOnExit, Destroy, Reap, ChangeOther, Unsaving, history
  <2>2. OnDisk' = OnDisk /\ LastSave' = LastSave /\ ThisSave' = ThisSave
    BY <2>1, DiskStays DEF LastSave, ThisSave, Part
  <2> QED
    BY <2>1, <2>2 DEF Pictured, OneOfTwo, Settled, Saving
<1>2. CASE Stop \/ Refuse
  <2>1. phase' \in {"down", "refused"} /\ disk' = disk /\ saved' = saved /\ saving' = saving
    BY <1>2 DEF Stop, Refuse, history
  <2>2. OnDisk' = OnDisk /\ LastSave' = LastSave /\ ThisSave' = ThisSave
    BY <2>1, DiskStays DEF LastSave, ThisSave, Part
  <2> QED
    BY <2>1, <2>2 DEF Pictured, OneOfTwo, Settled, Saving
<1>3. CASE Load
  <2>1. phase' = "running" /\ disk' = disk /\ saved' = Recovered(Things) /\ ~Refused
    BY <1>3 DEF Load
  <2>2. OnDisk' = Recovered(Objects)
    BY <2>1, DiskStays DEF OnDisk
  <2>3. LastSave' = Recovered(Objects)
    <3>1. Part(Recovered(Things), Objects) = Recovered(Objects)
      BY Parts DEF TypeInv
    <3>2. LastSave' = Part(Recovered(Things), Objects)
      BY <2>1 DEF LastSave, Part
    <3> QED
      BY <3>1, <3>2
  <2> QED
    BY <2>1, <2>2, <2>3 DEF Pictured, OneOfTwo, Settled, Saving
<1>4. CASE UNCHANGED vars
  <2>1. UNCHANGED <<phase, disk, life, version, keep, saved, saving>>
    BY <1>4 DEF vars, history, objectVars
  <2>2. OnDisk' = OnDisk /\ LastSave' = LastSave /\ ThisSave' = ThisSave /\ InMemoryNow' = InMemoryNow
    BY <2>1, DiskStays DEF LastSave, ThisSave, Part, InMemoryNow, InMemory, Live
  <2> QED
    BY <2>1, <2>2 DEF Pictured, OneOfTwo, Settled
<1> QED
  BY <1>1, <1>2, <1>3, <1>4

LEMMA DurKept ==
  SaveInv /\ SaveInv' /\ (OneKind => AbstractStep) /\ DurInv /\ [Next]_vars => DurInv'
<1> SUFFICES ASSUME SaveInv, SaveInv', OneKind => AbstractStep, DurInv, [Next]_vars PROVE DurInv'
  OBVIOUS
<1>1. plan' = plan
  BY PlanSame
<1>2. CASE Game \/ Stop \/ Refuse \/ Load \/ UNCHANGED vars
  <2>1. Replacing => Replacing'
    <3>1. Replacing => ~Stop
      BY DEF Replacing, OneKind, SaveInv, GuardedShard, GuardedBoth, GuardedStops, Stop
    <3>2. Replacing => ~Game /\ ~Refuse /\ ~Load
      BY DEF Replacing, Game, Create, Change, SetSaveOnExit, Destroy, Reap, ChangeOther, Refuse, Load
    <3> QED
      BY <1>2, <3>1, <3>2 DEF Replacing, OneKind, vars
  <2> QED
    BY <1>2, <2>1, DurRest DEF DurInv, SaveInv
<1> QED
  BY <1>1, <1>2, DurFull, DurIncremental DEF Next

\* A restart that is not refused reads each item and mobile once, and all as the last save that
\* returned left them or as the save that the stop interrupted was to.
THEOREM ObjectsAreDurable == Guarded => (Spec => []ObjectsDurable)
<1>1. Init => DurInv
  <2> SUFFICES ASSUME Init PROVE DurInv
    OBVIOUS
  <2>1. TypeInv /\ ~Refused /\ phase = "running" /\ saved = Current
        /\ \A s \in Objects : keep[s] /\ AsOnDisk(s)
    BY SavesInitially, TypesInitially DEF IncInv, Init
  <2>2. LastSave = InMemoryNow /\ OnDisk = InMemoryNow
    BY <2>1, AllOnDisk, Parts DEF TypeInv, LastSave, OnDisk, InMemoryNow
  <2> QED
    BY <2>1, <2>2 DEF DurInv, Pictured, OneOfTwo, Settled, Saving
<1>2. SaveInv /\ DurInv => ObjectsDurable
  <2> SUFFICES ASSUME SaveInv, DurInv, phase \in {"running", "down"}, ~Refused PROVE Durable(Objects)
    BY DEF ObjectsDurable, Durable
  <2>1. Inserted /\ OneOfTwo
    BY SaveInvLoads DEF DurInv, Replacing, FullPhases
  <2>2. Recovered(Objects) # NoFile
    BY RecoveredTypes, NoContents DEF SaveInv, TypeInv, Things
  <2>3. Recovered(Objects) \in {Part(saved, Objects), Part(saving, Objects)}
    BY <2>1, <2>2 DEF OneOfTwo, OnDisk, LastSave, ThisSave
  <2> QED
    BY <2>1, <2>3 DEF Durable
<1>3. Guarded => (Spec => []DurInv)
  BY <1>1, SaveInvAlways, SaveInvKept, DurKept, PTL DEF Spec
<1> QED
  BY <1>2, <1>3, SaveInvAlways, PTL
=============================================================================
