----------------------------- MODULE WorldSave -----------------------------
(***************************************************************************)
(* Saving the world and reading it back: the full save (pol/uimport.cpp,   *)
(* write_data), the incremental save (pol/savedata.cpp), the load at start *)
(* (read_data, pol/loaddata.cpp), and the dirty flags and serials of the   *)
(* objects they work from (pol/uobject.cpp, pol/objecthash.cpp).           *)
(*                                                                         *)
(* The game stands still during a save.  A save is a sequence of file      *)
(* operations, and the server may stop between any two of them.  A file is *)
(* what it holds: the version of each object written to it, or the serials *)
(* an index lists.  Owners and contents of containers are part of an       *)
(* object's version.                                                       *)
(*                                                                         *)
(* An operator with an underscore in its name before the one it is named   *)
(* after is a mutation of it, used by no definition here: a slip that a    *)
(* property is to notice.                                                  *)
(***************************************************************************)
EXTENDS Integers, Sequences, FiniteSets

CONSTANTS
  Objects,          \* the serials of items and mobiles
  Others,           \* what only a full save writes: guilds, resources, parties, datastore
  Files,            \* the files of a full save, in the order write_data commits them
  Home,             \* the file each object is written to
  NoFile,           \* there is no such file
  Plans,            \* shards to check, see PlanType
  MaxChanges,       \* bound: changes to the world, a plan's own bound included
  MaxIncrementals   \* bound: incremental saves since a full one

Things == Objects \cup Others

FileSet == {Files[k] : k \in DOMAIN Files}

Phases == {"running", "writing", "switching", "trailing", "retiring",
           "recording", "committing", "down", "refused"}

\* What a shard does, and where it may fail.
PlanType == [
  initial : SUBSET Objects,              \* the objects it starts with
  others : SUBSET Others,                \* what scripts change of the others
  flags : SUBSET BOOLEAN,                \* values scripts give item.saveonexit
  full : BOOLEAN,                        \* scripts save the world in full,
  incremental : BOOLEAN,                 \* and incrementally
  stops : SUBSET (Phases \ {"down", "refused"}),       \* where it may stop
  failures : SUBSET {"writing", "recording"},          \* where writing may raise an exception
  changes : 0..MaxChanges]               \* bound: changes to its world

ASSUME WorldAssumption ==
  /\ Others \cap Objects = {}
  /\ {"objects", "storage"} \subseteq FileSet
  /\ \A t \in Things : Home[t] \in FileSet
  /\ Plans \subseteq PlanType
  /\ MaxChanges \in Nat /\ MaxIncrementals \in Nat

\* write_data commits each file once, and storage after every file with objects in it;
\* and no file is no file's contents.
ASSUME FilesAssumption ==
  /\ Files \in Seq(STRING) /\ \A j, k \in DOMAIN Files : Files[j] = Files[k] => j = k
  /\ \A j, k \in DOMAIN Files :
       Files[k] = "storage" /\ (Files[j] = "objects" \/ \E s \in Objects : Files[j] = Home[s]) => j <= k
  /\ \A T \in SUBSET Things : NoFile \notin [T -> 0..MaxChanges]
  /\ NoFile \notin [modified : SUBSET Objects, deleted : SUBSET Objects]

VARIABLES
  plan,                \* the shard; never changes
  phase,               \* what the server is doing
  life,                \* whether a serial is in the objecthash: "none", "live", "orphan"
  version,             \* what each object is: the number of the change that made it so
  dirty,               \* UObject::dirty_
  keep,                \* UObject::saveonexit_
  dirty_deleted, clean_deleted,  \* ObjectHash: serials of reaped objects
  modified_serials, deleted_serials,
  incremental_save_count,
  incremental_saves_disabled,
  save_index,          \* the loop variable of the save under way
  queue,               \* file operations the save has still to do
  disk,                \* disk[f]: the file f under each of its three extensions
  changes,             \* changes made so far
  saved,               \* the world of the last save that returned success,
  saving               \* and of the save under way, for the properties

objectVars == <<life, version, dirty, keep, changes>>
hashVars == <<dirty_deleted, clean_deleted>>
listVars == <<modified_serials, deleted_serials>>
countVars == <<incremental_save_count, incremental_saves_disabled>>
saveVars == <<save_index, queue>>
history == <<saved, saving>>
vars == <<plan, phase, objectVars, hashVars, listVars, countVars, saveVars, disk, history>>

----------------------------------------------------------------------------
\* Files

World(g) == <<"world", g>>
Data(i) == <<"data", i>>
Index(i) == <<"index", i>>

FileNames == {World(g) : g \in FileSet}
             \cup {Data(i) : i \in 1..MaxIncrementals}
             \cup {Index(i) : i \in 1..MaxIncrementals}

Extensions == {"ndt", "txt", "bak"}

Exists(f, e) == disk[f][e] # NoFile

\* A data file with nothing written to it yet, and an index that lists nothing.
Nothing == [t \in {} |-> 0]
Blank == [modified |-> {}, deleted |-> {}]

\* The two halves of commit: the .txt becomes the .bak, then the .ndt the .txt.
\* What a .bak holds is never read.
SetAside(f) == [f EXCEPT !.bak = IF f.txt = NoFile THEN NoFile ELSE Nothing, !.txt = NoFile]
PutInPlace(f) == IF f.ndt = NoFile THEN f ELSE [f EXCEPT !.txt = f.ndt, !.ndt = NoFile]

\* The first half of commit_incremental, which keeps no .bak.
Unlink(f) == [f EXCEPT !.txt = NoFile]

Perform(step) ==
  LET f == step.file
  IN disk' = [disk EXCEPT ![f] = CASE step.op = "aside" -> SetAside(@)
                                   [] step.op = "place" -> PutInPlace(@)
                                   [] step.op = "unlink" -> Unlink(@)]

Step(op, f) == [op |-> op, file |-> f]

Commit(f) == <<Step("aside", f), Step("place", f)>>
CommitIncremental(f) == <<Step("unlink", f), Step("place", f)>>

----------------------------------------------------------------------------
\* What a restart reads: pol/loaddata.cpp and read_data

\* The server does not load what an interrupted full save left.
Refused == Exists(World("objects"), "ndt") \/ Exists(World("storage"), "ndt")

\* load_incremental_indexes counts up to the first index that is missing.
Indexed ==
  CHOOSE n \in 0..MaxIncrementals :
    /\ \A i \in 1..n : Exists(Index(i), "txt")
    /\ n < MaxIncrementals => ~Exists(Index(n + 1), "txt")

Lists(i, t) == LET x == disk[Index(i)].txt IN t \in x.modified \cup x.deleted

\* get_save_index: a later index overrides, and "Deleted" comes last in a file.
\* Deleted is UINT_MAX: more than any save.
Deleted == MaxIncrementals + 1

SaveIndex(t) ==
  IF \E i \in 1..Indexed : Lists(i, t)
  THEN LET i == CHOOSE k \in 1..Indexed :
                  Lists(k, t) /\ \A j \in (k + 1)..Indexed : ~Lists(j, t)
       IN IF t \in disk[Index(i)].txt.deleted THEN Deleted ELSE i
  ELSE 0

\* What is read for t in pass i of the load: 0 is the full save.
Source(i, t) ==
  LET f == IF i = 0 THEN World(Home[t]) ELSE Data(i)
  IN IF Exists(f, "txt") THEN disk[f].txt ELSE Nothing

\* The passes that load t.  A second one fails the assertion in ObjectHash::Insert.
Copies(t) ==
  LET index == SaveIndex(t)
  IN {i \in 0..Indexed : index <= i /\ t \in DOMAIN Source(i, t)}

Inserted == \A t \in Things : Cardinality(Copies(t)) <= 1

Stored(t) == Source(CHOOSE i \in Copies(t) : TRUE, t)[t]

Recovered(T) == [t \in {u \in T : Copies(u) # {}} |-> Stored(t)]

----------------------------------------------------------------------------
\* The world, and the part of it that concerns T

Live == {s \in Objects : life[s] = "live"}
Present == {s \in Live : keep[s]} \cup Others
Current == [t \in Present |-> version[t]]
Part(w, T) == [t \in DOMAIN w \cap T |-> w[t]]

Init ==
  /\ plan \in Plans
  /\ phase = "running"
  /\ life = [s \in Objects |-> IF s \in plan.initial THEN "live" ELSE "none"]
  /\ version = [t \in Things |-> 0]
  /\ dirty = [s \in Objects |-> FALSE]
  /\ keep = [s \in Objects |-> TRUE]
  /\ dirty_deleted = {} /\ clean_deleted = {}
  /\ modified_serials = {} /\ deleted_serials = {}
  /\ incremental_save_count = 0
  /\ incremental_saves_disabled = FALSE
  /\ save_index = 0 /\ queue = <<>>
  /\ disk = [f \in FileNames |->
       [e \in Extensions |->
          IF e = "txt" /\ f[1] = "world"
          THEN [t \in {u \in plan.initial \cup Others : World(Home[u]) = f} |-> 0]
          ELSE NoFile]]
  /\ changes = 0
  /\ saved = Current /\ saving = saved

----------------------------------------------------------------------------
\* The game

Unsaving == UNCHANGED <<plan, phase, saveVars, disk, history, listVars, countVars>>

Changed == changes < plan.changes /\ changes' = changes + 1

\* GetNextUnusedItemSerial and GetNextUnusedCharSerial pass over the objects of
\* the hash, orphans included, and the serials whose deletion is not yet saved
\* in full.  Any other serial may come next.
Unused(s) ==
  /\ life[s] = "none"
  /\ s \notin dirty_deleted
  /\ s \notin clean_deleted

Create(s) ==
  /\ phase = "running"
  /\ Unused(s)
  /\ Changed
  /\ life' = [life EXCEPT ![s] = "live"]
  /\ version' = [version EXCEPT ![s] = changes + 1]
  /\ dirty' = [dirty EXCEPT ![s] = TRUE]
  /\ UNCHANGED <<keep, hashVars>>
  /\ Unsaving

Change(s) ==
  /\ phase = "running"
  /\ life[s] = "live"
  /\ Changed
  /\ version' = [version EXCEPT ![s] = changes + 1]
  /\ dirty' = [dirty EXCEPT ![s] = TRUE]
  /\ UNCHANGED <<life, keep, hashVars>>
  /\ Unsaving

\* Guilds and the like keep no dirty flag.
ChangeOther(g) ==
  /\ phase = "running"
  /\ Changed
  /\ version' = [version EXCEPT ![g] = changes + 1]
  /\ UNCHANGED <<life, dirty, keep, hashVars>>
  /\ Unsaving

\* item.saveonexit := flag: UObject::set_script_member_id sets the dirty flag first.
SetSaveOnExit(s) ==
  /\ phase = "running"
  /\ life[s] = "live"
  /\ \E flag \in plan.flags : keep' = [keep EXCEPT ![s] = flag]
  /\ dirty' = [dirty EXCEPT ![s] = TRUE]
  /\ UNCHANGED <<life, version, changes, hashVars>>
  /\ Unsaving

\* UObject::destroy: an orphan stays in the hash while scripts refer to it.  What
\* it was is not written any more, and left out here.
Destroy(s) ==
  /\ phase = "running"
  /\ life[s] = "live"
  /\ life' = [life EXCEPT ![s] = "orphan"]
  /\ dirty' = [dirty EXCEPT ![s] = TRUE]
  /\ version' = [version EXCEPT ![s] = 0]
  /\ keep' = [keep EXCEPT ![s] = TRUE]
  /\ UNCHANGED <<changes, hashVars>>
  /\ Unsaving

\* What the model holds for a serial that is no object's.
Forget(s) ==
  /\ life' = [life EXCEPT ![s] = "none"]
  /\ version' = [version EXCEPT ![s] = 0]
  /\ dirty' = [dirty EXCEPT ![s] = FALSE]
  /\ keep' = [keep EXCEPT ![s] = TRUE]

\* ObjectHash::Reap, when the hash holds the last reference.
Reap_Silent(s) ==
  /\ phase = "running"
  /\ life[s] = "orphan"
  /\ Forget(s)
  /\ UNCHANGED <<changes, hashVars>>
  /\ Unsaving
Reap(s) ==
  /\ phase = "running"
  /\ life[s] = "orphan"
  /\ Forget(s)
  /\ dirty_deleted' = dirty_deleted \cup {s}
  /\ UNCHANGED <<changes, clean_deleted>>
  /\ Unsaving

Game ==
  \/ \E s \in Objects : Create(s) \/ Change(s) \/ SetSaveOnExit(s) \/ Destroy(s) \/ Reap(s)
  \/ \E g \in plan.others : ChangeOther(g)

----------------------------------------------------------------------------
\* The full save: write_data

\* SaveContext opens every .ndt file.
BeginFull ==
  /\ phase = "running" /\ plan.full
  /\ disk' = [f \in FileNames |->
                IF f[1] = "world" THEN [disk[f] EXCEPT !.ndt = Nothing] ELSE disk[f]]
  /\ phase' = "writing"
  /\ queue' = Files
  /\ saving' = Current
  /\ UNCHANGED <<plan, objectVars, hashVars, listVars, countVars, save_index, saved>>

\* write_characters, write_items, write_multis, ...: what is written is clean.
WriteFile ==
  LET written == {t \in Present : Home[t] = Head(queue)}
  IN /\ phase = "writing" /\ queue # <<>>
     /\ disk' = [disk EXCEPT ![World(Head(queue))].ndt = [t \in written |-> version[t]]]
     /\ dirty' = [s \in Objects |-> dirty[s] /\ s \notin written]
     /\ queue' = Tail(queue)
     /\ UNCHANGED <<plan, phase, life, version, keep, changes, hashVars, listVars, countVars,
                    save_index, history>>

\* An exception leaves write_data where it is: no flag is set, the .ndt files stay.
FailFull ==
  /\ phase = "writing" /\ "writing" \in plan.failures
  /\ phase' = "running"
  /\ queue' = <<>>
  /\ saving' = saved
  /\ UNCHANGED <<plan, objectVars, hashVars, listVars, countVars, save_index, disk, saved>>

\* The commits of write_data, two steps for each file in order.
Switch ==
  [k \in 1..(2 * Len(Files)) |->
     Commit(World(Files[(k + 1) \div 2]))[IF k % 2 = 1 THEN 1 ELSE 2]]

BeginSwitch ==
  /\ phase = "writing" /\ queue = <<>>
  /\ phase' = "switching"
  /\ queue' = Switch
  /\ UNCHANGED <<plan, objectVars, hashVars, listVars, countVars, save_index, disk, history>>

\* Once storage is in place nothing tells a restart that a save was under way.
SwitchFile ==
  /\ phase \in {"switching", "trailing"} /\ queue # <<>>
  /\ Perform(Head(queue))
  /\ phase' = IF Head(queue) = Step("place", World("storage")) THEN "trailing" ELSE phase
  /\ queue' = Tail(queue)
  /\ UNCHANGED <<plan, objectVars, hashVars, listVars, countVars, save_index, history>>

\* commit_incremental_saves, from the first incremental save on ...
BeginRetire ==
  /\ phase \in {"switching", "trailing"} /\ queue = <<>>
  /\ phase' = "retiring"
  /\ save_index' = 1
  /\ UNCHANGED <<plan, objectVars, hashVars, listVars, countVars, queue, disk, history>>

Known(f) == \E e \in Extensions : Exists(f, e)

KnownIncremental(i) == i <= MaxIncrementals /\ (Known(Data(i)) \/ Known(Index(i)))

RetireSteps(i) == Commit(Data(i)) \o Commit(Index(i))

\* ... while any file of the next one exists ...
RetireNext ==
  /\ phase = "retiring" /\ queue = <<>>
  /\ KnownIncremental(save_index)
  /\ queue' = RetireSteps(save_index)
  /\ save_index' = save_index + 1
  /\ UNCHANGED <<plan, phase, objectVars, hashVars, listVars, countVars, disk, history>>

RetireFile ==
  /\ phase = "retiring" /\ queue # <<>>
  /\ Perform(Head(queue))
  /\ queue' = Tail(queue)
  /\ UNCHANGED <<plan, phase, objectVars, hashVars, listVars, countVars, save_index, history>>

\* ... and what write_data does then.
FinishFull_Counting ==
  /\ phase = "retiring" /\ queue = <<>>
  /\ ~KnownIncremental(save_index)
  /\ dirty_deleted' = {} /\ clean_deleted' = {}
  /\ incremental_saves_disabled' = FALSE
  /\ phase' = "running"
  /\ save_index' = 0
  /\ saved' = saving
  /\ UNCHANGED <<plan, objectVars, listVars, queue, disk, saving, incremental_save_count>>
FinishFull ==
  /\ phase = "retiring" /\ queue = <<>>
  /\ ~KnownIncremental(save_index)
  /\ incremental_save_count' = 0
  /\ dirty_deleted' = {} /\ clean_deleted' = {}
  /\ incremental_saves_disabled' = FALSE
  /\ phase' = "running"
  /\ save_index' = 0
  /\ saved' = saving
  /\ UNCHANGED <<plan, objectVars, listVars, queue, disk, saving>>

FullSave ==
  \/ BeginFull \/ WriteFile \/ FailFull
  \/ BeginSwitch \/ SwitchFile
  \/ BeginRetire \/ RetireNext \/ RetireFile \/ FinishFull

----------------------------------------------------------------------------
\* The incremental save: save_incremental

\* Guilds stay as the last full save has them (a TODO of the code).
CurrentObjects ==
  [t \in (Present \cap Objects) \cup (DOMAIN saved \cap Others) |->
     IF t \in Others THEN saved[t] ELSE version[t]]

BeginIncremental ==
  LET i == incremental_save_count + 1
  IN /\ phase = "running" /\ plan.incremental
     /\ ~incremental_saves_disabled
     /\ incremental_save_count < MaxIncrementals
     /\ modified_serials' = {} /\ deleted_serials' = {}
     /\ save_index' = i
     /\ disk' = [disk EXCEPT ![Data(i)].ndt = Nothing, ![Index(i)].ndt = Blank]
     /\ phase' = "recording"
     /\ saving' = CurrentObjects
     /\ UNCHANGED <<plan, objectVars, hashVars, countVars, queue, saved>>

\* write_dirty_storage and write_dirty_data, one dirty object of the hash at a time.
Record(s) ==
  LET f == Data(save_index)
      lines == disk[f].ndt
  IN /\ phase = "recording"
     /\ dirty[s]
     /\ \/ /\ life[s] = "live"
           /\ disk' = [disk EXCEPT ![f].ndt =
                         [t \in DOMAIN lines \cup {s} |-> IF t = s THEN version[s] ELSE lines[t]]]
           /\ modified_serials' = modified_serials \cup {s}
           /\ UNCHANGED deleted_serials
        \/ /\ life[s] = "orphan"
           /\ deleted_serials' = deleted_serials \cup {s}
           /\ UNCHANGED <<plan, disk, modified_serials>>
     /\ dirty' = [dirty EXCEPT ![s] = FALSE]
     /\ UNCHANGED <<plan, phase, life, version, keep, changes, hashVars, countVars, saveVars, history>>

CommitSteps_IndexFirst(i) == CommitIncremental(Index(i)) \o CommitIncremental(Data(i))
CommitSteps(i) == CommitIncremental(Data(i)) \o CommitIncremental(Index(i))

\* The deletions of reaped objects, write_index, and on to the commits.
WriteIndex ==
  LET gone == deleted_serials \cup dirty_deleted
  IN /\ phase = "recording"
     /\ \A s \in Objects : ~dirty[s]
     /\ disk' = [disk EXCEPT ![Index(save_index)].ndt =
                   [modified |-> modified_serials, deleted |-> gone]]
     /\ clean_deleted' = clean_deleted \cup dirty_deleted
     /\ dirty_deleted' = {}
     /\ modified_serials' = {} /\ deleted_serials' = {}
     /\ phase' = "committing"
     /\ queue' = CommitSteps(save_index)
     /\ UNCHANGED <<plan, objectVars, countVars, save_index, history>>

\* An exception on the way: some dirty flags are gone, so no more of these.
FailIncremental ==
  /\ phase = "recording" /\ "recording" \in plan.failures
  /\ incremental_saves_disabled' = TRUE
  /\ phase' = "running"
  /\ save_index' = 0
  /\ saving' = saved
  /\ UNCHANGED <<plan, objectVars, hashVars, listVars, queue, disk, saved, incremental_save_count>>

CommitFile ==
  /\ phase = "committing" /\ queue # <<>>
  /\ Perform(Head(queue))
  /\ queue' = Tail(queue)
  /\ UNCHANGED <<plan, phase, objectVars, hashVars, listVars, countVars, save_index, history>>

FinishIncremental_Twice ==
  /\ phase = "committing" /\ queue = <<>>
  /\ incremental_save_count' = incremental_save_count + 2
  /\ phase' = "running"
  /\ save_index' = 0
  /\ saved' = saving
  /\ UNCHANGED <<plan, objectVars, hashVars, listVars, incremental_saves_disabled, queue, disk, saving>>
FinishIncremental ==
  /\ phase = "committing" /\ queue = <<>>
  /\ incremental_save_count' = incremental_save_count + 1
  /\ phase' = "running"
  /\ save_index' = 0
  /\ saved' = saving
  /\ UNCHANGED <<plan, objectVars, hashVars, listVars, incremental_saves_disabled, queue, disk, saving>>

IncrementalSave ==
  \/ BeginIncremental \/ FailIncremental
  \/ \E s \in Objects : Record(s)
  \/ WriteIndex \/ CommitFile \/ FinishIncremental

----------------------------------------------------------------------------
\* The server stops, by a crash or a shutdown, and starts again.

Stop ==
  /\ phase \in plan.stops
  /\ phase' = "down"
  /\ life' = [s \in Objects |-> "none"]
  /\ version' = [t \in Things |-> 0]
  /\ dirty' = [s \in Objects |-> FALSE]
  /\ keep' = [s \in Objects |-> TRUE]
  /\ dirty_deleted' = {} /\ clean_deleted' = {}
  /\ modified_serials' = {} /\ deleted_serials' = {}
  /\ incremental_save_count' = 0
  /\ incremental_saves_disabled' = FALSE
  /\ save_index' = 0 /\ queue' = <<>>
  /\ UNCHANGED <<plan, disk, changes, history>>

\* read_data: an interrupted full save needs the administrator, and a second
\* object of one serial fails an assertion.
Refuse ==
  /\ phase = "down"
  /\ Refused \/ ~Inserted
  /\ phase' = "refused"
  /\ UNCHANGED <<plan, objectVars, hashVars, listVars, countVars, saveVars, disk, history>>

Load ==
  LET world == Recovered(Things)
  IN /\ phase = "down"
     /\ ~Refused /\ Inserted
     /\ phase' = "running"
     /\ life' = [s \in Objects |-> IF s \in DOMAIN world THEN "live" ELSE "none"]
     /\ version' = [t \in Things |-> IF t \in DOMAIN world THEN world[t] ELSE 0]
     /\ incremental_save_count' = Indexed
     /\ clean_deleted' = {s \in Objects : SaveIndex(s) = Deleted}
     /\ saved' = world /\ saving' = world
     /\ UNCHANGED <<plan, dirty, keep, dirty_deleted, listVars, incremental_saves_disabled,
                    saveVars, disk, changes>>

Next == Game \/ FullSave \/ IncrementalSave \/ Stop \/ Refuse \/ Load

Spec == Init /\ [][Next]_vars

----------------------------------------------------------------------------
\* Properties

Versions == 0..MaxChanges

IsWorld(w) == DOMAIN w \subseteq Things /\ \A t \in DOMAIN w : w[t] \in Versions

Indexes == [modified : SUBSET Objects, deleted : SUBSET Objects]

Steps == [op : {"aside", "place", "unlink"}, file : FileNames]

\* The state is well formed; in particular no incremental save is counted twice.
TypeOK ==
  /\ plan \in Plans
  /\ phase \in Phases
  /\ life \in [Objects -> {"none", "live", "orphan"}]
  /\ version \in [Things -> Versions]
  /\ dirty \in [Objects -> BOOLEAN]
  /\ keep \in [Objects -> BOOLEAN]
  /\ dirty_deleted \subseteq Objects /\ clean_deleted \subseteq Objects
  /\ modified_serials \subseteq Objects /\ deleted_serials \subseteq Objects
  /\ incremental_save_count \in 0..MaxIncrementals
  /\ incremental_saves_disabled \in BOOLEAN
  /\ save_index \in 0..(MaxIncrementals + 1)
  /\ queue \in Seq(IF phase = "writing" THEN FileSet ELSE Steps)
  /\ DOMAIN disk = FileNames
  /\ \A f \in FileNames : \A e \in Extensions :
       Exists(f, e) => IF f[1] = "index" /\ e # "bak"
                       THEN disk[f][e] \in Indexes
                       ELSE IsWorld(disk[f][e])
  /\ changes \in Versions
  /\ IsWorld(saved) /\ IsWorld(saving)

\* A restart reads T as the last save that returned left it, or as the save that
\* was interrupted was to leave it.
Durable(T) ==
  Refused \/ (Inserted /\ \E w \in {saved, saving} : Recovered(T) = Part(w, T))

\* A restart that is not refused reads the items and mobiles of one save, whole:
\* the last one to return, or the one the stop interrupted.  This is about the
\* order of the commits, the check for objects.ndt and storage.ndt, the indexes of
\* the incremental saves and the serials that are not given out again.
ObjectsDurable == phase \in {"running", "down"} => Durable(Objects)

\* The same, when what is interrupted is the full save that replaces incremental
\* saves ("Atomically (hopefully) perform the switch", uimport.cpp:1350).
ReplacementIsAtomic == phase = "down" => Durable(Objects)

\* What a dirty flag means: as long as incremental saves are enabled, whatever is
\* neither dirty nor listed as deleted is on disk just as it is in the game.
OnlyDirtyDiffers ==
  (phase = "running" /\ ~incremental_saves_disabled /\ ~Refused) =>
    \A s \in Objects :
      (~dirty[s] /\ s \notin dirty_deleted) =>
        IF life[s] = "live" THEN Copies(s) # {} /\ Stored(s) = version[s] ELSE Copies(s) = {}

\* The refinement: what is in memory, and what a restart would read.
Store == INSTANCE DurableWorld WITH
  Worlds <- UNION {[T -> Versions] : T \in SUBSET Objects},
  Down <- NoFile,
  Held <- NoFile,
  memory <- IF phase \in {"down", "refused"} THEN NoFile ELSE Part(Current, Objects),
  durable <- IF Refused THEN NoFile ELSE Recovered(Objects)

\* Saving is atomic: every step of the saves, stops and loads is a step of
\* DurableWorld, or changes neither memory nor what a restart would read.
SavesAreAtomic == Store!Spec
=============================================================================
