# Verification of the POL core

This directory models parts of POL, the Penultima Online server
(`src/pol-core`), in TLA+, checks the models with TLC, and proves some of what
they say with TLAPS. Paths below are relative to `src/pol-core` unless they
start with `src/`.

- [The system](#the-system): its parts, what each keeps, how they interact
- [Modules](#modules): what models what, and how states and actions correspond to code
- [Runs](#runs): what each check asks, its bounds, what it shows
- [Fairness](#fairness)
- [What is proved](#what-is-proved)
- [What the models disagree with](#what-the-models-disagree-with)
- [What is not modelled](#what-is-not-modelled)
- [Plan](#plan)

## The system

POL is one process that holds a game world in memory. All of the game's rules
are written in eScript, compiled to bytecode, and run by the server. Almost
everything in the process happens under one lock, `PolLock` (`pol/polsem.cpp`);
a thread takes it, does one whole operation on the world, and lets go of it.

| part | code | state | operations |
|---|---|---|---|
| threads and PolLock | `pol/polsem.cpp`, `pol/pol.cpp` | the lock, pulse events, the exit flag | lock, unlock, wait for and send a pulse, the loop of each thread |
| script scheduler | `pol/scrsched.cpp`, `pol/uoexec.h`, `pol/exscrobj.cpp` | `runlist`, `ranlist`, `holdlist`, `notimeoutholdlist`, `debuggerholdlist` | `start_script`, `run_ready`, `check_blocked`, `revive`, `revive_debugged`, `deschedule_executor`, `cleanup_scripts`, kill |
| os module | `pol/module/osmod.cpp` | per script: `blocked_`, `wait_type`, `sleep_until_clock_`, the event queue, `critical`, `priority_`, `in_hold_list_` | `sleep`, `wait_for_event`, `send_event`, `start_script`, `run_script`, `set_critical`, `set_priority`, `clear_event_queue`, `set_event_queue_size` |
| executor | `bscript/executor.cpp`, `bscript/executor.h` | `error_`, `halt_`, `run_ok_`, `done`, `debug_state_`, the program counter, stacks | `execInstr`, `seterror`, `sethalt`, debugger hooks |
| script debugger | `pol/poldbg.cpp` | a `DebugContext` for each connection: the script it is attached to | start, attach, detach, break, run, trace, step, kill |
| world save and load | `pol/uimport.cpp`, `pol/savedata.cpp`, `pol/loaddata.cpp` | the data files as `.ndt`, `.txt` and `.bak`; `incremental_save_count`, `incremental_saves_disabled`, the save indexes | `write_data`, `save_incremental`, `commit`, `commit_incremental`, `read_data` |
| object hash, dirty flags | `pol/objecthash.cpp`, `pol/uobject.cpp` | the objects by serial, `dirty_deleted`, `clean_deleted`; per object `dirty_`, `saveonexit_`, orphan | insert, destroy, reap, next unused serial |
| client sessions, login | `pol/network/client.cpp`, `cgdata.cpp`, `clientio.cpp`, `pol/login.cpp` | a `Client` for each connection, `ClientGameData`, the character it plays | login, logout, disconnect, packets |
| targets, menus, gumps | `pol/target.cpp`, `menusel.cpp`, `getmsg.cpp`, `pol/module/uomod.cpp`, `uomod2.cpp`, `unimod.cpp` | in the client's game data a pointer to the script that waits, one for each kind of request; in the script's module a pointer back | ask, answer, cancel |
| item moves and trade | `pol/getitem.cpp`, `dropitem.cpp`, `eqpitem.cpp`, `containr.cpp` | the item a character holds, containers, the trade window of two characters | get, undo, drop, equip, trade, accept, cancel |
| party system | `pol/party.cpp` | leader, members, candidates, members offline, and the timers of each | invite, accept, decline, leave, log off, disband |
| scheduled tasks | `pol/schedule.cpp`, `pol/tasks.cpp`, `pol/gameclck.cpp` | a priority queue of one-shot and periodic tasks, the game clock | schedule, cancel, check |
| guilds, reputation | `pol/module/guildmod.cpp`, `pol/repsys.cpp` | guild relations; criminal, murderer and aggressor timers | |
| storage, datastore | `pol/storage.cpp`, `pol/module/datastore.cpp` | named roots of items; named data files | |
| characters and NPCs | `pol/mobile/charactr.cpp`, `pol/mobile/attack.cpp`, `pol/npc.cpp`, `pol/vital.cpp` | position, vitals, equipment, opponents | move, fight, die, resurrect |
| boats, houses, custom houses | `pol/multi/*.cpp` | what stands on them, designs under construction | |
| accounts | `pol/accounts/*.cpp` | names, passwords, flags, characters | |
| realms, regions, resources | `pol/realms.cpp`, `pol/region.cpp`, `pol/resource.cpp` | maps, tables | |
| spells, skills, speech, commands | `pol/spells.cpp`, `uoskills.cpp`, `speech.cpp`, `textcmd.cpp` | tables of scripts | look a script up and start it |
| aux services, packet hooks, web server | `pol/network/auxclient.cpp`, `packethooks.cpp`, `pol/polwww.cpp` | connections | |
| script compiler | `bscript/compiler.cpp`, `parser.cpp` | none over time | |
| values of eScript | `bscript/object.cpp`, `dict.cpp` | data | |
| map library, utilities, offline tools | `plib`, `clib`, `ecompile`, `uoconvert`, `runecl` | files | |

### How the parts interact

- The *scripts thread* loops: wait for a pulse or the next timeout, take
  `PolLock`, call `step_scripts` (`run_ready`, then `check_blocked`), release it.
- The *client threads*, the *tasks thread*, the *listen threads* take the lock
  for each packet, task or request. What they do to scripts is to start one, to
  signal an event to one, to kill one, or to answer the request one waits for.
- The thread of the *debugger* (`debug_listen_thread`) reads commands from a
  socket and executes them **without** the lock. A script can drive the same
  debugger through a `DebugContext` object; then its commands are instructions of
  that script and run under the lock.
- Scripts call into the world: they create, change and destroy objects, send
  events, start, run and kill scripts, and save the world.
- A *save* is done under the lock, by a script or at shutdown, and so sees a
  world that stands still. It is the file system that sees its steps one by one,
  and a crash may come between any two.
- Tasks, requests and characters all point at scripts or at clients which may
  go away first; each holder has a callback that the one who goes away must call.

### What is hard here, and what each part owes

| part | hard behaviour | what makes it correct |
|---|---|---|
| script scheduler | kills, events, timeouts, answers, children that end, all revive a script, from whichever list it is in; a script can be killed in the middle of its own turn | each executor in exactly one list, the one its `in_hold_list_` names; none lost; none run once it is done; nothing held that nobody would wake |
| os module | an event around the moment of a wait; the queue at its limit; `run_script` executes its instruction twice | events in order, none left in the queue of a script that waits; a parent resumes once, after its child |
| debugger | interleaves with everything | what `execInstr` asserts of the script it is called for; the lists stay lists |
| save and load | a crash between two file operations, an exception in the middle, two kinds of save over one another, serials that are used again | a restart reads one save whole: the last that returned, or the one that was interrupted |
| dirty flags | cleared while the file that would justify it is not in place yet | what is not dirty is on disk |
| item moves and trade | the other side disconnects, dies or logs in while an item is held or a trade is open; a save in the middle | an item is in one place; a trade exchanges what both accepted |
| party | timers against answers, a leader who goes offline | members and parties agree about membership |
| scheduled tasks | a task cancelled, or followed by another one, from within itself; a wake-up sent to a thread that does not sleep yet | a handle is on the task it was given for; no task is forgotten |
| threads | counts read and written by several threads, wake-ups sent once, an exit at any moment | who is counted lives; main leaves last |
| sessions, targets | an answer to a request that was replaced; a client that reconnects to a character in the game | one client for a character; each waiting script is woken once |

Every hazard we know of stands in `PROJECT.json` with the line where it bites
and the properties that watch it.

## Modules

| module | models |
|---|---|
| `ScriptScheduler` | the scheduler, the os module, the executor's flags, the debugger, and the other threads as far as they reach scripts |
| `MCScriptScheduler` | small instances: which script may execute which kinds of instruction |
| `ScriptSchedulerProofs` | theorems about `ScriptScheduler`: types and lists |
| `SchedulerEventsProofs` | theorems about its events: their order, and waits |
| `SchedulerFamilyProofs` | theorems about what it holds, about parents and children, and about its faults |
| `WorldSave` | full and incremental saves, the load, dirty flags and serials |
| `DurableWorld` | what saving promises: the abstract specification of `WorldSave` |
| `MCWorldSave` | small instances: three objects, one for each interesting file |
| `WorldSaveProofs` | theorems about `WorldSave`, and that it implements `DurableWorld` |
| `ItemMoves` | where items are: the item a character holds, stacks, and the secure trade, with death, disconnection, login and saving in between |
| `MCItemMoves` | small instances: two characters with coins, three with hats |
| `ItemMovesProofs` | theorems about `ItemMoves` |
| `Party` | parties: leader, members, invitations and their timers, logoffs and returns, scripts, and the file they are saved in |
| `MCParty` | a small instance: two parties and one who is in neither |
| `PartyProofs` | theorems about `Party` |
| `Clients` | connections, the character they play, and the scripts that wait for the player to answer |
| `MCClients` | a small instance: an account with two characters and two connections |
| `ClientsProofs` | theorems about `Clients` |
| `ServerThreads` | the server's threads, how they are counted, woken and ended, and the queue of one-shot tasks |
| `MCServerThreads` | a small instance: one client, two tasks |
| `ServerThreadsProofs` | theorems about `ServerThreads` |

In all models an operator whose name has an underscore and a word after the
name of another operator (`Unblock_Not`, `Requeue_Front`) is a *mutation* of it:
the slip a programmer could make there. No definition uses it. `PROJECT.json`
pairs each property with a mutation under which TLC finds the property violated:
a property no slip can break would tell nothing.

### ScriptScheduler

**Grain.** A step is one instruction of one script, one iteration of one of the
scheduler's loops, or one whole operation of another thread. Under `PolLock` a
pass is atomic for the other threads; the model keeps it in steps, since the
debugger's thread sees them, and lets the lock's other users step only in phase
`"unlocked"`. The debugger's commands are split where they look at
`in_hold_list_` and act on it later, and `run_ready` where such a command can make a
difference: between the end of its loop and the swap, and between `in_hold_list_` and
`debuggerholdlist`. Other than that, one operation on a list, and each test of `run_ready`
with the branch it leads to, is one step: a command that clears a halt between the test for an
error and that for a block, say, is seen as before or after both.

**State.**

| variable | code |
|---|---|
| `phase` | where the scripts thread is: not in `step_scripts`, in `run_ready` (in its loop, holding a script for a debugger, or out of the loop and before the swap), in `check_blocked`, or gone |
| `status` | whether an executor has been allocated, and deleted |
| `runlist`, `ranlist` | `ExecList runlist, ranlist` |
| `holdlist` | the multimap `holdlist`, from the clock slept until to the executor |
| `notimeoutholdlist`, `debuggerholdlist` | the sets of those names |
| `in_hold_list` | `OSExecutorModule::in_hold_list_` |
| `os`, `ex` | the other fields of `OSExecutorModule`; those of `Executor` and `UOExecutor` |
| `current`, `insleft` | the locals `ex` and `insleft` of `run_ready` |
| `clock` | `polclock()` |
| `dbg` | the `DebugContext`, and what it has still to do of the command under way |
| `sent` | numbers events |
| `corrupt` | the first undefined behaviour the code has reached; nothing follows it |

`run_ok` is kept beside `error`, `halt` and `done` because the code keeps it: it
is recomputed by `calcrunnable()`, which looks at two of the three flags.

**Actions.**

| action | code |
|---|---|
| `BeginPass`, `EndCheck` | `step_scripts`, entered and left with `PolLock` |
| `BeginTurn` | the head of `run_ready`'s outer loop: the front of `runlist`, `insleft = priority` |
| `Compute`, `Exit`, `Fail`, `SleepFor`, `wait_for_event`, ... | `execInstr` on one kind of instruction, with the rest of the inner loop (`--insleft` unless critical) |
| `RunScript`, `RunScriptReturn` | `OSExecutorModule::run_script`, the two times its instruction executes |
| `signal_event` | `OSExecutorModule::signal_event`, all its outcomes |
| `DebugStop` | `execInstr` returning before the instruction, for a debugger |
| `ReturnToParent`, `DeleteFinished`, `HoldBlocked`, `Requeue` | the end of a turn in `run_ready` |
| `MarkForDebugger`, `HoldForDebugger` | the end of a turn of a halted script, in two steps: `in_hold_list_ = DEBUGGER_LIST`, and its insertion in `debuggerholdlist` |
| `EmptyRunlist`, `EndPass` | `while (!runlist.empty())` ends; `runlist.swap( ranlist )` |
| `WakeDue` | one round of `check_blocked` |
| `ExternalStart`, `ExternalEvent`, `ExternalKill`, `ClientReply` | other threads, under the lock |
| `Shutdown` | `cleanup_scripts` |
| `cmd_attach`, `cmd_kill`, `cmd_break`, `DebugCheckHeld`, `DebugResume`, `DebugCheckDetach`, `DebugDetach`, `DebugLetGo` | the debugger's commands |

**Undefined behaviour.** Where the code follows a pointer to a deleted executor,
pops an empty queue or fails a `passert`, the model sets `corrupt` to a name for
the place, and stops. `WellDefined` says this does not happen, and is checked
where the code has a chance.

**Abstractions.** Instructions are of fifteen kinds, and which script may execute
which is a constant; this abstracts programs. Events are numbers. Profiling,
statistics and messages are left out.

### WorldSave

**Grain.** A step is one file operation, one object recorded, or one change of
the game. In phases other than `"running"` the game stands still, as it does
under the lock.

**State.** `life`, `version`, `dirty` and `keep` are the objects: a version is
the number of the change that made the object what it is, and stands for all of
its properties, its container included. `disk[f]` is a file under each of the
extensions `.ndt`, `.txt`, `.bak`; a data file is a function from the objects
written to their versions, an index a set of modified and a set of deleted
serials. `queue` is what the save under way has still to do, `save_index` its
loop variable. `saved` and `saving` are history variables, read by properties
alone.

**Actions.**

| action | code |
|---|---|
| `Create`, `Change`, `SetSaveOnExit`, `Destroy`, `Reap` | creation with a serial from `GetNextUnused...Serial`; `set_dirty`; `UObject::destroy`; `ObjectHash::Reap` |
| `ChangeOther` | guilds and the like, which have no dirty flag |
| `BeginFull`, `WriteFile`, `FailFull` | `SaveContext`, the `write_...` functions, an exception |
| `BeginSwitch`, `SwitchFile` | the commits of `write_data`, two operations for each file |
| `BeginRetire`, `RetireNext`, `RetireFile`, `FinishFull` | `commit_incremental_saves`, and the counters after it |
| `BeginIncremental`, `Record`, `WriteIndex`, `CommitFile`, `FailIncremental`, `FinishIncremental` | `save_incremental` |
| `Stop` | a crash or an exit, in the phases `Stops` allows |
| `Load`, `Refuse` | `read_data` with `load_incremental_indexes`, or its refusal |

What a restart would read is an operator of the disk, `Recovered`; it follows
`get_save_index`, the passes of the load, and the assertion in
`ObjectHash::Insert` that a serial is loaded once.

### DurableWorld

The promise of saving, in five actions: play, save (all at once), hold for the
administrator, stop, restart. `WorldSave` implements it under the mapping
`memory` = what is live and saved in the running game, `durable` = `Recovered`,
both for items and mobiles: `SavesAreAtomic == Store!Spec`. The instant at which
a save takes effect is where `Recovered` changes: of an incremental save the
rename of its index, of a full save the rename of `storage` that ends its
being refused.

### ItemMoves

**Grain.** A step is one packet handled, one call of a script, or one of the
sections of `client_io_thread` that hold `PolLock`; between two of those sections
(`Disconnected`, `disconnect_cleanup`, `PreDelete`) everybody else may step.

**State.** `place` stands for `container`, or the realm's zone, of each item:
the ground, a container on the ground (`Chest`), a character's backpack, layer
or trade window, the cursor, in nothing at all (`Adrift`), or there is no such
item. `amount`, `inuse`, `gotten_by`, `gotten_item`, `gotten_item_source`,
`trading_with`, `trade_accepted`, `dead` are the fields of those names.
`session` says whether the client of a character is in `clients`
(`"playing"`), has been taken out (`"closing"`), has been cleaned up after
(`"lingering"`) or is gone (`"offline"`); `chr->client` is set in the first three.
`seen` is a history variable, read by properties alone: what was in both
windows when a character accepted.

**Actions.**

| action | code |
|---|---|
| `get_item` | the packet that lifts an item, or part of a stack (`pol/getitem.cpp`) |
| `DropInto`, `DropOnPile`, `DropOnMobile`, `DropInWindow`, `DropFails`, `Mismatch` | the outcomes of `drop_item` (`pol/dropitem.cpp`) |
| `equip_item` | the packet that wears one (`pol/eqpitem.cpp`) |
| `clear_gotten_item` | the call that puts the held item back |
| `SecureTradeWin`, `MoveItemToSecureTradeWin` | scripts' calls (`pol/module/uomod.cpp`) |
| `cancel_trade`, `change_trade_status` | a client's or a script's cancellation; a client's answer, with the exchange when both have accepted |
| `die`, `resurrect` | `Character::die`, `Character::resurrect` |
| `Disconnected`, `disconnect_cleanup`, `PreDelete`, `char_select` | the end of a session in three steps, and a login, to a character that may still be in the game |
| `SaveWorldState` | `cancel_all_trades`, then what is written |

What a move does is an operator from what is where before to the *set* of what
may be where after (`return_traded_items`, `undo_get_item`, `Buried`), so that
`die` can do three of them one after the other, as the code does in one call.

**Abstractions.** Whether an item fits, is near enough or may be moved, and
what the scripts asked about it answer, is left to chance, and so are weights.
Containers do not nest; those on the ground are one place; there is one layer
to wear things on, not that of the robe, which death and resurrection use
themselves. Every character has a backpack. Decay, slots (off by default),
reserved items, remote containers, and scripts that destroy or move what is held or
traded are left out. The few looks at `client->chr` without the lock are taken
as if they were under it.

### Party

**Grain.** A step is one packet, answer to a cursor, timer, login, logoff, or
one call of a script; all of it is under `PolLock`.

**State.** `parties` is the vector of that name, each party by its address, and
`grp` the `Party` at each address: leader, members, candidates and offline
members by serial. A freed party is kept as its destructor left it, as pointers
to it may be left. `chr` is the character's side: the bare pointers `party`,
`candidate_of` and `offline_mem_of`, and whether the timer of an invitation is
set. `mode` is what `party.cfg` says about logoffs. `crashed` says that a
NULL client was followed, after which nothing happens.

Operations change both sides in turn, so each is an operator from the state of
both to the state of both (`Answered`, `Left`, `disband_party`, ...), and an
action is `Become` of a composition of them, in the order of the code.

| action | code |
|---|---|
| `add_candidate`, `InviteOffline` | an invitation; to somebody who has logged off since the cursor chose him |
| `handle_accept_invite`, `handle_decline_invite`, `invite_timeout` | the three ends of one |
| `handle_remove`, `handle_remove_member_cursor` | leaving, or being removed |
| `on_loggoff_party`, `on_loggon_party` | a logoff in each of three modes, with a new leader or the end of the party; a return |
| `addmember`, `removemember`, `setleader`, `addcandidate`, `removecandidate`, `CreateParty`, `DisbandParty` | scripts (`pol/module/partymod.cpp`) |
| `Restart` | `write_party` and `read_party_dat`, one after the other |

A restart is taken right after a save: what it leads to depends on the save
alone. Hooks can refuse, which is no step; what else their scripts do is calls
of the last but one row. Party chat, permissions to loot, deleted characters,
and a `PartyRef` that a script keeps over a disband are left out.

### Clients

**Grain.** A step is one packet, one call of a script, or one of the sections
of `client_io_thread` that hold `PolLock`; `CheckChr` is the look at
`client->chr` that takes no lock.

**State.** `stage` is how far the thread of each connection has got: `"choosing"`
a character, `"playing"`, `"left"` the list of clients, `"checked"`, cleaned up and
`"lingering"`, `"done"`. `gd` is the connection's `ClientGameData`: which script
waits for which kind of answer. `script` holds the other end: the character that
the script's module points at. `screen` is what cursors the player has.
`chr` has the character's client, whether it is in the world, its cursor
`tcursor2`, and whether a menu is set; `active` is
`Account::active_character`.

| action | code |
|---|---|
| `mf_Target`, `mf_SelectMenuItem`, `mf_PromptInput`, `mf_RequestInputUC`, `mf_SendTextEntryGump`, `mf_SendInstaResDialog`, `mf_SelectColor`, `mf_SendDialogGump` | the functions of those names: their looks at who waits, each a different one, and the suspension |
| `send_object_cursor` | the cursors of the core itself |
| `handle_target_cursor`, `handle_menu_selection`, `HandleAnswer`, `gumpbutton_handler`, `mf_CloseGump` | answers |
| `Kill`, `Delete`, `start_script` | the end of a script, with the destructors of its modules, and another one |
| `login2`, `char_select`, `SelectRefused` | a new connection, its choice, also of a character that is played on another connection |
| `Drop`, `Disconnect`, `CheckChr`, `disconnect_cleanup`, `Logoff`, `PreDelete` | the end of a connection |

What is asked and answered is left out. `ItemMoves` has the same stages as far
as items are concerned, `ScriptScheduler` the same waits as one kind of
instruction.

### ServerThreads

**Grain.** A section under `PolLock` is one step, but for the listener's, which
counts and creates a client's thread meanwhile. A count is a read and a write:
`threadsem` keeps the counts of others apart, and the listener does not take it.

**State.** `at` is where each thread is. `child_threads`, `sem`, `exit_signalled`
and `dirty` (`dirty_`) are the variables of those names; `pending` is a signal
that main has not waited for yet, `lock` that the listener has `PolLock`. `task`
is each one-shot task, in the queue or not, cancelled or not, with or without
the owner's `handle`. `planned`, `read` and `raced` are for the properties and for
the split of a count.

| action | code |
|---|---|
| `start_thread`, `catch_signals_thread`, `AwaitChildren`, `Signal` | main, and the signals it waits for |
| `threadstatus_thread`, `console_thread` | wake-ups at exit, and the last thread but main; a thread that polls |
| `Select`, `AcceptFails`, `Accept`, `IncUnlocked`, `CreateClientThread`, `CreateFails` | `listen_thread` |
| `process_data`, `Pulse`, `Closes` | `client_io_thread`, as far as others are concerned |
| `ScriptsPass`, `ScriptsWait` | `scripts_thread`, `wait_for_pulse` |
| `check_scheduled_tasks`, `TaskThrows`, `TasksWait`, `Tick` | `tasks_thread`; the time of a task comes |
| `dec_child_thread_count` | the end of each thread |

A timed wait may end at any moment, and the time of a task may come at any moment.
Periodic tasks, which never leave the queue, are left out. The reaper, the
threads for decay and the listeners of other services are like the console's
thread: they poll the flag and leave.

## Runs

All bounds are constants of the cfgs. `MaxClock` stops time, `MaxEvents` makes
later events indistinguishable from the last one that is told apart,
`MaxChanges` and `MaxIncrementals` end what the game may change and how often
it is saved in between.

| run | asks | bounds | outcome |
|---|---|---|---|
| `events` | `NoEventWhileWaiting`, `EventsInOrder` | one script that sends and one that waits, sleeps, clears and resizes its queue, other threads that send, and a debugger whose thread steps at any time; queue sizes 0, 1 and 2; 3 events; old events are discarded | holds, 2.6 million states |
| `lists` | `TypeOK`, `InOneList`, `NoneLost`, `HeldAsBlocked`, `FamilyLinks`, `WellDefined` | 3 scripts: a parent, its child, and one that debugs and kills the child; other threads kill it as well | holds, 121 thousand |
| `progress` | `PassEnds`, `SleepersWake`, `EndsAreFollowed` | 3 scripts, fair; the clock to 2 | holds, 61 thousand |
| `kill_parent` | `ParentAsked` | parents may be killed | violated, see below |
| `debug_done` | `ClassInvariant` | the debugger's thread | violated |
| `saves` | `TypeOK`, `OnlyDirtyDiffers`, `SavesAreAtomic` | full saves, or incremental ones up to 2; 2 objects and a guild, both values of saveonexit, 3 changes, stops anywhere, exceptions in both kinds | holds, 793 thousand |
| `save_both` | `ObjectsDurable` | both kinds, 2 changes, stops where a restart notices or nothing is on disk yet | holds, 1.2 million |
| `save_replace` | `ReplacementIsAtomic` | both kinds, stops anywhere | violated |
| `trades` | `TypeOK`, `HeldOrPlaced`, `TradersPaired`, `AcceptedAsSeen`, `SumKept`, `ExchangeAsAgreed`, `SavesMissNothing` | from two starts: 2 characters with stacks of 2 and 1 coins and a limit of 2; 3 characters with 2 hats; two of them disconnect and log in, one dies, one save | holds, 841 thousand |
| `parties` | `TypeOK`, `SidesAgree`, `FirstLeads`, `BigEnough`, `InvitationsTimed`, `NobodySwitches` | 5 players, 2 parties of at most 3, the three modes of a logoff | holds, 94 thousand |
| `requests` | `TypeOK`, `RequestsPaired`, `OwnCursor`, `OneSession`, `DroppedLeave`, `WaitersFreed` | 2 connections, 2 characters, 2 scripts; fair | holds, 506 thousand |
| `threads` | `TypeOK`, `LastOut`, `NotForgotten`, `OwnHandle`, `ShutsDown`, `Served` | 1 client that comes again and again, 2 tasks; a server at work, and one that is shut down; fair | holds, 335 thousand |

**Why these bounds are enough to be worth something.** A list hazard takes a
script and whoever moves it; a family takes parent, child and killer: three
scripts. An executor is never recycled (`status` goes from unborn to live to
deleted), so a bound on `Scripts` is a bound on starts; a step of one script
touches at most two executors besides itself. Order among events takes two that
are queued and one that was discarded or handed over: three. The clock needs one
tick for a sleep and one for a second sleep. Two incremental saves are the
least with an override of one index by the next, and with a gap when the first
is set aside; two objects the least with one that is saved and one that is not;
two files before `storage` and one after it stand for the thirteen that
`write_data` commits, which differ only by whether they come before or after
`storage`, and by `objects` and `storage` being the ones whose `.ndt` a start
looks for. For trades, three characters are the least with one who trades while a
third tries to; two items the least to exchange one for another, to wear one
over another, or to add to what was accepted; a limit of 2 with 3 coins makes
some stacks fit together and others not, and the serial without an item is for what a
stack is split into. One who dies and one who does not show all that death can do
to the other side; both sides of a trade may disconnect. A save changes
nothing but the trades it cancels, so one is enough. The hats are
interchangeable, in the starts too, and the run uses that symmetry.

Five players are two parties, one of them with three members or two and somebody
invited, and one who is in neither: less would leave out that somebody changes
from one to the other. A limit of 3 makes a party full with one member more than
the least. The players, and the parties, are interchangeable. In `parties` the hook
`CanAddToParty` refuses to let those invite who are invited themselves
(`VetInvited`), and a leader does not log off from a party that this would end
(`LonelyLogoffs = FALSE`): for either case the code loses track, as told below.

Two connections are what a reconnection takes, and a third would only wait for
one of them. The scripts know one of the two characters (`Known`); the other is
for the choice of one while the other plays. One of the connections answers
cursors it was not sent (`Forgers`). `Rude = FALSE`: no script asks for a text or
a color while another waits for one, for the code does not look.

In `threads`, a server at work (`plan = "work"`) and one that is starting and is
shut down at any moment (`"exit"`) are two starts, as tasks are of no
interest to an exit, nor signals to the tasks. Two tasks are the least where one is cancelled
and still in the queue while the next one has the handle. One client comes and goes, with a
thread of its own each time. The listener accepts nobody once a count has been
lost (`raced`), which ends what could be said and keeps the count bounded;
`Width` is wider than all the threads there are.

**What the properties say.**

- `InOneList`, with `NoneLost`: an executor that is not finished with is owned by
  exactly one list, or by the turn under way, and its `in_hold_list_` agrees; between
  passes none is in `ranlist`, where `cleanup_scripts` does not look. Everything that moves
  scripts relies on it without looking. Both are asked, and proved, under the lock.
- `HeldAsBlocked`: what `check_blocked` asserts of a script it wakes, and its
  converse: nothing sits in a list from which nobody revives it, the debugger's
  included.
- `FamilyLinks`: parent and child point at one another or not at all, and
  `run_script` resumes after its child. It holds when parents are not killed;
  `kill_parent` shows the rest.
- `NoEventWhileWaiting`, `EventsInOrder`: the wait and the queue never disagree.
- `WellDefined`: a debugger whose commands are a script's instructions disturbs
  nothing; the same commands from the thread do, see `debug_done`.
- `PassEnds`, `SleepersWake`, `EndsAreFollowed`: nobody is held for
  good. `SleepersWake` assumes that passes end, which a script that executes a
  critical loop prevents; in `progress` no script is critical.
- `ObjectsDurable`: a restart that is not refused reads the items and mobiles of
  one save whole: of the last that returned, or of the one that was interrupted.
  It is proved for shards that save in one way, and for those that mix if they are careful
  (`Guarded`, below), as that of `save_both` is.
- `OnlyDirtyDiffers`: the invariant incremental saves rest on.
- `SavesAreAtomic`: the refinement of `DurableWorld`. It adds to `ObjectsDurable`
  *when* the change takes effect: once, in one step, of the save under way.
- `HeldOrPlaced`: an item is on a cursor exactly if one character holds it, and
  only then it is in use; drops, refusals, deaths and logins leave none stuck. The
  dead hold nothing, and a layer is worn once.
- `TradersPaired`: traders point at one another and have clients,
  and nothing stays behind in the window of someone who trades no more.
- `AcceptedAsSeen`, `ExchangeAsAgreed`: an answer is about what is in the windows
  now; what changes hands was accepted by one before the other.
- `SumKept`: stacks neither grow nor shrink.
- `SavesMissNothing`: a save writes what is held and what was being traded; the two
  exceptions its comment names are the disagreements listed below.

- `SidesAgree`: a party's lists and the characters' pointers say the
  same, so that no pointer outlives its party. `NobodySwitches`: from one party to
  another only by leaving the first.
- `FirstLeads`, `BigEnough`: who leads, and when a party ends, over all the places that
  see to it. `InvitationsTimed`: no place is taken for good by who never answers.
- `RequestsPaired`: the two pointers of a request, in the client and
  in the script, are kept in step by a dozen functions; where they are not, a script
  waits for ever, or an answer meets one that is gone. `OwnCursor`: cursors of killed
  scripts stay with the player, and none of them can be answered in place of another.
- `OneSession`, `DroppedLeave`, `WaitersFreed`: a character has one client, though the one
  before is still being taken apart; who has dropped leaves, and scripts that wait
  for him go on.
- `LastOut`, `ShutsDown`: main cleans up, without the lock, when nobody is left,
  and gets there. They are asked as long as no count was lost; `ShutsDown` also excepts a
  listener that waits for itself and a status thread that left before the start was over.
- `NotForgotten`, `Served`: `wait_for_pulse` and its like lose what is sent too early;
  `dirty_` and the timeouts repair it. `OwnHandle`: a handle is on the task it is for.

Deadlock is checked for the scheduler, trades, parties, requests and threads. The scheduler's `Ended`
stutters once the process is gone. It is not checked for the saves: a server that was refused by its own data files
waits for a human, and with the bounds used up nothing need happen.

## Fairness

`FairSpec` is `Spec` with

- `WF(ScriptsThread)`: the scripts thread loops until the process ends, its wait
  for a pulse has a timeout, and the lock, a critical section or a mutex of the
  operating system, is handed over; a turn is a loop without waits.
- `WF(FinishCommand)`: a debugger command that has passed its check is
  straight-line code of a running thread.
- `SF(Clock)`: time passes. It is strong and not weak fairness because the model
  lets the clock stand still while `check_blocked` works with the value it read
  at its start (`Tick` is disabled then, again and again); real time does not
  wait for the code.

Nothing is assumed there of other threads, scripts' instructions other than that one
executes, clients' answers or kills. No run assumes that a save ends.

`Clients` has `WF(ClientThread(k))` for each connection: its thread polls, at least
every two seconds, and gets the lock again and again. Neither answers nor
scripts are assumed, so that what a dropped connection owes does not hang on them.

`ServerThreads` has weak fairness for each thread, and strong fairness for those of
scripts and tasks, as the listener takes the lock for an instant each time it
accepts: a mutex that is free again and again is obtained. Of a client's thread only
that it sends the pulse after a packet, sees the exit flag and ends. Nothing is assumed
of signals, tasks' times or packets.

## What is proved

`ScriptSchedulerProofs` proves, for every set of scripts, every program, every
value of the other constants that satisfies `SchedulerAssumption`, and without
the runs' bounds:

- **`TypeCorrect`**: `Spec => []TypeOK`. It is not for free: `os[s].sleep_until`,
  `insleft` and the event queues are computed by many actions, and
  `insleft \in Nat` needs that `Spend` follows a turn that is not over.
- **`OneList`**: `Spec => []InOneList`, with the lock (`~UnlockedDebugger`).
- **`NothingLost`**: `Spec => []NoneLost`, likewise.

*The argument.* `InOneList` alone is not inductive: an executor that starts must
not be in a hold list by its `in_hold_list_` (`UnbornInNoList`), reviving
needs `NoneLost` at the end of a turn, and `revive_debugged` removes its
argument from `debuggerholdlist` without looking, so that it must be in there.
The callers do look; the debugger looks in one step and acts in another, which
is sound only because its commands are parts of one instruction
(`Undisturbed`). `HeldMeanwhile` states this. The inductive invariant is
`SchedulerInv == TypeOK /\ ListInv /\ HeldMeanwhile`; `ListInv` collects
`InOneList`, `NoneLost`, `UnbornInNoList`. One lemma for each way to move an
executor (`ReviveKeeps`, `ReviveDebuggedKeeps`, `EnlistKeeps`, `RequeueKeeps`,
`ReturnKeeps`, `DeleteKeeps`, ...) shows that it keeps `ListInv`; the actions
are then mostly applications of them.

The assumption `~UnlockedDebugger` is needed. With the debugger's thread the
lists are corrupted by interleavings of `revive_debugged` with `run_ready`, and
`InOneList` and `NoneLost` are false (see *What the models disagree with*).

`SchedulerEventsProofs` proves, without any assumption on who debugs:

- **`WaitsForNothingQueued`**: `Spec => []NoEventWhileWaiting`.
- **`EventsArriveInOrder`**: `Spec => []EventsInOrder`.

*The argument.* What the lists say plays no part, which is why the debugger's thread may
step as it likes. Every step does one of a few things to the queue of a script
(`QueueStep`): it leaves it, takes its first event, hands an event to a wait, appends one,
makes room for one, empties it, starts to wait on an empty one, or resets a deleted
executor. Order is not inductive alone: the number of the event that is about to be
appended must not be below any in the queue, so `QueueInv` orders the last event taken,
the queue, and the events sent so far (`Ordered`) in one chain. The handing over to a wait
passes the queue by, and is in order only since the queue of a script that waits is
empty, so that the two are proved together.

`SchedulerFamilyProofs` proves, with the lock but for `ExecutesItsClass`:

- **`HeldIsBlocked`**: `Spec => []HeldAsBlocked`.
- **`FamiliesAreLinked`**: `Spec => []FamilyLinks`, if `ParentsLeftAlone`.
- **`PointersUnderLock`**: no turn, no wake and no command of the debugger is ever at fault
  (`ListsPointRight`).
- **`ParentsAreAsked`**: `Spec => []ParentAsked`, if `ParentsLeftAlone`.
- **`ExecutesItsClass`**: `Spec => []ClassInvariant`, if `DebuggedRunOn`, on any thread.
- **`EndsUnderLock`**: `Spec => []ClassInvariant`, if `NoChildren`.
- **`WellDefinedUnderLock`**: `Spec => []WellDefined`, if `ParentsLeftAlone`, `RoomInQueues`,
  and `DebuggedRunOn` or `NoChildren`.

The assumptions say what scripts and debuggers of a shard do, and each stands for a fault
that the code has where it does not hold (next section). `ParentsLeftAlone`: no kill and
no debugger reaches a script that may call `Run_Script`; otherwise a parent is deleted
while its child points at it, as in `kill_parent`. `RoomInQueues`: with `discard_old_events`
no script asks for a queue of size 0. `DebuggedRunOn`: a script that can be debugged does
not end of itself; otherwise `sethalt( false )` makes one runnable that is done, as in
`debug_done`. With the lock that takes a child that has ended and waits for its parent to
take the result: where nothing is run as a child (`NoChildren`), a script is done only in the
turn in which it ends, and the debugger's commands are in turns of others (`DoneOK`,
`CommandOK`). Each assumption holds in the run `lists`, but for `NoChildren`.

*The argument.* `HeldAsBlocked` says what a list means for what is in it. To keep it, one must
know what the place of a script means wherever it goes (`HoldOK`): also that a script that
is in no hold list and blocked is the one whose turn it is, and has not ended, so that
`HoldBlocked` takes it next; and that an executor not born yet is new
(`NewInv`). The debugger's list needs that whoever is halted is attached (`FlagsOK`, kept by
every thread), and that a script is not in it when `detach_debugger` comes (`DetachOK`).
`FamilyLinks` is not inductive, since it says nothing of what keeps a parent asleep: that a
parent with a child sleeps without a time, does not wait for events and is not asked by a
client (`RunOK`), so that neither the clock, nor an event, nor an answer wakes it, and that
an answer does come to a parent while it waits for one, and not after (`ClientOK`). That a
parent awake is right about its child needs that an end is final (`EndsLast`); that the
child's end always goes to the parent, that a parent with a child is runnable (`ParentRuns`).
The faults are then sorted by who causes them (`NextFaults`), and each is excluded by the
invariant it belongs to: `turn`, `held` and `debugger` by the lists, `parent` and `child` by
the family, `queue` by the sizes of queues (`RoomInv`), `done` by the flags.

`ServerThreadsProofs` proves, for any finite set of connections, any set of tasks
and any `Width` above `Cardinality(Threads) + 2` (`ThreadsAssumption`: more threads
than the counter can count do not exist):

- **`TypeCorrect`**: `Spec => []TypeOK`.
- **`CountIsRight`**: `Spec => []Counted`: until a count is lost to a race, `child_threads`
  is the number of threads that live and have been counted.
- **`MainIsLast`**: `Spec => []LastOut`.
- **`NoTaskForgotten`**: `Spec => []NotForgotten`.
- **`HandleIsOwn`**: `Spec => []OwnHandle`.

*The argument.* That main is last follows from the count: when it reads that no child
is left, no thread lives, and none can be born, since main has started all of them and
the listener, which alone creates clients' threads, is dead. So `LastOut` needs
`Counted`, and `Counted` needs to know which thread may be where: workers are started
in order and each once (`StartedUpTo`), one client at most has been accepted and not
created yet, and by a listener in its section (`PlacesOK`). The inductive
invariant is `ServerInv == TypeOK /\ PlacesOK`. `StepCounts` says of every step that it
is one of four kinds (`CountedStep`), and that the dead stay dead (`DeadStay`);
`CountedKept` does the arithmetic on cardinalities once for each kind. For
`NotForgotten` steps are sorted by whether they make the tasks thread wait
(`Noticed`); `OwnHandle` is proved task by task (`Owned`).

`ClientsProofs` proves, for any connections, characters, scripts and forgers:

- **`TypeCorrect`**: `Spec => []TypeOK`, with at most one script waiting for each kind of
  answer but gumps.
- **`SessionIsOne`**: `Spec => []OneSession`.
- **`NobodyStranded`**: `Spec => []RequestsPaired`, if no script is `Rude`. The assumption is
  needed: `SendTextEntryGump` and `SelectColor` overwrite the pointer to who waits.
- **`TargetIsOwn`**: `Spec => []OwnCursor`, `Rude` scripts or not.

*The argument.* `OneSession` becomes inductive when it is added that a connection has
no character before it chose one, and an account as long as it has a character or
chooses (`Sessions`): that is what makes `char_select` find the client to take the character
from. Types need that two scripts are never both in a slot for one, kept
by the looks of the functions that ask (`Single`). `RequestsPaired` speaks of scripts
that wait; `Paired` adds those that have been killed and not been deleted yet, whose
destructors clear a pointer in the client of the character they asked, whichever
client that is by then. Steps are of five kinds: somebody asks, an answer clears a
slot, a connection's slots are all freed, a script ends, and steps elsewhere; a
lemma for each shows that `Paired` is kept. `OwnCursor` asks about one script; what makes
it inductive is about the screen (`CursorAt`): a player who answers in sequence has one
cursor at most, it is the one the character's `tcursor2` says is out, and one who waits to
play has none. Then a second cursor is not sent, since `tcursor2` is set as long as the
first is there, and who asks finds a free screen. That `tcursor2` may be set without a
cursor, after a reconnection, does no harm to it: the request is refused.

`WorldSaveProofs` proves, for any objects, any sequence of files, any plans of shards
and any number of changes and incremental saves:

- **`TypeCorrect`**: `Spec => []TypeOK`.
- **`DirtyFlagsRight`**: `Guarded => (Spec => []OnlyDirtyDiffers)`.
- **`ObjectsAreDurable`**: `Guarded => (Spec => []ObjectsDurable)`.
- **`SavesImplement`**: `EachKindAlone => (Spec => SavesAreAtomic)`, the refinement of
  `DurableWorld`.

Three assumptions carry this. `FilesAssumption` (in `WorldSave`, evaluated by TLC) says
that each file is committed once and `storage` no earlier than `objects` and the homes of
objects, as the calls in `write_data` do. `Guarded` asks nothing of a shard whose scripts
save in full only. Where they save incrementally, they are to leave `saveonexit` alone:
an incremental save lists an object as modified whose `saveonexit` is off, and writes it.
Where they do both, the server is to stop only in the game, while the `.ndt` files of a
full save are written, or before `storage` is placed (`GuardedStops`), and no exception is to
end an incremental save. The code guarantees neither; TLC finds `ObjectsDurable` violated
as soon as a shard that does both may stop in `recording` or in `committing` or fail in
`recording`, for the next full save commits an incremental one that was left half done,
or as soon as it may change `saveonexit`; and `save_replace` shows a stop after `storage` is placed
(see below, "What the models disagree with"). `EachKindAlone` excludes these shards altogether,
since replacing incremental saves is no single step of `DurableWorld`.

*The argument.* `AbstractStep` sorts steps by what they do to `Memory` and `OnDisk`: play,
save, stop, restart, or nothing; `Abstracts` turns each sort into a step of
`DurableWorld` once. `SameRead` says what a restart reads depends on: the indexes in place,
the data files that are counted, the objects' homes. Most steps touch none of these.
The inductive invariant is `SaveInv`: `TypeInv`, `Flags` (what dirty flags mean, and which
objects may be clean), and one of three invariants for the shard. With full saves only,
`FullInv`: the queue is what is left of `Switch` after some number of steps
(`Switching(k)`), and the files done and to do are just those that number says. That a
restart can tell (`SwitchTells`) until `storage` is placed, and finds every object's file in
place from then on, is where the order of the commits enters. With incremental saves only,
`IncInv`: what is recorded so far is as in memory, the rest is on disk, and until the index
is placed, the last of four operations (`Committing(k)`), nothing of it is read;
`PlaceIndex` shows that the index alone makes all of it count. With both, `BothInv`: as long
as a restart would load, `IncInv` holds between full saves; after a full save that failed it
does not, since flags are clean of what is only in `.ndt` files, and nothing is asked until
one returns. That this one mends everything is `FinishFullShape`: no index is left
in place when the loop of `commit_incremental_saves` meets the first number it knows
no file of. It needs `Shape`, the incremental files by number throughout every step of both
saves: indexes without gaps up to the count (`Placed`), no `.ndt` of an incremental save left
outside its own commit (`NoneNew`), and how far the four operations of a commit
(`Commits(k)`) or of a retirement (`Retires(k)`) have got. `ObjectsAreDurable`
adds `DurInv`, what `saved` and `saving` have to do with the disk, and `LoadedOnce`: what
a counted save wrote its index lists, so that only one pass of the load may insert an
object. `Indexed` and `SaveIndex` are choices of a number; that there is one to choose is
from the well-foundedness of the naturals (`LeastNat`).

`ItemMovesProofs` proves, for any characters, items, stack limit and starts that satisfy
`ItemAssumption` (a start has nothing on cursors, layers or in windows, and wearable
items singly), and any number of saves:

- **`TypeCorrect`**: `Spec => []TypeOK`. Amounts stay in `0..StackLimit` since
  `can_add_to_self` looks at the sum.
- **`ItemsHeldOnce`**: `Spec => []HeldOrPlaced`.
- **`TradesPaired`**: `Spec => []TradersPaired`.
- **`AnswersCurrent`**: `Spec => []AcceptedAsSeen`.
- **`ExchangesAgreed`**: `Spec => ExchangeAsAgreed`.
- **`SavesComplete`**: `Spec => SavesMissNothing`.

*The argument.* Three lemmas say what each of the moves with more than one outcome
does to each item (`ReturnedItems`, `UndoneItems`, `BuriedItems`), so that `die`, which does
all three, is a chain of them. `HeldOrPlaced` is kept in two halves, `OnCursors`
and `OnLayers`; the second is not inductive unless what is worn is wearable and single, for
else part of it could be picked up and the rest stay on a layer beside something else.
Every action lets go of one item (`CursorsReleased`), takes one (`CursorTaken`) or leaves
cursors alone (`CursorsStay`). `TradersPaired` and `AcceptedAsSeen` are proved
together over `HeldInv` (`TradesInv`): a window is `Untouched`, or emptied with its trade
(`TradesCleared`), or is new (`TradeOpened`), or something was put in it
(`AnswersVoid`). That the partner of a trader is in the same set of trades to be ended, and
nobody else's is, uses the pairing. `ExchangesAgreed` shows that only
`change_trade_status` moves items to another one's backpack (`OnlyAnswersExchange`), and
there the other side's answer, by `AcceptedAsSeen`, was about them.

`PartyProofs` proves, for any players and any addresses of parties, any
`MaxPartyMembers` above one, any of the logoff modes and any number of restarts, on servers
with `VetInvited` and without `LonelyLogoffs`:

- **`TypeCorrect`**: `Spec => []TypeOK`.
- **`SidesAlwaysAgree`**: `Spec => []SidesAgree`.
- **`FirstAlwaysLeads`**: `Spec => []FirstLeads`.
- **`AlwaysBigEnough`**: `Spec => []BigEnough`.
- **`InvitationsEnd`**: `Spec => []InvitationsTimed`.
- **`LeavesFirst`**: `Spec => NobodySwitches`.

Both assumptions are about what the shard's scripts and players do, and both are needed:
without either, the code lets the two sides come apart (next section).

*The argument.* Both sides, the parties and the characters, are one value (`Now`), which
each operation maps to another. The lists of a party name nobody twice (`List`), so
that the loop that erases the first match erases all there is: `RemoveFirst` looks for
the least index, and that there is one is from the well-foundedness of the naturals
(`LeastIndex`). Agreement alone is not inductive. What is added is `OneTie`: who is
invited is in no party and has a timer, and who waits to rejoin has no other tie; and,
beside it, that nobody waits to rejoin who is online. With it, the invariant (`Good`) is that
the sides agree and every party is led by its first member and big enough. Each operation has
a lemma about what it leaves (`InvitedSound`, `LeftGood`, ...), some from a state that is
sound but has a party that is too small or has no leader, as between two calls of one
handler; each action is a chain of them. A party that is being ended is found by its leader,
who is its first member and whose pointer names one party. A restart reads what was
written: the file names a character in at most one party, since the pointers did
(`ReadIs`, `RestartKeeps`).

*Only model-checked:* the liveness properties (the prover does not do fairness
here) and `SumKept` (a sum over items is a fold).

## What the models disagree with

Runs that end in a violation, each of a line of the repository's own:

- **`kill_parent`**: `run_ready` asks `ex->pParent->runnable()` when a child ends
  (`pol/scrsched.cpp:364`). A parent that was killed meanwhile has been deleted,
  and nothing clears the child's `pParent`. `doc/core-changes.txt:1115` records a
  fix of "a bug in Run_Script caused when a Parent script ended before the child
  script".
- **`debug_done`**: `sethalt(false)` makes an executor runnable without looking at
  `done` (`bscript/executor.h:376`). A detach of a script that halted with its last
  instruction has it executed again, against the "class invariant" that
  `bscript/executor.cpp:2979` asserts.
- **`save_replace`**: `write_data` puts a full save in place and only then sets aside
  the incremental saves it replaces (`pol/uimport.cpp:1369`). A stop in between
  lets them override it at the next start. "Atomically (hopefully) perform the
  switch", line 1350.

Known from the models, without a run that stays:

- `commit_incremental_saves` commits what incremental files it finds
  (`pol/savedata.cpp:306`), the `.ndt` of one that failed among them, and the next
  start reads it over the full save, though `pol/savedata.cpp:246` says
  "Incremental saves are disabled until the next full save" as if that healed them.
- A command of the debugger's thread that revives a script after the last look of `run_ready`'s
  loop (`pol/scrsched.cpp:293`) and before the swap (line 417) puts it in `runlist`, and the
  swap makes that `ranlist`. It stays there till the end of the next pass, and
  if the server exits before, `cleanup_scripts` (line 269) does not delete it: it does
  not look in `ranlist`, against "when the program exits, each executor in
  these queues will be deleted by cleanup_scripts()" (line 254). `NoneLost` with
  `UnlockedDebugger` is violated in five states.
- A command between `in_hold_list_ = DEBUGGER_LIST` (line 382) and the insertion in
  `debuggerholdlist` (line 383) revives the script into `runlist` first; it is then in both
  (`InOneList` with `UnlockedDebugger`).
- A debugger thread's detach takes the script out of `debuggerholdlist` before it
  clears the halt; run between the two, it is put back and no debugger is
  attached (`HeldAsBlocked` with `UnlockedDebugger`).
- A child that ends while its parent is halted by a debugger is deleted, and the
  parent then follows `pChild` (`FamilyLinks` when the parent is `Debuggable`).
- The debugger's `cmd_kill` marks a script and does not revive it: one that sleeps
  for ever is not deleted.
- A queue size of 0 with `discard_old_events` pops an empty queue (in `events` the
  model reaches `corrupt = "queue"`; `WellDefined` is not asked there).
- An exception in a full save leaves objects clean that are on disk only in `.ndt` files,
  and incremental saves enabled. Those that follow leave these objects out, and return
  success; no restart reads them before the next full save returns, since it
  refuses the `.ndt` files (`OnlyDirtyDiffers` asks nothing while a restart would refuse).
- `storage` is the last file whose `.ndt` a load looks for; guilds, parties and
  datastore are committed later, and a stop there goes unnoticed.
- `MoveItemToSecureTradeWin` takes an item out of its container before it knows
  that there is a trade with room for it, and does not put it back
  (`pol/module/uomod.cpp:4029`): the item is `Adrift`, out of players' reach and of saves.
- A drop of another item than the held one clears `gotten_by` and goes on
  holding (`pol/dropitem.cpp:744`); from then on the item cannot say who holds it, which
  is why `HeldOrPlaced` claims nothing of an empty `gotten_by`.
- A save cancels the trades of clients that are in `clients`. A trade both of whose
  clients have gone, but have not been cleaned up after, stays, and what is in
  its windows is not saved (the exception in `SavesMissNothing`).
- After `disconnect_cleanup` the character still has its client, and a drop on it
  opens a new trade with nobody there; `PreDelete` returns the items.
- `return_traded_items` returns early for a character without a backpack
  (`pol/dropitem.cpp:857`), and leaves what is in the window; every character in the
  model has a backpack.
- An incremental save writes objects whose own saveonexit is off, which a full
  save leaves out (`SaveFlags = {TRUE, FALSE}`).
- A leader without a party who is invited himself may invite somebody
  (`pol/party.cpp:1339`), gets a party, and may then accept: two parties list him
  (`SidesAgree` with `VetInvited = FALSE`).
- The leader of two logs off with `RemoveMemberOnLogoff`: the party is freed, and his
  `party` still points at it (`pol/party.cpp:915`). The only member with somebody
  invited does: `get_member_at( 0 )` reads an empty vector (`pol/party.cpp:291`).
  Both with `LonelyLogoffs = TRUE`.
- Who has logged off between a cursor and its answer has a NULL client that
  `send_invite` and `handle_remove_member_cursor` follow (`pol/party.cpp:1422`, `1060`),
  against `doc/core-changes.txt:525`, "Removing an offline member from party was
  causing POL to crash" (fixed). The model's `crashed`.
- `SendTextEntryGump` does not look whether a script waits for a text
  (`pol/module/uomod2.cpp:1388`), and `SelectColor` looks at the wrong pointer
  (line 1882): the script that waited is never revived (`RequestsPaired` with `Rude`).
- A cursor answered out of sequence clears the character's cursor and tells
  nobody (`pol/target.cpp:64`). The script that waits for its target waits on, and
  the next cursor that the core sends meets it; "FIXME susceptible to
  out-of-sequence target cursors" (`pol/module/uomod.cpp:773`). `OwnCursor` leaves
  out clients that do so.
- A reconnection leaves the character's `tcursor2` set (`pol/pol.cpp:533`): it counts
  as having a cursor, which `doc/core-changes.txt:1366` calls active, and the player has none.
- `SelectMenuItem` follows the client before it looks whether there is one
  (`pol/module/uomod.cpp:1705`), and `client_io_thread` follows `client->chr` after a look
  without the lock (`pol/pol.cpp:1155`): `crashed` in `Clients`.
- The listener counts without `threadsem` (`pol/pol.cpp:1327`): a count may be lost, and
  main then cleans up while a thread lives, or never (`raced`). If the thread
  cannot be created, it waits for a lock it has (`Stuck`). If `accept` fails once, it
  ends (`pol/pol.cpp:1297`).
- A server told to exit while it starts may have its status thread leave before the
  console's thread is counted; main then waits for a signal it has had (`Early`).
- An exception in a task ends the tasks thread, and the server goes on without one
  (`TaskThrows`).

## What is not modelled

`PROJECT.json` lists every part with its state. Beside the parts planned below:
compiler, values of eScript, map library, utilities and offline tools are
batch or pure functions; characters' combat and vitals and the geometry of
boats and houses are arithmetic over tunables and large maps, outside what
TLC enumerates; accounts, realms, resources are tables; spells, skills, speech and
commands look up a script and start it, and the start is modelled; aux services
and the web server are socket I/O around the lock.

Within the modelled parts, what definitions leave out on purpose:

- `MoveItemToSecureTradeWin` takes items from containers, backpacks and layers. The code
  also takes one on the ground, and then follows a NULL container (`pol/module/uomod.cpp:4000`),
  and one out of a trade window: what the other side has accepted changes then without
  its answer being withdrawn. So `AcceptedAsSeen` and `ExchangeAsAgreed` are about shards
  whose scripts do not take items out of windows.
- In `Party` the timer of an invitation is set if party.cfg has a timeout
  (`DeclineTimeout`, 10 seconds by default), which `parties` has; without one an invitation
  may stay for ever, and `InvitationsTimed` claims nothing.
- `Present` leaves out what has saveonexit off. `write_characters` looks at that of NPCs
  alone (`pol/uimport.cpp:1147`): the mobiles of the model that have it off are no players.
- `Record` records any dirty object. `write_dirty_data` passes over items whose type is not
  saved, and those whose owner has saveonexit off (`pol/savedata.cpp:150`, `161`); they stay
  dirty, and a restart has of them what it had before. `ObjectsDurable` and
  `SavesAreAtomic` are not about these.
- `WriteFile` clears the dirty flag of all it writes. The code does not for the roots of
  storage areas (`pol/storage.cpp:161`) and for held items: an incremental save
  writes them once more.
- `FailIncremental` comes while objects are recorded. The code may also throw as it writes the
  index or closes the files: incremental saves are disabled in either case, and both files
  stay `.ndt`.
- `Accept` is not taken any more when a count has been lost (`raced`), which bounds the run.

Everywhere in these parts: the clock does not wrap; the file system does
not fail other than by an exception at a write (a rename that fails is logged and
passed over by `commit_incremental`); the text format of files is not modelled,
nor are scripts run to completion inside one call (`run_script_to_completion`),
which use an executor of their own outside the lists.

## Plan

Done: the scheduler with its os module and debugger, saves and loads, item
moves and secure trade, parties, clients and their requests, the server's
threads with one-shot tasks and wake-ups. Next, in this order:

1. **Composition**: `Clients` with `ScriptScheduler`'s `WaitForClient` and
   `ClientReply`, which stand for it now, as a refinement.
2. **Periodic tasks** in `ServerThreads`: those that fall behind, and the game clock.
3. **Custom houses**: a design session, with its commit, its backup and a
   designer who disconnects.

Questions about the same module are asked by one run with several starts, as
`trades` does, wherever their bounds allow it.

Proofs, along with these:

- the type invariant and the safety properties of each new module, by an inductive
  invariant that TLC has checked;
- the composition's refinement, step by step;
- `WorldSave`: what of `DurableWorld` a careful shard that does both kinds of save
  keeps, with one more action for the full save that replaces incremental ones.
