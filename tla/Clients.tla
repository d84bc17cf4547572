------------------------------ MODULE Clients ------------------------------
(***************************************************************************)
(* Connections of an account's player, the character they play, and the    *)
(* scripts that wait for the player to answer (pol/pol.cpp, network/       *)
(* client.cpp, network/cgdata.cpp, target.cpp, menusel.cpp, getmsg.cpp,    *)
(* module/uomod.cpp, uomod2.cpp, unimod.cpp).  A script that asks is       *)
(* suspended with no time limit: it and the connection's ClientGameData    *)
(* point at each other, and only what clears these pointers revives it.    *)
(*                                                                         *)
(* Each step is one section under PolLock, but for CheckChr, which takes   *)
(* no lock.  A connection has a thread of its own that goes on to take the *)
(* connection apart when it has dropped, in several sections; meanwhile    *)
(* the player may be back on another connection.                           *)
(*                                                                         *)
(* What is asked and answered is left out, and so is what follows from a   *)
(* cursor of the core's own.  Creating a character is like choosing one.   *)
(***************************************************************************)
EXTENDS Naturals, FiniteSets

CONSTANTS
  Conns,     \* connections, each used again when it has been deleted
  Chars,     \* the characters of one account
  Scripts,
  NoConn, NoChar, NoScript,
  Known,     \* the characters that scripts know
  Forgers,   \* connections that may answer a cursor they were not sent
  Rude       \* scripts ask for a text or a color while another one waits for it

ASSUME ClientsAssumption ==
  /\ NoConn \notin Conns /\ NoChar \notin Chars /\ NoScript \notin Scripts
  /\ Known \subseteq Chars /\ Forgers \subseteq Conns
  /\ Rude \in BOOLEAN

\* The pointers of ClientGameData; gumps are a set.
Kinds == {"target", "menu", "prompt", "uniprompt", "textentry", "resurrect", "selcolor", "gump"}

VARIABLES
  stage,    \* how far the thread of each connection has got
  dropped,  \* connections with Client::disconnect set
  client,   \* each connection's Client: its acct and chr
  gd,       \* its ClientGameData: pairs of a kind and the script that asked
  screen,   \* the cursors its player has got and not answered, or the answer is on its way
  chr,      \* each Character
  active,   \* Account::active_character
  script,   \* each script, and the one character pointer of its modules that is set
  crashed   \* a NULL pointer was followed

vars == <<stage, dropped, client, gd, screen, chr, active, script, crashed>>
sessionVars == <<stage, dropped, client, active>>

Idle == [state |-> "running", kind |-> "none", of |-> NoChar]

Init ==
  /\ stage = [k \in Conns |-> "none"]
  /\ dropped = {}
  /\ client = [k \in Conns |-> [acct |-> FALSE, chr |-> NoChar]]
  /\ gd = [k \in Conns |-> {}]
  /\ screen = [k \in Conns |-> {}]
  /\ chr = [c \in Chars |-> [client |-> NoConn, logged_in |-> FALSE, tcursor2 |-> "none",
                             menu |-> FALSE]]
  /\ active = NoChar
  /\ script = [s \in Scripts |-> Idle]
  /\ crashed = FALSE

----------------------------------------------------------------------------
\* Helpers

Crash == crashed' = TRUE /\ UNCHANGED <<sessionVars, gd, screen, chr, script>>

has_active_client(c) ==
  chr[c].client # NoConn /\ stage[chr[c].client] = "playing" /\ chr[c].client \notin dropped

Asked(k, kind) == {s \in Scripts : <<kind, s>> \in gd[k]}

target_cursor_busy(c) ==
  chr[c].tcursor2 # "none" \/ (chr[c].client # NoConn /\ Asked(chr[c].client, "target") # {})

has_active_prompt_Own(c) == Asked(chr[c].client, "prompt") # {}
has_active_prompt(c) == \E kind \in {"prompt", "uniprompt"} : Asked(chr[c].client, kind) # {}

\* Revived, with the pointer to the character cleared; one that is killed still ends.
Revived(those) ==
  [s \in Scripts |->
    IF s \in those THEN [Idle EXCEPT !.state = IF script[s].state = "dying" THEN "dying" ELSE "running"]
                   ELSE script[s]]

\* ClientGameData::clear.
InGd(k) == {s \in Scripts : \E kind \in Kinds : s \in Asked(k, kind)}
Cleared(k) == [gd EXCEPT ![k] = {}]

----------------------------------------------------------------------------
\* Scripts ask.

\* The pointer of that kind, whoever was in it, and suspend().
Suspend(s, kind, c) ==
  LET k == chr[c].client
      kept == {a \in gd[k] : a[1] = "gump" \/ a[1] # kind}
  IN /\ gd' = [gd EXCEPT ![k] = kept \cup {<<kind, s>>}]
     /\ script' = [script EXCEPT ![s] = [state |-> "waiting", kind |-> kind, of |-> c]]

MayAsk(s) == ~crashed /\ script[s].state = "running"

\* mf_TargetCoordinates and mf_TargetMultiPlacement differ in the cursor alone.
mf_Target_Unlooked(s, c) ==
  /\ MayAsk(s) /\ has_active_client(c)
  /\ Asked(chr[c].client, "target") = {}
  /\ Suspend(s, "target", c)
  /\ chr' = [chr EXCEPT ![c].tcursor2 = "script"]
  /\ screen' = [screen EXCEPT ![chr[c].client] = @ \cup {[cursor |-> "script", by |-> s]}]
  /\ UNCHANGED <<sessionVars, crashed>>
mf_Target(s, c) ==
  /\ MayAsk(s) /\ has_active_client(c)
  /\ ~target_cursor_busy(c)
  /\ Suspend(s, "target", c)
  /\ chr' = [chr EXCEPT ![c].tcursor2 = "script"]
  /\ screen' = [screen EXCEPT ![chr[c].client] = @ \cup {[cursor |-> "script", by |-> s]}]
  /\ UNCHANGED <<sessionVars, crashed>>

\* A cursor of the core's: dyes, text commands, parties.
send_object_cursor(c) ==
  /\ ~crashed /\ has_active_client(c)
  /\ ~target_cursor_busy(c)
  /\ chr' = [chr EXCEPT ![c].tcursor2 = "core"]
  /\ screen' = [screen EXCEPT ![chr[c].client] = @ \cup {[cursor |-> "core", by |-> NoScript]}]
  /\ UNCHANGED <<sessionVars, gd, script, crashed>>

\* The client is followed before it is looked at.
mf_SelectMenuItem(s, c) ==
  /\ MayAsk(s)
  /\ IF chr[c].client = NoConn
     THEN Crash
     ELSE /\ Asked(chr[c].client, "menu") = {}
          /\ has_active_client(c)
          /\ Suspend(s, "menu", c)
          /\ chr' = [chr EXCEPT ![c].menu = TRUE]
          /\ UNCHANGED <<sessionVars, screen, crashed>>

\* A connection that is being taken apart will do, if it still has the character.
mf_PromptInput(s, c) ==
  /\ MayAsk(s)
  /\ chr[c].client # NoConn /\ ~has_active_prompt(c)
  /\ Suspend(s, "prompt", c)
  /\ UNCHANGED <<sessionVars, screen, chr, crashed>>

mf_RequestInputUC(s, c) ==
  /\ MayAsk(s)
  /\ has_active_client(c) /\ ~has_active_prompt(c)
  /\ Suspend(s, "uniprompt", c)
  /\ UNCHANGED <<sessionVars, screen, chr, crashed>>

mf_SendInstaResDialog(s, c) ==
  /\ MayAsk(s) /\ has_active_client(c)
  /\ Asked(chr[c].client, "resurrect") = {}
  /\ Suspend(s, "resurrect", c)
  /\ UNCHANGED <<sessionVars, screen, chr, crashed>>

\* Nobody looks whether another script waits.
mf_SendTextEntryGump(s, c) ==
  /\ MayAsk(s) /\ has_active_client(c)
  /\ Rude \/ Asked(chr[c].client, "textentry") = {}
  /\ Suspend(s, "textentry", c)
  /\ UNCHANGED <<sessionVars, screen, chr, crashed>>

\* The pointer that is looked at is the resurrection's.
mf_SelectColor(s, c) ==
  /\ MayAsk(s) /\ has_active_client(c)
  /\ Asked(chr[c].client, "resurrect") = {}
  /\ Rude \/ Asked(chr[c].client, "selcolor") = {}
  /\ Suspend(s, "selcolor", c)
  /\ UNCHANGED <<sessionVars, screen, chr, crashed>>

mf_SendDialogGump(s, c) ==
  /\ MayAsk(s) /\ has_active_client(c)
  /\ Suspend(s, "gump", c)
  /\ UNCHANGED <<sessionVars, screen, chr, crashed>>

----------------------------------------------------------------------------
\* Players answer: packets that the connection's message filter lets through.

Plays(k) == ~crashed /\ stage[k] = "playing" /\ client[k].chr # NoChar

\* A cursor that is not the one sent last is out of sequence: then nobody is told.
\* What a script's cursor is answered, or cancelled, wakes the script up.
Told(k, cursor) ==
  IF cursor = chr[client[k].chr].tcursor2 /\ cursor = "script" THEN Asked(k, "target") ELSE {}

handle_target_cursor(k, cursor) ==
  /\ Plays(k)
  /\ \/ \E a \in screen[k] : a.cursor = cursor /\ screen' = [screen EXCEPT ![k] = @ \ {a}]
     \/ k \in Forgers /\ UNCHANGED screen
  /\ chr' = [chr EXCEPT ![client[k].chr].tcursor2 = "none"]
  /\ script' = Revived(Told(k, cursor))
  /\ gd' = [gd EXCEPT ![k] = @ \ {<<"target", s>> : s \in Told(k, cursor)}]
  /\ UNCHANGED <<sessionVars, crashed>>

\* Chosen or cancelled; a choice that leads to another menu comes to the same.
handle_menu_selection(k) ==
  LET c == client[k].chr
  IN /\ Plays(k)
     /\ chr[c].menu
     /\ chr' = [chr EXCEPT ![c].menu = FALSE]
     /\ script' = Revived(Asked(k, "menu"))
     /\ gd' = [gd EXCEPT ![k] = @ \ {<<"menu", s>> : s \in Scripts}]
     /\ UNCHANGED <<sessionVars, screen, crashed>>

\* handle_prompt, handle_unicode_prompt, handle_textentry, handle_resurrect_menu and
\* handle_selcolor: whatever the packet says.
HandleAnswer(k, kind) ==
  /\ Plays(k) /\ Asked(k, kind) # {}
  /\ script' = Revived(Asked(k, kind))
  /\ gd' = [gd EXCEPT ![k] = @ \ {<<kind, s>> : s \in Scripts}]
  /\ UNCHANGED <<sessionVars, screen, chr, crashed>>

clear_gumphandler(k, s) ==
  /\ script' = Revived({s})
  /\ gd' = [gd EXCEPT ![k] = @ \ {<<"gump", s>>}]
  /\ UNCHANGED <<sessionVars, screen, chr, crashed>>

\* The gump is found by the pid of its script.
gumpbutton_handler(k, s) ==
  /\ Plays(k) /\ s \in Asked(k, "gump")
  /\ clear_gumphandler(k, s)

mf_CloseGump(by, c, s) ==
  /\ MayAsk(by) /\ has_active_client(c) /\ s \in Asked(chr[c].client, "gump")
  /\ clear_gumphandler(chr[c].client, s)

----------------------------------------------------------------------------
\* Scripts end.

\* Killed scripts are revived; they are deleted when it is their turn.
Kill(s) ==
  /\ ~crashed /\ script[s].state = "waiting"
  /\ script' = [script EXCEPT ![s].state = "dying"]
  /\ UNCHANGED <<sessionVars, gd, screen, chr, crashed>>

\* ~UOExecutorModule and ~UnicodeExecutorModule: the pointer in the game data of the
\* client that the character has now, whoever is in it.  A cursor is not taken back.
Delete(s) ==
  LET c == script[s].of
      kind == script[s].kind
  IN /\ ~crashed /\ script[s].state \in {"running", "dying"}
     /\ IF kind # "none" /\ chr[c].client = NoConn
        THEN Crash
        ELSE /\ script' = [script EXCEPT ![s] = [Idle EXCEPT !.state = "gone"]]
             /\ gd' = IF kind = "none"
                      THEN gd
                      ELSE [gd EXCEPT ![chr[c].client] =
                              {a \in @ : a[1] # kind \/ (kind = "gump" /\ a[2] # s)}]
             /\ UNCHANGED <<sessionVars, screen, chr, crashed>>

start_script(s) ==
  /\ ~crashed /\ script[s].state = "gone"
  /\ script' = [script EXCEPT ![s] = Idle]
  /\ UNCHANGED <<sessionVars, gd, screen, chr, crashed>>

----------------------------------------------------------------------------
\* Connections

\* A connection up to login2, where it has an account; another one may have it too.
login2(k) ==
  /\ ~crashed /\ stage[k] = "none"
  /\ stage' = [stage EXCEPT ![k] = "choosing"]
  /\ client' = [client EXCEPT ![k].acct = TRUE]
  /\ UNCHANGED <<dropped, active, gd, screen, chr, script, crashed>>

\* Another character of the account is in the world.
SelectRefused(k, c) ==
  /\ ~crashed /\ stage[k] = "choosing" /\ k \notin dropped
  /\ active \notin {NoChar, c}
  /\ dropped' = dropped \cup {k}
  /\ UNCHANGED <<stage, client, active, gd, screen, chr, script, crashed>>

\* A character that is offline, or the one in the world: its connection is cut off
\* then, and the thread of that connection learns it later.
char_select_Uncleared(k, c) ==
  LET old == chr[c].client
      detached == IF active = c THEN {old} \ {NoConn} ELSE {}
  IN /\ ~crashed /\ stage[k] = "choosing" /\ k \notin dropped
     /\ active \in {NoChar, c}
     /\ dropped' = dropped \cup detached
     /\ active' = c
     /\ client' = [j \in Conns |->
          IF j \in detached THEN [acct |-> FALSE, chr |-> NoChar]
          ELSE IF j = k THEN [client[k] EXCEPT !.chr = c] ELSE client[j]]
     /\ chr' = [chr EXCEPT ![c].client = k, ![c].logged_in = TRUE]
     /\ stage' = [stage EXCEPT ![k] = "playing"]
     /\ UNCHANGED <<gd, screen, script, crashed>>
char_select(k, c) ==
  LET old == chr[c].client
      detached == IF active = c THEN {old} \ {NoConn} ELSE {}
  IN /\ ~crashed /\ stage[k] = "choosing" /\ k \notin dropped
     /\ active \in {NoChar, c}
     /\ script' = Revived(UNION {InGd(j) : j \in detached})
     /\ gd' = [j \in Conns |-> IF j \in detached THEN {} ELSE gd[j]]
     /\ dropped' = dropped \cup detached
     /\ active' = c
     /\ client' = [j \in Conns |->
          IF j \in detached THEN [acct |-> FALSE, chr |-> NoChar]
          ELSE IF j = k THEN [client[k] EXCEPT !.chr = c] ELSE client[j]]
     /\ chr' = [chr EXCEPT ![c].client = k, ![c].logged_in = TRUE]
     /\ stage' = [stage EXCEPT ![k] = "playing"]
     /\ UNCHANGED <<screen, crashed>>

\* The peer is gone or silent, a script disconnects the client, or the server stops.
Drop(k) ==
  /\ ~crashed /\ stage[k] \in {"choosing", "playing"} /\ k \notin dropped
  /\ dropped' = dropped \cup {k}
  /\ UNCHANGED <<stage, client, active, gd, screen, chr, script, crashed>>

\* The rest of client_io_thread, step by step.
Disconnect(k) ==
  /\ ~crashed /\ stage[k] \in {"choosing", "playing"} /\ k \in dropped
  /\ stage' = [stage EXCEPT ![k] = "left"]
  /\ screen' = [screen EXCEPT ![k] = {}]
  /\ UNCHANGED <<dropped, client, active, gd, chr, script, crashed>>

\* Without the lock.
CheckChr(k) ==
  /\ ~crashed /\ stage[k] = "left"
  /\ stage' = [stage EXCEPT ![k] = IF client[k].chr = NoChar THEN "done" ELSE "checked"]
  /\ UNCHANGED <<dropped, client, active, gd, screen, chr, script, crashed>>

disconnect_cleanup(k) ==
  LET c == client[k].chr
  IN /\ ~crashed /\ stage[k] = "checked"
     /\ IF c = NoChar
        THEN Crash
        ELSE /\ chr' = [chr EXCEPT ![c].tcursor2 = "none"]
             /\ script' = Revived(InGd(k))
             /\ gd' = Cleared(k)
             /\ stage' = [stage EXCEPT ![k] = "lingering"]
             /\ UNCHANGED <<dropped, client, active, screen, crashed>>

\* As long as the logoff test said, or until the server stops; then logoff.ecl.
Logoff_Waits(k) ==
  /\ ~crashed /\ stage[k] = "lingering" /\ gd[k] = {}
  /\ stage' = [stage EXCEPT ![k] = "done"]
  /\ UNCHANGED <<dropped, client, active, gd, screen, chr, script, crashed>>
Logoff(k) ==
  /\ ~crashed /\ stage[k] = "lingering"
  /\ stage' = [stage EXCEPT ![k] = "done"]
  /\ UNCHANGED <<dropped, client, active, gd, screen, chr, script, crashed>>

\* PreDelete takes the character out of the world if it is still this client's.
PreDelete_NotOut(k) ==
  LET out == {c \in Chars : client[k].acct /\ active = c /\ chr[c].client = k}
  IN /\ ~crashed /\ stage[k] = "done"
     /\ chr' = [c \in Chars |->
          [chr[c] EXCEPT !.logged_in = @ /\ c \notin out,
                         !.tcursor2 = IF c \in out THEN "none" ELSE @,
                         !.client = IF c = client[k].chr /\ @ = k THEN NoConn ELSE @]]
     /\ client' = [client EXCEPT ![k] = [acct |-> FALSE, chr |-> NoChar]]
     /\ script' = Revived(InGd(k))
     /\ gd' = Cleared(k)
     /\ stage' = [stage EXCEPT ![k] = "none"]
     /\ dropped' = dropped \ {k}
     /\ UNCHANGED <<active, screen, crashed>>
PreDelete_NotRevived(k) ==
  LET out == {c \in Chars : client[k].acct /\ active = c /\ chr[c].client = k}
  IN /\ ~crashed /\ stage[k] = "done"
     /\ chr' = [c \in Chars |->
          [chr[c] EXCEPT !.logged_in = @ /\ c \notin out,
                         !.tcursor2 = IF c \in out THEN "none" ELSE @,
                         !.client = IF c = client[k].chr /\ @ = k THEN NoConn ELSE @]]
     /\ active' = IF out # {} THEN NoChar ELSE active
     /\ client' = [client EXCEPT ![k] = [acct |-> FALSE, chr |-> NoChar]]
     /\ gd' = Cleared(k)
     /\ stage' = [stage EXCEPT ![k] = "none"]
     /\ dropped' = dropped \ {k}
     /\ UNCHANGED <<screen, script, crashed>>
PreDelete(k) ==
  LET out == {c \in Chars : client[k].acct /\ active = c /\ chr[c].client = k}
  IN /\ ~crashed /\ stage[k] = "done"
     /\ chr' = [c \in Chars |->
          [chr[c] EXCEPT !.logged_in = @ /\ c \notin out,
                         !.tcursor2 = IF c \in out THEN "none" ELSE @,
                         !.client = IF c = client[k].chr /\ @ = k THEN NoConn ELSE @]]
     /\ active' = IF out # {} THEN NoChar ELSE active
     /\ client' = [client EXCEPT ![k] = [acct |-> FALSE, chr |-> NoChar]]
     /\ script' = Revived(InGd(k))
     /\ gd' = Cleared(k)
     /\ stage' = [stage EXCEPT ![k] = "none"]
     /\ dropped' = dropped \ {k}
     /\ UNCHANGED <<screen, crashed>>

----------------------------------------------------------------------------

Ask(s, c) ==
  \/ mf_Target(s, c) \/ mf_SelectMenuItem(s, c) \/ mf_PromptInput(s, c)
  \/ mf_RequestInputUC(s, c) \/ mf_SendTextEntryGump(s, c) \/ mf_SendInstaResDialog(s, c)
  \/ mf_SelectColor(s, c) \/ mf_SendDialogGump(s, c)

ClientThread(k) == Disconnect(k) \/ CheckChr(k) \/ disconnect_cleanup(k) \/ Logoff(k) \/ PreDelete(k)

Gone == crashed /\ UNCHANGED vars

Next ==
  \/ \E s \in Scripts, c \in Known : Ask(s, c)
  \/ \E s, by \in Scripts, c \in Known : mf_CloseGump(by, c, s)
  \/ \E c \in Chars : send_object_cursor(c)
  \/ \E k \in Conns, cursor \in {"script", "core"} : handle_target_cursor(k, cursor)
  \/ \E k \in Conns : handle_menu_selection(k)
  \/ \E k \in Conns, kind \in Kinds \ {"target", "menu", "gump"} : HandleAnswer(k, kind)
  \/ \E k \in Conns, s \in Scripts : gumpbutton_handler(k, s)
  \/ \E s \in Scripts : Kill(s) \/ Delete(s) \/ start_script(s)
  \/ \E k \in Conns : login2(k) \/ Drop(k) \/ ClientThread(k)
  \/ \E k \in Conns, c \in Chars : char_select(k, c) \/ SelectRefused(k, c)
  \/ Gone

Spec == Init /\ [][Next]_vars

\* The thread of a connection goes on: it polls, and PolLock is free again and again.
FairSpec == Spec /\ \A k \in Conns : WF_vars(ClientThread(k))

----------------------------------------------------------------------------
\* Properties

Stages == {"none", "choosing", "playing", "left", "checked", "lingering", "done"}
Cursors == {"none", "script", "core"}

\* The state is well formed; of each kind but gumps one script at most waits, and one for
\* a prompt of either sort: the player's next line answers it.
TypeOK ==
  /\ stage \in [Conns -> Stages]
  /\ dropped \subseteq Conns
  /\ client \in [Conns -> [acct : BOOLEAN, chr : Chars \cup {NoChar}]]
  /\ gd \in [Conns -> SUBSET (Kinds \X Scripts)]
  /\ \A k \in Conns, kind \in Kinds \ {"gump"} : Cardinality(Asked(k, kind)) <= 1
  /\ \A k \in Conns : Cardinality(Asked(k, "prompt") \cup Asked(k, "uniprompt")) <= 1
  /\ screen \in [Conns -> SUBSET [cursor : Cursors, by : Scripts \cup {NoScript}]]
  /\ chr \in [Chars -> [client : Conns \cup {NoConn}, logged_in : BOOLEAN, tcursor2 : Cursors,
                        menu : BOOLEAN]]
  /\ active \in Chars \cup {NoChar}
  /\ script \in [Scripts -> [state : {"running", "waiting", "dying", "gone"},
                             kind : Kinds \cup {"none"}, of : Chars \cup {NoChar}]]
  /\ crashed \in BOOLEAN

\* No script is left suspended with nobody to revive it: the client that its character
\* has now points at it, and answering a menu finds one to answer.  And an answer, a
\* disconnection or a new connection never touches a script that is gone, nor one that
\* has asked somebody else or something else.
RequestsPaired ==
  /\ \A s \in Scripts : script[s].state = "waiting" =>
       LET c == script[s].of
       IN /\ chr[c].client # NoConn /\ s \in Asked(chr[c].client, script[s].kind)
          /\ script[s].kind = "menu" => chr[c].menu
  /\ \A k \in Conns, kind \in Kinds : \A s \in Asked(k, kind) :
       /\ script[s].state \in {"waiting", "dying"}
       /\ script[s].kind = kind /\ script[s].of = client[k].chr

\* Who waits for a target is told what its own cursor was answered, though cursors of
\* killed scripts stay with the player and the core sends cursors too: no other cursor
\* can still be answered.  Unless the client answers out of sequence.
OwnCursor ==
  \A k \in Conns \ Forgers : \A s \in Asked(k, "target") :
    stage[k] = "playing" => screen[k] = {[cursor |-> "script", by |-> s]}

\* Whoever reconnects while the connection before is still being taken apart: one
\* character of the account is in the world at most, it is the account's, and it and
\* its client point at each other.
OneSession ==
  \A c \in Chars :
    /\ chr[c].logged_in <=> active = c
    /\ chr[c].logged_in <=> chr[c].client # NoConn
    /\ \A k \in Conns : client[k].chr = c <=> chr[c].client = k

\* A character does not stay in the world when its connection has dropped: the thread
\* of the connection takes it out, or another connection takes it over.
Held(k) == \E c \in Chars : chr[c].client = k
DroppedLeave == \A k \in Conns : (k \in dropped /\ Held(k)) ~> (~Held(k) \/ crashed)

\* A script that waits for somebody whose connection has dropped goes on.
Waits(s) == script[s].state = "waiting"
WaitersFreed ==
  \A s \in Scripts :
    (Waits(s) /\ chr[script[s].of].client \in dropped) ~> (~Waits(s) \/ crashed)
=============================================================================
