------------------------------ MODULE ItemMoves ------------------------------
(***************************************************************************)
(* Where items are: on the ground, in containers, worn, on the cursor of a *)
(* character that picked them up (pol/getitem.cpp, dropitem.cpp,           *)
(* eqpitem.cpp), or in the window of a secure trade between two characters *)
(* (dropitem.cpp); and what becomes of the held item and of the trade when *)
(* a client closes the window, dies, disconnects, comes back, or the world *)
(* is saved.                                                               *)
(*                                                                         *)
(* A step is one packet handled, one call of a script, or one of the       *)
(* sections of client_io_thread that hold PolLock.  Whether an item fits,  *)
(* is near enough, or may be moved, and what the scripts asked about it    *)
(* say, is left to chance.  The containers that lie on the ground, corpses *)
(* among them, are one place; all wearable items are worn on one layer,    *)
(* not that of the robe, which death and resurrection use.                 *)
(*                                                                         *)
(* An operator with an underscore and a word after the name of another is  *)
(* a mutation of it, used by no definition here.                           *)
(***************************************************************************)
EXTENDS Integers, FiniteSets, Functions

CONSTANTS
  Chars,          \* the players' characters
  Items,          \* serials for items
  Wearable,       \* the items that are worn; the others stack on one another
  StackLimit,     \* itemdesc().stack_limit of those
  Starts,         \* worlds to start with: the places and amounts of items, and who plays
  Leaving,        \* characters whose clients disconnect
  Mortal,         \* characters that die
  Nobody,         \* a CharacterRef that is NULL
  NoItem,         \* gotten_item is NULL
  MaxSaves        \* bound: saves of the world

\* container, or the zone of the realm an item lies in.
Ground == <<"ground">>
Chest == <<"chest">>
Cursor == <<"cursor">>
Adrift == <<"adrift">>      \* in no container and in no zone, and not held
Nowhere == <<"none">>       \* there is no such item
Pack(c) == <<"pack", c>>
Worn(c) == <<"worn", c>>
Window(c) == <<"window", c>>

Places == {Ground, Chest, Cursor, Adrift, Nowhere}
          \cup {Pack(c) : c \in Chars} \cup {Worn(c) : c \in Chars}
          \cup {Window(c) : c \in Chars}

Stackable == Items \ Wearable

ASSUME ItemAssumption ==
  /\ Nobody \notin Chars /\ NoItem \notin Items
  /\ Wearable \subseteq Items
  /\ Leaving \subseteq Chars /\ Mortal \subseteq Chars
  /\ StackLimit \in Nat \ {0} /\ MaxSaves \in Nat
  /\ \A s \in Starts :
       /\ s.place \in [Items -> {Ground, Chest, Nowhere} \cup {Pack(c) : c \in Chars}]
       /\ s.amount \in [Items -> 0..StackLimit]
       /\ \A i \in Items : s.amount[i] = 0 <=> s.place[i] = Nowhere
       /\ \A i \in Wearable : s.amount[i] <= 1
       /\ s.session \in [Chars -> {"playing", "offline"}]

VARIABLES
  place,               \* where each item is
  amount,              \* Item::amount_
  inuse,               \* Item::inuse_, with is_gotten_, which changes with it
  gotten_by,           \* Item::gotten_by
  gotten_item,         \* Character::gotten_item,
  gotten_item_source,  \* and where it came from, while it is held
  trading_with,        \* Character::trading_with
  trade_accepted,      \* Character::trade_accepted
  session,             \* the client of a character, see Sessions
  dead,                \* Character::dead_
  seen,                \* what was in both windows when a character accepted, for the properties
  saves                \* saves of the world so far

itemVars == <<place, amount>>
heldVars == <<inuse, gotten_by, gotten_item, gotten_item_source>>
tradeVars == <<trading_with, trade_accepted, seen>>
charVars == <<session, dead>>
vars == <<itemVars, heldVars, tradeVars, charVars, saves>>

\* playing: the client is in clients.  closing: it has been taken out.
\* lingering: disconnect_cleanup is done.  In these three chr->client is set.
Sessions == {"playing", "closing", "lingering", "offline"}

HasClient(c) == session[c] # "offline"

is_trading(c) == trading_with[c] # Nobody

\* What two traders see in their windows.
Offers(c, d) == {<<i, place[i], amount[i]>> : i \in {j \in Items : place[j] \in {Window(c), Window(d)}}}

Init ==
  /\ \E s \in Starts : place = s.place /\ amount = s.amount /\ session = s.session
  /\ inuse = [i \in Items |-> FALSE]
  /\ gotten_by = [i \in Items |-> Nobody]
  /\ gotten_item = [c \in Chars |-> NoItem]
  /\ gotten_item_source = [c \in Chars |-> "none"]
  /\ trading_with = [c \in Chars |-> Nobody]
  /\ trade_accepted = [c \in Chars |-> FALSE]
  /\ dead = [c \in Chars |-> FALSE]
  /\ seen = [c \in Chars |-> {}]
  /\ saves = 0

----------------------------------------------------------------------------
\* Moves as sets of outcomes: each maps what is where before to what may be where after

\* The items of S, each to one of the places Options gives it.
Moved(before, S, Options(_)) ==
  {[i \in Items |-> IF i \in S THEN f[i] ELSE before[i]] :
     f \in {g \in [S -> UNION {Options(i) : i \in S}] : \A i \in S : g[i] \in Options(i)}}

\* For each of the traders: to the backpack, or to the feet.

return_traded_items(before, traders) ==
  LET Back(i) == {Pack(c) : c \in {d \in traders : before[i] = Window(d)}} \cup {Ground}
  IN Moved(before, {i \in Items : \E c \in traders : before[i] = Window(c)}, Back)

Traders(c) == {c, trading_with[c]} \ {Nobody}

equippable_Always(c, i, before) == i \in Wearable

\* A layer holds one item.
equippable(c, i, before) == i \in Wearable /\ ~\E j \in Items : before[j] = Worn(c)

\* undo_get_item tries where the item came from, then the backpack, then the feet.
\* Only the source "ground" skips the backpack.
undo_get_item(before, c) ==
  LET i == gotten_item[c]
      Undone(j) ==
        {Ground}
        \cup (IF gotten_item_source[c] \in {"worn", "container"} THEN {Pack(c)} ELSE {})
        \cup (IF gotten_item_source[c] = "worn" /\ equippable(c, i, before) THEN {Worn(c)} ELSE {})
  IN Moved(before, {i} \ {NoItem}, Undone)

\* What die does with what the character wears and carries: newbie items stay,
\* worn ones in the backpack if there is room; the others go to the corpse.
Buried(before, c) ==
  LET Grave(i) == IF before[i] = Worn(c) THEN {Chest, Worn(c), Pack(c)} ELSE {Chest, Pack(c), Ground}
  IN Moved(before, {i \in Items : before[i] \in {Worn(c), Pack(c)}}, Grave)

----------------------------------------------------------------------------
\* The held item

\* The item is no longer in use, nor held.
Release(c) ==
  /\ inuse' = [i \in Items |-> inuse[i] /\ i # gotten_item[c]]
  /\ gotten_by' = [i \in Items |-> IF i = gotten_item[c] THEN Nobody ELSE gotten_by[i]]
  /\ gotten_item' = [gotten_item EXCEPT ![c] = NoItem]
  /\ gotten_item_source' = [gotten_item_source EXCEPT ![c] = "none"]

\* find_legal_item: what a character can reach.
Legal(c) == {i \in Items : place[i] \in {Ground, Chest, Pack(c), Worn(c)}}

Source(i) ==
  CASE place[i] = Ground -> "ground" [] place[i][1] = "worn" -> "worn" [] OTHER -> "container"

slice_stacked_item_Cloned(i, new, n) == [amount EXCEPT ![i] = n, ![new] = amount[i]]

\* Part of a stack: the new item is what is not taken.
slice_stacked_item(i, new, n) == [amount EXCEPT ![i] = n, ![new] = amount[i] - n]

MayGet(c, i) ==
  /\ session[c] = "playing" /\ gotten_item[c] = NoItem /\ ~dead[c]
  /\ i \in Legal(c) /\ ~inuse[i]

\* The whole item goes to the cursor, or, of a stack, the new item stays where it was.
get_item(c, i, n) ==
  /\ MayGet(c, i)
  /\ gotten_item' = [gotten_item EXCEPT ![c] = i]
  /\ gotten_item_source' = [gotten_item_source EXCEPT ![c] = Source(i)]
  /\ inuse' = [inuse EXCEPT ![i] = TRUE]
  /\ gotten_by' = [gotten_by EXCEPT ![i] = c]
  /\ \/ /\ n = amount[i]
        /\ place' = [place EXCEPT ![i] = Cursor]
        /\ UNCHANGED amount
     \/ /\ n < amount[i]
        /\ \E new \in Stackable :
             /\ place[new] = Nowhere
             /\ place' = [place EXCEPT ![i] = Cursor, ![new] = place[i]]
             /\ amount' = slice_stacked_item(i, new, n)
  /\ UNCHANGED <<tradeVars, charVars, saves>>

\* A client that says something about the item it holds.
Holding(c) == session[c] = "playing" /\ gotten_item[c] # NoItem

\* drop_item on the ground, or in a container that has room: its own backpack,
\* one on the ground, or that of things given to NPCs.
DropInto(c, p) ==
  /\ Holding(c) /\ p \in {Ground, Chest, Pack(c)}
  /\ place' = [place EXCEPT ![gotten_item[c]] = p]
  /\ Release(c)
  /\ UNCHANGED <<amount, tradeVars, charVars, saves>>

can_add_to_self_NoLimit(j, i) == {i, j} \subseteq Stackable /\ ~inuse[j]

can_add_to_self(j, i) ==
  /\ {i, j} \subseteq Stackable /\ ~inuse[j]
  /\ amount[i] + amount[j] <= StackLimit

\* add_to_self: the dropped stack is added to the one it is dropped on, and destroyed.
DropOnPile(c, j) ==
  LET i == gotten_item[c]
  IN /\ Holding(c) /\ j \in Legal(c) /\ can_add_to_self(j, i)
     /\ amount' = [amount EXCEPT ![j] = @ + amount[i], ![i] = 0]
     /\ place' = [place EXCEPT ![i] = Nowhere]
     /\ Release(c)
     /\ UNCHANGED <<tradeVars, charVars, saves>>

\* Whatever the client asked for was refused.
Undo(c) ==
  /\ place' \in undo_get_item(place, c)
  /\ Release(c)
  /\ UNCHANGED amount

DropFails(c) ==
  /\ Holding(c)
  /\ Undo(c)
  /\ UNCHANGED <<tradeVars, charVars, saves>>

\* drop_item and equip_item of another item than the one that is held.
Mismatch(c) ==
  /\ Holding(c)
  /\ gotten_by' = [gotten_by EXCEPT ![gotten_item[c]] = Nobody]
  /\ UNCHANGED <<itemVars, inuse, gotten_item, gotten_item_source, tradeVars, charVars, saves>>

\* On itself, or on another if it can_clothe.
equip_item(c, d) ==
  /\ Holding(c) /\ ~dead[c]
  /\ \/ /\ equippable(d, gotten_item[c], place)
        /\ place' = [place EXCEPT ![gotten_item[c]] = Worn(d)]
        /\ Release(c)
        /\ UNCHANGED amount
     \/ Undo(c)
  /\ UNCHANGED <<tradeVars, charVars, saves>>

\* A script may do this to any character.
clear_gotten_item(c) ==
  /\ gotten_item[c] # NoItem
  /\ Undo(c)
  /\ UNCHANGED <<tradeVars, charVars, saves>>

----------------------------------------------------------------------------
\* The secure trade

CanOpen_Busy(c, d) == ~is_trading(c) /\ HasClient(d) /\ ~dead[c] /\ ~dead[d]

CanOpen(c, d) == ~is_trading(c) /\ ~is_trading(d) /\ HasClient(d) /\ ~dead[c] /\ ~dead[d]

OpenWindows(c, d) ==
  /\ trading_with' = [trading_with EXCEPT ![c] = d, ![d] = c]
  /\ trade_accepted' = [trade_accepted EXCEPT ![c] = FALSE, ![d] = FALSE]
  /\ seen' = [seen EXCEPT ![c] = {}, ![d] = {}]

\* A script; it asks for active clients of both.
SecureTradeWin(c, d) ==
  /\ c # d /\ session[c] = "playing" /\ session[d] = "playing"
  /\ CanOpen(c, d)
  /\ OpenWindows(c, d)
  /\ UNCHANGED <<itemVars, heldVars, charVars, saves>>

\* An item dropped on a character opens the trade, and is put in the window if
\* it is not too heavy.  If it is, the trade stays open.
DropOnMobile(c, d) ==
  /\ Holding(c) /\ c # d
  /\ CanOpen(c, d)
  /\ OpenWindows(c, d)
  /\ \/ /\ place' = [place EXCEPT ![gotten_item[c]] = Window(c)]
        /\ Release(c)
        /\ UNCHANGED amount
     \/ Undo(c)
  /\ UNCHANGED <<charVars, saves>>

Unaccept_Own(c) ==
  /\ trade_accepted' = [trade_accepted EXCEPT ![c] = FALSE]
  /\ seen' = [seen EXCEPT ![c] = {}]
  /\ UNCHANGED trading_with

\* What a change of a window does to the answers of the two.
Unaccept(c) ==
  /\ trade_accepted' = [trade_accepted EXCEPT ![c] = FALSE, ![trading_with[c]] = FALSE]
  /\ seen' = [seen EXCEPT ![c] = {}, ![trading_with[c]] = {}]
  /\ UNCHANGED trading_with

CanOffer(c) == is_trading(c) /\ HasClient(trading_with[c])

DropInWindow(c) ==
  /\ Holding(c) /\ CanOffer(c)
  /\ place' = [place EXCEPT ![gotten_item[c]] = Window(c)]
  /\ Release(c)
  /\ Unaccept(c)
  /\ UNCHANGED <<amount, charVars, saves>>

\* A script; the item is in a container.  It is taken out first: if there is no
\* trade or no room, it is put nowhere.
MoveItemToSecureTradeWin(i, c) ==
  /\ HasClient(c) /\ ~inuse[i]
  /\ \E p \in Places : place[i] = p /\ p[1] \in {"chest", "pack", "worn"}
  /\ \/ /\ CanOffer(c)
        /\ place' = [place EXCEPT ![i] = Window(c)]
        /\ Unaccept(c)
     \/ /\ place' = [place EXCEPT ![i] = Adrift]
        /\ UNCHANGED tradeVars
  /\ UNCHANGED <<amount, heldVars, charVars, saves>>

\* The pointers of cancel_trade; its items are those of return_traded_items.
ClearTrade(traders) ==
  /\ trading_with' = [c \in Chars |-> IF c \in traders THEN Nobody ELSE trading_with[c]]
  /\ seen' = [c \in Chars |-> IF c \in traders THEN {} ELSE seen[c]]

\* A client, a client that walks away, or a script.
cancel_trade(c) ==
  /\ is_trading(c)
  /\ place' \in return_traded_items(place, Traders(c))
  /\ ClearTrade(Traders(c))
  /\ UNCHANGED <<amount, heldVars, trade_accepted, charVars, saves>>

Accepted_Either(c, d) == trade_accepted'[c] \/ trade_accepted'[d]

Accepted(c, d) == trade_accepted'[c] /\ trade_accepted'[d]

Swapped(c, d) ==
  [i \in Items |-> CASE place[i] = Window(c) -> Window(d)
                     [] place[i] = Window(d) -> Window(c)
                     [] OTHER -> place[i]]

\* When both have accepted, the windows are swapped and the trade is cancelled.
\* If a window cannot hold what is in the other, both remain accepted.
change_trade_status(c, set) ==
  /\ session[c] = "playing" /\ is_trading(c)
  /\ LET d == trading_with[c]
     IN /\ trade_accepted' = [trade_accepted EXCEPT ![c] = set]
        /\ \/ /\ Accepted(c, d)
              /\ place' \in return_traded_items(Swapped(c, d), {c, d})
              /\ ClearTrade({c, d})
           \/ /\ seen' = [seen EXCEPT ![c] = IF set THEN Offers(c, d) ELSE {}]
              /\ UNCHANGED <<place, trading_with>>
  /\ UNCHANGED <<amount, heldVars, charVars, saves>>

----------------------------------------------------------------------------
\* What interrupts them

\* The trade is cancelled, the held item put back, and what is carried goes to a corpse.
die(c) ==
  /\ c \in Mortal /\ HasClient(c) /\ ~dead[c]
  /\ dead' = [dead EXCEPT ![c] = TRUE]
  /\ \E returned \in (IF is_trading(c) THEN return_traded_items(place, Traders(c)) ELSE {place}) :
       \E undone \in undo_get_item(returned, c) : place' \in Buried(undone, c)
  /\ IF is_trading(c) THEN ClearTrade(Traders(c)) ELSE UNCHANGED <<trading_with, seen>>
  /\ Release(c)
  /\ UNCHANGED <<amount, trade_accepted, session, saves>>

resurrect(c) ==
  /\ dead[c]
  /\ dead' = [dead EXCEPT ![c] = FALSE]
  /\ UNCHANGED <<itemVars, heldVars, tradeVars, session, saves>>

\* client_io_thread takes the client out of clients and lets go of the lock.
Disconnected(c) ==
  /\ c \in Leaving /\ session[c] = "playing"
  /\ session' = [session EXCEPT ![c] = "closing"]
  /\ UNCHANGED <<itemVars, heldVars, tradeVars, dead, saves>>

\* The trade of a character that goes, if it has one, ends.
Unsettle(c) ==
  /\ place' \in return_traded_items(place, Traders(c))
  /\ IF is_trading(c) THEN ClearTrade(Traders(c)) ELSE UNCHANGED <<trading_with, seen>>
  /\ UNCHANGED <<amount, trade_accepted>>

disconnect_cleanup(c) ==
  /\ session[c] = "closing"
  /\ session' = [session EXCEPT ![c] = "lingering"]
  /\ Unsettle(c)
  /\ UNCHANGED <<heldVars, dead, saves>>

\* Some time later.  Meanwhile items have been dropped on the character.
PreDelete(c) ==
  /\ session[c] = "lingering"
  /\ session' = [session EXCEPT ![c] = "offline"]
  /\ Unsettle(c)
  /\ UNCHANGED <<heldVars, dead, saves>>

\* char_select: a character that is offline, or that is still in the game, its
\* old client detached.  The held item is put back, and the trade goes on.
char_select(c) ==
  /\ c \in Leaving
  /\ session' = [session EXCEPT ![c] = "playing"]
  /\ Undo(c)
  /\ UNCHANGED <<tradeVars, dead, saves>>

Interrupted_None == {}

\* cancel_all_trades: those in which a client takes part that is in clients.
Interrupted == {c \in Chars : is_trading(c) /\ \E d \in Traders(c) : session[d] = "playing"}

\* SaveWorldState, in full.
SaveWorldState ==
  /\ saves < MaxSaves
  /\ saves' = saves + 1
  /\ place' \in return_traded_items(place, Interrupted)
  /\ ClearTrade(Interrupted)
  /\ UNCHANGED <<amount, heldVars, trade_accepted, charVars>>

\* write_items, write_characters with printWornItems, and WriteGottenItem.
Written(i) ==
  \/ place[i] \in {Ground, Chest}
  \/ \E c \in Chars : place[i] \in {Pack(c), Worn(c)} \/ gotten_item[c] = i

Next ==
  \/ \E c \in Chars, i \in Items : \E n \in 1..amount[i] : get_item(c, i, n)
  \/ \E c \in Chars, p \in Places : DropInto(c, p)
  \/ \E c \in Chars, j \in Items : DropOnPile(c, j)
  \/ \E c \in Chars : DropFails(c) \/ Mismatch(c) \/ clear_gotten_item(c) \/ DropInWindow(c)
  \/ \E c \in Chars, d \in Chars : equip_item(c, d) \/ SecureTradeWin(c, d) \/ DropOnMobile(c, d)
  \/ \E c \in Chars, i \in Items : MoveItemToSecureTradeWin(i, c)
  \/ \E c \in Chars : cancel_trade(c) \/ \E set \in BOOLEAN : change_trade_status(c, set)
  \/ \E c \in Chars : die(c) \/ resurrect(c)
  \/ \E c \in Chars : Disconnected(c) \/ disconnect_cleanup(c) \/ PreDelete(c) \/ char_select(c)
  \/ SaveWorldState

Spec == Init /\ [][Next]_vars

----------------------------------------------------------------------------
\* Properties

\* The state is well formed.
TypeOK ==
  /\ place \in [Items -> Places]
  /\ amount \in [Items -> 0..StackLimit]
  /\ inuse \in [Items -> BOOLEAN]
  /\ gotten_by \in [Items -> Chars \cup {Nobody}]
  /\ gotten_item \in [Chars -> Items \cup {NoItem}]
  /\ gotten_item_source \in [Chars -> {"none", "ground", "container", "worn"}]
  /\ trading_with \in [Chars -> Chars \cup {Nobody}]
  /\ trade_accepted \in [Chars -> BOOLEAN]
  /\ session \in [Chars -> Sessions]
  /\ dead \in [Chars -> BOOLEAN]
  /\ seen \in [Chars -> SUBSET (Items \X Places \X (0..StackLimit))]
  /\ saves \in 0..MaxSaves

\* An item is on a cursor exactly if it is the gotten item of one character, and
\* only then it is in use and can say by whom: through drops, refusals, deaths,
\* logins and scripts, none is stuck in use, held twice, or held and elsewhere.  The
\* dead hold nothing, and a layer holds one item, however many ways there are to put
\* one on.
HeldOrPlaced ==
  \A i \in Items :
    /\ place[i] = Cursor <=> \E c \in Chars : gotten_item[c] = i
    /\ \A c, d \in Chars : gotten_item[c] = i /\ gotten_item[d] = i => c = d
    /\ inuse[i] <=> place[i] = Cursor
    /\ gotten_by[i] # Nobody => gotten_item[gotten_by[i]] = i
    /\ \A c \in Chars : dead[c] => gotten_item[c] # i
    /\ \A j \in Items, c \in Chars : place[i] = Worn(c) /\ place[j] = Worn(c) => i = j

\* Traders trade with each other, and both are alive and have a client to which
\* send_trade_statuses sends: it does not look.  Nothing is left in the window of
\* somebody who does not trade: no one can reach it there, and it is not saved.
TradersPaired ==
  \A c \in Chars :
    /\ is_trading(c) => LET d == trading_with[c]
                        IN d # c /\ trading_with[d] = c /\ ~dead[c] /\ HasClient(c)
    /\ ~is_trading(c) => \A i \in Items : place[i] # Window(c)

\* What a trader has accepted is what is in the windows now: no item is added
\* after an answer that still counts.
AcceptedAsSeen ==
  \A c \in Chars : is_trading(c) /\ trade_accepted[c] => seen[c] = Offers(c, trading_with[c])

\* Items change hands only in a trade that one had accepted, with these items in
\* the windows, before the other did.
ExchangeAsAgreed ==
  [][\A i \in Items :
       place[i][1] = "window" /\ place'[i][1] = "pack" /\ place'[i][2] # place[i][2] =>
         LET c == place[i][2] d == place'[i][2]
         IN /\ trading_with[c] = d
            /\ \E e \in {c, d} : trade_accepted[e] /\ <<i, place[i], amount[i]>> \in seen[e]]_place

\* However stacks are split and joined, there is as much as before.
SumKept == [][UNCHANGED amount \/ SumFunction(amount') = SumFunction(amount)]_amount

\* A save writes every item, held ones and those of open trades too, but for what
\* MoveItemToSecureTradeWin set adrift, and for trades both of whose clients have
\* gone and have not been cleaned up after.
SavesMissNothing ==
  [][\A i \in Items :
       \/ place'[i] \in {Nowhere, Adrift}
       \/ Written(i)'
       \/ \E c \in Chars : place'[i] = Window(c) /\ \A d \in Traders(c) : session[d] # "playing"]_saves
=============================================================================
