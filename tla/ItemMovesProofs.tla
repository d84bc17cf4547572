-------------------------- MODULE ItemMovesProofs --------------------------
(***************************************************************************)
(* Proofs about ItemMoves, for any number of characters and items: that    *)
(* what is held, worn and traded stays in order (HeldInv, then TradesInv), *)
(* that items change hands only in trades both agreed to, and that a save  *)
(* misses none.  The three moves that leave something to chance are taken  *)
(* first, by what becomes of each item.                                    *)
(***************************************************************************)
EXTENDS ItemMoves, TLAPS

\* The places that an item may be found in, told apart by their names.
LEMMA PlacesDiffer ==
  /\ Ground[1] = "ground" /\ Chest[1] = "chest" /\ Cursor[1] = "cursor"
  /\ Adrift[1] = "adrift" /\ Nowhere[1] = "none"
  /\ \A c : /\ Pack(c)[1] = "pack" /\ Worn(c)[1] = "worn" /\ Window(c)[1] = "window"
            /\ Pack(c)[2] = c /\ Worn(c)[2] = c /\ Window(c)[2] = c
BY DEF Ground, Chest, Cursor, Adrift, Nowhere, Pack, Worn, Window

\* Each of the three moves, by what becomes of each item.
LEMMA ReturnedItems ==
  ASSUME NEW before, before \in [Items -> Places], NEW traders, traders \subseteq Chars,
         NEW after \in return_traded_items(before, traders)
  PROVE  /\ after \in [Items -> Places]
         /\ \A i \in Items :
              IF \E c \in traders : before[i] = Window(c)
              THEN after[i] = Ground \/ \E c \in traders : before[i] = Window(c) /\ after[i] = Pack(c)
              ELSE after[i] = before[i]
<1> DEFINE Back(i) == {Pack(c) : c \in {d \in traders : before[i] = Window(d)}} \cup {Ground}
           S == {i \in Items : \E c \in traders : before[i] = Window(c)}
<1>1. after \in Moved(before, S, Back)
  BY DEF return_traded_items
<1>2. PICK f \in [S -> UNION {Back(i) : i \in S}] :
        /\ \A i \in S : f[i] \in Back(i)
        /\ after = [i \in Items |-> IF i \in S THEN f[i] ELSE before[i]]
  BY <1>1 DEF Moved
<1>3. \A i \in S : Back(i) \subseteq Places
  BY DEF Places
<1> QED
  BY <1>2, <1>3

LEMMA UndoneItems ==
  ASSUME NEW before, before \in [Items -> Places], NEW c \in Chars,
         NEW after \in undo_get_item(before, c)
  PROVE  /\ after \in [Items -> Places]
         /\ \A i \in Items :
              IF i = gotten_item[c]
              THEN \/ after[i] \in {Ground, Pack(c)}
                   \/ after[i] = Worn(c) /\ equippable(c, i, before)
              ELSE after[i] = before[i]
<1> DEFINE held == gotten_item[c]
           Undone(j) ==
             {Ground}
             \cup (IF gotten_item_source[c] \in {"worn", "container"} THEN {Pack(c)} ELSE {})
             \cup (IF gotten_item_source[c] = "worn" /\ equippable(c, held, before) THEN {Worn(c)} ELSE {})
           S == {held} \ {NoItem}
<1>1. after \in Moved(before, S, Undone)
  BY DEF undo_get_item
<1>2. PICK f \in [S -> UNION {Undone(i) : i \in S}] :
        /\ \A i \in S : f[i] \in Undone(i)
        /\ after = [i \in Items |-> IF i \in S THEN f[i] ELSE before[i]]
  BY <1>1 DEF Moved
<1>3. \A i \in S : Undone(i) \subseteq Places
  BY DEF Places
<1> HIDE DEF Undone
<1>4. NoItem \notin Items
  BY ItemAssumption
<1>5. after \in [Items -> Places]
  BY <1>2, <1>3
<1>6. ASSUME NEW i \in Items
      PROVE  IF i = held
             THEN \/ after[i] \in {Ground, Pack(c)}
                  \/ after[i] = Worn(c) /\ equippable(c, i, before)
             ELSE after[i] = before[i]
  <2>1. CASE i = held
    <3>1. after[i] \in Undone(i)
      BY <1>2, <1>4, <2>1
    <3> QED
      BY <2>1, <3>1 DEF Undone
  <2>2. CASE i # held
    BY <1>2, <2>2
  <2> QED
    BY <2>1, <2>2
<1> QED
  BY <1>5, <1>6

LEMMA BuriedItems ==
  ASSUME NEW before, before \in [Items -> Places], NEW c \in Chars,
         NEW after \in Buried(before, c)
  PROVE  /\ after \in [Items -> Places]
         /\ \A i \in Items :
              IF before[i] \in {Worn(c), Pack(c)}
              THEN \/ after[i] \in {Chest, Ground, Pack(c)}
                   \/ after[i] = before[i]
              ELSE after[i] = before[i]
<1> DEFINE Grave(i) == IF before[i] = Worn(c) THEN {Chest, Worn(c), Pack(c)} ELSE {Chest, Pack(c), Ground}
           S == {i \in Items : before[i] \in {Worn(c), Pack(c)}}
<1>1. after \in Moved(before, S, Grave)
  BY DEF Buried
<1>2. PICK f \in [S -> UNION {Grave(i) : i \in S}] :
        /\ \A i \in S : f[i] \in Grave(i)
        /\ after = [i \in Items |-> IF i \in S THEN f[i] ELSE before[i]]
  BY <1>1 DEF Moved
<1>3. \A i \in S : Grave(i) \subseteq Places
  BY DEF Places
<1> QED
  BY <1>2, <1>3

-----------------------------------------------------------------------------
(* Types *)

LEMMA TypesInitially == Init => TypeOK
<1> SUFFICES ASSUME Init PROVE TypeOK
  OBVIOUS
<1>1. PICK s \in Starts : place = s.place /\ amount = s.amount /\ session = s.session
  BY DEF Init
<1>2. s.place \in [Items -> Places] /\ s.amount \in [Items -> 0..StackLimit]
      /\ s.session \in [Chars -> Sessions]
  BY ItemAssumption DEF Places, Sessions
<1> QED
  BY <1>1, <1>2, ItemAssumption DEF Init, TypeOK

LEMMA OffersTyped ==
  ASSUME TypeOK, NEW c, NEW d
  PROVE  Offers(c, d) \in SUBSET (Items \X Places \X (0..StackLimit))
BY DEF TypeOK, Offers

LEMMA ReleaseTyped ==
  ASSUME TypeOK, NEW c \in Chars, Release(c)
  PROVE  /\ inuse' \in [Items -> BOOLEAN]
         /\ gotten_by' \in [Items -> Chars \cup {Nobody}]
         /\ gotten_item' \in [Chars -> Items \cup {NoItem}]
         /\ gotten_item_source' \in [Chars -> {"none", "ground", "container", "worn"}]
BY DEF TypeOK, Release

\* Actions that do nothing to held items but to let go of one.
HeldOrReleased == UNCHANGED heldVars \/ \E c \in Chars : Release(c)

LEMMA HeldTyped ==
  ASSUME TypeOK, HeldOrReleased
  PROVE  /\ inuse' \in [Items -> BOOLEAN]
         /\ gotten_by' \in [Items -> Chars \cup {Nobody}]
         /\ gotten_item' \in [Chars -> Items \cup {NoItem}]
         /\ gotten_item_source' \in [Chars -> {"none", "ground", "container", "worn"}]
BY ReleaseTyped DEF TypeOK, HeldOrReleased, heldVars

\* The actions that say nothing of how trades stand.
LEMMA PlainTypes ==
  ASSUME TypeOK, HeldOrReleased, UNCHANGED tradeVars, UNCHANGED saves,
         place' \in [Items -> Places], amount' \in [Items -> 0..StackLimit],
         session' \in [Chars -> Sessions], dead' \in [Chars -> BOOLEAN]
  PROVE  TypeOK'
<1>1. UNCHANGED <<trading_with, trade_accepted, seen>>
  BY DEF tradeVars
<1> QED
  BY <1>1, HeldTyped DEF TypeOK

LEMMA DropTypes ==
  ASSUME TypeOK, NEW c \in Chars,
         \/ \E p \in Places : DropInto(c, p)
         \/ \E j \in Items : DropOnPile(c, j)
         \/ DropFails(c) \/ clear_gotten_item(c)
         \/ \E d \in Chars : equip_item(c, d)
  PROVE  TypeOK'
<1>1. Release(c) /\ UNCHANGED <<tradeVars, charVars, saves>>
  BY DEF DropInto, DropOnPile, DropFails, clear_gotten_item, equip_item, Undo
<1>2. gotten_item[c] # NoItem => gotten_item[c] \in Items
  BY DEF TypeOK
<1>3. place' \in [Items -> Places]
  <2>1. CASE place' \in undo_get_item(place, c)
    BY <2>1, UndoneItems DEF TypeOK
  <2>2. CASE \E p \in Places : place' = [place EXCEPT ![gotten_item[c]] = p]
    BY <2>2 DEF TypeOK
  <2>3. (\E d \in Chars : Worn(d) \in Places /\ equip_item(c, d)) \/ ~(\E d \in Chars : equip_item(c, d))
    BY DEF Places
  <2>4. Nowhere \in Places
    BY DEF Places
  <2> QED
    BY <2>1, <2>2, <2>3, <2>4 DEF DropInto, DropOnPile, DropFails, clear_gotten_item, equip_item, Undo, Places
<1>4. amount' \in [Items -> 0..StackLimit]
  <2>1. CASE \E j \in Items : DropOnPile(c, j)
    <3>1. PICK j \in Items : DropOnPile(c, j)
      BY <2>1
    <3>2. /\ amount[gotten_item[c]] + amount[j] <= StackLimit
          /\ gotten_item[c] \in Items
          /\ amount' = [amount EXCEPT ![j] = @ + amount[gotten_item[c]], ![gotten_item[c]] = 0]
      BY <1>2, <3>1 DEF DropOnPile, Holding, can_add_to_self
    <3>3. amount[j] \in 0..StackLimit /\ amount[gotten_item[c]] \in 0..StackLimit
      BY <3>2 DEF TypeOK
    <3>4. amount[j] + amount[gotten_item[c]] \in 0..StackLimit /\ 0 \in 0..StackLimit
      BY <3>2, <3>3, ItemAssumption
    <3> QED
      BY <3>2, <3>4 DEF TypeOK
  <2>2. CASE ~\E j \in Items : DropOnPile(c, j)
    BY <2>2 DEF DropInto, DropFails, clear_gotten_item, equip_item, Undo, TypeOK
  <2> QED
    BY <2>1, <2>2
<1>5. session' \in [Chars -> Sessions] /\ dead' \in [Chars -> BOOLEAN]
  BY <1>1 DEF TypeOK, charVars
<1> QED
  BY <1>1, <1>3, <1>4, <1>5, PlainTypes DEF HeldOrReleased

LEMMA GetTypes ==
  ASSUME TypeOK, NEW c \in Chars, NEW i \in Items, NEW n \in 1..amount[i], get_item(c, i, n)
  PROVE  TypeOK'
<1>1. /\ inuse' \in [Items -> BOOLEAN]
      /\ gotten_by' \in [Items -> Chars \cup {Nobody}]
      /\ gotten_item' \in [Chars -> Items \cup {NoItem}]
      /\ gotten_item_source' \in [Chars -> {"none", "ground", "container", "worn"}]
  BY DEF get_item, TypeOK, Source
<1>2. Cursor \in Places /\ Stackable \subseteq Items
  BY DEF Places, Stackable
<1>3. place' \in [Items -> Places]
  BY <1>2 DEF get_item, TypeOK
<1>4. amount[i] \in 0..StackLimit /\ StackLimit \in Nat
  BY ItemAssumption DEF TypeOK
<1>5. n \in 0..StackLimit /\ (n < amount[i] => amount[i] - n \in 0..StackLimit)
  BY <1>4
<1>6. amount' \in [Items -> 0..StackLimit]
  BY <1>2, <1>5 DEF get_item, TypeOK, slice_stacked_item
<1> QED
  BY <1>1, <1>3, <1>6 DEF get_item, TypeOK, tradeVars, charVars

\* What the trade does to its variables.
LEMMA TradeTypes ==
  ASSUME TypeOK, NEW c \in Chars,
         \/ UNCHANGED tradeVars
         \/ \E d \in Chars : OpenWindows(c, d)
         \/ CanOffer(c) /\ Unaccept(c)
         \/ (\E T : ClearTrade(T)) /\ UNCHANGED trade_accepted
  PROVE  /\ trading_with' \in [Chars -> Chars \cup {Nobody}]
         /\ trade_accepted' \in [Chars -> BOOLEAN]
         /\ seen' \in [Chars -> SUBSET (Items \X Places \X (0..StackLimit))]
<1>1. CASE UNCHANGED tradeVars
  BY <1>1 DEF TypeOK, tradeVars
<1>2. CASE \E d \in Chars : OpenWindows(c, d)
  BY <1>2 DEF TypeOK, OpenWindows
<1>3. CASE CanOffer(c) /\ Unaccept(c)
  BY <1>3 DEF TypeOK, Unaccept
<1>4. CASE (\E T : ClearTrade(T)) /\ UNCHANGED trade_accepted
  BY <1>4 DEF TypeOK, ClearTrade
<1> QED
  BY <1>1, <1>2, <1>3, <1>4

LEMMA OfferTypes ==
  ASSUME TypeOK, NEW c \in Chars,
         \/ \E d \in Chars : SecureTradeWin(c, d) \/ DropOnMobile(c, d)
         \/ DropInWindow(c)
         \/ \E i \in Items : MoveItemToSecureTradeWin(i, c)
         \/ cancel_trade(c)
  PROVE  TypeOK'
<1>1. /\ UNCHANGED heldVars \/ Release(c)
      /\ UNCHANGED <<amount, charVars, saves>>
  BY DEF SecureTradeWin, DropOnMobile, DropInWindow, MoveItemToSecureTradeWin, cancel_trade, Undo, itemVars
<1>2. \/ UNCHANGED tradeVars
      \/ \E d \in Chars : OpenWindows(c, d)
      \/ CanOffer(c) /\ Unaccept(c)
      \/ (\E T : ClearTrade(T)) /\ UNCHANGED trade_accepted
  BY DEF SecureTradeWin, DropOnMobile, DropInWindow, MoveItemToSecureTradeWin, cancel_trade
<1>3. place' \in [Items -> Places]
  <2>1. Window(c) \in Places /\ Adrift \in Places
    BY DEF Places
  <2>2. Traders(c) \subseteq Chars
    BY DEF TypeOK, Traders
  <2>3. CASE place' \in undo_get_item(place, c)
    BY <2>3, UndoneItems DEF TypeOK
  <2>4. CASE cancel_trade(c)
    BY <2>2, <2>4, ReturnedItems DEF TypeOK, cancel_trade
  <2> QED
    BY <2>1, <2>3, <2>4
       DEF SecureTradeWin, DropOnMobile, DropInWindow, MoveItemToSecureTradeWin, Undo, TypeOK, itemVars
<1> QED
  BY <1>1, <1>2, <1>3, TradeTypes, HeldTyped DEF TypeOK, HeldOrReleased, charVars

LEMMA AnswerTypes ==
  ASSUME TypeOK, NEW c \in Chars, NEW set \in BOOLEAN, change_trade_status(c, set)
  PROVE  TypeOK'
<1> DEFINE d == trading_with[c]
<1>1. d \in Chars
  BY DEF change_trade_status, is_trading, TypeOK
<1>2. Swapped(c, d) \in [Items -> Places]
  BY <1>1 DEF Swapped, TypeOK, Places
<1>3. place' \in [Items -> Places]
  BY <1>1, <1>2, ReturnedItems DEF change_trade_status, TypeOK
<1>4. Offers(c, d) \in SUBSET (Items \X Places \X (0..StackLimit))
  BY OffersTyped
<1>5. /\ trading_with' \in [Chars -> Chars \cup {Nobody}]
      /\ trade_accepted' \in [Chars -> BOOLEAN]
      /\ seen' \in [Chars -> SUBSET (Items \X Places \X (0..StackLimit))]
  BY <1>4 DEF change_trade_status, ClearTrade, TypeOK
<1> QED
  BY <1>3, <1>5 DEF change_trade_status, TypeOK, heldVars, charVars

LEMMA DieTypes ==
  ASSUME TypeOK, NEW c \in Chars, die(c)
  PROVE  TypeOK'
<1>1. Traders(c) \subseteq Chars
  BY DEF TypeOK, Traders
<1>2. PICK returned \in (IF is_trading(c) THEN return_traded_items(place, Traders(c)) ELSE {place}) :
        \E undone \in undo_get_item(returned, c) : place' \in Buried(undone, c)
  BY DEF die
<1>3. returned \in [Items -> Places]
  BY <1>1, ReturnedItems DEF TypeOK
<1>4. place' \in [Items -> Places]
  BY <1>2, <1>3, UndoneItems, BuriedItems
<1>5. /\ trading_with' \in [Chars -> Chars \cup {Nobody}]
      /\ trade_accepted' \in [Chars -> BOOLEAN]
      /\ seen' \in [Chars -> SUBSET (Items \X Places \X (0..StackLimit))]
  BY TradeTypes DEF die, tradeVars
<1>6. Release(c) /\ UNCHANGED <<amount, session, saves>> /\ dead' \in [Chars -> BOOLEAN]
  BY DEF die, TypeOK
<1> QED
  BY <1>4, <1>5, <1>6, ReleaseTyped DEF TypeOK

LEMMA SessionTypes ==
  ASSUME TypeOK, NEW c \in Chars,
         resurrect(c) \/ Mismatch(c) \/ Disconnected(c) \/ disconnect_cleanup(c) \/ PreDelete(c) \/ char_select(c)
  PROVE  TypeOK'
<1>1. Traders(c) \subseteq Chars
  BY DEF TypeOK, Traders
<1>2. CASE resurrect(c) \/ Disconnected(c)
  <2>1. session' \in [Chars -> Sessions] /\ dead' \in [Chars -> BOOLEAN]
    BY <1>2 DEF TypeOK, resurrect, Disconnected, Sessions
  <2> QED
    BY <1>2, <2>1 DEF TypeOK, resurrect, Disconnected, itemVars, heldVars, tradeVars
<1>3. CASE Mismatch(c)
  BY <1>3 DEF Mismatch, TypeOK, itemVars, tradeVars, charVars
<1>4. CASE disconnect_cleanup(c) \/ PreDelete(c)
  <2>1. place' \in [Items -> Places]
    BY <1>1, <1>4, ReturnedItems DEF disconnect_cleanup, PreDelete, Unsettle, TypeOK
  <2>2. /\ trading_with' \in [Chars -> Chars \cup {Nobody}]
        /\ trade_accepted' \in [Chars -> BOOLEAN]
        /\ seen' \in [Chars -> SUBSET (Items \X Places \X (0..StackLimit))]
    BY <1>4, TradeTypes DEF disconnect_cleanup, PreDelete, Unsettle, tradeVars
  <2>3. session' \in [Chars -> Sessions]
    BY <1>4 DEF TypeOK, disconnect_cleanup, PreDelete, Sessions
  <2> QED
    BY <1>4, <2>1, <2>2, <2>3 DEF TypeOK, disconnect_cleanup, PreDelete, Unsettle, heldVars
<1>5. CASE char_select(c)
  <2>1. place' \in [Items -> Places]
    BY <1>5, UndoneItems DEF char_select, Undo, TypeOK
  <2>2. session' \in [Chars -> Sessions]
    BY <1>5 DEF TypeOK, char_select, Sessions
  <2> QED
    BY <1>5, <2>1, <2>2, ReleaseTyped DEF char_select, Undo, TypeOK, tradeVars
<1> QED
  BY <1>2, <1>3, <1>4, <1>5

LEMMA SaveTypes ==
  ASSUME TypeOK, SaveWorldState
  PROVE  TypeOK'
<1>1. place' \in [Items -> Places]
  BY ReturnedItems DEF SaveWorldState, Interrupted, TypeOK
<1>2. saves' \in 0..MaxSaves
  BY ItemAssumption DEF SaveWorldState, TypeOK
<1> QED
  BY <1>1, <1>2 DEF SaveWorldState, ClearTrade, TypeOK, heldVars, charVars

LEMMA TypesStay == TypeOK /\ [Next]_vars => TypeOK'
<1> SUFFICES ASSUME TypeOK, [Next]_vars PROVE TypeOK'
  OBVIOUS
<1>1. CASE UNCHANGED vars
  BY <1>1 DEF TypeOK, vars, itemVars, heldVars, tradeVars, charVars
<1>2. CASE Next
  BY <1>2, GetTypes, DropTypes, OfferTypes, AnswerTypes, DieTypes, SessionTypes, SaveTypes DEF Next
<1> QED
  BY <1>1, <1>2

\* The state stays well formed: stacks within their limit, and whoever holds, trades
\* or lies somewhere does so with or in something there is.
THEOREM TypeCorrect == Spec => []TypeOK
BY TypesInitially, TypesStay, PTL DEF Spec

-----------------------------------------------------------------------------
(* What is held and what is worn *)

\* The two halves of HeldOrPlaced.
OnCursors ==
  \A i \in Items :
    /\ place[i] = Cursor <=> \E c \in Chars : gotten_item[c] = i
    /\ \A c, d \in Chars : gotten_item[c] = i /\ gotten_item[d] = i => c = d
    /\ inuse[i] <=> place[i] = Cursor
    /\ gotten_by[i] # Nobody => gotten_item[gotten_by[i]] = i
    /\ \A c \in Chars : dead[c] => gotten_item[c] # i

\* What is worn is wearable, and of a wearable item there is one, so that no part of it
\* can be taken and left on the layer.
OnLayers ==
  /\ \A i, j \in Items, c \in Chars : place[i] = Worn(c) /\ place[j] = Worn(c) => i = j
  /\ \A i \in Items, c \in Chars : place[i] = Worn(c) => i \in Wearable
  /\ \A i \in Wearable : amount[i] <= 1

\* Nothing is picked up, or let go of.
LEMMA CursorsStay ==
  ASSUME OnCursors, UNCHANGED heldVars,
         \A i \in Items : place'[i] = Cursor <=> place[i] = Cursor,
         \A c \in Chars : dead'[c] => dead[c]
  PROVE  OnCursors'
BY DEF OnCursors, heldVars

\* One lets go of what it holds, if anything.
LEMMA CursorsReleased ==
  ASSUME TypeOK, OnCursors, NEW c \in Chars, Release(c),
         \A i \in Items : place'[i] = Cursor <=> place[i] = Cursor /\ i # gotten_item[c],
         \A d \in Chars : dead'[d] => dead[d] \/ d = c
  PROVE  OnCursors'
<1>1. /\ gotten_item' = [gotten_item EXCEPT ![c] = NoItem] /\ gotten_item'[c] = NoItem
      /\ \A d \in Chars \ {c} : gotten_item'[d] = gotten_item[d]
      /\ NoItem \notin Items /\ Nobody \notin Chars
  BY ItemAssumption DEF Release, TypeOK
<1> SUFFICES ASSUME NEW i \in Items
             PROVE  /\ place'[i] = Cursor <=> \E d \in Chars : gotten_item'[d] = i
                    /\ \A d, e \in Chars : gotten_item'[d] = i /\ gotten_item'[e] = i => d = e
                    /\ inuse'[i] <=> place'[i] = Cursor
                    /\ gotten_by'[i] # Nobody => gotten_item'[gotten_by'[i]] = i
                    /\ \A d \in Chars : dead'[d] => gotten_item'[d] # i
  BY DEF OnCursors
<1>2. /\ place[i] = Cursor <=> \E d \in Chars : gotten_item[d] = i
      /\ \A d, e \in Chars : gotten_item[d] = i /\ gotten_item[e] = i => d = e
      /\ inuse[i] <=> place[i] = Cursor
      /\ gotten_by[i] # Nobody => gotten_item[gotten_by[i]] = i
      /\ \A d \in Chars : dead[d] => gotten_item[d] # i
  BY DEF OnCursors
<1>3. inuse'[i] = (inuse[i] /\ i # gotten_item[c]) /\ inuse[i] \in BOOLEAN
  BY DEF Release, TypeOK
<1>4. gotten_by'[i] = (IF i = gotten_item[c] THEN Nobody ELSE gotten_by[i]) /\ gotten_by[i] \in Chars \cup {Nobody}
  BY DEF Release, TypeOK
<1>5. place'[i] = Cursor <=> \E d \in Chars : gotten_item'[d] = i
  BY <1>1, <1>2
<1>6. \A d, e \in Chars : gotten_item'[d] = i /\ gotten_item'[e] = i => d = e
  BY <1>1, <1>2
<1>7. inuse'[i] <=> place'[i] = Cursor
  BY <1>2, <1>3
<1>8. gotten_by'[i] # Nobody => gotten_item'[gotten_by'[i]] = i
  BY <1>1, <1>2, <1>4
<1>9. \A d \in Chars : dead'[d] => gotten_item'[d] # i
  BY <1>1, <1>2
<1> QED
  BY <1>5, <1>6, <1>7, <1>8, <1>9

LEMMA LayersStay ==
  ASSUME OnLayers, \A i \in Wearable : amount'[i] <= amount[i], TypeOK, TypeOK',
         \A i \in Items, c \in Chars : place'[i] = Worn(c) => place[i] = Worn(c)
  PROVE  OnLayers'
<1>1. \A i \in Wearable : amount'[i] <= 1
  <2> TAKE i \in Wearable
  <2>1. i \in Items
    BY ItemAssumption
  <2>2. amount[i] \in Int /\ amount'[i] \in Int
    BY <2>1, ItemAssumption DEF TypeOK
  <2> QED
    BY <2>2 DEF OnLayers
<1> QED
  BY <1>1 DEF OnLayers

\* One item is put on an empty layer.
LEMMA LayerTaken ==
  ASSUME OnLayers, UNCHANGED amount, NEW i \in Items, NEW d \in Chars, equippable(d, i, place),
         \A j \in Items, c \in Chars : place'[j] = Worn(c) => place[j] = Worn(c) \/ (j = i /\ c = d)
  PROVE  OnLayers'
<1>1. \A j \in Items : place[j] # Worn(d)
  BY DEF equippable
<1>2. i \in Wearable
  BY DEF equippable
<1> QED
  BY <1>1, <1>2 DEF OnLayers

LEMMA UndoKeepsLayers ==
  ASSUME TypeOK, OnLayers, UNCHANGED amount, NEW c \in Chars, place' \in undo_get_item(place, c)
  PROVE  OnLayers'
<1>1. \A d, e : Worn(d) # Ground /\ Worn(d) # Pack(e) /\ (Worn(d) = Worn(e) => d = e)
  BY PlacesDiffer
<1>2. \A i \in Items :
        IF i = gotten_item[c]
        THEN \/ place'[i] \in {Ground, Pack(c)}
             \/ place'[i] = Worn(c) /\ equippable(c, i, place)
        ELSE place'[i] = place[i]
  BY UndoneItems DEF TypeOK
<1>3. CASE gotten_item[c] \in Items /\ equippable(c, gotten_item[c], place)
  BY <1>1, <1>2, <1>3, LayerTaken
<1>4. CASE ~(gotten_item[c] \in Items /\ equippable(c, gotten_item[c], place))
  BY <1>1, <1>2, <1>4 DEF OnLayers
<1> QED
  BY <1>3, <1>4

\* The held item comes off the cursor; the others are where they were.
LEMMA UndoneOffCursor ==
  ASSUME NEW before, before \in [Items -> Places], NEW c \in Chars, NEW after \in undo_get_item(before, c)
  PROVE  \A i \in Items : after[i] = Cursor <=> before[i] = Cursor /\ i # gotten_item[c]
BY UndoneItems, PlacesDiffer

LEMMA ReturnedKeep ==
  ASSUME NEW before, before \in [Items -> Places], NEW traders, traders \subseteq Chars,
         NEW after \in return_traded_items(before, traders)
  PROVE  /\ \A i \in Items : after[i] = Cursor <=> before[i] = Cursor
         /\ \A i \in Items, c \in Chars : after[i] = Worn(c) <=> before[i] = Worn(c)
<1>1. \A d : Window(d) # Cursor /\ Pack(d) # Cursor /\ Ground # Cursor
  BY PlacesDiffer
<1>2. \A c, d : Worn(c) # Window(d) /\ Worn(c) # Pack(d) /\ Worn(c) # Ground
  BY PlacesDiffer
<1>3. \A i \in Items :
        IF \E c \in traders : before[i] = Window(c)
        THEN after[i] = Ground \/ \E c \in traders : before[i] = Window(c) /\ after[i] = Pack(c)
        ELSE after[i] = before[i]
  BY ReturnedItems
<1> QED
  BY <1>1, <1>2, <1>3

LEMMA HeldParts ==
  /\ HeldOrPlaced /\ OnLayers <=> OnCursors /\ OnLayers
  /\ (HeldOrPlaced /\ OnLayers <=> OnCursors /\ OnLayers)'
BY DEF HeldOrPlaced, OnCursors, OnLayers

HeldInv == TypeOK /\ OnCursors /\ OnLayers

LEMMA HeldInitially == Init => OnCursors /\ OnLayers
<1> SUFFICES ASSUME Init PROVE OnCursors /\ OnLayers
  OBVIOUS
<1>1. PICK s \in Starts : place = s.place /\ amount = s.amount
  BY DEF Init
<1>2. /\ s.place \in [Items -> {Ground, Chest, Nowhere} \cup {Pack(c) : c \in Chars}]
      /\ \A i \in Wearable : s.amount[i] <= 1
  BY ItemAssumption
<1>3. \A i \in Items : place[i] # Cursor /\ \A c : place[i] # Worn(c)
  BY <1>1, <1>2, PlacesDiffer
<1>4. OnCursors
  BY <1>3, ItemAssumption DEF Init, OnCursors
<1>5. OnLayers
  BY <1>1, <1>2, <1>3 DEF OnLayers
<1> QED
  BY <1>4, <1>5

LEMMA DropsKeepHeld ==
  ASSUME HeldInv, TypeOK', NEW c \in Chars,
         \/ \E p \in Places : DropInto(c, p)
         \/ \E j \in Items : DropOnPile(c, j)
         \/ DropInWindow(c)
  PROVE  OnCursors' /\ OnLayers'
<1> DEFINE held == gotten_item[c]
<1>1. held \in Items /\ Release(c) /\ UNCHANGED dead
  BY DEF DropInto, DropOnPile, DropInWindow, Holding, HeldInv, TypeOK, charVars
<1>2. PICK p \in {Ground, Chest, Pack(c), Nowhere, Window(c)} : place' = [place EXCEPT ![held] = p]
  <2>1. CASE \E p \in Places : DropInto(c, p)
    BY <2>1 DEF DropInto
  <2>2. CASE \E j \in Items : DropOnPile(c, j)
    BY <2>2 DEF DropOnPile
  <2>3. CASE DropInWindow(c)
    BY <2>3 DEF DropInWindow
  <2> QED
    BY <2>1, <2>2, <2>3
<1>3. p # Cursor /\ \A d : p # Worn(d)
  BY PlacesDiffer
<1>4. OnCursors'
  <2>1. \A i \in Items : place'[i] = Cursor <=> place[i] = Cursor /\ i # held
    BY <1>1, <1>2, <1>3 DEF HeldInv, TypeOK
  <2> QED
    BY <1>1, <2>1, CursorsReleased DEF HeldInv
<1>5. OnLayers'
  <2>1. \A i \in Items, d \in Chars : place'[i] = Worn(d) => place[i] = Worn(d)
    BY <1>1, <1>2, <1>3 DEF HeldInv, TypeOK
  <2>2. \A i \in Wearable : amount'[i] <= amount[i]
    <3>1. \A i \in Wearable : amount'[i] = amount[i]
      BY ItemAssumption DEF DropInto, DropOnPile, DropInWindow, can_add_to_self, Stackable, HeldInv, TypeOK
    <3>2. \A i \in Wearable : amount[i] \in Int
      BY ItemAssumption DEF HeldInv, TypeOK
    <3> QED
      BY <3>1, <3>2
  <2> QED
    BY <2>1, <2>2, LayersStay DEF HeldInv
<1> QED
  BY <1>4, <1>5

\* The held item is put back, and nothing else happens to items.
LEMMA UndoKeepsHeld ==
  ASSUME HeldInv, NEW c \in Chars, Undo(c), UNCHANGED dead
  PROVE  OnCursors' /\ OnLayers'
<1>1. OnCursors'
  <2>1. \A i \in Items : place'[i] = Cursor <=> place[i] = Cursor /\ i # gotten_item[c]
    BY UndoneOffCursor DEF HeldInv, TypeOK, Undo
  <2> QED
    BY <2>1, CursorsReleased DEF HeldInv, Undo
<1>2. OnLayers'
  BY UndoKeepsLayers DEF HeldInv, Undo
<1> QED
  BY <1>1, <1>2

LEMMA EquipKeepsHeld ==
  ASSUME HeldInv, NEW c \in Chars, NEW d \in Chars, equip_item(c, d)
  PROVE  OnCursors' /\ OnLayers'
<1> DEFINE held == gotten_item[c]
<1>1. held \in Items /\ UNCHANGED dead
  BY DEF equip_item, Holding, HeldInv, TypeOK, charVars
<1>2. CASE Undo(c)
  BY <1>1, <1>2, UndoKeepsHeld
<1>3. CASE /\ equippable(d, held, place)
           /\ place' = [place EXCEPT ![held] = Worn(d)]
           /\ Release(c)
           /\ UNCHANGED amount
  <2>1. \A e : Worn(e) # Cursor /\ (Worn(e) = Worn(d) => e = d)
    BY PlacesDiffer
  <2>2. \A i \in Items : place'[i] = IF i = held THEN Worn(d) ELSE place[i]
    BY <1>3 DEF HeldInv, TypeOK
  <2>3. OnCursors'
    BY <1>1, <1>3, <2>1, <2>2, CursorsReleased DEF HeldInv
  <2>4. OnLayers'
    BY <1>1, <1>3, <2>1, <2>2, LayerTaken DEF HeldInv
  <2> QED
    BY <2>3, <2>4
<1> QED
  BY <1>2, <1>3 DEF equip_item

\* One that holds nothing picks up what nobody holds.
LEMMA CursorTaken ==
  ASSUME TypeOK, OnCursors, NEW c \in Chars, NEW i \in Items,
         gotten_item[c] = NoItem, ~dead[c], UNCHANGED dead, place[i] # Cursor,
         gotten_item' = [gotten_item EXCEPT ![c] = i],
         inuse' = [inuse EXCEPT ![i] = TRUE],
         gotten_by' = [gotten_by EXCEPT ![i] = c],
         \A j \in Items : place'[j] = Cursor <=> place[j] = Cursor \/ j = i
  PROVE  OnCursors'
<1>1. NoItem \notin Items /\ Nobody \notin Chars
  BY ItemAssumption
<1>2. /\ gotten_item'[c] = i /\ inuse'[i] /\ gotten_by'[i] = c
      /\ \A d \in Chars \ {c} : gotten_item'[d] = gotten_item[d]
      /\ \A j \in Items \ {i} : inuse'[j] = inuse[j] /\ gotten_by'[j] = gotten_by[j]
  BY DEF TypeOK
<1>3. \A d \in Chars : gotten_item[d] # i
  BY DEF OnCursors
<1> SUFFICES ASSUME NEW j \in Items
             PROVE  /\ place'[j] = Cursor <=> \E d \in Chars : gotten_item'[d] = j
                    /\ \A d, e \in Chars : gotten_item'[d] = j /\ gotten_item'[e] = j => d = e
                    /\ inuse'[j] <=> place'[j] = Cursor
                    /\ gotten_by'[j] # Nobody => gotten_item'[gotten_by'[j]] = j
                    /\ \A d \in Chars : dead'[d] => gotten_item'[d] # j
  BY DEF OnCursors
<1>4. CASE j = i
  <2>1. \A d \in Chars : gotten_item'[d] = i <=> d = c
    BY <1>2, <1>3
  <2> QED
    BY <1>2, <1>4, <2>1
<1>5. CASE j # i
  <2>1. \A d \in Chars : gotten_item'[d] = j <=> gotten_item[d] = j
    BY <1>1, <1>2, <1>5
  <2>2. /\ place[j] = Cursor <=> \E d \in Chars : gotten_item[d] = j
        /\ \A d, e \in Chars : gotten_item[d] = j /\ gotten_item[e] = j => d = e
        /\ inuse[j] <=> place[j] = Cursor
        /\ gotten_by[j] # Nobody => gotten_item[gotten_by[j]] = j
        /\ \A d \in Chars : dead[d] => gotten_item[d] # j
    BY DEF OnCursors
  <2>3. gotten_by[j] \in Chars \cup {Nobody}
    BY DEF TypeOK
  <2>4. inuse'[j] <=> place'[j] = Cursor
    BY <1>2, <1>5, <2>2
  <2>5. gotten_by'[j] # Nobody => gotten_item'[gotten_by'[j]] = j
    BY <1>2, <1>5, <2>1, <2>2, <2>3
  <2> QED
    BY <1>5, <2>1, <2>2, <2>4, <2>5
<1> QED
  BY <1>4, <1>5

LEMMA GetKeepsHeld ==
  ASSUME HeldInv, TypeOK', NEW c \in Chars, NEW i \in Items, NEW n \in 1..amount[i], get_item(c, i, n)
  PROVE  OnCursors' /\ OnLayers'
<1>1. /\ gotten_item[c] = NoItem /\ ~dead[c] /\ ~inuse[i] /\ UNCHANGED dead
      /\ place[i] \in {Ground, Chest, Pack(c), Worn(c)}
  BY DEF get_item, MayGet, Legal, charVars
<1>2. place[i] # Cursor /\ place[i] # Nowhere
  BY <1>1, PlacesDiffer
<1>3. (\A j \in Items : place'[j] = Cursor <=> place[j] = Cursor \/ j = i) => OnCursors'
  BY <1>1, <1>2, CursorTaken DEF HeldInv, get_item
<1>4. NoItem \notin Items /\ Nobody \notin Chars /\ Wearable \subseteq Items /\ StackLimit \in Nat
  BY ItemAssumption
<1>5. amount[i] \in 0..StackLimit /\ \A j \in Items : amount[j] \in 0..StackLimit
  BY DEF HeldInv, TypeOK
<1>6. CASE n = amount[i] /\ place' = [place EXCEPT ![i] = Cursor] /\ UNCHANGED amount
  <2>1. place'[i] = Cursor /\ \A j \in Items \ {i} : place'[j] = place[j]
    BY <1>6 DEF HeldInv, TypeOK
  <2>2. OnCursors'
    BY <1>3, <2>1
  <2>3. \A d : Worn(d) # Cursor
    BY PlacesDiffer
  <2>4. OnLayers'
    BY <1>6, <2>1, <2>3 DEF OnLayers, HeldInv
  <2> QED
    BY <2>2, <2>4
<1>7. ASSUME n < amount[i], NEW new \in Stackable, place[new] = Nowhere,
             place' = [place EXCEPT ![i] = Cursor, ![new] = place[i]],
             amount' = slice_stacked_item(i, new, n)
      PROVE  OnCursors' /\ OnLayers'
  <2>1. new \in Items \ Wearable /\ new # i
    BY <1>2, <1>7 DEF Stackable
  <2>2. place'[i] = Cursor /\ place'[new] = place[i] /\ \A j \in Items \ {i, new} : place'[j] = place[j]
    BY <1>7, <2>1 DEF HeldInv, TypeOK
  <2>3. Nowhere # Cursor
    BY PlacesDiffer
  <2>4. OnCursors'
    BY <1>2, <1>3, <1>7, <2>1, <2>2, <2>3
  <2>5. i \notin Wearable
    BY <1>5, <1>7 DEF HeldInv, OnLayers
  <2>6. \A d : Worn(d) # Cursor
    BY PlacesDiffer
  <2>7. \A j \in Items, d \in Chars : place'[j] = Worn(d) => place[j] = Worn(d)
    BY <2>1, <2>2, <2>5, <2>6 DEF HeldInv, OnLayers
  <2>8. \A j \in Wearable : amount'[j] <= amount[j]
    <3>1. \A j \in Wearable : amount'[j] = amount[j]
      BY <1>4, <1>7, <2>1, <2>5 DEF slice_stacked_item, HeldInv, TypeOK
    <3> QED
      BY <1>4, <1>5, <3>1
  <2> QED
    BY <2>4, <2>7, <2>8, LayersStay DEF HeldInv
<1> QED
  BY <1>6, <1>7 DEF get_item

\* Items that are neither held nor worn, before and after, move.
LEMMA MovesKeepHeld ==
  ASSUME HeldInv, TypeOK', UNCHANGED <<amount, heldVars>>,
         \A c \in Chars : dead'[c] => dead[c],
         \A i \in Items : place'[i] = Cursor <=> place[i] = Cursor,
         \A i \in Items, c \in Chars : place'[i] = Worn(c) => place[i] = Worn(c)
  PROVE  OnCursors' /\ OnLayers'
<1>1. OnCursors'
  BY CursorsStay DEF HeldInv
<1>2. \A i \in Wearable : amount'[i] <= amount[i]
  BY ItemAssumption DEF HeldInv, TypeOK
<1>3. OnLayers'
  BY <1>2, LayersStay DEF HeldInv
<1> QED
  BY <1>1, <1>3

LEMMA ReturnsKeepHeld ==
  ASSUME HeldInv, TypeOK', UNCHANGED <<amount, heldVars, dead>>,
         NEW before, before \in [Items -> Places], NEW T, T \subseteq Chars,
         place' \in return_traded_items(before, T),
         \A i \in Items : before[i] = Cursor <=> place[i] = Cursor,
         \A i \in Items, c \in Chars : before[i] = Worn(c) => place[i] = Worn(c)
  PROVE  OnCursors' /\ OnLayers'
BY ReturnedKeep, MovesKeepHeld

LEMMA TradersAre ==
  ASSUME TypeOK, NEW c \in Chars
  PROVE  Traders(c) \subseteq Chars
BY DEF TypeOK, Traders

LEMMA OffersKeepHeld ==
  ASSUME HeldInv, TypeOK', NEW c \in Chars,
         \/ \E d \in Chars : SecureTradeWin(c, d) \/ DropOnMobile(c, d)
         \/ \E i \in Items : MoveItemToSecureTradeWin(i, c)
         \/ cancel_trade(c)
         \/ \E set \in BOOLEAN : change_trade_status(c, set)
  PROVE  OnCursors' /\ OnLayers'
<1>1. UNCHANGED <<amount, dead>>
  BY DEF SecureTradeWin, DropOnMobile, MoveItemToSecureTradeWin, cancel_trade, change_trade_status, Undo,
         itemVars, charVars
<1>2. CASE \E d \in Chars : SecureTradeWin(c, d)
  BY <1>1, <1>2, MovesKeepHeld DEF SecureTradeWin, itemVars
<1>3. CASE \E d \in Chars : DropOnMobile(c, d)
  <2>1. gotten_item[c] \in Items
    BY <1>3 DEF DropOnMobile, Holding, HeldInv, TypeOK
  <2>2. CASE Undo(c)
    BY <1>1, <2>2, UndoKeepsHeld
  <2>3. CASE place' = [place EXCEPT ![gotten_item[c]] = Window(c)] /\ Release(c)
    <3>1. Window(c) # Cursor /\ \A d : Window(c) # Worn(d)
      BY PlacesDiffer
    <3>2. \A i \in Items : place'[i] = IF i = gotten_item[c] THEN Window(c) ELSE place[i]
      BY <2>3 DEF HeldInv, TypeOK
    <3>3. OnCursors'
      BY <1>1, <2>3, <3>1, <3>2, CursorsReleased DEF HeldInv
    <3>4. OnLayers'
      BY <1>1, <3>1, <3>2 DEF HeldInv, OnLayers
    <3> QED
      BY <3>3, <3>4
  <2> QED
    BY <1>3, <2>2, <2>3 DEF DropOnMobile
<1>4. CASE \E i \in Items : MoveItemToSecureTradeWin(i, c)
  <2>1. PICK i \in Items : MoveItemToSecureTradeWin(i, c)
    BY <1>4
  <2>2. place[i] # Cursor
    BY <2>1, PlacesDiffer DEF MoveItemToSecureTradeWin
  <2>3. PICK p \in {Window(c), Adrift} : place' = [place EXCEPT ![i] = p]
    BY <2>1 DEF MoveItemToSecureTradeWin
  <2>4. p # Cursor /\ \A d : p # Worn(d)
    BY PlacesDiffer
  <2>5. \A j \in Items : place'[j] = IF j = i THEN p ELSE place[j]
    BY <2>3 DEF HeldInv, TypeOK
  <2> QED
    BY <1>1, <2>1, <2>2, <2>4, <2>5, MovesKeepHeld DEF MoveItemToSecureTradeWin
<1>5. CASE cancel_trade(c)
  BY <1>1, <1>5, ReturnsKeepHeld, TradersAre DEF cancel_trade, HeldInv, TypeOK
<1>6. CASE \E set \in BOOLEAN : change_trade_status(c, set)
  <2>1. trading_with[c] \in Chars
    BY <1>6 DEF change_trade_status, is_trading, HeldInv, TypeOK
  <2> DEFINE d == trading_with[c]
             before == Swapped(c, d)
  <2>2. \A e, f : Window(e) # Cursor /\ Window(e) # Worn(f)
    BY PlacesDiffer
  <2>3. Window(c) \in Places /\ Window(d) \in Places
    BY <2>1 DEF Places
  <2>4. /\ before \in [Items -> Places]
        /\ \A i \in Items : before[i] = Cursor <=> place[i] = Cursor
        /\ \A i \in Items, e \in Chars : before[i] = Worn(e) => place[i] = Worn(e)
    BY <2>2, <2>3 DEF Swapped, HeldInv, TypeOK
  <2>5. CASE place' \in return_traded_items(before, {c, d})
    BY <1>1, <1>6, <2>1, <2>4, <2>5, ReturnsKeepHeld DEF change_trade_status
  <2>6. CASE UNCHANGED place
    BY <1>1, <1>6, <2>6, MovesKeepHeld DEF change_trade_status
  <2> QED
    BY <1>6, <2>5, <2>6 DEF change_trade_status
<1> QED
  BY <1>2, <1>3, <1>4, <1>5, <1>6

\* The three moves of die, one after the other.
LEMMA DieKeepsHeld ==
  ASSUME HeldInv, TypeOK', NEW c \in Chars, die(c)
  PROVE  OnCursors' /\ OnLayers'
<1>1. PICK returned \in (IF is_trading(c) THEN return_traded_items(place, Traders(c)) ELSE {place}) :
        \E undone \in undo_get_item(returned, c) : place' \in Buried(undone, c)
  BY DEF die
<1>2. /\ returned \in [Items -> Places]
      /\ \A i \in Items : returned[i] = Cursor <=> place[i] = Cursor
      /\ \A i \in Items, d \in Chars : returned[i] = Worn(d) <=> place[i] = Worn(d)
  <2>1. CASE is_trading(c)
    <3>1. returned \in return_traded_items(place, Traders(c)) /\ Traders(c) \subseteq Chars
      BY <1>1, <2>1, TradersAre DEF HeldInv
    <3>2. place \in [Items -> Places]
      BY DEF HeldInv, TypeOK
    <3> QED
      BY <3>1, <3>2, ReturnedItems, ReturnedKeep
  <2>2. CASE ~is_trading(c)
    BY <1>1, <2>2 DEF HeldInv, TypeOK
  <2> QED
    BY <2>1, <2>2
<1>3. PICK undone \in undo_get_item(returned, c) : place' \in Buried(undone, c)
  BY <1>1
<1>4. /\ undone \in [Items -> Places]
      /\ \A i \in Items : undone[i] = Cursor <=> returned[i] = Cursor /\ i # gotten_item[c]
      /\ \A i \in Items :
           IF i = gotten_item[c]
           THEN \/ undone[i] \in {Ground, Pack(c)}
                \/ undone[i] = Worn(c) /\ equippable(c, i, returned)
           ELSE undone[i] = returned[i]
  BY <1>2, UndoneItems, UndoneOffCursor
<1>5. /\ \A d : Cursor # Worn(d) /\ Cursor # Pack(d) /\ Chest # Cursor /\ Ground # Cursor
      /\ \A d, e : Worn(d) # Chest /\ Worn(d) # Ground /\ Worn(d) # Pack(e) /\ (Worn(d) = Worn(e) => d = e)
  BY PlacesDiffer
<1>6. /\ \A i \in Items : place'[i] = Cursor <=> undone[i] = Cursor
      /\ \A i \in Items, d \in Chars : place'[i] = Worn(d) => undone[i] = Worn(d)
  <2>1. \A i \in Items :
          IF undone[i] \in {Worn(c), Pack(c)}
          THEN \/ place'[i] \in {Chest, Ground, Pack(c)}
               \/ place'[i] = undone[i]
          ELSE place'[i] = undone[i]
    BY <1>3, <1>4, BuriedItems
  <2> QED
    BY <1>5, <2>1
<1>7. OnCursors'
  <2>1. \A d \in Chars : dead'[d] => dead[d] \/ d = c
    BY DEF die, HeldInv, TypeOK
  <2> QED
    BY <1>2, <1>4, <1>6, <2>1, CursorsReleased DEF die, HeldInv
<1>8. OnLayers'
  <2>1. \A i \in Items, d \in Chars :
          place'[i] = Worn(d) =>
            \/ place[i] = Worn(d)
            \/ i = gotten_item[c] /\ d = c /\ equippable(c, i, returned)
    BY <1>2, <1>4, <1>5, <1>6
  <2>2. CASE gotten_item[c] \in Items /\ equippable(c, gotten_item[c], returned)
    <3>1. equippable(c, gotten_item[c], place)
      BY <1>2, <2>2 DEF equippable
    <3> QED
      BY <2>1, <2>2, <3>1, LayerTaken DEF die, HeldInv
  <2>3. CASE ~(gotten_item[c] \in Items /\ equippable(c, gotten_item[c], returned))
    BY <2>1, <2>3 DEF OnLayers, HeldInv, die
  <2> QED
    BY <2>2, <2>3
<1> QED
  BY <1>7, <1>8

LEMMA SessionsKeepHeld ==
  ASSUME HeldInv, TypeOK', NEW c \in Chars,
         resurrect(c) \/ Mismatch(c) \/ Disconnected(c) \/ disconnect_cleanup(c) \/ PreDelete(c) \/ char_select(c)
  PROVE  OnCursors' /\ OnLayers'
<1>1. CASE resurrect(c) \/ Disconnected(c)
  <2>1. \A d \in Chars : dead'[d] => dead[d]
    BY <1>1 DEF resurrect, Disconnected, HeldInv, TypeOK
  <2> QED
    BY <1>1, <2>1, MovesKeepHeld DEF resurrect, Disconnected, itemVars
<1>2. CASE Mismatch(c)
  <2>1. \A i \in Items : gotten_by'[i] = gotten_by[i] \/ gotten_by'[i] = Nobody
    BY <1>2 DEF Mismatch, HeldInv, TypeOK
  <2> QED
    BY <1>2, <2>1 DEF Mismatch, HeldInv, OnCursors, OnLayers, itemVars, charVars
<1>3. CASE disconnect_cleanup(c) \/ PreDelete(c)
  BY <1>3, ReturnsKeepHeld, TradersAre DEF disconnect_cleanup, PreDelete, Unsettle, HeldInv, TypeOK
<1>4. CASE char_select(c)
  BY <1>4, UndoKeepsHeld DEF char_select
<1> QED
  BY <1>1, <1>2, <1>3, <1>4

LEMMA HeldStays == HeldInv /\ [Next]_vars => (OnCursors /\ OnLayers)'
<1> SUFFICES ASSUME HeldInv, [Next]_vars PROVE OnCursors' /\ OnLayers'
  OBVIOUS
<1>1. TypeOK'
  BY TypesStay DEF HeldInv
<1>2. CASE UNCHANGED vars
  BY <1>2 DEF HeldInv, OnCursors, OnLayers, vars, itemVars, heldVars, charVars
<1>3. CASE SaveWorldState
  <2>1. Interrupted \subseteq Chars
    BY DEF Interrupted
  <2> QED
    BY <1>1, <1>3, <2>1, ReturnsKeepHeld DEF SaveWorldState, HeldInv, TypeOK, charVars
<1>4. ASSUME NEW c \in Chars, DropFails(c) \/ clear_gotten_item(c) PROVE OnCursors' /\ OnLayers'
  BY <1>4, UndoKeepsHeld DEF DropFails, clear_gotten_item, charVars
<1> QED
  BY <1>1, <1>2, <1>3, <1>4, GetKeepsHeld, DropsKeepHeld, EquipKeepsHeld, OffersKeepHeld, DieKeepsHeld,
     SessionsKeepHeld DEF Next

\* Through drops, refusals, deaths, logins and scripts, an item is on a cursor exactly if
\* one character holds it, only then it is in use, the dead hold nothing, and a layer
\* holds one item.
THEOREM ItemsHeldOnce == Spec => []HeldOrPlaced
<1>1. Init => HeldInv
  BY TypesInitially, HeldInitially DEF HeldInv
<1>2. HeldInv /\ [Next]_vars => HeldInv'
  BY TypesStay, HeldStays DEF HeldInv
<1>3. HeldInv => HeldOrPlaced
  BY HeldParts DEF HeldInv
<1> QED
  BY <1>1, <1>2, <1>3, PTL DEF Spec

-----------------------------------------------------------------------------
(* Trades *)

TradesInv == HeldInv /\ TradersPaired /\ AcceptedAsSeen

\* Nothing enters, leaves or changes in that window.
Untouched(x) ==
  \A i \in Items :
    /\ place'[i] = Window(x) <=> place[i] = Window(x)
    /\ place[i] = Window(x) => amount'[i] = amount[i]

LEMMA OffersStay ==
  ASSUME NEW c, NEW d, Untouched(c), Untouched(d)
  PROVE  Offers(c, d)' = Offers(c, d)
<1> DEFINE S == {j \in Items : place[j] \in {Window(c), Window(d)}}
<1>1. {j \in Items : place'[j] \in {Window(c), Window(d)}} = S
  BY DEF Untouched
<1>2. \A i \in S : place'[i] = place[i] /\ amount'[i] = amount[i]
  BY DEF Untouched
<1>3. Offers(c, d)' = {<<i, place'[i], amount'[i]>> : i \in S}
  BY <1>1 DEF Offers
<1> QED
  BY <1>2, <1>3 DEF Offers

\* Whoever trades stays alive and connected.
LiveOn(c) == (dead'[c] => dead[c]) /\ (HasClient(c) => HasClient(c)')

\* Nothing happens to trades.
LEMMA TradesStay ==
  ASSUME TradesInv, UNCHANGED tradeVars,
         \A c \in Chars : Untouched(c),
         \A c \in Chars : is_trading(c) => LiveOn(c)
  PROVE  TradersPaired' /\ AcceptedAsSeen'
<1>1. /\ UNCHANGED <<trading_with, trade_accepted, seen>>
      /\ \A c \in Chars : is_trading(c)' = is_trading(c)
  BY DEF tradeVars, is_trading
<1>2. TradersPaired'
  BY <1>1 DEF TradesInv, TradersPaired, Untouched, LiveOn
<1>3. AcceptedAsSeen'
  <2> SUFFICES ASSUME NEW c \in Chars, is_trading(c), trade_accepted[c]
               PROVE  seen[c] = Offers(c, trading_with[c])'
    BY <1>1 DEF AcceptedAsSeen
  <2>1. trading_with[c] \in Chars /\ seen[c] = Offers(c, trading_with[c])
    BY DEF TradesInv, HeldInv, TypeOK, is_trading, AcceptedAsSeen
  <2>2. Offers(c, trading_with[c])' = Offers(c, trading_with[c])
    <3> DEFINE d == trading_with[c]
    <3>1. d' = d
      BY <1>1
    <3>2. \A e \in Chars : Offers(c, e)' = Offers(c, e)
      BY OffersStay
    <3> QED
      BY <2>1, <3>1, <3>2 DEF Offers
  <2> QED
    BY <2>1, <2>2
<1> QED
  BY <1>2, <1>3

\* Some trades end, of both sides, and their windows are emptied.
LEMMA TradesCleared ==
  ASSUME TradesInv, NEW T, T \subseteq Chars, ClearTrade(T),
         \A c \in T : is_trading(c) => trading_with[c] \in T,
         \A c \in Chars \ T : Untouched(c) /\ trade_accepted'[c] = trade_accepted[c],
         \A c \in Chars \ T : is_trading(c) => LiveOn(c),
         \A c \in T, i \in Items : place'[i] # Window(c)
  PROVE  TradersPaired' /\ AcceptedAsSeen'
<1>1. /\ \A c \in T : trading_with'[c] = Nobody
      /\ \A c \in Chars \ T : trading_with'[c] = trading_with[c] /\ seen'[c] = seen[c]
  BY DEF ClearTrade
<1>2. \A c \in Chars \ T : is_trading(c) => trading_with[c] \in Chars \ T
  <2> SUFFICES ASSUME NEW c \in Chars \ T, is_trading(c), trading_with[c] \in T PROVE FALSE
    BY DEF TradesInv, HeldInv, TypeOK, is_trading
  <2>1. trading_with[trading_with[c]] = c /\ c # Nobody
    BY ItemAssumption DEF TradesInv, TradersPaired
  <2> QED
    BY <2>1 DEF is_trading
<1>3. \A c \in Chars : is_trading(c)' <=> is_trading(c) /\ c \notin T
  BY <1>1 DEF is_trading
<1>4. TradersPaired'
  <2> SUFFICES ASSUME NEW c \in Chars
               PROVE  /\ is_trading(c)' => LET d == trading_with'[c]
                                           IN d # c /\ trading_with'[d] = c /\ ~dead'[c] /\ HasClient(c)'
                      /\ ~is_trading(c)' => \A i \in Items : place'[i] # Window(c)
    BY DEF TradersPaired
  <2>1. CASE c \in T
    BY <1>3, <2>1
  <2>2. CASE c \notin T /\ is_trading(c)
    BY <1>1, <1>2, <1>3, <2>2 DEF TradesInv, TradersPaired, LiveOn
  <2>3. CASE c \notin T /\ ~is_trading(c)
    BY <1>1, <1>3, <2>3 DEF TradesInv, TradersPaired, Untouched
  <2> QED
    BY <2>1, <2>2, <2>3
<1>5. AcceptedAsSeen'
  <2> SUFFICES ASSUME NEW c \in Chars, is_trading(c)', trade_accepted'[c]
               PROVE  seen'[c] = Offers(c, trading_with[c])'
    BY DEF AcceptedAsSeen
  <2>1. c \notin T /\ is_trading(c) /\ trade_accepted[c]
    BY <1>3
  <2>2. seen[c] = Offers(c, trading_with[c])
    BY <2>1 DEF TradesInv, AcceptedAsSeen
  <2>3. \A e \in Chars \ T : Offers(c, e)' = Offers(c, e)
    BY <2>1, OffersStay
  <2> QED
    BY <1>1, <1>2, <2>1, <2>2, <2>3 DEF Offers
<1> QED
  BY <1>4, <1>5

\* Two who do not trade begin to; nothing has been answered yet.
LEMMA TradeOpened ==
  ASSUME TradesInv, NEW c \in Chars, NEW d \in Chars, c # d,
         CanOpen(c, d), HasClient(c), OpenWindows(c, d), UNCHANGED charVars,
         \A x \in Chars \ {c, d} : Untouched(x)
  PROVE  TradersPaired' /\ AcceptedAsSeen'
<1>1. /\ trading_with'[c] = d /\ trading_with'[d] = c
      /\ ~trade_accepted'[c] /\ ~trade_accepted'[d]
      /\ \A x \in Chars \ {c, d} : /\ trading_with'[x] = trading_with[x] /\ seen'[x] = seen[x]
                                    /\ trade_accepted'[x] = trade_accepted[x]
  BY DEF OpenWindows, TradesInv, HeldInv, TypeOK
<1>2. \A x \in Chars : is_trading(x) => trading_with[x] \in Chars \ {c, d} /\ x \notin {c, d}
  <2> SUFFICES ASSUME NEW x \in Chars, is_trading(x) PROVE trading_with[x] \in Chars \ {c, d} /\ x \notin {c, d}
    OBVIOUS
  <2>1. trading_with[trading_with[x]] = x /\ trading_with[x] \in Chars /\ x # Nobody
    BY ItemAssumption DEF TradesInv, TradersPaired, HeldInv, TypeOK, is_trading
  <2> QED
    BY <2>1 DEF CanOpen, is_trading
<1>3. /\ is_trading(c)' /\ is_trading(d)'
      /\ \A x \in Chars \ {c, d} : is_trading(x)' <=> is_trading(x)
  BY <1>1, ItemAssumption DEF is_trading
<1>4. TradersPaired'
  <2> SUFFICES ASSUME NEW x \in Chars
               PROVE  /\ is_trading(x)' => LET y == trading_with'[x]
                                           IN y # x /\ trading_with'[y] = x /\ ~dead'[x] /\ HasClient(x)'
                      /\ ~is_trading(x)' => \A i \in Items : place'[i] # Window(x)
    BY DEF TradersPaired
  <2>1. CASE x \in {c, d}
    BY <1>1, <1>3, <2>1 DEF CanOpen, charVars, HasClient
  <2>2. CASE x \notin {c, d} /\ is_trading(x)
    BY <1>1, <1>2, <1>3, <2>2 DEF TradesInv, TradersPaired, charVars, HasClient
  <2>3. CASE x \notin {c, d} /\ ~is_trading(x)
    BY <1>1, <1>3, <2>3 DEF TradesInv, TradersPaired, Untouched
  <2> QED
    BY <2>1, <2>2, <2>3
<1>5. AcceptedAsSeen'
  <2> SUFFICES ASSUME NEW x \in Chars, is_trading(x)', trade_accepted'[x]
               PROVE  seen'[x] = Offers(x, trading_with[x])'
    BY DEF AcceptedAsSeen
  <2>1. x \notin {c, d} /\ is_trading(x) /\ trade_accepted[x]
    BY <1>1, <1>3
  <2>2. seen[x] = Offers(x, trading_with[x])
    BY <2>1 DEF TradesInv, AcceptedAsSeen
  <2>3. \A e \in Chars \ {c, d} : Offers(x, e)' = Offers(x, e)
    BY <2>1, OffersStay
  <2> QED
    BY <1>1, <1>2, <2>1, <2>2, <2>3 DEF Offers
<1> QED
  BY <1>4, <1>5

\* The answers to what was in a window before are void.
LEMMA AnswersVoid ==
  ASSUME TradesInv, NEW c \in Chars, is_trading(c), Unaccept(c), UNCHANGED charVars,
         \A x \in Chars \ {c} : Untouched(x)
  PROVE  TradersPaired' /\ AcceptedAsSeen'
<1> DEFINE d == trading_with[c]
<1>1. d \in Chars /\ trading_with[d] = c
  BY DEF TradesInv, HeldInv, TypeOK, is_trading, TradersPaired
<1>2. /\ ~trade_accepted'[c] /\ ~trade_accepted'[d]
      /\ \A x \in Chars \ {c, d} : seen'[x] = seen[x] /\ trade_accepted'[x] = trade_accepted[x]
      /\ UNCHANGED trading_with
  BY <1>1 DEF Unaccept, TradesInv, HeldInv, TypeOK
<1>3. \A x \in Chars : is_trading(x)' = is_trading(x)
  BY <1>2 DEF is_trading
<1>4. TradersPaired'
  BY <1>2, <1>3 DEF TradesInv, TradersPaired, Untouched, charVars, HasClient
<1>5. AcceptedAsSeen'
  <2> SUFFICES ASSUME NEW x \in Chars, is_trading(x)', trade_accepted'[x]
               PROVE  seen'[x] = Offers(x, trading_with[x])'
    BY DEF AcceptedAsSeen
  <2>1. x \notin {c, d} /\ is_trading(x) /\ trade_accepted[x]
    BY <1>2, <1>3
  <2>2. seen[x] = Offers(x, trading_with[x])
    BY <2>1 DEF TradesInv, AcceptedAsSeen
  <2>3. trading_with[x] \in Chars \ {c}
    <3>1. trading_with[trading_with[x]] = x /\ trading_with[x] \in Chars
      BY <2>1 DEF TradesInv, TradersPaired, HeldInv, TypeOK, is_trading
    <3> QED
      BY <2>1, <3>1
  <2>4. \A e \in Chars \ {c} : Offers(x, e)' = Offers(x, e)
    BY <2>1, OffersStay
  <2> QED
    BY <1>2, <2>1, <2>2, <2>3, <2>4 DEF Offers
<1> QED
  BY <1>4, <1>5

LEMMA TradesInitially == Init => TradersPaired /\ AcceptedAsSeen
<1> SUFFICES ASSUME Init PROVE TradersPaired /\ AcceptedAsSeen
  OBVIOUS
<1>1. PICK s \in Starts : place = s.place
  BY DEF Init
<1>2. s.place \in [Items -> {Ground, Chest, Nowhere} \cup {Pack(c) : c \in Chars}]
  BY ItemAssumption
<1>3. \A i \in Items : \A c : place[i] # Window(c)
  BY <1>1, <1>2, PlacesDiffer
<1> QED
  BY <1>3 DEF Init, TradersPaired, AcceptedAsSeen, is_trading

\* The windows that are emptied, and the others.
LEMMA WindowsReturned ==
  ASSUME NEW before, before \in [Items -> Places], NEW T, T \subseteq Chars,
         NEW after \in return_traded_items(before, T)
  PROVE  \A x \in Chars, i \in Items : after[i] = Window(x) <=> before[i] = Window(x) /\ x \notin T
<1>1. \A x, y : Window(x) # Ground /\ Window(x) # Pack(y) /\ (Window(x) = Window(y) => x = y)
  BY PlacesDiffer
<1>2. \A i \in Items :
        IF \E c \in T : before[i] = Window(c)
        THEN after[i] = Ground \/ \E c \in T : before[i] = Window(c) /\ after[i] = Pack(c)
        ELSE after[i] = before[i]
  BY ReturnedItems
<1> SUFFICES ASSUME NEW x \in Chars, NEW i \in Items
             PROVE  after[i] = Window(x) <=> before[i] = Window(x) /\ x \notin T
  OBVIOUS
<1>3. CASE \E c \in T : before[i] = Window(c)
  BY <1>1, <1>2, <1>3
<1>4. CASE ~\E c \in T : before[i] = Window(c)
  BY <1>2, <1>4
<1> QED
  BY <1>3, <1>4

LEMMA WindowsUndone ==
  ASSUME HeldInv, NEW c \in Chars, NEW before, before \in [Items -> Places],
         gotten_item[c] \in Items => before[gotten_item[c]] = Cursor,
         NEW after \in undo_get_item(before, c)
  PROVE  \A x \in Chars, i \in Items : after[i] = Window(x) <=> before[i] = Window(x)
<1>1. \A x, y : Window(x) # Ground /\ Window(x) # Pack(y) /\ Window(x) # Worn(y) /\ Window(x) # Cursor
  BY PlacesDiffer
<1>2. \A i \in Items :
        IF i = gotten_item[c]
        THEN after[i] \in {Ground, Pack(c), Worn(c)}
        ELSE after[i] = before[i]
  BY UndoneItems
<1> QED
  BY <1>1, <1>2

LEMMA HeldOnCursor ==
  ASSUME HeldInv, NEW c \in Chars, gotten_item[c] \in Items
  PROVE  place[gotten_item[c]] = Cursor
BY DEF HeldInv, OnCursors

LEMMA UndoUntouched ==
  ASSUME HeldInv, NEW c \in Chars, Undo(c), NEW x \in Chars
  PROVE  Untouched(x)
<1>1. place \in [Items -> Places] /\ place' \in undo_get_item(place, c)
  BY DEF HeldInv, TypeOK, Undo
<1>2. \A y \in Chars, i \in Items : place'[i] = Window(y) <=> place[i] = Window(y)
  BY <1>1, HeldOnCursor, WindowsUndone
<1> QED
  BY <1>2 DEF Untouched, Undo

\* The actions of one who holds something, but those of trades.
LEMMA DropsKeepTrades ==
  ASSUME TradesInv, NEW c \in Chars,
         \/ \E p \in Places : DropInto(c, p)
         \/ \E j \in Items : DropOnPile(c, j)
         \/ DropFails(c) \/ clear_gotten_item(c)
         \/ \E d \in Chars : equip_item(c, d)
  PROVE  TradersPaired' /\ AcceptedAsSeen'
<1> DEFINE held == gotten_item[c]
<1>1. UNCHANGED <<tradeVars, charVars>>
  BY DEF DropInto, DropOnPile, DropFails, clear_gotten_item, equip_item
<1>2. HeldInv /\ held \in Items
  BY DEF TradesInv, HeldInv, TypeOK, DropInto, DropOnPile, DropFails, clear_gotten_item, equip_item, Holding
<1>3. place[held] = Cursor
  BY <1>2, HeldOnCursor
<1>4. \A x, y : /\ Window(x) # Ground /\ Window(x) # Chest /\ Window(x) # Pack(y) /\ Window(x) # Worn(y)
                /\ Window(x) # Cursor /\ Window(x) # Nowhere
  BY PlacesDiffer
<1>5. \A x \in Chars : Untouched(x)
  <2>1. CASE Undo(c)
    BY <1>2, <2>1, UndoUntouched
  <2>2. CASE \E j \in Items : DropOnPile(c, j)
    <3>1. PICK j \in Items : DropOnPile(c, j)
      BY <2>2
    <3>2. /\ place[j] \in {Ground, Chest, Pack(c), Worn(c)}
          /\ place' = [place EXCEPT ![held] = Nowhere]
          /\ \A i \in Items \ {j, held} : amount'[i] = amount[i]
      BY <3>1 DEF DropOnPile, Legal, TradesInv, HeldInv, TypeOK
    <3> QED
      BY <1>2, <1>3, <1>4, <3>2 DEF Untouched, HeldInv, TypeOK
  <2>3. ASSUME NEW p, p \in {Ground, Chest, Pack(c)} \/ \E d \in Chars : p = Worn(d),
               place' = [place EXCEPT ![held] = p], UNCHANGED amount
        PROVE  \A x \in Chars : Untouched(x)
    BY <1>2, <1>3, <1>4, <2>3 DEF Untouched, HeldInv, TypeOK
  <2> QED
    BY <2>1, <2>2, <2>3 DEF DropInto, DropFails, clear_gotten_item, equip_item
<1> QED
  BY <1>1, <1>5, TradesStay DEF charVars, LiveOn, HasClient

LEMMA GetKeepsTrades ==
  ASSUME TradesInv, NEW c \in Chars, NEW i \in Items, NEW n \in 1..amount[i], get_item(c, i, n)
  PROVE  TradersPaired' /\ AcceptedAsSeen'
<1>1. UNCHANGED <<tradeVars, charVars>>
  BY DEF get_item
<1>2. \A x, y : /\ Window(x) # Ground /\ Window(x) # Chest /\ Window(x) # Pack(y) /\ Window(x) # Worn(y)
                /\ Window(x) # Cursor /\ Window(x) # Nowhere
  BY PlacesDiffer
<1>3. place[i] \in {Ground, Chest, Pack(c), Worn(c)}
  BY DEF get_item, MayGet, Legal
<1>4. \A x \in Chars : Untouched(x)
  <2>1. CASE place' = [place EXCEPT ![i] = Cursor] /\ UNCHANGED amount
    BY <1>2, <1>3, <2>1 DEF Untouched, TradesInv, HeldInv, TypeOK
  <2>2. ASSUME NEW new \in Stackable, place[new] = Nowhere,
               place' = [place EXCEPT ![i] = Cursor, ![new] = place[i]],
               amount' = slice_stacked_item(i, new, n)
        PROVE  \A x \in Chars : Untouched(x)
    <3>1. new \in Items
      BY DEF Stackable
    <3>2. \A j \in Items \ {i, new} : place'[j] = place[j] /\ amount'[j] = amount[j]
      BY <2>2 DEF slice_stacked_item, TradesInv, HeldInv, TypeOK
    <3>3. \A x : place[i] # Window(x) /\ place[new] # Window(x) /\ place'[i] # Window(x) /\ place'[new] # Window(x)
      BY <1>2, <1>3, <2>2, <3>1 DEF TradesInv, HeldInv, TypeOK
    <3> QED
      BY <3>2, <3>3 DEF Untouched
  <2> QED
    BY <2>1, <2>2 DEF get_item
<1> QED
  BY <1>1, <1>4, TradesStay DEF charVars, LiveOn, HasClient

LEMMA OffersKeepTrades ==
  ASSUME TradesInv, NEW c \in Chars,
         \/ \E d \in Chars : SecureTradeWin(c, d) \/ DropOnMobile(c, d)
         \/ DropInWindow(c)
         \/ \E i \in Items : MoveItemToSecureTradeWin(i, c)
  PROVE  TradersPaired' /\ AcceptedAsSeen'
<1> DEFINE held == gotten_item[c]
<1>1. \A x, y : /\ Window(x) # Chest /\ Window(x) # Pack(y) /\ Window(x) # Worn(y) /\ Window(x) # Cursor
                /\ Window(x) # Adrift /\ (Window(x) = Window(y) => x = y)
                /\ Window(x)[1] \notin {"chest", "pack", "worn"}
  BY PlacesDiffer
<1>2. HeldInv /\ place \in [Items -> Places] /\ UNCHANGED <<amount, charVars>>
  BY DEF TradesInv, HeldInv, TypeOK, SecureTradeWin, DropOnMobile, DropInWindow, MoveItemToSecureTradeWin,
         Undo, itemVars
\* One item, that was in no window, goes to c's window.
<1>3. ASSUME NEW i \in Items, \A x : place[i] # Window(x), place' = [place EXCEPT ![i] = Window(c)]
      PROVE  \A x \in Chars \ {c} : Untouched(x)
  BY <1>1, <1>2, <1>3 DEF Untouched
<1>4. CASE \E d \in Chars : SecureTradeWin(c, d)
  <2>1. PICK d \in Chars : SecureTradeWin(c, d)
    BY <1>4
  <2>2. HasClient(c) /\ \A x \in Chars : Untouched(x)
    BY <2>1 DEF SecureTradeWin, HasClient, Untouched, itemVars
  <2> QED
    BY <1>2, <2>1, <2>2, TradeOpened DEF SecureTradeWin
<1>5. CASE \E d \in Chars : DropOnMobile(c, d)
  <2>1. PICK d \in Chars : DropOnMobile(c, d)
    BY <1>5
  <2>2. HasClient(c) /\ held \in Items
    BY <2>1 DEF DropOnMobile, Holding, HasClient, TradesInv, HeldInv, TypeOK
  <2>3. \A x \in Chars \ {c} : Untouched(x)
    <3>1. CASE Undo(c)
      BY <1>2, <3>1, UndoUntouched
    <3>2. CASE place' = [place EXCEPT ![held] = Window(c)]
      BY <1>1, <1>2, <1>3, <2>2, <3>2, HeldOnCursor
    <3> QED
      BY <2>1, <3>1, <3>2 DEF DropOnMobile
  <2> QED
    BY <1>2, <2>1, <2>2, <2>3, TradeOpened DEF DropOnMobile
<1>6. CASE DropInWindow(c)
  <2>1. held \in Items
    BY <1>6 DEF DropInWindow, Holding, TradesInv, HeldInv, TypeOK
  <2>2. \A x \in Chars \ {c} : Untouched(x)
    BY <1>1, <1>2, <1>3, <1>6, <2>1, HeldOnCursor DEF DropInWindow
  <2> QED
    BY <1>2, <1>6, <2>2, AnswersVoid DEF DropInWindow, CanOffer
<1>7. CASE \E i \in Items : MoveItemToSecureTradeWin(i, c)
  <2>1. PICK i \in Items : MoveItemToSecureTradeWin(i, c)
    BY <1>7
  <2>2. \A x : place[i] # Window(x)
    BY <1>1, <2>1 DEF MoveItemToSecureTradeWin
  <2>3. CASE CanOffer(c) /\ place' = [place EXCEPT ![i] = Window(c)] /\ Unaccept(c)
    BY <1>2, <1>3, <2>2, <2>3, AnswersVoid DEF CanOffer
  <2>4. CASE place' = [place EXCEPT ![i] = Adrift] /\ UNCHANGED tradeVars
    <3>1. \A x \in Chars : Untouched(x)
      BY <1>1, <1>2, <2>2, <2>4 DEF Untouched
    <3> QED
      BY <1>2, <2>4, <3>1, TradesStay DEF charVars, LiveOn, HasClient
  <2> QED
    BY <2>1, <2>3, <2>4 DEF MoveItemToSecureTradeWin
<1> QED
  BY <1>4, <1>5, <1>6, <1>7

LEMMA TradersClosed ==
  ASSUME TradesInv, NEW c \in Chars
  PROVE  /\ Traders(c) \subseteq Chars /\ c \in Traders(c)
         /\ \A x \in Traders(c) : is_trading(x) => trading_with[x] \in Traders(c)
<1>1. Traders(c) \subseteq Chars /\ c \in Traders(c)
  BY ItemAssumption, TradersAre DEF TradesInv, HeldInv, Traders
<1> SUFFICES ASSUME NEW x \in Traders(c), is_trading(x) PROVE trading_with[x] \in Traders(c)
  BY <1>1
<1>2. CASE x = c
  BY <1>2 DEF Traders, is_trading
<1>3. CASE x # c
  <2>1. x = trading_with[c] /\ is_trading(c)
    BY <1>3 DEF Traders, is_trading
  <2>2. trading_with[x] = c
    BY <2>1 DEF TradesInv, TradersPaired
  <2> QED
    BY <1>1, <2>2
<1> QED
  BY <1>2, <1>3

\* Trades end with nothing else, but that somebody leaves who does not trade any more.
LEMMA ReturnsKeepTrades ==
  ASSUME TradesInv, NEW T, T \subseteq Chars, ClearTrade(T),
         place' \in return_traded_items(place, T), UNCHANGED <<amount, trade_accepted>>,
         \A c \in T : is_trading(c) => trading_with[c] \in T,
         \A c \in Chars \ T : LiveOn(c)
  PROVE  TradersPaired' /\ AcceptedAsSeen'
<1>1. place \in [Items -> Places]
  BY DEF TradesInv, HeldInv, TypeOK
<1>2. \A x \in Chars, i \in Items : place'[i] = Window(x) <=> place[i] = Window(x) /\ x \notin T
  BY <1>1, WindowsReturned
<1>3. \A x \in Chars \ T : Untouched(x)
  BY <1>2 DEF Untouched
<1>4. \A c \in T, i \in Items : place'[i] # Window(c)
  BY <1>2
<1> QED
  BY <1>3, <1>4, TradesCleared

\* disconnect_cleanup and PreDelete.
LEMMA UnsettleKeepsTrades ==
  ASSUME TradesInv, NEW c \in Chars, Unsettle(c), UNCHANGED dead, \A x \in Chars \ {c} : session'[x] = session[x]
  PROVE  TradersPaired' /\ AcceptedAsSeen'
<1>1. Traders(c) \subseteq Chars /\ c \in Traders(c)
  BY TradersClosed
<1>2. \A x \in Chars \ {c} : LiveOn(x)
  BY DEF LiveOn, HasClient
<1>3. CASE is_trading(c)
  BY <1>1, <1>2, <1>3, TradersClosed, ReturnsKeepTrades DEF Unsettle
<1>4. CASE ~is_trading(c)
  <2>1. UNCHANGED tradeVars
    BY <1>4 DEF Unsettle, tradeVars
  <2>2. Traders(c) = {c}
    BY <1>4, ItemAssumption DEF Traders, is_trading
  <2>3. \A i \in Items : place[i] # Window(c)
    BY <1>4 DEF TradesInv, TradersPaired
  <2>4. place \in [Items -> Places] /\ place' \in return_traded_items(place, {c})
    BY <2>2 DEF TradesInv, HeldInv, TypeOK, Unsettle
  <2>5. \A x \in Chars, i \in Items : place'[i] = Window(x) <=> place[i] = Window(x) /\ x # c
    BY <2>4, WindowsReturned
  <2>6. \A x \in Chars : Untouched(x)
    BY <2>3, <2>5 DEF Untouched, Unsettle
  <2> QED
    BY <1>2, <1>4, <2>1, <2>6, TradesStay
<1> QED
  BY <1>3, <1>4

LEMMA AnswerKeepsTrades ==
  ASSUME TradesInv, NEW c \in Chars, NEW set \in BOOLEAN, change_trade_status(c, set)
  PROVE  TradersPaired' /\ AcceptedAsSeen'
<1> DEFINE d == trading_with[c]
<1>1. d \in Chars /\ d # c /\ trading_with[d] = c /\ is_trading(c)
  BY DEF change_trade_status, is_trading, TradesInv, HeldInv, TypeOK, TradersPaired
<1>2. /\ UNCHANGED <<amount, charVars>>
      /\ trade_accepted'[c] = set /\ \A x \in Chars \ {c} : trade_accepted'[x] = trade_accepted[x]
  BY DEF change_trade_status, TradesInv, HeldInv, TypeOK
<1>3. CASE place' \in return_traded_items(Swapped(c, d), {c, d}) /\ ClearTrade({c, d})
  <2> DEFINE before == Swapped(c, d)
  <2>1. before \in [Items -> Places]
    BY <1>1 DEF Swapped, TradesInv, HeldInv, TypeOK, Places
  <2>2. \A x \in Chars, i \in Items : place'[i] = Window(x) <=> before[i] = Window(x) /\ x \notin {c, d}
    BY <1>1, <1>3, <2>1, WindowsReturned
  <2>3. \A x, y : Window(x) = Window(y) => x = y
    BY PlacesDiffer
  <2>4. \A x \in Chars \ {c, d}, i \in Items : before[i] = Window(x) <=> place[i] = Window(x)
    BY <2>3 DEF Swapped
  <2>5. \A x \in Chars \ {c, d} : Untouched(x)
    BY <1>2, <2>2, <2>4 DEF Untouched
  <2>6. \A x \in {c, d}, i \in Items : place'[i] # Window(x)
    BY <1>1, <2>2
  <2>7. \A x \in Chars : LiveOn(x)
    BY <1>2 DEF LiveOn, HasClient, charVars
  <2>8. \A x \in {c, d} : is_trading(x) => trading_with[x] \in {c, d}
    BY <1>1
  <2> QED
    BY <1>1, <1>2, <1>3, <2>5, <2>6, <2>7, <2>8, TradesCleared
<1>4. CASE /\ seen' = [seen EXCEPT ![c] = IF set THEN Offers(c, d) ELSE {}]
           /\ UNCHANGED <<place, trading_with>>
  <2>1. \A x : is_trading(x)' = is_trading(x) /\ HasClient(x)' = HasClient(x)
    BY <1>2, <1>4 DEF is_trading, HasClient, charVars
  <2>2. TradersPaired'
    BY <1>2, <1>4, <2>1 DEF TradesInv, TradersPaired, charVars
  <2>3. \A x, y : Offers(x, y)' = Offers(x, y)
    BY <1>2, <1>4 DEF Offers
  <2>4. /\ seen'[c] = IF set THEN Offers(c, d) ELSE {}
        /\ \A x \in Chars \ {c} : seen'[x] = seen[x]
    BY <1>4 DEF TradesInv, HeldInv, TypeOK
  <2>5. AcceptedAsSeen'
    <3> SUFFICES ASSUME NEW x \in Chars, is_trading(x), trade_accepted'[x]
                 PROVE  seen'[x] = Offers(x, trading_with[x])
      BY <1>2, <1>4, <2>1, <2>3 DEF AcceptedAsSeen, Offers
    <3>1. CASE x = c
      BY <1>2, <2>4, <3>1
    <3>2. CASE x # c
      BY <1>2, <2>4, <3>2 DEF TradesInv, AcceptedAsSeen
    <3> QED
      BY <3>1, <3>2
  <2> QED
    BY <2>2, <2>5
<1> QED
  BY <1>3, <1>4 DEF change_trade_status

LEMMA DieKeepsTrades ==
  ASSUME TradesInv, NEW c \in Chars, die(c)
  PROVE  TradersPaired' /\ AcceptedAsSeen'
<1>1. PICK returned \in (IF is_trading(c) THEN return_traded_items(place, Traders(c)) ELSE {place}) :
        \E undone \in undo_get_item(returned, c) : place' \in Buried(undone, c)
  BY DEF die
<1>2. PICK undone \in undo_get_item(returned, c) : place' \in Buried(undone, c)
  BY <1>1
<1>3. /\ place \in [Items -> Places] /\ HeldInv
      /\ Traders(c) \subseteq Chars /\ c \in Traders(c)
  BY TradersClosed DEF TradesInv, HeldInv, TypeOK
<1>4. returned \in [Items -> Places]
  BY <1>1, <1>3, ReturnedItems
<1>5. gotten_item[c] \in Items => returned[gotten_item[c]] = Cursor
  <2>1. CASE is_trading(c)
    <3>1. returned \in return_traded_items(place, Traders(c))
      BY <1>1, <2>1
    <3>2. \A i \in Items : returned[i] = Cursor <=> place[i] = Cursor
      BY <1>3, <3>1, ReturnedKeep
    <3> QED
      BY <1>3, <3>2, HeldOnCursor
  <2>2. CASE ~is_trading(c)
    BY <1>1, <1>3, <2>2, HeldOnCursor
  <2> QED
    BY <2>1, <2>2
<1>6. undone \in [Items -> Places] /\ \A x \in Chars, i \in Items : undone[i] = Window(x) <=> returned[i] = Window(x)
  BY <1>2, <1>3, <1>4, <1>5, UndoneItems, WindowsUndone
<1>7. \A x \in Chars, i \in Items : place'[i] = Window(x) <=> undone[i] = Window(x)
  <2>1. \A x, y : Window(x) # Ground /\ Window(x) # Chest /\ Window(x) # Pack(y) /\ Window(x) # Worn(y)
    BY PlacesDiffer
  <2>2. \A i \in Items :
          IF undone[i] \in {Worn(c), Pack(c)}
          THEN \/ place'[i] \in {Chest, Ground, Pack(c)}
               \/ place'[i] = undone[i]
          ELSE place'[i] = undone[i]
    BY <1>2, <1>6, BuriedItems
  <2> QED
    BY <2>1, <2>2
<1>8. UNCHANGED <<amount, trade_accepted>> /\ \A x \in Chars \ {c} : LiveOn(x)
  BY DEF die, LiveOn, HasClient, TradesInv, HeldInv, TypeOK
<1>9. CASE is_trading(c)
  <2>1. returned \in return_traded_items(place, Traders(c)) /\ ClearTrade(Traders(c))
    BY <1>1, <1>9 DEF die
  <2>2. \A x \in Chars, i \in Items : place'[i] = Window(x) <=> place[i] = Window(x) /\ x \notin Traders(c)
    BY <1>3, <1>6, <1>7, <2>1, WindowsReturned
  <2>3. \A x \in Chars \ Traders(c) : Untouched(x)
    BY <1>8, <2>2 DEF Untouched
  <2>4. \A x \in Traders(c), i \in Items : place'[i] # Window(x)
    BY <1>3, <2>2
  <2> QED
    BY <1>3, <1>8, <2>1, <2>3, <2>4, TradersClosed, TradesCleared
<1>10. CASE ~is_trading(c)
  <2>1. UNCHANGED tradeVars
    BY <1>10 DEF die, tradeVars
  <2>2. returned = place
    BY <1>1, <1>10
  <2>3. \A x \in Chars : Untouched(x)
    BY <1>6, <1>7, <1>8, <2>2 DEF Untouched
  <2> QED
    BY <1>8, <1>10, <2>1, <2>3, TradesStay
<1> QED
  BY <1>9, <1>10

LEMMA SaveKeepsTrades ==
  ASSUME TradesInv, SaveWorldState
  PROVE  TradersPaired' /\ AcceptedAsSeen'
<1>1. Interrupted \subseteq Chars
  BY DEF Interrupted
<1>2. \A c \in Interrupted : is_trading(c) => trading_with[c] \in Interrupted
  <2> SUFFICES ASSUME NEW c \in Interrupted PROVE trading_with[c] \in Interrupted
    OBVIOUS
  <2> DEFINE d == trading_with[c]
  <2>1. c \in Chars /\ d \in Chars /\ trading_with[d] = c /\ is_trading(c)
    BY DEF Interrupted, is_trading, TradesInv, HeldInv, TypeOK, TradersPaired
  <2>2. is_trading(d) /\ Traders(c) = {c, d} /\ Traders(d) = {c, d}
    BY <2>1, ItemAssumption DEF Traders, is_trading
  <2> QED
    BY <2>1, <2>2 DEF Interrupted
<1>3. \A c \in Chars : LiveOn(c)
  BY DEF SaveWorldState, LiveOn, HasClient, charVars
<1> QED
  BY <1>1, <1>2, <1>3, ReturnsKeepTrades DEF SaveWorldState

LEMMA SessionsKeepTrades ==
  ASSUME TradesInv, NEW c \in Chars,
         resurrect(c) \/ Mismatch(c) \/ Disconnected(c) \/ disconnect_cleanup(c) \/ PreDelete(c) \/ char_select(c)
  PROVE  TradersPaired' /\ AcceptedAsSeen'
<1>1. CASE resurrect(c) \/ Mismatch(c) \/ Disconnected(c)
  <2>1. UNCHANGED <<itemVars, tradeVars>>
    BY <1>1 DEF resurrect, Mismatch, Disconnected
  <2>2. \A x \in Chars : Untouched(x)
    BY <2>1 DEF Untouched, itemVars
  <2>3. \A x \in Chars : LiveOn(x)
    BY <1>1 DEF resurrect, Mismatch, Disconnected, charVars, LiveOn, HasClient, TradesInv, HeldInv, TypeOK
  <2> QED
    BY <2>1, <2>2, <2>3, TradesStay
<1>2. CASE disconnect_cleanup(c) \/ PreDelete(c)
  <2>1. Unsettle(c) /\ UNCHANGED dead /\ \A x \in Chars \ {c} : session'[x] = session[x]
    BY <1>2 DEF disconnect_cleanup, PreDelete, TradesInv, HeldInv, TypeOK
  <2> QED
    BY <2>1, UnsettleKeepsTrades
<1>3. CASE char_select(c)
  <2>1. \A x \in Chars : Untouched(x)
    BY <1>3, UndoUntouched DEF char_select, TradesInv
  <2>2. \A x \in Chars : LiveOn(x)
    BY <1>3 DEF char_select, LiveOn, HasClient, TradesInv, HeldInv, TypeOK
  <2> QED
    BY <1>3, <2>1, <2>2, TradesStay DEF char_select
<1> QED
  BY <1>1, <1>2, <1>3

LEMMA TradesInvStays == TradesInv /\ [Next]_vars => TradesInv'
<1> SUFFICES ASSUME TradesInv, [Next]_vars PROVE TradesInv'
  OBVIOUS
<1>1. HeldInv'
  BY TypesStay, HeldStays DEF TradesInv, HeldInv
<1>2. TradersPaired' /\ AcceptedAsSeen'
  <2>1. CASE UNCHANGED vars
    BY <2>1 DEF TradesInv, TradersPaired, AcceptedAsSeen, Offers, is_trading, HasClient, vars, itemVars,
                tradeVars, charVars
  <2>2. ASSUME NEW c \in Chars, cancel_trade(c) PROVE TradersPaired' /\ AcceptedAsSeen'
    <3>1. \A x \in Chars : LiveOn(x)
      BY <2>2 DEF cancel_trade, LiveOn, HasClient, charVars
    <3> QED
      BY <2>2, <3>1, TradersClosed, ReturnsKeepTrades DEF cancel_trade
  <2>3. ASSUME NEW c \in Chars, Mismatch(c) PROVE TradersPaired' /\ AcceptedAsSeen'
    BY <2>3, SessionsKeepTrades
  <2> QED
    BY <2>1, <2>2, <2>3, GetKeepsTrades, DropsKeepTrades, OffersKeepTrades, AnswerKeepsTrades, DieKeepsTrades,
       SessionsKeepTrades, SaveKeepsTrades DEF Next
<1> QED
  BY <1>1, <1>2 DEF TradesInv

LEMMA TradesAlways == Spec => []TradesInv
<1>1. Init => TradesInv
  BY TypesInitially, HeldInitially, TradesInitially DEF TradesInv, HeldInv
<1> QED
  BY <1>1, TradesInvStays, PTL DEF Spec

\* Traders trade with each other, alive and connected, and the window of one who does
\* not trade is empty, whoever dies, disconnects, logs in again or cancels.
THEOREM TradesPaired == Spec => []TradersPaired
BY TradesAlways, PTL DEF TradesInv

\* An answer that counts is about what is in the windows now.
THEOREM AnswersCurrent == Spec => []AcceptedAsSeen
BY TradesAlways, PTL DEF TradesInv

-----------------------------------------------------------------------------
(* What an exchange and a save do *)

\* Items leave a window for nobody else's backpack.
Kept(i) == \A x \in Chars : place[i] = Window(x) => place'[i] \in {Window(x), Pack(x), Ground, Chest}

LEMMA ReturnsKept ==
  ASSUME HeldInv, NEW T, T \subseteq Chars, place' \in return_traded_items(place, T), NEW i \in Items
  PROVE  Kept(i)
<1>1. IF \E c \in T : place[i] = Window(c)
      THEN place'[i] = Ground \/ \E c \in T : place[i] = Window(c) /\ place'[i] = Pack(c)
      ELSE place'[i] = place[i]
  BY ReturnedItems DEF HeldInv, TypeOK
<1>2. \A x, y : Window(x) = Window(y) => x = y
  BY PlacesDiffer
<1> QED
  BY <1>1, <1>2 DEF Kept

LEMMA UndoKept ==
  ASSUME HeldInv, NEW c \in Chars, Undo(c), NEW i \in Items
  PROVE  Kept(i)
BY UndoUntouched DEF Kept, Untouched

LEMMA DieKept ==
  ASSUME HeldInv, NEW c \in Chars, die(c), NEW i \in Items
  PROVE  Kept(i)
<1> SUFFICES ASSUME NEW x \in Chars, place[i] = Window(x)
             PROVE  place'[i] \in {Window(x), Pack(x), Ground, Chest}
  BY DEF Kept
<1>1. PICK returned \in (IF is_trading(c) THEN return_traded_items(place, Traders(c)) ELSE {place}) :
        \E undone \in undo_get_item(returned, c) : place' \in Buried(undone, c)
  BY DEF die
<1>2. PICK undone \in undo_get_item(returned, c) : place' \in Buried(undone, c)
  BY <1>1
<1>3. place \in [Items -> Places] /\ Traders(c) \subseteq Chars
  BY TradersAre DEF HeldInv, TypeOK
<1>4. \A y, z : (Window(y) = Window(z) => y = z) /\ Window(y) # Cursor
  BY PlacesDiffer
<1>5. returned \in [Items -> Places] /\ returned[i] \in {Window(x), Pack(x), Ground}
  <2>1. CASE is_trading(c)
    <3>1. returned \in return_traded_items(place, Traders(c))
      BY <1>1, <2>1
    <3> QED
      BY <1>3, <1>4, <3>1, ReturnedItems
  <2>2. CASE ~is_trading(c)
    BY <1>1, <1>3, <2>2
  <2> QED
    BY <2>1, <2>2
<1>6. i # gotten_item[c]
  BY <1>4, HeldOnCursor
<1>7. undone \in [Items -> Places] /\ undone[i] = returned[i]
  BY <1>2, <1>5, <1>6, UndoneItems
<1>8. IF undone[i] \in {Worn(c), Pack(c)}
      THEN place'[i] \in {Chest, Ground, Pack(c)} \/ place'[i] = undone[i]
      ELSE place'[i] = undone[i]
  BY <1>2, <1>7, BuriedItems
<1>9. undone[i] = Pack(c) => Pack(c) = Pack(x)
  BY <1>5, <1>7, PlacesDiffer
<1>10. undone[i] # Worn(c)
  BY <1>5, <1>7, PlacesDiffer
<1> QED
  BY <1>5, <1>7, <1>8, <1>9, <1>10

\* The items that are dropped, worn or picked up come from no window.
LEMMA HandsKept ==
  ASSUME HeldInv, NEW c \in Chars, NEW i \in Items,
         \/ \E p \in Places : DropInto(c, p)
         \/ \E j \in Items : DropOnPile(c, j)
         \/ DropFails(c) \/ clear_gotten_item(c) \/ DropInWindow(c)
         \/ \E d \in Chars : equip_item(c, d) \/ DropOnMobile(c, d)
  PROVE  Kept(i)
<1>1. CASE Undo(c)
  BY <1>1, UndoKept
<1>2. CASE \E p : place' = [place EXCEPT ![gotten_item[c]] = p]
  <2>1. \A x : place[i] = Window(x) => i # gotten_item[c]
    BY HeldOnCursor, PlacesDiffer
  <2> QED
    BY <1>2, <2>1 DEF Kept, HeldInv, TypeOK
<1> QED
  BY <1>1, <1>2 DEF DropInto, DropOnPile, DropFails, clear_gotten_item, DropInWindow, equip_item, DropOnMobile

LEMMA GetKept ==
  ASSUME HeldInv, NEW c \in Chars, NEW j \in Items, NEW n \in 1..amount[j], get_item(c, j, n), NEW i \in Items
  PROVE  Kept(i)
<1>1. place[j] \in {Ground, Chest, Pack(c), Worn(c)}
  BY DEF get_item, MayGet, Legal
<1>2. \A x : place[j] # Window(x) /\ Nowhere # Window(x)
  BY <1>1, PlacesDiffer
<1>3. place[i] = Nowhere \/ i = j \/ place'[i] = place[i]
  BY DEF get_item, HeldInv, TypeOK
<1> QED
  BY <1>2, <1>3 DEF Kept

LEMMA MoveKept ==
  ASSUME HeldInv, NEW c \in Chars, NEW j \in Items, MoveItemToSecureTradeWin(j, c), NEW i \in Items
  PROVE  Kept(i)
<1>1. \A x : place[j] # Window(x)
  BY PlacesDiffer DEF MoveItemToSecureTradeWin
<1>2. i # j => place'[i] = place[i]
  BY DEF MoveItemToSecureTradeWin, HeldInv, TypeOK
<1> QED
  BY <1>1, <1>2 DEF Kept

\* Only an answer moves items from one's window to another one's backpack.
LEMMA OnlyAnswersExchange ==
  ASSUME TradesInv, Next, NEW i \in Items, ~Kept(i)
  PROVE  \E c \in Chars, set \in BOOLEAN : change_trade_status(c, set)
<1>1. HeldInv
  BY DEF TradesInv
<1>2. ASSUME NEW c \in Chars, cancel_trade(c) \/ disconnect_cleanup(c) \/ PreDelete(c) PROVE Kept(i)
  <2>1. Traders(c) \subseteq Chars /\ place' \in return_traded_items(place, Traders(c))
    BY <1>1, <1>2, TradersAre DEF cancel_trade, disconnect_cleanup, PreDelete, Unsettle, HeldInv
  <2> QED
    BY <1>1, <2>1, ReturnsKept
<1>3. ASSUME SaveWorldState PROVE Kept(i)
  <2>1. Interrupted \subseteq Chars /\ place' \in return_traded_items(place, Interrupted)
    BY <1>3 DEF SaveWorldState, Interrupted
  <2> QED
    BY <1>1, <2>1, ReturnsKept
<1>4. ASSUME NEW c \in Chars, char_select(c) PROVE Kept(i)
  BY <1>1, <1>4, UndoKept DEF char_select
<1>5. ASSUME UNCHANGED place PROVE Kept(i)
  BY <1>5 DEF Kept
<1>6. ASSUME NEW c \in Chars, resurrect(c) \/ Mismatch(c) \/ Disconnected(c) \/ \E d \in Chars : SecureTradeWin(c, d)
      PROVE  Kept(i)
  BY <1>5, <1>6 DEF resurrect, Mismatch, Disconnected, SecureTradeWin, itemVars
<1> QED
  BY <1>1, <1>2, <1>3, <1>4, <1>6, HandsKept, GetKept, MoveKept, DieKept DEF Next

\* The exchange: to the other's backpack, if that other had said yes to it.
LEMMA AnswerExchanges ==
  ASSUME TradesInv, NEW c \in Chars, NEW set \in BOOLEAN, change_trade_status(c, set),
         NEW i \in Items, NEW x \in Chars, NEW y \in Chars, x # y,
         place[i] = Window(x), place'[i] = Pack(y)
  PROVE  /\ trading_with[x] = y
         /\ \E e \in {x, y} : trade_accepted[e] /\ <<i, place[i], amount[i]>> \in seen[e]
<1> DEFINE d == trading_with[c]
           before == Swapped(c, d)
<1>1. d \in Chars /\ d # c /\ trading_with[d] = c /\ is_trading(c) /\ is_trading(d)
  BY ItemAssumption DEF change_trade_status, is_trading, TradesInv, HeldInv, TypeOK, TradersPaired
<1>2. \A u, v : (Window(u) = Window(v) => u = v) /\ (Pack(u) = Pack(v) => u = v) /\ Window(u) # Pack(v) /\ Ground # Pack(v)
  BY PlacesDiffer
<1>3. place' \in return_traded_items(before, {c, d}) /\ Accepted(c, d)
  BY <1>2 DEF change_trade_status
<1>4. before \in [Items -> Places]
  BY <1>1 DEF Swapped, TradesInv, HeldInv, TypeOK, Places
<1>5. IF \E u \in {c, d} : before[i] = Window(u)
      THEN place'[i] = Ground \/ \E u \in {c, d} : before[i] = Window(u) /\ place'[i] = Pack(u)
      ELSE place'[i] = before[i]
  BY <1>1, <1>3, <1>4, ReturnedItems
<1>6. before[i] = Window(y) /\ y \in {c, d}
  <2>1. before[i] = IF x = c THEN Window(d) ELSE IF x = d THEN Window(c) ELSE Window(x)
    BY <1>2 DEF Swapped
  <2> QED
    BY <1>2, <1>5, <2>1
<1>7. (x = c /\ y = d) \/ (x = d /\ y = c)
  BY <1>1, <1>2, <1>6 DEF Swapped
<1>8. trading_with[x] = y
  BY <1>1, <1>7
<1>9. trade_accepted[d]
  BY <1>1, <1>3 DEF Accepted, change_trade_status, TradesInv, HeldInv, TypeOK
<1>10. seen[d] = Offers(d, c)
  BY <1>1, <1>9 DEF TradesInv, AcceptedAsSeen
<1>11. <<i, place[i], amount[i]>> \in Offers(d, c)
  BY <1>7 DEF Offers
<1> QED
  BY <1>7, <1>8, <1>9, <1>10, <1>11

LEMMA ExchangesStep ==
  ASSUME TradesInv, [Next]_vars, NEW i \in Items,
         place[i][1] = "window", place'[i][1] = "pack", place'[i][2] # place[i][2]
  PROVE  LET c == place[i][2] d == place'[i][2]
         IN /\ trading_with[c] = d
            /\ \E e \in {c, d} : trade_accepted[e] /\ <<i, place[i], amount[i]>> \in seen[e]
<1>1. TypeOK /\ TypeOK'
  BY TypesStay DEF TradesInv, HeldInv
<1>2. PICK x \in Chars : place[i] = Window(x)
  <2>1. place[i] \in Places
    BY <1>1 DEF TypeOK
  <2> QED
    BY <2>1, PlacesDiffer DEF Places
<1>3. PICK y \in Chars : place'[i] = Pack(y)
  <2>1. place'[i] \in Places
    BY <1>1 DEF TypeOK
  <2> QED
    BY <2>1, PlacesDiffer DEF Places
<1>4. place[i][2] = x /\ place'[i][2] = y /\ x # y
  BY <1>2, <1>3, PlacesDiffer
<1>5. ~Kept(i)
  BY <1>2, <1>3, <1>4, PlacesDiffer DEF Kept
<1>6. Next
  BY <1>2, <1>3, PlacesDiffer DEF vars, itemVars
<1>7. PICK c \in Chars, set \in BOOLEAN : change_trade_status(c, set)
  BY <1>5, <1>6, OnlyAnswersExchange
<1> QED
  BY <1>2, <1>3, <1>4, <1>7, AnswerExchanges

\* Items change hands only in a trade that one had accepted, with these items in the
\* windows, before the other did.
THEOREM ExchangesAgreed == Spec => ExchangeAsAgreed
<1>1. TradesInv /\ [Next]_vars =>
        [\A i \in Items :
           place[i][1] = "window" /\ place'[i][1] = "pack" /\ place'[i][2] # place[i][2] =>
             LET c == place[i][2] d == place'[i][2]
             IN /\ trading_with[c] = d
                /\ \E e \in {c, d} : trade_accepted[e] /\ <<i, place[i], amount[i]>> \in seen[e]]_place
  BY ExchangesStep
<1> QED
  BY <1>1, TradesAlways, PTL DEF Spec, ExchangeAsAgreed

\* A save cancels the trades that would hide items from it.
LEMMA SaveWrites ==
  ASSUME TradesInv, SaveWorldState, NEW i \in Items
  PROVE  \/ place'[i] \in {Nowhere, Adrift}
         \/ Written(i)'
         \/ \E c \in Chars : place'[i] = Window(c) /\ \A d \in Traders(c) : session[d] # "playing"
<1>1. TypeOK' /\ OnCursors'
  BY TypesStay, HeldStays DEF TradesInv, HeldInv, Next
<1>2. CASE place'[i] \in {Ground, Chest} \/ \E c \in Chars : place'[i] \in {Pack(c), Worn(c)}
  BY <1>2 DEF Written
<1>3. CASE place'[i] = Cursor
  BY <1>1, <1>3 DEF OnCursors, Written
<1>4. ASSUME NEW c \in Chars, place'[i] = Window(c)
      PROVE  \A d \in Traders(c) : session[d] # "playing"
  <2>1. Interrupted \subseteq Chars /\ place \in [Items -> Places]
    BY DEF Interrupted, TradesInv, HeldInv, TypeOK
  <2>2. place[i] = Window(c) /\ c \notin Interrupted
    BY <1>4, <2>1, WindowsReturned DEF SaveWorldState
  <2>3. is_trading(c)
    BY <2>2 DEF TradesInv, TradersPaired
  <2> QED
    BY <2>2, <2>3 DEF Interrupted
<1>5. place'[i] \in Places
  BY <1>1 DEF TypeOK
<1> QED
  BY <1>2, <1>3, <1>4, <1>5 DEF Places

\* A save writes every item, but those adrift and those of trades both of whose clients
\* have gone.
THEOREM SavesComplete == Spec => SavesMissNothing
<1>1. TradesInv /\ [Next]_vars =>
        [\A i \in Items :
           \/ place'[i] \in {Nowhere, Adrift}
           \/ Written(i)'
           \/ \E c \in Chars : place'[i] = Window(c) /\ \A d \in Traders(c) : session[d] # "playing"]_saves
  <2> SUFFICES ASSUME TradesInv, [Next]_vars, saves' # saves PROVE SaveWorldState
    BY SaveWrites
  <2> QED
    BY DEF Next, vars, get_item, DropInto, DropOnPile, DropFails, Mismatch, clear_gotten_item, DropInWindow,
           equip_item, SecureTradeWin, DropOnMobile, MoveItemToSecureTradeWin, cancel_trade,
           change_trade_status, die, resurrect, Disconnected, disconnect_cleanup, PreDelete, char_select
<1> QED
  BY <1>1, TradesAlways, PTL DEF Spec, SavesMissNothing

=============================================================================
