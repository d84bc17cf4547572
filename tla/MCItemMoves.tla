---------------------------- MODULE MCItemMoves ----------------------------
(***************************************************************************)
(* Small instances of ItemMoves: two characters with two stacks of coins,  *)
(* too many for one, and a serial for what is split from them; and three   *)
(* characters with two hats, of which one is worn at a time.               *)
(***************************************************************************)
EXTENDS ItemMoves, TLC

CONSTANTS ann, bob, cid, coins, change, rest, hat, cap

World(at, number, players) ==
  [place |-> [i \in Items |-> IF i \in DOMAIN at THEN at[i] ELSE Nowhere],
   amount |-> [i \in Items |-> IF i \in DOMAIN at THEN number[i] ELSE 0],
   session |-> [c \in Chars |-> IF c \in players THEN "playing" ELSE "offline"]]

Coins ==
  World([i \in {coins, change} |-> IF i = coins THEN Chest ELSE Pack(bob)],
        [i \in {coins, change} |-> IF i = coins THEN 2 ELSE 1], {ann, bob})

Hats(carried, lying) ==
  World([i \in {carried, lying} |-> IF i = carried THEN Pack(bob) ELSE Ground],
        [i \in {carried, lying} |-> 1], {ann, bob, cid})

CoinsOrHats == {Coins, Hats(hat, cap), Hats(cap, hat)}

\* Starts knows no difference between the hats, nor does ItemMoves.
HatsAlike == Permutations({hat, cap})
=============================================================================
