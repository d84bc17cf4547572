--------------------------- MODULE ClientsProofs ---------------------------
(***************************************************************************)
(* Proofs about Clients, for any number of connections, characters and     *)
(* scripts: that an account has one session, and that, as long as nobody   *)
(* asks over another one's question, every script that waits can be        *)
(* answered.                                                               *)
(***************************************************************************)
EXTENDS Clients, FiniteSetTheorems, TLAPS

SessionTypes ==
  /\ stage \in [Conns -> Stages]
  /\ dropped \subseteq Conns
  /\ client \in [Conns -> [acct : BOOLEAN, chr : Chars \cup {NoChar}]]
  /\ chr \in [Chars -> [client : Conns \cup {NoConn}, logged_in : BOOLEAN, tcursor2 : Cursors,
                        menu : BOOLEAN]]
  /\ active \in Chars \cup {NoChar}

\* A connection has a character from char_select on, and an account as long as that.
Sessions ==
  /\ SessionTypes
  /\ OneSession
  /\ \A k \in Conns : stage[k] \in {"none", "choosing"} => client[k].chr = NoChar
  /\ \A k \in Conns : client[k].chr # NoChar \/ stage[k] = "choosing" => client[k].acct

-----------------------------------------------------------------------------
(* Sessions *)

LEMMA SessionsInitially == Init => Sessions
<1> SUFFICES ASSUME Init PROVE Sessions
  OBVIOUS
<1>1. SessionTypes
  BY DEF Init, SessionTypes, Stages, Cursors
<1>2. OneSession
  BY ClientsAssumption DEF Init, OneSession
<1> QED
  BY <1>1, <1>2 DEF Sessions, Init

\* A step that leaves who plays whom alone.
LEMMA SessionsStay ==
  ASSUME Sessions, SessionTypes', active' = active,
         \A c \in Chars : chr'[c].client = chr[c].client /\ chr'[c].logged_in = chr[c].logged_in,
         \A k \in Conns : client'[k].chr = client[k].chr /\ (client[k].acct => client'[k].acct),
         \A k \in Conns : stage'[k] \in {"none", "choosing"} => stage[k] \in {"none", "choosing"},
         \A k \in Conns : stage'[k] = "choosing" => stage[k] = "choosing" \/ client'[k].acct
  PROVE  Sessions'
<1>1. OneSession'
  BY DEF Sessions, OneSession
<1> QED
  BY <1>1 DEF Sessions

\* Scripts ask and players answer without moving anybody.
LEMMA CursorsStay ==
  ASSUME Sessions, UNCHANGED sessionVars, NEW c \in Chars,
         \/ chr' = chr
         \/ \E t \in Cursors : chr' = [chr EXCEPT ![c].tcursor2 = t]
         \/ \E m \in BOOLEAN : chr' = [chr EXCEPT ![c].menu = m]
  PROVE  Sessions'
<1> DEFINE T == [client : Conns \cup {NoConn}, logged_in : BOOLEAN, tcursor2 : Cursors, menu : BOOLEAN]
           Stays == /\ chr' \in [Chars -> T]
                    /\ \A d \in Chars : chr'[d].client = chr[d].client /\ chr'[d].logged_in = chr[d].logged_in
<1>1. Stays
  <2>1. CASE chr' = chr
    BY <2>1 DEF Sessions, SessionTypes
  <2>2. ASSUME NEW t \in Cursors, chr' = [chr EXCEPT ![c].tcursor2 = t] PROVE Stays
    BY <2>2 DEF Sessions, SessionTypes
  <2>3. ASSUME NEW m \in BOOLEAN, chr' = [chr EXCEPT ![c].menu = m] PROVE Stays
    BY <2>3 DEF Sessions, SessionTypes
  <2> QED
    BY <2>1, <2>2, <2>3
<1>2. SessionTypes'
  BY <1>1 DEF Sessions, SessionTypes, sessionVars
<1> QED
  BY <1>1, <1>2, SessionsStay DEF sessionVars

LEMMA AsksKeepSessions ==
  ASSUME Sessions, NEW c \in Chars, send_object_cursor(c) \/ \E s \in Scripts : Ask(s, c)
  PROVE  Sessions'
<1>1. UNCHANGED sessionVars
  BY DEF Ask, mf_Target, mf_SelectMenuItem, mf_PromptInput, mf_RequestInputUC, mf_SendTextEntryGump,
         mf_SendInstaResDialog, mf_SelectColor, mf_SendDialogGump, send_object_cursor, Crash
<1>2. \/ chr' = chr
      \/ \E t \in Cursors : chr' = [chr EXCEPT ![c].tcursor2 = t]
      \/ \E m \in BOOLEAN : chr' = [chr EXCEPT ![c].menu = m]
  BY DEF Ask, mf_Target, mf_SelectMenuItem, mf_PromptInput, mf_RequestInputUC, mf_SendTextEntryGump,
         mf_SendInstaResDialog, mf_SelectColor, mf_SendDialogGump, send_object_cursor, Crash, Cursors
<1> QED
  BY <1>1, <1>2, CursorsStay


LEMMA AnswersKeepSessions ==
  ASSUME Sessions, NEW k \in Conns,
         \/ \E cursor \in {"script", "core"} : handle_target_cursor(k, cursor)
         \/ handle_menu_selection(k)
         \/ \E kind \in Kinds : HandleAnswer(k, kind)
         \/ \E s \in Scripts : gumpbutton_handler(k, s)
  PROVE  Sessions'
<1>1. client[k].chr \in Chars
  BY DEF handle_target_cursor, handle_menu_selection, HandleAnswer, gumpbutton_handler, Plays,
         Sessions, SessionTypes
<1>2. UNCHANGED sessionVars
  BY DEF handle_target_cursor, handle_menu_selection, HandleAnswer, gumpbutton_handler, clear_gumphandler
<1>3. \/ chr' = chr
      \/ \E t \in Cursors : chr' = [chr EXCEPT ![client[k].chr].tcursor2 = t]
      \/ \E m \in BOOLEAN : chr' = [chr EXCEPT ![client[k].chr].menu = m]
  BY DEF handle_target_cursor, handle_menu_selection, HandleAnswer, gumpbutton_handler, clear_gumphandler,
         Cursors
<1> QED
  BY <1>1, <1>2, <1>3, CursorsStay

LEMMA ScriptsKeepSessions ==
  ASSUME Sessions,
         \/ \E s \in Scripts : Kill(s) \/ Delete(s) \/ start_script(s)
         \/ \E s, by \in Scripts, c \in Known : mf_CloseGump(by, c, s)
         \/ UNCHANGED vars
  PROVE  Sessions'
<1>1. UNCHANGED <<stage, dropped, client, active, chr>>
  BY DEF Kill, Delete, start_script, mf_CloseGump, clear_gumphandler, Crash, sessionVars, vars
<1> QED
  BY <1>1 DEF Sessions, SessionTypes, OneSession

\* The connection's thread, up to PreDelete, and what happens to the connection.
LEMMA ThreadsKeepSessions ==
  ASSUME Sessions, NEW k \in Conns,
         \/ login2(k) \/ Drop(k) \/ (\E c \in Chars : SelectRefused(k, c))
         \/ Disconnect(k) \/ CheckChr(k) \/ disconnect_cleanup(k) \/ Logoff(k)
  PROVE  Sessions'
<1>1. CASE login2(k)
  <2>1. SessionTypes' /\ \A j \in Conns : client'[j].chr = client[j].chr /\ (client[j].acct => client'[j].acct)
    BY <1>1 DEF login2, Sessions, SessionTypes, Stages
  <2>2. /\ stage[k] = "none" /\ client'[k].acct
        /\ \A j \in Conns \ {k} : stage'[j] = stage[j]
    BY <1>1 DEF login2, Sessions, SessionTypes
  <2> QED
    BY <1>1, <2>1, <2>2, SessionsStay DEF login2
<1>2. CASE Drop(k) \/ \E c \in Chars : SelectRefused(k, c)
  <2>1. SessionTypes'
    BY <1>2 DEF Drop, SelectRefused, Sessions, SessionTypes
  <2> QED
    BY <1>2, <2>1, SessionsStay DEF Drop, SelectRefused
<1>3. CASE Disconnect(k) \/ CheckChr(k) \/ Logoff(k)
  <2>1. SessionTypes'
    BY <1>3 DEF Disconnect, CheckChr, Logoff, Sessions, SessionTypes, Stages
  <2>2. \A j \in Conns : stage'[j] = stage[j] \/ stage'[j] \notin {"none", "choosing"}
    BY <1>3 DEF Disconnect, CheckChr, Logoff, Sessions, SessionTypes
  <2> QED
    BY <1>3, <2>1, <2>2, SessionsStay DEF Disconnect, CheckChr, Logoff
<1>4. CASE disconnect_cleanup(k)
  <2>1. CASE client[k].chr = NoChar
    <3>1. UNCHANGED <<stage, dropped, client, active, chr>>
      BY <1>4, <2>1 DEF disconnect_cleanup, Crash, sessionVars
    <3> QED
      BY <3>1 DEF Sessions, SessionTypes, OneSession
  <2>2. CASE client[k].chr # NoChar
    <3> DEFINE c == client[k].chr
    <3>1. c \in Chars
      BY <2>2 DEF Sessions, SessionTypes
    <3>2. /\ chr' = [chr EXCEPT ![c].tcursor2 = "none"]
          /\ stage' = [stage EXCEPT ![k] = "lingering"]
          /\ UNCHANGED <<dropped, client, active>>
      BY <1>4, <2>2 DEF disconnect_cleanup
    <3> HIDE DEF c
    <3>3. /\ SessionTypes'
          /\ \A d \in Chars : chr'[d].client = chr[d].client /\ chr'[d].logged_in = chr[d].logged_in
          /\ \A j \in Conns : stage'[j] = stage[j] \/ stage'[j] \notin {"none", "choosing"}
      BY <3>1, <3>2 DEF Sessions, SessionTypes, Stages, Cursors
    <3> QED
      BY <3>2, <3>3, SessionsStay
  <2> QED
    BY <2>1, <2>2
<1> QED
  BY <1>1, <1>2, <1>3, <1>4

LEMMA SelectKeepsSessions ==
  ASSUME Sessions, NEW k \in Conns, NEW c \in Chars, char_select(k, c)
  PROVE  Sessions'
<1> USE ClientsAssumption
<1> DEFINE old == chr[c].client
<1>1. /\ stage[k] = "choosing" /\ client[k].chr = NoChar
      /\ active \in {NoChar, c}
  BY DEF char_select, Sessions
<1>2. (active = c <=> old # NoConn) /\ (old # NoConn => old \in Conns /\ client[old].chr = c)
  BY DEF Sessions, SessionTypes, OneSession
<1>3. old # k
  BY <1>1, <1>2
<1>4. /\ active' = c
      /\ chr' = [chr EXCEPT ![c].client = k, ![c].logged_in = TRUE]
      /\ stage' = [stage EXCEPT ![k] = "playing"]
      /\ dropped' \subseteq Conns
      /\ client' = [j \in Conns |->
           IF j = old THEN [acct |-> FALSE, chr |-> NoChar]
           ELSE IF j = k THEN [client[k] EXCEPT !.chr = c] ELSE client[j]]
  BY <1>2 DEF char_select, Sessions, SessionTypes
<1> HIDE DEF old
<1>5. SessionTypes'
  <2>1. chr' \in [Chars -> [client : Conns \cup {NoConn}, logged_in : BOOLEAN, tcursor2 : Cursors,
                           menu : BOOLEAN]]
    BY <1>4 DEF Sessions, SessionTypes
  <2>2. client' \in [Conns -> [acct : BOOLEAN, chr : Chars \cup {NoChar}]]
    <3>1. ASSUME NEW j \in Conns PROVE client'[j] \in [acct : BOOLEAN, chr : Chars \cup {NoChar}]
      <4>1. client[k] \in [acct : BOOLEAN, chr : Chars \cup {NoChar}]
            /\ client[j] \in [acct : BOOLEAN, chr : Chars \cup {NoChar}]
        BY DEF Sessions, SessionTypes
      <4>2. [client[k] EXCEPT !.chr = c] \in [acct : BOOLEAN, chr : Chars \cup {NoChar}]
        BY <4>1
      <4> QED
        BY <1>4, <4>1, <4>2
    <3> QED
      BY <1>4, <3>1
  <2>3. stage' \in [Conns -> Stages]
    BY <1>4 DEF Sessions, SessionTypes, Stages
  <2> QED
    BY <1>4, <2>1, <2>2, <2>3 DEF SessionTypes
<1>6. /\ chr'[c].client = k /\ chr'[c].logged_in
      /\ \A d \in Chars \ {c} : chr'[d] = chr[d]
      /\ client'[k].chr = c
      /\ \A j \in Conns : client'[j].acct = client[j].acct \/ client'[j].chr = NoChar
      /\ \A j \in Conns \ {k} : client'[j].chr = IF j = old THEN NoChar ELSE client[j].chr
  BY <1>3, <1>4 DEF Sessions, SessionTypes
<1>7. OneSession'
  <2>1. ASSUME NEW d \in Chars
        PROVE  /\ chr'[d].logged_in <=> active' = d
               /\ chr'[d].logged_in <=> chr'[d].client # NoConn
               /\ \A j \in Conns : client'[j].chr = d <=> chr'[d].client = j
    <3>1. CASE d = c
      <4>1. \A j \in Conns : client[j].chr = c <=> old = j
        BY DEF old, Sessions, OneSession
      <4>2. ASSUME NEW j \in Conns PROVE client'[j].chr = c <=> j = k
        <5>1. CASE j = k
          BY <1>6, <5>1
        <5>2. CASE j # k
          BY <1>6, <4>1, <5>2
        <5> QED
          BY <5>1, <5>2
      <4>3. k # NoConn /\ chr'[c].client = k /\ chr'[c].logged_in /\ active' = c
        BY <1>4, <1>6
      <4> QED
        BY <3>1, <4>2, <4>3
    <3>2. CASE d # c
      <4>1. /\ chr[d].logged_in <=> active = d
            /\ chr[d].logged_in <=> chr[d].client # NoConn
            /\ \A j \in Conns : client[j].chr = d <=> chr[d].client = j
        BY DEF Sessions, OneSession
      <4>2. ~chr[d].logged_in /\ chr[d].client = NoConn
        BY <1>1, <3>2, <4>1
      <4> QED
        BY <1>4, <1>6, <3>2, <4>1, <4>2
    <3> QED
      BY <3>1, <3>2
  <2> QED
    BY <2>1 DEF OneSession
<1>8. client[k].acct
  BY <1>1 DEF Sessions
<1>9. \A j \in Conns : stage'[j] = (IF j = k THEN "playing" ELSE stage[j])
  BY <1>4 DEF Sessions, SessionTypes
<1>10. ASSUME NEW j \in Conns, client'[j].chr # NoChar \/ stage'[j] = "choosing"
       PROVE  client'[j].acct
  <2>1. CASE j = k
    BY <1>3, <1>4, <1>8, <2>1 DEF Sessions, SessionTypes
  <2>2. CASE j = old
    <3>1. stage[j] # "choosing"
      BY <1>1, <1>2, <2>2 DEF Sessions
    <3> QED
      BY <1>3, <1>6, <1>9, <1>10, <2>2, <3>1
  <2>3. CASE j \notin {k, old}
    BY <1>4, <1>6, <1>9, <1>10, <2>3 DEF Sessions
  <2> QED
    BY <2>1, <2>2, <2>3
<1>11. ASSUME NEW j \in Conns, stage'[j] \in {"none", "choosing"} PROVE client'[j].chr = NoChar
  BY <1>6, <1>9, <1>11 DEF Sessions
<1> QED
  BY <1>5, <1>7, <1>10, <1>11 DEF Sessions

LEMMA PreDeleteKeepsSessions ==
  ASSUME Sessions, NEW k \in Conns, PreDelete(k)
  PROVE  Sessions'
<1> USE ClientsAssumption
<1> DEFINE c == client[k].chr
           out == {d \in Chars : client[k].acct /\ active = d /\ chr[d].client = k}
<1>1. out = IF c = NoChar THEN {} ELSE {c}
  BY DEF Sessions, SessionTypes, OneSession
<1>2. /\ chr' = [d \in Chars |->
           [chr[d] EXCEPT !.logged_in = @ /\ d \notin out,
                          !.tcursor2 = IF d \in out THEN "none" ELSE @,
                          !.client = IF d = client[k].chr /\ @ = k THEN NoConn ELSE @]]
      /\ active' = IF out # {} THEN NoChar ELSE active
      /\ client' = [client EXCEPT ![k] = [acct |-> FALSE, chr |-> NoChar]]
      /\ stage' = [stage EXCEPT ![k] = "none"]
      /\ dropped' \subseteq Conns
  BY DEF PreDelete, Sessions, SessionTypes
<1>3. ASSUME NEW d \in Chars
      PROVE  /\ chr'[d] \in [client : Conns \cup {NoConn}, logged_in : BOOLEAN, tcursor2 : Cursors,
                             menu : BOOLEAN]
             /\ d = c => chr'[d].client = NoConn /\ ~chr'[d].logged_in
             /\ d # c => chr'[d].client = chr[d].client /\ chr'[d].logged_in = chr[d].logged_in
  <2>1. chr[d] \in [client : Conns \cup {NoConn}, logged_in : BOOLEAN, tcursor2 : Cursors, menu : BOOLEAN]
    BY DEF Sessions, SessionTypes
  <2>2. d = c => chr[d].client = k
    BY DEF Sessions, OneSession
  <2>3. d \in out <=> d = c
    BY <1>1
  <2> HIDE DEF out
  <2>4. chr'[d] = [chr[d] EXCEPT !.logged_in = @ /\ d # c,
                                 !.tcursor2 = IF d = c THEN "none" ELSE @,
                                 !.client = IF d = c THEN NoConn ELSE @]
    BY <1>2, <2>2, <2>3
  <2> HIDE DEF c
  <2>5. CASE d = c
    <3>1. chr'[d] = [chr[d] EXCEPT !.logged_in = FALSE, !.tcursor2 = "none", !.client = NoConn]
      BY <2>1, <2>4, <2>5
    <3> QED
      BY <2>1, <2>5, <3>1 DEF Cursors
  <2>6. CASE d # c
    <3>1. chr'[d] = [chr[d] EXCEPT !.logged_in = chr[d].logged_in, !.tcursor2 = chr[d].tcursor2,
                                   !.client = chr[d].client]
      BY <2>1, <2>4, <2>6
    <3> QED
      BY <2>1, <2>6, <3>1
  <2> QED
    BY <2>5, <2>6
<1>4. active' = IF c = NoChar THEN active ELSE NoChar
  BY <1>1, <1>2
<1> HIDE DEF out
<1>5. SessionTypes'
  <2>1. chr' \in [Chars -> [client : Conns \cup {NoConn}, logged_in : BOOLEAN, tcursor2 : Cursors,
                           menu : BOOLEAN]]
    BY <1>2, <1>3
  <2> QED
    BY <1>2, <1>4, <2>1 DEF Sessions, SessionTypes, Stages
<1>6. /\ client'[k].chr = NoChar
      /\ \A j \in Conns \ {k} : client'[j] = client[j]
  BY <1>2 DEF Sessions, SessionTypes
<1>7. /\ stage'[k] = "none"
      /\ \A j \in Conns \ {k} : stage'[j] = stage[j]
  BY <1>2 DEF Sessions, SessionTypes
<1>8. c # NoChar => c \in Chars /\ chr[c].client = k /\ active = c
  BY DEF Sessions, SessionTypes, OneSession
<1> HIDE DEF c
<1>9. ASSUME NEW d \in Chars
      PROVE  /\ chr'[d].logged_in <=> active' = d
             /\ chr'[d].logged_in <=> chr'[d].client # NoConn
             /\ \A j \in Conns : client'[j].chr = d <=> chr'[d].client = j
  <2>1. /\ chr[d].logged_in <=> active = d
        /\ chr[d].logged_in <=> chr[d].client # NoConn
        /\ \A j \in Conns : client[j].chr = d <=> chr[d].client = j
    BY DEF Sessions, OneSession
  <2>2. CASE d = c
    <3>1. chr'[d].client = NoConn /\ ~chr'[d].logged_in /\ active' = NoChar
      BY <1>3, <1>4, <2>2
    <3>2. ASSUME NEW j \in Conns PROVE client'[j].chr # d
      <4>1. CASE j = k
        BY <1>6, <4>1
      <4>2. CASE j # k
        <5>1. chr[d].client = k
          BY <1>8, <2>2
        <5>2. client[j].chr # d
          BY <2>1, <4>2, <5>1
        <5> QED
          BY <1>6, <4>2, <5>2
      <4> QED
        BY <4>1, <4>2
    <3> QED
      BY <3>1, <3>2
  <2>3. CASE d # c
    <3>1. /\ chr'[d].client = chr[d].client /\ chr'[d].logged_in = chr[d].logged_in
      BY <1>3, <2>3
    <3>2. active' = d <=> active = d
      BY <1>4, <1>8, <2>3
    <3>3. chr[d].client # k
      BY <2>1, <2>3 DEF c
    <3>4. ASSUME NEW j \in Conns PROVE client'[j].chr = d <=> chr[d].client = j
      BY <1>6, <2>1, <3>3
    <3> QED
      BY <2>1, <3>1, <3>2, <3>4
  <2> QED
    BY <2>2, <2>3
<1> QED
  BY <1>5, <1>6, <1>7, <1>9 DEF Sessions, OneSession

LEMMA SessionsKept == Sessions /\ [Next]_vars => Sessions'
<1> SUFFICES ASSUME Sessions, [Next]_vars PROVE Sessions'
  OBVIOUS
<1>1. ASSUME NEW s \in Scripts, NEW c \in Known, Ask(s, c) PROVE Sessions'
  BY <1>1, AsksKeepSessions, ClientsAssumption
<1>2. CASE \E c \in Chars : send_object_cursor(c)
  BY <1>2, AsksKeepSessions
<1>3. CASE \/ \E k \in Conns, cursor \in {"script", "core"} : handle_target_cursor(k, cursor)
           \/ \E k \in Conns : handle_menu_selection(k)
           \/ \E k \in Conns, kind \in Kinds \ {"target", "menu", "gump"} : HandleAnswer(k, kind)
           \/ \E k \in Conns, s \in Scripts : gumpbutton_handler(k, s)
  BY <1>3, AnswersKeepSessions
<1>4. CASE \/ \E s \in Scripts : Kill(s) \/ Delete(s) \/ start_script(s)
           \/ \E s, by \in Scripts, c \in Known : mf_CloseGump(by, c, s)
           \/ Gone \/ UNCHANGED vars
  BY <1>4, ScriptsKeepSessions DEF Gone
<1>5. CASE \E k \in Conns : login2(k) \/ Drop(k) \/ ClientThread(k)
  BY <1>5, ThreadsKeepSessions, PreDeleteKeepsSessions DEF ClientThread
<1>6. CASE \E k \in Conns, c \in Chars : char_select(k, c) \/ SelectRefused(k, c)
  BY <1>6, ThreadsKeepSessions, SelectKeepsSessions
<1> QED
  BY <1>1, <1>2, <1>3, <1>4, <1>5, <1>6 DEF Next

\* However connections drop, are taken apart and are replaced by the next one meanwhile,
\* a character in the world is its account's active one, and it and one client point at
\* each other.
THEOREM SessionIsOne == Spec => []OneSession
<1>1. Spec => []Sessions
  BY SessionsInitially, SessionsKept, PTL DEF Spec
<1>2. Sessions => OneSession
  BY DEF Sessions
<1> QED
  BY <1>1, <1>2, PTL

-----------------------------------------------------------------------------
(* Who asks: types, and one script at a time *)

Script == [state : {"running", "waiting", "dying", "gone"}, kind : Kinds \cup {"none"},
           of : Chars \cup {NoChar}]

AskTypes ==
  /\ gd \in [Conns -> SUBSET (Kinds \X Scripts)]
  /\ screen \in [Conns -> SUBSET [cursor : Cursors, by : Scripts \cup {NoScript}]]
  /\ script \in [Scripts -> Script]
  /\ crashed \in BOOLEAN

\* Two requests that may not wait at the same connection.
Rivals(x, y) == (x = y /\ x # "gump") \/ (x = "prompt" /\ y = "uniprompt")

Single ==
  \A k \in Conns, x, y \in Kinds, s, t \in Scripts :
    <<x, s>> \in gd[k] /\ <<y, t>> \in gd[k] /\ Rivals(x, y) => x = y /\ s = t

AskInv == AskTypes /\ Single

LEMMA AskInitially == Init => AskInv
<1>1. Idle \in Script
  BY DEF Idle, Script
<1>2. Init => AskTypes
  BY <1>1 DEF Init, AskTypes
<1>3. Init => Single
  BY DEF Init, Single
<1> QED
  BY <1>2, <1>3 DEF AskInv

LEMMA RevivedTypes ==
  ASSUME script \in [Scripts -> Script], NEW those
  PROVE  Revived(those) \in [Scripts -> Script]
<1>1. ASSUME NEW s \in Scripts
      PROVE  [Idle EXCEPT !.state = IF script[s].state = "dying" THEN "dying" ELSE "running"] \in Script
  <2>1. Idle \in Script
    BY DEF Idle, Script
  <2> QED
    BY <2>1 DEF Script
<1> QED
  BY <1>1 DEF Revived

\* A step that takes requests back.
LEMMA FewerAsk ==
  ASSUME AskInv, \A k \in Conns : gd'[k] \subseteq gd[k]
  PROVE  Single'
BY DEF AskInv, Single

LEMMA SuspendKeeps ==
  ASSUME Sessions, AskInv, NEW s \in Scripts, NEW c \in Chars, NEW kind \in Kinds,
         chr[c].client # NoConn, Suspend(s, kind, c),
         kind = "prompt" => Asked(chr[c].client, "uniprompt") = {},
         kind = "uniprompt" => Asked(chr[c].client, "prompt") = {}
  PROVE  gd' \in [Conns -> SUBSET (Kinds \X Scripts)] /\ script' \in [Scripts -> Script] /\ Single'
<1> DEFINE k == chr[c].client
           kept == {a \in gd[k] : a[1] = "gump" \/ a[1] # kind}
<1>1. k \in Conns
  BY DEF Sessions, SessionTypes
<1>2. gd' = [gd EXCEPT ![k] = kept \cup {<<kind, s>>}]
  BY DEF Suspend
<1>3. script' = [script EXCEPT ![s] = [state |-> "waiting", kind |-> kind, of |-> c]]
  BY DEF Suspend
<1>4. [state |-> "waiting", kind |-> kind, of |-> c] \in Script
  BY DEF Script
<1>5. script' \in [Scripts -> Script]
  BY <1>3, <1>4 DEF AskInv, AskTypes
<1>6. gd' \in [Conns -> SUBSET (Kinds \X Scripts)]
  BY <1>1, <1>2 DEF AskInv, AskTypes
<1>7. ASSUME NEW x \in Kinds, NEW t \in Scripts, <<x, t>> \in kept
      PROVE  /\ <<x, t>> \in gd[k]
             /\ ~Rivals(x, kind) /\ ~Rivals(kind, x)
  <2>1. <<x, t>> \in gd[k] /\ (x = "gump" \/ x # kind)
    BY <1>7
  <2>2. t \in Asked(k, x)
    BY <2>1 DEF Asked
  <2> QED
    BY <2>1, <2>2 DEF Rivals
<1>8. ASSUME NEW j \in Conns, NEW x \in Kinds, NEW y \in Kinds, NEW t \in Scripts, NEW u \in Scripts,
             <<x, t>> \in gd'[j], <<y, u>> \in gd'[j], Rivals(x, y)
      PROVE  x = y /\ t = u
  <2>1. CASE j # k
    BY <1>1, <1>2, <1>8, <2>1 DEF AskInv, AskTypes, Single
  <2>2. CASE j = k
    <3>1. gd'[k] = kept \cup {<<kind, s>>}
      BY <1>1, <1>2 DEF AskInv, AskTypes
    <3>2. /\ <<x, t>> \in kept \/ (x = kind /\ t = s)
          /\ <<y, u>> \in kept \/ (y = kind /\ u = s)
      BY <1>8, <2>2, <3>1
    <3>3. CASE <<x, t>> \in kept /\ <<y, u>> \in kept
      BY <1>1, <1>7, <1>8, <3>3 DEF AskInv, Single
    <3>4. CASE <<x, t>> \in kept /\ y = kind
      BY <1>7, <1>8, <3>4
    <3>5. CASE <<y, u>> \in kept /\ x = kind
      BY <1>7, <1>8, <3>5
    <3>6. CASE x = kind /\ t = s /\ y = kind /\ u = s
      BY <3>6
    <3> QED
      BY <3>2, <3>3, <3>4, <3>5, <3>6
  <2> QED
    BY <2>1, <2>2
<1> QED
  BY <1>5, <1>6, <1>8 DEF Single

LEMMA AsksKeepTypes ==
  ASSUME Sessions, AskInv, NEW s \in Scripts, NEW c \in Known, Ask(s, c)
  PROVE  AskInv'
<1>0. c \in Chars
  BY ClientsAssumption
<1>1. CASE UNCHANGED <<gd, screen, script>> /\ crashed' = TRUE
  BY <1>1 DEF AskInv, AskTypes, Single
<1>2. ASSUME ~(UNCHANGED <<gd, screen, script>> /\ crashed' = TRUE)
      PROVE  \E kind \in Kinds :
               /\ chr[c].client # NoConn /\ Suspend(s, kind, c) /\ crashed' = crashed
               /\ kind = "prompt" => Asked(chr[c].client, "uniprompt") = {}
               /\ kind = "uniprompt" => Asked(chr[c].client, "prompt") = {}
  <2> USE DEF has_active_client, has_active_prompt, Kinds, sessionVars
  <2>1. CASE mf_Target(s, c) \/ mf_SelectMenuItem(s, c)
    BY <1>2, <2>1 DEF mf_Target, mf_SelectMenuItem, Crash
  <2>2. CASE mf_PromptInput(s, c) \/ mf_RequestInputUC(s, c)
    BY <2>2 DEF mf_PromptInput, mf_RequestInputUC
  <2>3. CASE mf_SendTextEntryGump(s, c) \/ mf_SendInstaResDialog(s, c)
    BY <2>3 DEF mf_SendTextEntryGump, mf_SendInstaResDialog
  <2>4. CASE mf_SelectColor(s, c) \/ mf_SendDialogGump(s, c)
    BY <2>4 DEF mf_SelectColor, mf_SendDialogGump
  <2> QED
    BY <2>1, <2>2, <2>3, <2>4 DEF Ask
<1>3. screen' = screen \/ screen' = [screen EXCEPT ![chr[c].client] = @ \cup {[cursor |-> "script", by |-> s]}]
  BY DEF Ask, mf_Target, mf_SelectMenuItem, mf_PromptInput, mf_RequestInputUC, mf_SendTextEntryGump,
         mf_SendInstaResDialog, mf_SelectColor, mf_SendDialogGump, Crash
<1>4. screen' \in [Conns -> SUBSET [cursor : Cursors, by : Scripts \cup {NoScript}]]
  BY <1>3 DEF AskInv, AskTypes, Cursors
<1>5. CASE ~(UNCHANGED <<gd, screen, script>> /\ crashed' = TRUE)
  BY <1>0, <1>2, <1>4, <1>5, SuspendKeeps DEF AskInv, AskTypes
<1> QED
  BY <1>1, <1>5

\* Some of those who ask for one thing at a connection are answered.
Answered(k, kind, those) ==
  /\ kind \in Kinds /\ those \subseteq Asked(k, kind)
  /\ gd' = [gd EXCEPT ![k] = @ \ {<<kind, s>> : s \in those}]
  /\ script' = Revived(those)
  /\ screen' \in [Conns -> SUBSET [cursor : Cursors, by : Scripts \cup {NoScript}]]
  /\ UNCHANGED <<sessionVars, crashed>>
  /\ \A d \in Chars :
       /\ chr'[d].client = chr[d].client
       /\ chr'[d].menu = chr[d].menu \/ (d = client[k].chr /\ kind = "menu" /\ those = Asked(k, kind))

LEMMA Answering ==
  ASSUME Sessions, AskInv, NEW k \in Conns,
         \/ \E cursor \in {"script", "core"} : handle_target_cursor(k, cursor)
         \/ handle_menu_selection(k)
         \/ \E kind \in Kinds \ {"target", "menu", "gump"} : HandleAnswer(k, kind)
         \/ \E s \in Scripts : gumpbutton_handler(k, s)
  PROVE  \E kind, those : Answered(k, kind, those)
<1>1. ASSUME NEW cursor \in {"script", "core"}, handle_target_cursor(k, cursor)
      PROVE  Answered(k, "target", Told(k, cursor))
  <2>1. "target" \in Kinds /\ Told(k, cursor) \subseteq Asked(k, "target")
    BY DEF Kinds, Told
  <2>2. screen' \in [Conns -> SUBSET [cursor : Cursors, by : Scripts \cup {NoScript}]]
    BY <1>1 DEF handle_target_cursor, AskInv, AskTypes
  <2>3. \A d \in Chars : chr'[d].client = chr[d].client /\ chr'[d].menu = chr[d].menu
    BY <1>1 DEF handle_target_cursor, Sessions, SessionTypes
  <2> QED
    BY <1>1, <2>1, <2>2, <2>3 DEF handle_target_cursor, Answered
<1>2. ASSUME NEW kind \in Kinds, gd' = [gd EXCEPT ![k] = @ \ {<<kind, s>> : s \in Scripts}]
      PROVE  gd' = [gd EXCEPT ![k] = @ \ {<<kind, s>> : s \in Asked(k, kind)}]
  <2>1. gd[k] \ {<<kind, s>> : s \in Scripts} = gd[k] \ {<<kind, s>> : s \in Asked(k, kind)}
    BY DEF Asked
  <2> QED
    BY <1>2, <2>1
<1>3. CASE handle_menu_selection(k)
  <2>1. "menu" \in Kinds
    BY DEF Kinds
  <2>2. \A d \in Chars : /\ chr'[d].client = chr[d].client
                         /\ chr'[d].menu = chr[d].menu \/ d = client[k].chr
    BY <1>3 DEF handle_menu_selection, Sessions, SessionTypes
  <2>3. Answered(k, "menu", Asked(k, "menu"))
    BY <1>2, <1>3, <2>1, <2>2 DEF handle_menu_selection, Answered, AskInv, AskTypes
  <2> QED
    BY <2>3
<1>4. ASSUME NEW kind \in Kinds, HandleAnswer(k, kind) PROVE Answered(k, kind, Asked(k, kind))
  BY <1>2, <1>4 DEF HandleAnswer, Answered, AskInv, AskTypes
<1>5. ASSUME NEW s \in Scripts, gumpbutton_handler(k, s) PROVE Answered(k, "gump", {s})
  <2>1. {<<"gump", t>> : t \in {s}} = {<<"gump", s>>}
    OBVIOUS
  <2> QED
    BY <1>5, <2>1 DEF gumpbutton_handler, clear_gumphandler, Answered, AskInv, AskTypes, Kinds
<1> QED
  BY <1>1, <1>3, <1>4, <1>5

LEMMA Closing ==
  ASSUME Sessions, AskInv, NEW s \in Scripts, NEW by \in Scripts, NEW c \in Known, mf_CloseGump(by, c, s)
  PROVE  chr[c].client \in Conns /\ Answered(chr[c].client, "gump", {s})
<1>1. chr[c].client \in Conns
  BY ClientsAssumption DEF mf_CloseGump, has_active_client, Sessions, SessionTypes
<1>2. {<<"gump", t>> : t \in {s}} = {<<"gump", s>>}
  OBVIOUS
<1> QED
  BY <1>1, <1>2 DEF mf_CloseGump, clear_gumphandler, Answered, AskInv, AskTypes, Kinds

\* All those who ask at some connections are freed, as players leave them.
Freed(D) ==
  /\ D \subseteq Conns
  /\ gd' = [j \in Conns |-> IF j \in D THEN {} ELSE gd[j]]
  /\ script' = Revived(UNION {InGd(j) : j \in D})
  /\ UNCHANGED <<screen, crashed>>
  /\ \A d \in Chars : /\ chr'[d].client = chr[d].client \/ chr[d].client \in D \cup {NoConn}
                      /\ chr'[d].menu = chr[d].menu
  /\ \A j \in Conns \ D : client'[j].chr = client[j].chr \/ client[j].chr = NoChar

LEMMA Freeing ==
  ASSUME Sessions, AskInv, NEW k \in Conns,
         \/ disconnect_cleanup(k) /\ client[k].chr # NoChar
         \/ PreDelete(k)
         \/ \E c \in Chars : char_select(k, c)
  PROVE  \E D : Freed(D)
<1>0. gd = [j \in Conns |-> gd[j]] /\ UNION {InGd(j) : j \in {k}} = InGd(k)
  BY DEF AskInv, AskTypes
<1>1. CASE disconnect_cleanup(k) /\ client[k].chr # NoChar
  <2>1. /\ gd' = Cleared(k) /\ script' = Revived(InGd(k))
        /\ UNCHANGED <<client, screen, crashed>>
        /\ chr' = [chr EXCEPT ![client[k].chr].tcursor2 = "none"]
    BY <1>1 DEF disconnect_cleanup
  <2>2. gd' = [j \in Conns |-> IF j \in {k} THEN {} ELSE gd[j]]
    BY <1>0, <2>1 DEF Cleared
  <2>3. \A d \in Chars : chr'[d].client = chr[d].client /\ chr'[d].menu = chr[d].menu
    BY <2>1 DEF Sessions, SessionTypes
  <2>4. Freed({k})
    BY <1>0, <2>1, <2>2, <2>3 DEF Freed
  <2> QED
    BY <2>4
<1>2. CASE PreDelete(k)
  <2>1. /\ gd' = Cleared(k) /\ script' = Revived(InGd(k))
        /\ UNCHANGED <<screen, crashed>>
        /\ client' = [client EXCEPT ![k] = [acct |-> FALSE, chr |-> NoChar]]
    BY <1>2 DEF PreDelete
  <2>2. gd' = [j \in Conns |-> IF j \in {k} THEN {} ELSE gd[j]]
    BY <1>0, <2>1 DEF Cleared
  <2>3. ASSUME NEW d \in Chars
        PROVE  /\ chr'[d].client = chr[d].client \/ chr[d].client = k
               /\ chr'[d].menu = chr[d].menu
    <3>1. PICK l, t : chr'[d] = [chr[d] EXCEPT !.logged_in = l, !.tcursor2 = t,
                                  !.client = IF d = client[k].chr /\ chr[d].client = k THEN NoConn
                                             ELSE chr[d].client]
      BY <1>2 DEF PreDelete
    <3>2. chr[d] \in [client : Conns \cup {NoConn}, logged_in : BOOLEAN, tcursor2 : Cursors, menu : BOOLEAN]
      BY DEF Sessions, SessionTypes
    <3> QED
      BY <3>1, <3>2
  <2>4. \A j \in Conns \ {k} : client'[j].chr = client[j].chr
    BY <2>1 DEF Sessions, SessionTypes
  <2>5. Freed({k})
    BY <1>0, <2>1, <2>2, <2>3, <2>4 DEF Freed
  <2> QED
    BY <2>5
<1>3. ASSUME NEW c \in Chars, char_select(k, c) PROVE \E D : Freed(D)
  <2> DEFINE D == IF active = c THEN {chr[c].client} \ {NoConn} ELSE {}
  <2>1. D \subseteq Conns
    BY DEF Sessions, SessionTypes
  <2>2. /\ gd' = [j \in Conns |-> IF j \in D THEN {} ELSE gd[j]]
        /\ script' = Revived(UNION {InGd(j) : j \in D})
        /\ UNCHANGED <<screen, crashed>>
        /\ chr' = [chr EXCEPT ![c].client = k, ![c].logged_in = TRUE]
        /\ client' = [j \in Conns |->
             IF j \in D THEN [acct |-> FALSE, chr |-> NoChar]
             ELSE IF j = k THEN [client[k] EXCEPT !.chr = c] ELSE client[j]]
    BY <1>3 DEF char_select
  <2>3. client[k].chr = NoChar
    BY <1>3 DEF char_select, Sessions
  <2>4. chr[c].client \in D \cup {NoConn}
    BY ClientsAssumption, <1>3 DEF char_select, Sessions, OneSession
  <2> HIDE DEF D
  <2>5. \A d \in Chars : /\ chr'[d].client = chr[d].client \/ chr[d].client \in D \cup {NoConn}
                         /\ chr'[d].menu = chr[d].menu
    BY <2>2, <2>4 DEF Sessions, SessionTypes
  <2>6. \A j \in Conns \ D : client'[j].chr = client[j].chr \/ client[j].chr = NoChar
    BY <2>2, <2>3
  <2>7. Freed(D)
    BY <2>1, <2>2, <2>5, <2>6 DEF Freed
  <2> QED
    BY <2>7
<1> QED
  BY <1>1, <1>2, <1>3

\* Steps that no script asks by, is answered, freed, killed or deleted by.
Elsewhere ==
  /\ UNCHANGED <<gd, script>>
  /\ screen' \in [Conns -> SUBSET [cursor : Cursors, by : Scripts \cup {NoScript}]]
  /\ crashed' \in BOOLEAN
  /\ \A d \in Chars : chr'[d].client = chr[d].client /\ chr'[d].menu = chr[d].menu
  /\ \A j \in Conns : client'[j].chr = client[j].chr

LEMMA GoingElsewhere ==
  ASSUME Sessions, AskInv,
         \/ \E c \in Chars : send_object_cursor(c)
         \/ \E k \in Conns : \/ login2(k) \/ Drop(k) \/ Disconnect(k) \/ CheckChr(k) \/ Logoff(k)
                             \/ disconnect_cleanup(k) /\ client[k].chr = NoChar
                             \/ \E c \in Chars : SelectRefused(k, c)
         \/ UNCHANGED <<sessionVars, gd, screen, chr, script>> /\ crashed' \in BOOLEAN
  PROVE  Elsewhere
<1> USE DEF Sessions, SessionTypes, AskInv, AskTypes
<1>1. ASSUME NEW c \in Chars, send_object_cursor(c) PROVE Elsewhere
  <2>1. /\ chr' = [chr EXCEPT ![c].tcursor2 = "core"]
        /\ screen' = [screen EXCEPT ![chr[c].client] = @ \cup {[cursor |-> "core", by |-> NoScript]}]
        /\ UNCHANGED <<gd, script, client, crashed>>
    BY <1>1 DEF send_object_cursor, sessionVars
  <2>2. \A d \in Chars : chr'[d].client = chr[d].client /\ chr'[d].menu = chr[d].menu
    BY <2>1
  <2>3. [cursor |-> "core", by |-> NoScript] \in [cursor : Cursors, by : Scripts \cup {NoScript}]
    BY DEF Cursors
  <2>4. screen' \in [Conns -> SUBSET [cursor : Cursors, by : Scripts \cup {NoScript}]]
    BY <2>1, <2>3
  <2> QED
    BY <2>1, <2>2, <2>4 DEF Elsewhere
<1>2. CASE \E k \in Conns : login2(k) \/ Disconnect(k)
  BY <1>2 DEF login2, Disconnect, Elsewhere
<1>3. CASE \E k \in Conns : Drop(k) \/ CheckChr(k) \/ Logoff(k) \/ \E c \in Chars : SelectRefused(k, c)
  BY <1>3 DEF Drop, CheckChr, Logoff, SelectRefused, Elsewhere
<1>4. CASE \E k \in Conns : disconnect_cleanup(k) /\ client[k].chr = NoChar
  BY <1>4 DEF disconnect_cleanup, Crash, Elsewhere, sessionVars
<1>5. CASE UNCHANGED <<sessionVars, gd, screen, chr, script>> /\ crashed' \in BOOLEAN
  BY <1>5 DEF Elsewhere, sessionVars
<1> QED
  BY <1>1, <1>2, <1>3, <1>4, <1>5

\* Killed scripts stay where they are; the deletion of a script takes its request back;
\* new ones have none.
Ends(s) == Kill(s) \/ Delete(s) \/ start_script(s)

LEMMA EndsKeepTypes ==
  ASSUME AskInv, NEW s \in Scripts, Ends(s)
  PROVE  /\ script' \in [Scripts -> Script] /\ screen' = screen /\ crashed' \in BOOLEAN
         /\ gd' \in [Conns -> SUBSET (Kinds \X Scripts)]
         /\ \A k \in Conns : gd'[k] \subseteq gd[k]
<1> USE DEF AskInv, AskTypes
<1>1. [Idle EXCEPT !.state = "gone"] \in Script /\ Idle \in Script
  BY DEF Idle, Script
<1>2. CASE Kill(s) \/ start_script(s)
  BY <1>1, <1>2 DEF Kill, start_script, Script
<1>3. CASE Delete(s)
  <2> DEFINE k == chr[script[s].of].client
             kind == script[s].kind
  <2>1. CASE UNCHANGED <<gd, screen, script>> /\ crashed' = TRUE
    BY <2>1
  <2>2. CASE /\ script' = [script EXCEPT ![s] = [Idle EXCEPT !.state = "gone"]]
             /\ UNCHANGED <<screen, crashed>>
             /\ gd' = gd \/ gd' = [gd EXCEPT ![k] = {a \in @ : a[1] # kind \/ (kind = "gump" /\ a[2] # s)}]
    <3> HIDE DEF k, kind
    <3> QED
      BY <1>1, <2>2
  <2> QED
    BY <1>3, <2>1, <2>2 DEF Delete, Crash
<1> QED
  BY <1>2, <1>3 DEF Ends

\* What a step may do to the requests, one way or another.
LEMMA Steps ==
  ASSUME Sessions, AskInv, [Next]_vars
  PROVE  \/ \E s \in Scripts, c \in Known : Ask(s, c)
         \/ \E k \in Conns : \E kind, those : Answered(k, kind, those)
         \/ \E D : Freed(D)
         \/ \E s \in Scripts : Ends(s)
         \/ Elsewhere
<1>1. CASE \E s, by \in Scripts, c \in Known : mf_CloseGump(by, c, s)
  BY <1>1, Closing
<1>2. CASE \E c \in Chars : send_object_cursor(c)
  BY <1>2, GoingElsewhere
<1>3. CASE \/ \E k \in Conns, cursor \in {"script", "core"} : handle_target_cursor(k, cursor)
           \/ \E k \in Conns : handle_menu_selection(k)
           \/ \E k \in Conns, kind \in Kinds \ {"target", "menu", "gump"} : HandleAnswer(k, kind)
           \/ \E k \in Conns, s \in Scripts : gumpbutton_handler(k, s)
  BY <1>3, Answering
<1>4. CASE \E k \in Conns : login2(k) \/ Drop(k) \/ ClientThread(k)
  BY <1>4, GoingElsewhere, Freeing DEF ClientThread
<1>5. CASE \E k \in Conns, c \in Chars : char_select(k, c) \/ SelectRefused(k, c)
  BY <1>5, GoingElsewhere, Freeing
<1>6. CASE Gone \/ UNCHANGED vars
  BY <1>6, GoingElsewhere DEF Gone, vars, sessionVars, AskInv, AskTypes
<1> QED
  BY <1>1, <1>2, <1>3, <1>4, <1>5, <1>6 DEF Next, Ends

LEMMA AskKept == Sessions /\ AskInv /\ [Next]_vars => AskInv'
<1> SUFFICES ASSUME Sessions, AskInv, [Next]_vars PROVE AskInv'
  OBVIOUS
<1>1. CASE \E s \in Scripts, c \in Known : Ask(s, c)
  BY <1>1, AsksKeepTypes
<1>2. ASSUME NEW k \in Conns, NEW kind, NEW those, Answered(k, kind, those) PROVE AskInv'
  <2>1. script' \in [Scripts -> Script]
    BY <1>2, RevivedTypes DEF Answered, AskInv, AskTypes
  <2>2. gd' \in [Conns -> SUBSET (Kinds \X Scripts)] /\ \A j \in Conns : gd'[j] \subseteq gd[j]
    BY <1>2 DEF Answered, AskInv, AskTypes
  <2> QED
    BY <1>2, <2>1, <2>2, FewerAsk DEF Answered, AskInv, AskTypes
<1>3. ASSUME NEW D, Freed(D) PROVE AskInv'
  <2>1. script' \in [Scripts -> Script]
    BY <1>3, RevivedTypes DEF Freed, AskInv, AskTypes
  <2>2. gd' \in [Conns -> SUBSET (Kinds \X Scripts)] /\ \A j \in Conns : gd'[j] \subseteq gd[j]
    BY <1>3 DEF Freed, AskInv, AskTypes
  <2> QED
    BY <1>3, <2>1, <2>2, FewerAsk DEF Freed, AskInv, AskTypes
<1>4. CASE \E s \in Scripts : Ends(s)
  BY <1>4, EndsKeepTypes, FewerAsk DEF AskInv, AskTypes
<1>5. CASE Elsewhere
  BY <1>5 DEF Elsewhere, AskInv, AskTypes, Single
<1> QED
  BY <1>1, <1>2, <1>3, <1>4, <1>5, Steps

LEMMA AtMostOne ==
  ASSUME NEW S, \A x, y \in S : x = y
  PROVE  Cardinality(S) <= 1
<1>1. CASE S = {}
  BY <1>1, FS_EmptySet
<1>2. CASE S # {}
  <2>1. PICK x : S = {x}
    BY <1>2
  <2> QED
    BY <2>1, FS_Singleton
<1> QED
  BY <1>1, <1>2

\* The types of all that the model of connections, sessions and requests keeps; and
\* whatever scripts ask and in whichever order it is answered, one script at most waits
\* for each kind of answer but gumps at a connection, and one for a line of text.
THEOREM TypeCorrect == Spec => []TypeOK
<1>1. Spec => []Sessions
  BY SessionsInitially, SessionsKept, PTL DEF Spec
<1>2. Spec => []AskInv
  BY <1>1, AskInitially, AskKept, PTL DEF Spec
<1>3. Sessions /\ AskInv => TypeOK
  <2> SUFFICES ASSUME Sessions, AskInv PROVE TypeOK
    OBVIOUS
  <2>1. ASSUME NEW k \in Conns, NEW kind \in Kinds \ {"gump"} PROVE Cardinality(Asked(k, kind)) <= 1
    <3>1. \A s, t \in Asked(k, kind) : s = t
      BY DEF Asked, AskInv, Single, Rivals
    <3> QED
      BY <3>1, AtMostOne
  <2>2. ASSUME NEW k \in Conns PROVE Cardinality(Asked(k, "prompt") \cup Asked(k, "uniprompt")) <= 1
    <3>1. "prompt" \in Kinds /\ "uniprompt" \in Kinds
      BY DEF Kinds
    <3>2. \A s, t \in Asked(k, "prompt") \cup Asked(k, "uniprompt") : s = t
      BY <3>1 DEF Asked, AskInv, Single, Rivals
    <3> QED
      BY <3>2, AtMostOne
  <2> QED
    BY <2>1, <2>2 DEF TypeOK, Sessions, SessionTypes, AskInv, AskTypes, Script
<1> QED
  BY <1>1, <1>2, <1>3, PTL

-----------------------------------------------------------------------------
(* Nobody is left waiting *)

\* Besides what RequestsPaired says: a script that has been killed, and is not deleted
\* yet, is still where it asked.
Paired ==
  /\ \A s \in Scripts : /\ script[s].state \in {"running", "gone"} => script[s].kind = "none"
                        /\ script[s].state = "waiting" => script[s].kind # "none"
  /\ \A s \in Scripts : script[s].kind # "none" =>
       /\ script[s].of \in Chars /\ chr[script[s].of].client \in Conns
       /\ <<script[s].kind, s>> \in gd[chr[script[s].of].client]
  /\ \A k \in Conns, kind \in Kinds, s \in Scripts : <<kind, s>> \in gd[k] =>
       script[s].kind = kind /\ script[s].of = client[k].chr
  /\ \A s \in Scripts : script[s].state = "waiting" /\ script[s].kind = "menu" => chr[script[s].of].menu

RequestInv == Sessions /\ AskInv /\ Paired

LEMMA PairedInitially == Init => Paired
BY DEF Init, Paired, Idle

LEMMA PairedSuffices == RequestInv => RequestsPaired
<1> SUFFICES ASSUME RequestInv PROVE RequestsPaired
  OBVIOUS
<1>1. ASSUME NEW s \in Scripts, script[s].state = "waiting"
      PROVE  /\ chr[script[s].of].client # NoConn
             /\ s \in Asked(chr[script[s].of].client, script[s].kind)
             /\ script[s].kind = "menu" => chr[script[s].of].menu
  BY <1>1, ClientsAssumption DEF RequestInv, Paired, Asked
<1>2. ASSUME NEW k \in Conns, NEW kind \in Kinds, NEW s \in Asked(k, kind)
      PROVE  /\ script[s].state \in {"waiting", "dying"}
             /\ script[s].kind = kind /\ script[s].of = client[k].chr
  <2>1. script[s].kind = kind /\ script[s].of = client[k].chr /\ kind # "none"
    BY DEF RequestInv, Paired, Asked, Kinds
  <2>2. script[s].state \in {"running", "waiting", "dying", "gone"}
    BY DEF RequestInv, AskInv, AskTypes, Script, Asked
  <2> QED
    BY <2>1, <2>2 DEF RequestInv, Paired, Asked
<1> QED
  BY <1>1, <1>2 DEF RequestsPaired

\* Who asks keeps clear of those who wait, if it is not rude.
LEMMA AskingAlone ==
  ASSUME ~Rude, RequestInv, NEW s \in Scripts, NEW c \in Known, Ask(s, c)
  PROVE  \/ UNCHANGED <<gd, script, chr, client>>
         \/ \E kind \in Kinds :
              /\ chr[c].client # NoConn /\ script[s].state = "running" /\ Suspend(s, kind, c)
              /\ kind = "gump" \/ Asked(chr[c].client, kind) = {}
              /\ UNCHANGED client
              /\ \A d \in Chars : /\ chr'[d].client = chr[d].client
                                  /\ chr'[d].menu = chr[d].menu \/ (d = c /\ chr'[d].menu)
              /\ kind = "menu" => chr'[c].menu
<1>0. c \in Chars
  BY ClientsAssumption
<1> USE DEF MayAsk, has_active_client, has_active_prompt, target_cursor_busy, Kinds, sessionVars,
            RequestInv, Sessions, SessionTypes
<1>1. CASE mf_Target(s, c)
  <2>1. \A d \in Chars : chr'[d].client = chr[d].client /\ chr'[d].menu = chr[d].menu
    BY <1>1 DEF mf_Target
  <2> QED
    BY <1>1, <2>1 DEF mf_Target
<1>2. CASE mf_SelectMenuItem(s, c)
  <2>1. CASE chr[c].client = NoConn
    BY <1>2, <2>1 DEF mf_SelectMenuItem, Crash
  <2>2. CASE chr[c].client # NoConn
    <3>1. chr' = [chr EXCEPT ![c].menu = TRUE]
      BY <1>2, <2>2 DEF mf_SelectMenuItem
    <3>2. /\ chr'[c].menu
          /\ \A d \in Chars : chr'[d].client = chr[d].client /\ (d = c \/ chr'[d].menu = chr[d].menu)
      BY <1>0, <3>1
    <3> QED
      BY <1>2, <2>2, <3>2 DEF mf_SelectMenuItem
  <2> QED
    BY <2>1, <2>2
<1>3. CASE mf_PromptInput(s, c) \/ mf_RequestInputUC(s, c)
  BY <1>3 DEF mf_PromptInput, mf_RequestInputUC
<1>4. CASE mf_SendTextEntryGump(s, c) \/ mf_SendInstaResDialog(s, c)
  BY <1>4 DEF mf_SendTextEntryGump, mf_SendInstaResDialog
<1>5. CASE mf_SelectColor(s, c) \/ mf_SendDialogGump(s, c)
  BY <1>5 DEF mf_SelectColor, mf_SendDialogGump
<1> QED
  BY <1>1, <1>2, <1>3, <1>4, <1>5 DEF Ask

LEMMA AsksPair ==
  ASSUME ~Rude, RequestInv, NEW s \in Scripts, NEW c \in Known, Ask(s, c)
  PROVE  Paired'
<1> USE DEF RequestInv
<1>0. c \in Chars
  BY ClientsAssumption
<1>1. CASE UNCHANGED <<gd, script, chr, client>>
  BY <1>1 DEF Paired
<1>2. ASSUME NEW kind \in Kinds,
             chr[c].client # NoConn, script[s].state = "running", Suspend(s, kind, c),
             kind = "gump" \/ Asked(chr[c].client, kind) = {},
             UNCHANGED client,
             \A d \in Chars : /\ chr'[d].client = chr[d].client
                              /\ chr'[d].menu = chr[d].menu \/ (d = c /\ chr'[d].menu),
             kind = "menu" => chr'[c].menu
      PROVE  Paired'
  <2> DEFINE k == chr[c].client
  <2>1. k \in Conns /\ client[k].chr = c
    BY <1>0, <1>2 DEF Sessions, SessionTypes, OneSession
  <2>2. gd' = [gd EXCEPT ![k] = @ \cup {<<kind, s>>}]
    <3>1. {a \in gd[k] : a[1] = "gump" \/ a[1] # kind} = gd[k]
      <4>1. ASSUME NEW a \in gd[k] PROVE a[1] = "gump" \/ a[1] # kind
        <5>1. PICK x \in Kinds, t \in Scripts : a = <<x, t>>
          BY <2>1 DEF AskInv, AskTypes
        <5> QED
          BY <1>2, <5>1 DEF Asked
      <4> QED
        BY <4>1
    <3> QED
      BY <1>2, <3>1 DEF Suspend
  <2>3. /\ script'[s] = [state |-> "waiting", kind |-> kind, of |-> c]
        /\ \A t \in Scripts \ {s} : script'[t] = script[t]
    BY <1>2 DEF Suspend, AskInv, AskTypes
  <2>4. /\ gd'[k] = gd[k] \cup {<<kind, s>>}
        /\ \A j \in Conns \ {k} : gd'[j] = gd[j]
    BY <2>1, <2>2 DEF AskInv, AskTypes
  <2>5. script[s].kind = "none" /\ kind # "none"
    BY <1>2 DEF Paired, Kinds
  <2> HIDE DEF k
  <2>6. k = chr'[c].client
    BY <1>0, <1>2 DEF k
  <2>7. ASSUME NEW t \in Scripts
        PROVE  /\ script'[t].state \in {"running", "gone"} => script'[t].kind = "none"
               /\ script'[t].state = "waiting" => script'[t].kind # "none"
    BY <2>3, <2>5 DEF Paired
  <2>8. ASSUME NEW t \in Scripts, script'[t].kind # "none"
        PROVE  /\ script'[t].of \in Chars /\ chr'[script'[t].of].client \in Conns
               /\ <<script'[t].kind, t>> \in gd'[chr'[script'[t].of].client]
    <3>1. CASE t = s
      BY <1>0, <2>1, <2>3, <2>4, <2>6, <3>1
    <3>2. CASE t # s
      <4>1. script'[t] = script[t] /\ script[t].kind # "none"
        BY <2>3, <2>8, <3>2
      <4>2. /\ script[t].of \in Chars /\ chr[script[t].of].client \in Conns
            /\ <<script[t].kind, t>> \in gd[chr[script[t].of].client]
        BY <4>1 DEF Paired
      <4> QED
        BY <1>2, <2>4, <4>1, <4>2
    <3> QED
      BY <3>1, <3>2
  <2>9. ASSUME NEW j \in Conns, NEW x \in Kinds, NEW t \in Scripts, <<x, t>> \in gd'[j]
        PROVE  script'[t].kind = x /\ script'[t].of = client'[j].chr
    <3>1. CASE <<x, t>> \in gd[j]
      <4>1. script[t].kind = x /\ script[t].of = client[j].chr
        BY <3>1 DEF Paired
      <4>2. t # s
        BY <2>5, <4>1 DEF Kinds
      <4> QED
        BY <1>2, <2>3, <4>1, <4>2
    <3>2. CASE j = k /\ x = kind /\ t = s
      BY <1>2, <2>1, <2>3, <3>2
    <3> QED
      BY <2>4, <2>9, <3>1, <3>2
  <2>10. ASSUME NEW t \in Scripts, script'[t].state = "waiting", script'[t].kind = "menu"
         PROVE  chr'[script'[t].of].menu
    <3>1. CASE t = s
      BY <1>2, <2>3, <2>10, <3>1
    <3>2. CASE t # s
      <4>1. script'[t] = script[t]
        BY <2>3, <3>2
      <4>2. script[t].of \in Chars /\ chr[script[t].of].menu
        BY <2>10, <4>1 DEF Paired
      <4> QED
        BY <1>2, <4>1, <4>2
    <3> QED
      BY <3>1, <3>2
  <2> QED
    BY <2>7, <2>8, <2>9, <2>10 DEF Paired
<1> QED
  BY <1>1, <1>2, AskingAlone

\* A request that is answered leaves both sides.
LEMMA AnswersPair ==
  ASSUME RequestInv, NEW k \in Conns, NEW kind, NEW those, Answered(k, kind, those)
  PROVE  Paired'
<1> USE DEF RequestInv
<1>1. /\ kind \in Kinds /\ those \subseteq Scripts
      /\ \A t \in those : <<kind, t>> \in gd[k]
  BY DEF Answered, Asked
<1>2. /\ gd'[k] = gd[k] \ {<<kind, s>> : s \in those}
      /\ \A j \in Conns \ {k} : gd'[j] = gd[j]
      /\ UNCHANGED client
  BY DEF Answered, AskInv, AskTypes, sessionVars
<1>3. /\ \A t \in those : /\ script'[t].kind = "none"
                          /\ script'[t].state # "waiting" /\ script'[t].state # "gone"
      /\ \A t \in Scripts \ those : script'[t] = script[t]
  BY <1>1 DEF Answered, Revived, Idle
<1>4. \A d \in Chars : chr'[d].client = chr[d].client
  BY DEF Answered
<1>5. ASSUME NEW t \in Scripts
      PROVE  /\ script'[t].state \in {"running", "gone"} => script'[t].kind = "none"
             /\ script'[t].state = "waiting" => script'[t].kind # "none"
  BY <1>3 DEF Paired
<1>6. ASSUME NEW t \in Scripts, script'[t].kind # "none"
      PROVE  /\ script'[t].of \in Chars /\ chr'[script'[t].of].client \in Conns
             /\ <<script'[t].kind, t>> \in gd'[chr'[script'[t].of].client]
  <2>1. t \notin those /\ script'[t] = script[t]
    BY <1>3, <1>6
  <2>2. /\ script[t].of \in Chars /\ chr[script[t].of].client \in Conns
        /\ <<script[t].kind, t>> \in gd[chr[script[t].of].client]
    BY <1>6, <2>1 DEF Paired
  <2>3. <<script[t].kind, t>> \notin {<<kind, s>> : s \in those}
    BY <2>1
  <2> QED
    BY <1>2, <1>4, <2>1, <2>2, <2>3
<1>7. ASSUME NEW j \in Conns, NEW x \in Kinds, NEW t \in Scripts, <<x, t>> \in gd'[j]
      PROVE  script'[t].kind = x /\ script'[t].of = client'[j].chr
  <2>1. <<x, t>> \in gd[j]
    BY <1>2, <1>7
  <2>2. script[t].kind = x /\ script[t].of = client[j].chr
    BY <2>1 DEF Paired
  <2>3. CASE t \in those
    <3>1. script[t].kind = kind /\ script[t].of = client[k].chr
      BY <1>1, <2>3 DEF Paired
    <3>2. script[t].of \in Chars
      BY <1>1, <3>1 DEF Paired, Kinds
    <3>3. chr[script[t].of].client = j
      BY <2>2, <3>2 DEF Sessions, OneSession
    <3>4. chr[script[t].of].client = k
      BY <3>1, <3>2 DEF Sessions, OneSession
    <3> QED
      BY <1>2, <1>7, <2>2, <2>3, <3>1, <3>3, <3>4
  <2>4. CASE t \notin those
    BY <1>2, <1>3, <2>2, <2>4
  <2> QED
    BY <2>3, <2>4
<1>8. ASSUME NEW t \in Scripts, script'[t].state = "waiting", script'[t].kind = "menu"
      PROVE  chr'[script'[t].of].menu
  <2> DEFINE d == script[t].of
  <2>1. t \notin those /\ script'[t] = script[t]
    BY <1>3, <1>8
  <2>2. /\ d \in Chars /\ chr[d].menu /\ chr[d].client \in Conns
        /\ <<"menu", t>> \in gd[chr[d].client]
    BY <1>8, <2>1 DEF Paired
  <2>3. ASSUME d = client[k].chr, kind = "menu", those = Asked(k, kind) PROVE FALSE
    <3>1. chr[d].client = k
      BY <2>2, <2>3 DEF Sessions, OneSession
    <3> QED
      BY <2>1, <2>2, <2>3, <3>1 DEF Asked
  <2>4. chr'[d].menu = chr[d].menu
    BY <2>2, <2>3 DEF Answered
  <2> QED
    BY <2>1, <2>2, <2>4
<1> QED
  BY <1>5, <1>6, <1>7, <1>8 DEF Paired

\* Who leaves a connection leaves nobody behind.
LEMMA FreeingPairs ==
  ASSUME RequestInv, NEW D, Freed(D)
  PROVE  Paired'
<1> USE DEF RequestInv
<1> DEFINE those == UNION {InGd(j) : j \in D}
<1>1. /\ D \subseteq Conns
      /\ \A j \in Conns : gd'[j] = IF j \in D THEN {} ELSE gd[j]
  BY DEF Freed
<1>2. \A t \in Scripts : t \in those <=> \E j \in D, x \in Kinds : <<x, t>> \in gd[j]
  BY DEF InGd, Asked
<1>3. /\ \A t \in those \cap Scripts : /\ script'[t].kind = "none"
                          /\ script'[t].state # "waiting" /\ script'[t].state # "gone"
      /\ \A t \in Scripts \ those : script'[t] = script[t]
  BY DEF Freed, Revived, Idle
<1> HIDE DEF those
<1>4. ASSUME NEW t \in Scripts
      PROVE  /\ script'[t].state \in {"running", "gone"} => script'[t].kind = "none"
             /\ script'[t].state = "waiting" => script'[t].kind # "none"
  BY <1>3 DEF Paired
<1>5. ASSUME NEW t \in Scripts, script'[t].kind # "none"
      PROVE  /\ script'[t].of \in Chars /\ chr'[script'[t].of].client \in Conns
             /\ <<script'[t].kind, t>> \in gd'[chr'[script'[t].of].client]
  <2> DEFINE d == script[t].of
  <2>1. t \notin those /\ script'[t] = script[t]
    BY <1>3, <1>5
  <2>2. /\ d \in Chars /\ chr[d].client \in Conns
        /\ <<script[t].kind, t>> \in gd[chr[d].client]
    BY <1>5, <2>1 DEF Paired
  <2>3. script[t].kind \in Kinds
    BY <1>5, <2>1 DEF AskInv, AskTypes, Script
  <2>4. chr[d].client \notin D
    BY <1>2, <2>1, <2>2, <2>3
  <2>5. chr'[d].client = chr[d].client
    BY <2>2, <2>4, ClientsAssumption DEF Freed
  <2> QED
    BY <1>1, <2>1, <2>2, <2>4, <2>5
<1>6. ASSUME NEW j \in Conns, NEW x \in Kinds, NEW t \in Scripts, <<x, t>> \in gd'[j]
      PROVE  script'[t].kind = x /\ script'[t].of = client'[j].chr
  <2>1. j \notin D /\ <<x, t>> \in gd[j]
    BY <1>1, <1>6
  <2>2. script[t].kind = x /\ script[t].of = client[j].chr
    BY <2>1 DEF Paired
  <2>3. script[t].of \in Chars
    BY <2>2 DEF Paired, Kinds
  <2>4. t \notin those
    <3>1. ASSUME NEW i \in D, NEW y \in Kinds, <<y, t>> \in gd[i] PROVE FALSE
      <4>1. i \in Conns /\ script[t].of = client[i].chr
        BY <1>1, <3>1 DEF Paired
      <4>2. chr[script[t].of].client = j
        BY <2>2, <2>3 DEF Sessions, OneSession
      <4>3. chr[script[t].of].client = i
        BY <2>3, <4>1 DEF Sessions, OneSession
      <4> QED
        BY <2>1, <4>2, <4>3
    <3> QED
      BY <1>2, <3>1
  <2>5. client'[j].chr = client[j].chr
    BY <2>1, <2>2, <2>3, ClientsAssumption DEF Freed
  <2> QED
    BY <1>3, <2>2, <2>4, <2>5
<1>7. ASSUME NEW t \in Scripts, script'[t].state = "waiting", script'[t].kind = "menu"
      PROVE  chr'[script'[t].of].menu
  <2>1. script'[t] = script[t]
    BY <1>3, <1>7
  <2>2. script[t].of \in Chars /\ chr[script[t].of].menu
    BY <1>7, <2>1 DEF Paired
  <2> QED
    BY <2>1, <2>2 DEF Freed
<1> QED
  BY <1>4, <1>5, <1>6, <1>7 DEF Paired

\* A script that is deleted takes back its own request, and no other script's.
LEMMA EndsPair ==
  ASSUME RequestInv, NEW s \in Scripts, Ends(s)
  PROVE  Paired'
<1> USE DEF RequestInv
<1>1. CASE Kill(s)
  <2>1. /\ UNCHANGED <<gd, chr, client>> /\ script[s].state = "waiting"
        /\ script'[s] = [script[s] EXCEPT !.state = "dying"]
        /\ \A t \in Scripts \ {s} : script'[t] = script[t]
    BY <1>1 DEF Kill, sessionVars, AskInv, AskTypes
  <2>2. script'[s].state = "dying" /\ script'[s].kind = script[s].kind /\ script'[s].of = script[s].of
    BY <2>1 DEF AskInv, AskTypes, Script
  <2>3. \A t \in Scripts : /\ script'[t].kind = script[t].kind /\ script'[t].of = script[t].of
                           /\ script'[t].state = script[t].state \/ script'[t].state = "dying"
    BY <2>1, <2>2
  <2> QED
    BY <2>1, <2>3 DEF Paired
<1>2. CASE start_script(s)
  <2>1. /\ UNCHANGED <<gd, chr, client>> /\ script[s].state = "gone"
        /\ script'[s] = Idle
        /\ \A t \in Scripts \ {s} : script'[t] = script[t]
    BY <1>2 DEF start_script, sessionVars, AskInv, AskTypes
  <2>2. script[s].kind = "none"
    BY <2>1 DEF Paired
  <2>3. \A k \in Conns, kind \in Kinds : <<kind, s>> \notin gd[k]
    BY <2>2 DEF Paired, Kinds
  <2> QED
    BY <2>1, <2>3 DEF Paired, Idle
<1>3. CASE Delete(s)
  <2> DEFINE kind == script[s].kind
             c == script[s].of
             k == chr[c].client
  <2>1. CASE UNCHANGED <<gd, chr, client, script>>
    BY <2>1 DEF Paired
  <2>2. CASE kind = "none"
    <3>1. /\ UNCHANGED <<gd, chr, client>>
          /\ script'[s] = [Idle EXCEPT !.state = "gone"]
          /\ \A t \in Scripts \ {s} : script'[t] = script[t]
      BY <1>3, <2>2 DEF Delete, sessionVars, AskInv, AskTypes
    <3>2. \A j \in Conns, x \in Kinds : <<x, s>> \notin gd[j]
      BY <2>2 DEF Paired, Kinds
    <3> QED
      BY <3>1, <3>2 DEF Paired, Idle
  <2>3. CASE kind # "none"
    <3>1. c \in Chars /\ k \in Conns /\ <<kind, s>> \in gd[k] /\ kind \in Kinds
      BY <2>3 DEF Paired, AskInv, AskTypes, Script
    <3>2. /\ script' = [script EXCEPT ![s] = [Idle EXCEPT !.state = "gone"]]
          /\ gd' = [gd EXCEPT ![k] = {a \in @ : a[1] # kind \/ (kind = "gump" /\ a[2] # s)}]
          /\ UNCHANGED <<chr, client>>
      BY <1>3, <2>3, <3>1, ClientsAssumption DEF Delete, sessionVars
    <3>3. /\ script'[s].kind = "none" /\ script'[s].state = "gone"
          /\ \A t \in Scripts \ {s} : script'[t] = script[t]
      BY <3>2 DEF AskInv, AskTypes, Idle
    <3> HIDE DEF kind, c, k
    <3>4. /\ gd'[k] = {a \in gd[k] : a[1] # kind \/ (kind = "gump" /\ a[2] # s)}
          /\ \A j \in Conns \ {k} : gd'[j] = gd[j]
      BY <3>1, <3>2 DEF AskInv, AskTypes
    <3>5. ASSUME NEW x \in Kinds, NEW t \in Scripts
          PROVE  <<x, t>> \in gd'[k] <=> <<x, t>> \in gd[k] /\ ~(x = kind /\ t = s)
      <4>1. <<x, t>> \in gd'[k] <=> <<x, t>> \in gd[k] /\ (x # kind \/ (kind = "gump" /\ t # s))
        BY <3>4
      <4>2. <<x, t>> \in gd[k] /\ x = kind /\ kind # "gump" => t = s
        BY <3>1 DEF AskInv, Single, Rivals
      <4> QED
        BY <4>1, <4>2
    <3>6. ASSUME NEW t \in Scripts, script'[t].kind # "none"
          PROVE  /\ script'[t].of \in Chars /\ chr'[script'[t].of].client \in Conns
                 /\ <<script'[t].kind, t>> \in gd'[chr'[script'[t].of].client]
      <4>1. t # s /\ script'[t] = script[t]
        BY <3>3, <3>6
      <4>2. /\ script[t].of \in Chars /\ chr[script[t].of].client \in Conns
            /\ <<script[t].kind, t>> \in gd[chr[script[t].of].client]
        BY <3>6, <4>1 DEF Paired
      <4>3. script[t].kind \in Kinds
        BY <3>6, <4>1 DEF AskInv, AskTypes, Script
      <4>4. CASE chr[script[t].of].client = k
        BY <3>2, <3>5, <4>1, <4>2, <4>3, <4>4
      <4>5. CASE chr[script[t].of].client # k
        BY <3>2, <3>4, <4>1, <4>2, <4>5
      <4> QED
        BY <4>4, <4>5
    <3>7. ASSUME NEW j \in Conns, NEW x \in Kinds, NEW t \in Scripts, <<x, t>> \in gd'[j]
          PROVE  script'[t].kind = x /\ script'[t].of = client'[j].chr
      <4>1. <<x, t>> \in gd[j]
        BY <3>4, <3>5, <3>7
      <4>2. script[t].kind = x /\ script[t].of = client[j].chr
        BY <4>1 DEF Paired
      <4>3. ASSUME t = s PROVE FALSE
        <5>1. x = kind /\ c = client[j].chr
          BY <4>2, <4>3 DEF kind, c
        <5>2. j = k
          BY <3>1, <5>1 DEF Sessions, OneSession, k
        <5> QED
          BY <3>5, <3>7, <4>3, <5>1, <5>2
      <4> QED
        BY <3>2, <3>3, <4>2, <4>3
    <3>8. \A t \in Scripts : script'[t] = script[t] \/ (script'[t].state = "gone" /\ script'[t].kind = "none")
      BY <3>3
    <3>9. ASSUME NEW t \in Scripts, script'[t].state = "waiting", script'[t].kind = "menu"
          PROVE  chr'[script'[t].of].menu
      <4>1. script'[t] = script[t]
        BY <3>8, <3>9
      <4> QED
        BY <3>2, <3>9, <4>1 DEF Paired
    <3>10. ASSUME NEW t \in Scripts
           PROVE  /\ script'[t].state \in {"running", "gone"} => script'[t].kind = "none"
                  /\ script'[t].state = "waiting" => script'[t].kind # "none"
      BY <3>8 DEF Paired
    <3> QED
      BY <3>6, <3>7, <3>9, <3>10 DEF Paired
  <2> QED
    BY <2>2, <2>3
<1> QED
  BY <1>1, <1>2, <1>3 DEF Ends

LEMMA PairedKept ==
  ASSUME ~Rude, RequestInv, [Next]_vars PROVE Paired'
<1>1. CASE Elsewhere
  <2>1. \A s \in Scripts : script[s].kind # "none" => script[s].of \in Chars
    BY DEF RequestInv, Paired
  <2>2. \A s \in Scripts : script[s].state = "waiting" => script[s].of \in Chars
    BY DEF RequestInv, Paired
  <2> QED
    BY <1>1, <2>1, <2>2 DEF Elsewhere, RequestInv, Paired
<1> QED
  BY <1>1, AsksPair, AnswersPair, FreeingPairs, EndsPair, Steps DEF RequestInv

\* As long as no script asks for a text or a color over another one's question: through
\* every order of questions, answers, kills, disconnections and reconnections, a script
\* that waits can be answered, and nothing is answered to a script that is gone or has
\* asked for something else.
THEOREM NobodyStranded ==
  ASSUME ~Rude
  PROVE  Spec => []RequestsPaired
<1>1. Spec => []Sessions
  BY SessionsInitially, SessionsKept, PTL DEF Spec
<1>2. Spec => []AskInv
  BY <1>1, AskInitially, AskKept, PTL DEF Spec
<1>3. Sessions /\ AskInv /\ Paired /\ [Next]_vars => Paired'
  BY PairedKept DEF RequestInv
<1>4. Spec => []Paired
  BY <1>1, <1>2, <1>3, PairedInitially, PTL DEF Spec
<1>5. Sessions /\ AskInv /\ Paired => RequestsPaired
  BY PairedSuffices DEF RequestInv
<1> QED
  BY <1>1, <1>2, <1>4, <1>5, PTL

-----------------------------------------------------------------------------
(* A target is asked for by the only cursor there is *)

\* A script that waits for a target does so at a connection with a character.  The player
\* who answers in sequence has one cursor at most, the one that was sent last; who
\* disconnects has none, and who comes back to a character has none of those sent before.
CursorAt(k) ==
  /\ \A s \in Scripts : <<"target", s>> \in gd[k] => client[k].chr # NoChar
  /\ k \notin Forgers =>
       /\ stage[k] # "playing" => screen[k] = {}
       /\ stage[k] = "playing" =>
            \A s \in Scripts : <<"target", s>> \in gd[k] => [cursor |-> "script", by |-> s] \in screen[k]
       /\ stage[k] = "playing" /\ client[k].chr # NoChar =>
            \A a \in screen[k] : screen[k] = {a} /\ a.cursor # "none"
                                 /\ a.cursor = chr[client[k].chr].tcursor2

CursorInv == \A k \in Conns : CursorAt(k)

\* A step that shows the player of k nothing new and asks no more of him than before.
Quiet(k) ==
  /\ screen'[k] = screen[k]
  /\ stage'[k] = "playing" <=> stage[k] = "playing"
  /\ \A s \in Scripts : <<"target", s>> \in gd'[k] => <<"target", s>> \in gd[k]
  /\ client'[k].chr = client[k].chr
  /\ stage[k] = "playing" /\ client[k].chr # NoChar
       => chr'[client[k].chr].tcursor2 = chr[client[k].chr].tcursor2

LEMMA QuietKeeps ==
  ASSUME NEW k \in Conns, CursorAt(k), Quiet(k)
  PROVE  CursorAt(k)'
BY DEF CursorAt, Quiet

\* A cursor is sent to a player who has none: whoever he is, he plays, and he is not busy.
LEMMA CursorSent ==
  ASSUME Sessions, AskInv, CursorInv, NEW c \in Chars, has_active_client(c), ~target_cursor_busy(c),
         NEW cursor \in {"script", "core"}, NEW by \in Scripts \cup {NoScript},
         UNCHANGED sessionVars,
         chr' = [chr EXCEPT ![c].tcursor2 = cursor],
         screen' = [screen EXCEPT ![chr[c].client] = @ \cup {[cursor |-> cursor, by |-> by]}],
         \A k \in Conns, s \in Scripts :
           <<"target", s>> \in gd'[k] => \/ <<"target", s>> \in gd[k]
                                         \/ k = chr[c].client /\ cursor = "script" /\ by = s
  PROVE  CursorInv'
<1> DEFINE a == [cursor |-> cursor, by |-> by]
<1>0. PICK k \in Conns : k = chr[c].client
  BY DEF has_active_client, Sessions, SessionTypes
<1>1. k \in Conns /\ stage[k] = "playing" /\ client[k].chr = c
  BY <1>0 DEF has_active_client, Sessions, SessionTypes, OneSession
<1>2. chr[c].tcursor2 = "none" /\ \A s \in Scripts : <<"target", s>> \notin gd[k]
  BY <1>0, <1>1, ClientsAssumption DEF target_cursor_busy, Asked
<1>3. c # NoChar
  BY ClientsAssumption
<1>4. k \notin Forgers => screen[k] = {}
  BY <1>1, <1>2, <1>3 DEF CursorInv, CursorAt
<1>5. /\ screen'[k] = screen[k] \cup {a}
      /\ \A j \in Conns \ {k} : screen'[j] = screen[j]
      /\ chr'[c].tcursor2 = cursor /\ \A d \in Chars \ {c} : chr'[d] = chr[d]
      /\ UNCHANGED <<stage, client>>
  BY <1>0, <1>1 DEF AskInv, AskTypes, Sessions, SessionTypes, sessionVars
<1>6. CursorAt(k)'
  <2>1. \A s \in Scripts : <<"target", s>> \in gd'[k] => a = [cursor |-> "script", by |-> s]
    BY <1>2
  <2>2. k \notin Forgers => screen'[k] = {a}
    BY <1>4, <1>5
  <2>3. a.cursor = cursor /\ cursor # "none" /\ client'[k].chr = c /\ stage'[k] = "playing"
    BY <1>1, <1>5
  <2> HIDE DEF a
  <2> QED
    BY <1>3, <1>5, <2>1, <2>2, <2>3 DEF CursorAt
<1>7. ASSUME NEW j \in Conns \ {k} PROVE CursorAt(j)'
  <2>1. client[j].chr # c
    BY <1>1, <1>7 DEF Sessions, OneSession
  <2>2. client[j].chr # NoChar => client[j].chr \in Chars
    BY DEF Sessions, SessionTypes
  <2>3. \A s \in Scripts : <<"target", s>> \in gd'[j] => <<"target", s>> \in gd[j]
    BY <1>0, <1>7
  <2>4. Quiet(j)
    BY <1>5, <2>1, <2>2, <2>3 DEF Quiet
  <2> QED
    BY <2>4, QuietKeeps DEF CursorInv
<1> QED
  BY <1>6, <1>7 DEF CursorInv

\* Nothing of who is connected, and no cursor, changes; targets are taken back at most.
LEMMA CalmKeeps ==
  ASSUME CursorInv, UNCHANGED <<stage, client, screen>>,
         \A c \in Chars : chr'[c].tcursor2 = chr[c].tcursor2,
         \A k \in Conns : client[k].chr # NoChar => client[k].chr \in Chars,
         \A k \in Conns, s \in Scripts : <<"target", s>> \in gd'[k] => <<"target", s>> \in gd[k]
  PROVE  CursorInv'
<1>1. ASSUME NEW k \in Conns PROVE Quiet(k)
  BY DEF Quiet
<1> QED
  BY <1>1, QuietKeeps DEF CursorInv

\* What is not a target is put beside the targets.
LEMMA SuspendNoTarget ==
  ASSUME AskInv, NEW s \in Scripts, NEW c \in Chars, NEW kind, kind # "target", Suspend(s, kind, c)
  PROVE  \A k \in Conns, t \in Scripts : <<"target", t>> \in gd'[k] => <<"target", t>> \in gd[k]
BY DEF Suspend, AskInv, AskTypes

LEMMA AsksKeepCursors ==
  ASSUME Sessions, AskInv, CursorInv, NEW s \in Scripts, NEW c \in Chars, Ask(s, c)
  PROVE  CursorInv'
<1>0. \A k \in Conns : client[k].chr # NoChar => client[k].chr \in Chars
  BY DEF Sessions, SessionTypes
<1>1. CASE mf_Target(s, c)
  <2>1. /\ has_active_client(c) /\ ~target_cursor_busy(c) /\ UNCHANGED sessionVars
        /\ chr' = [chr EXCEPT ![c].tcursor2 = "script"]
        /\ screen' = [screen EXCEPT ![chr[c].client] = @ \cup {[cursor |-> "script", by |-> s]}]
    BY <1>1 DEF mf_Target
  <2>2. \A k \in Conns, t \in Scripts :
          <<"target", t>> \in gd'[k] => \/ <<"target", t>> \in gd[k]
                                        \/ k = chr[c].client /\ "script" = "script" /\ s = t
    BY <1>1 DEF mf_Target, Suspend, AskInv, AskTypes
  <2>3. "script" \in {"script", "core"} /\ s \in Scripts \cup {NoScript}
    OBVIOUS
  <2> QED
    BY <2>1, <2>2, <2>3, CursorSent, Zenon
<1>2. CASE mf_SelectMenuItem(s, c)
  <2>1. UNCHANGED <<stage, client, screen>>
    BY <1>2 DEF mf_SelectMenuItem, Crash, sessionVars
  <2>2. \A d \in Chars : chr'[d].tcursor2 = chr[d].tcursor2
    BY <1>2 DEF mf_SelectMenuItem, Crash, Sessions, SessionTypes
  <2>3. gd' = gd \/ Suspend(s, "menu", c)
    BY <1>2 DEF mf_SelectMenuItem, Crash
  <2> QED
    BY <1>0, <2>1, <2>2, <2>3, SuspendNoTarget, CalmKeeps
<1>3. CASE \/ mf_PromptInput(s, c) \/ mf_RequestInputUC(s, c) \/ mf_SendTextEntryGump(s, c)
           \/ mf_SendInstaResDialog(s, c) \/ mf_SelectColor(s, c) \/ mf_SendDialogGump(s, c)
  <2>1. /\ UNCHANGED <<stage, client, screen, chr>>
        /\ \E kind \in Kinds \ {"target"} : Suspend(s, kind, c)
    BY <1>3 DEF mf_PromptInput, mf_RequestInputUC, mf_SendTextEntryGump, mf_SendInstaResDialog,
                mf_SelectColor, mf_SendDialogGump, sessionVars, Kinds
  <2> QED
    BY <1>0, <2>1, SuspendNoTarget, CalmKeeps
<1> QED
  BY <1>1, <1>2, <1>3 DEF Ask

\* Who answers in sequence answers the only cursor, and the script that waits is told.
LEMMA CursorAnswered ==
  ASSUME Sessions, AskInv, CursorInv, NEW k \in Conns, NEW cursor \in {"script", "core"},
         handle_target_cursor(k, cursor)
  PROVE  CursorInv'
<1> DEFINE c == client[k].chr
<1>1. stage[k] = "playing" /\ c # NoChar /\ c \in Chars
  BY DEF handle_target_cursor, Plays, Sessions, SessionTypes
<1>2. /\ UNCHANGED <<stage, client>>
      /\ chr' = [chr EXCEPT ![c].tcursor2 = "none"]
      /\ gd' = [gd EXCEPT ![k] = @ \ {<<"target", s>> : s \in Told(k, cursor)}]
      /\ \/ \E a \in screen[k] : a.cursor = cursor /\ screen' = [screen EXCEPT ![k] = @ \ {a}]
         \/ k \in Forgers /\ UNCHANGED screen
  BY DEF handle_target_cursor, sessionVars
<1>3. \A j \in Conns \ {k} : Quiet(j)
  <2> SUFFICES ASSUME NEW j \in Conns \ {k} PROVE Quiet(j)
    OBVIOUS
  <2>1. client[j].chr # c
    BY <1>1 DEF Sessions, OneSession
  <2>2. screen'[j] = screen[j] /\ gd'[j] = gd[j]
    BY <1>2 DEF AskInv, AskTypes
  <2>3. client[j].chr # NoChar => client[j].chr \in Chars
    BY DEF Sessions, SessionTypes
  <2>4. client[j].chr # NoChar => chr'[client[j].chr] = chr[client[j].chr]
    BY <1>1, <1>2, <2>1, <2>3 DEF Sessions, SessionTypes
  <2> QED
    BY <1>2, <2>2, <2>4 DEF Quiet
<1>4. \A s \in Scripts : <<"target", s>> \in gd'[k] => <<"target", s>> \in gd[k] /\ s \notin Told(k, cursor)
  BY <1>2 DEF AskInv, AskTypes
<1>5. ASSUME k \in Forgers PROVE CursorAt(k)'
  BY <1>1, <1>2, <1>5 DEF CursorAt
<1>6. ASSUME k \notin Forgers PROVE CursorAt(k)'
  <2>1. PICK a \in screen[k] : a.cursor = cursor /\ screen' = [screen EXCEPT ![k] = @ \ {a}]
    BY <1>2, <1>6
  <2>2. screen[k] = {a} /\ cursor = chr[c].tcursor2
    BY <1>1, <1>6, <2>1 DEF CursorInv, CursorAt
  <2>3. screen'[k] = {}
    BY <2>1, <2>2 DEF AskInv, AskTypes
  <2>4. \A s \in Scripts : <<"target", s>> \notin gd'[k]
    <3> SUFFICES ASSUME NEW s \in Scripts, <<"target", s>> \in gd'[k] PROVE FALSE
      OBVIOUS
    <3>1. a = [cursor |-> "script", by |-> s]
      BY <1>1, <1>4, <1>6, <2>2 DEF CursorInv, CursorAt
    <3>2. cursor = "script"
      BY <2>1, <3>1
    <3>3. s \in Told(k, cursor)
      BY <1>4, <2>2, <3>2 DEF Told, Asked
    <3> QED
      BY <1>4, <3>3
  <2> QED
    BY <1>1, <1>2, <2>3, <2>4 DEF CursorAt
<1> QED
  BY <1>3, <1>5, <1>6, QuietKeeps DEF CursorInv

LEMMA AnswersKeepCursors ==
  ASSUME Sessions, AskInv, CursorInv, NEW k \in Conns,
         \/ handle_menu_selection(k)
         \/ \E kind \in Kinds \ {"target", "menu", "gump"} : HandleAnswer(k, kind)
         \/ \E s \in Scripts : gumpbutton_handler(k, s)
         \/ \E s, by \in Scripts, c \in Known : mf_CloseGump(by, c, s)
  PROVE  CursorInv'
<1>0. \A j \in Conns : client[j].chr # NoChar => client[j].chr \in Chars
  BY DEF Sessions, SessionTypes
<1>1. UNCHANGED <<stage, client, screen>>
  BY DEF handle_menu_selection, HandleAnswer, gumpbutton_handler, mf_CloseGump, clear_gumphandler, sessionVars
<1>2. \A c \in Chars : chr'[c].tcursor2 = chr[c].tcursor2
  <2>1. chr' = chr \/ \E c : chr' = [chr EXCEPT ![c].menu = FALSE]
    BY Zenon DEF handle_menu_selection, HandleAnswer, gumpbutton_handler, mf_CloseGump, clear_gumphandler,
                 sessionVars
  <2> QED
    BY <2>1 DEF Sessions, SessionTypes
<1>3. \E j, those : gd' = [gd EXCEPT ![j] = @ \ those]
  BY Zenon DEF handle_menu_selection, HandleAnswer, gumpbutton_handler, mf_CloseGump, clear_gumphandler
<1>4. \A j \in Conns : gd'[j] \subseteq gd[j]
  BY <1>3 DEF AskInv, AskTypes
<1> QED
  BY <1>0, <1>1, <1>2, <1>4, CalmKeeps

LEMMA EndsKeepCursors ==
  ASSUME Sessions, AskInv, CursorInv, NEW s \in Scripts, Ends(s)
  PROVE  CursorInv'
<1>0. \A j \in Conns : client[j].chr # NoChar => client[j].chr \in Chars
  BY DEF Sessions, SessionTypes
<1>1. UNCHANGED <<stage, client, chr>>
  BY DEF Ends, Kill, Delete, start_script, Crash, sessionVars
<1> QED
  BY <1>0, <1>1, EndsKeepTypes, CalmKeeps

\* The thread of k moves on: until it plays, and after it has left, its screen is empty.
LEMMA ThreadsKeepCursors ==
  ASSUME Sessions, AskInv, CursorInv, NEW k \in Conns,
         \/ login2(k) \/ Drop(k) \/ (\E c \in Chars : SelectRefused(k, c))
         \/ Disconnect(k) \/ CheckChr(k) \/ disconnect_cleanup(k) \/ Logoff(k) \/ PreDelete(k)
  PROVE  CursorInv'
<1>0. /\ \A j \in Conns : client[j].chr # NoChar => client[j].chr \in Chars
      /\ \A c \in Chars, j \in Conns : client[j].chr = c <=> chr[c].client = j
  BY DEF Sessions, SessionTypes, OneSession
<1>1. CASE Drop(k) \/ \E c \in Chars : SelectRefused(k, c)
  <2>1. UNCHANGED <<stage, client, screen, chr, gd>>
    BY <1>1 DEF Drop, SelectRefused
  <2> QED
    BY <1>0, <2>1, CalmKeeps
<1>2. CASE disconnect_cleanup(k) /\ client[k].chr = NoChar
  <2>1. UNCHANGED <<stage, client, screen, chr, gd>>
    BY <1>2 DEF disconnect_cleanup, Crash, sessionVars
  <2> QED
    BY <1>0, <2>1, CalmKeeps
<1>3. CASE login2(k) \/ Disconnect(k) \/ CheckChr(k) \/ Logoff(k) \/ PreDelete(k)
           \/ (disconnect_cleanup(k) /\ client[k].chr # NoChar)
  <2>1. /\ stage'[k] # "playing"
        /\ screen'[k] = {} \/ (screen'[k] = screen[k] /\ stage[k] # "playing")
        /\ \A j \in Conns \ {k} : stage'[j] = stage[j] /\ screen'[j] = screen[j]
    BY <1>3 DEF login2, Disconnect, CheckChr, Logoff, PreDelete, disconnect_cleanup,
                Sessions, SessionTypes, AskInv, AskTypes
  <2>2. /\ gd'[k] \subseteq gd[k]
        /\ client'[k].chr = client[k].chr \/ gd'[k] = {}
        /\ \A j \in Conns \ {k} : gd'[j] = gd[j] /\ client'[j] = client[j]
    BY <1>3 DEF login2, Disconnect, CheckChr, Logoff, PreDelete, disconnect_cleanup, Cleared,
                Sessions, SessionTypes, AskInv, AskTypes
  <2>3. CursorAt(k)'
    BY <2>1, <2>2 DEF CursorInv, CursorAt
  <2>4. ASSUME NEW j \in Conns \ {k} PROVE CursorAt(j)'
    <3> DEFINE c == client[j].chr
    <3>1. c # NoChar => chr'[c].tcursor2 = chr[c].tcursor2
      <4>1. CASE login2(k) \/ Disconnect(k) \/ CheckChr(k) \/ Logoff(k)
        BY <4>1 DEF login2, Disconnect, CheckChr, Logoff
      <4>2. CASE disconnect_cleanup(k) /\ client[k].chr # NoChar
        <5>1. chr' = [chr EXCEPT ![client[k].chr].tcursor2 = "none"]
          BY <4>2 DEF disconnect_cleanup
        <5>2. c # client[k].chr \/ c = NoChar
          BY <1>0, <2>4
        <5> QED
          BY <1>0, <5>1, <5>2 DEF Sessions, SessionTypes
      <4>3. CASE PreDelete(k)
        <5> SUFFICES ASSUME c # NoChar PROVE chr'[c].tcursor2 = chr[c].tcursor2
          OBVIOUS
        <5>1. c \in Chars /\ chr[c].client # k
          BY <1>0, <2>4
        <5> DEFINE out == {d \in Chars : client[k].acct /\ active = d /\ chr[d].client = k}
        <5>2. c \notin out
          BY <5>1
        <5>3. chr' = [d \in Chars |->
                 [chr[d] EXCEPT !.logged_in = @ /\ d \notin out,
                                !.tcursor2 = IF d \in out THEN "none" ELSE @,
                                !.client = IF d = client[k].chr /\ @ = k THEN NoConn ELSE @]]
          BY <4>3 DEF PreDelete
        <5> HIDE DEF out, c
        <5>4. chr[c] \in [client : Conns \cup {NoConn}, logged_in : BOOLEAN, tcursor2 : Cursors, menu : BOOLEAN]
          BY <5>1 DEF Sessions, SessionTypes
        <5>5. PICK l, t : chr'[c] = [chr[c] EXCEPT !.logged_in = l, !.tcursor2 = chr[c].tcursor2, !.client = t]
          BY <5>1, <5>2, <5>3
        <5> QED
          BY <5>4, <5>5
      <4> QED
        BY <1>3, <4>1, <4>2, <4>3
    <3>2. Quiet(j)
      BY <2>1, <2>2, <3>1 DEF Quiet
    <3> QED
      BY <3>2, QuietKeeps DEF CursorInv
  <2> QED
    BY <2>3, <2>4 DEF CursorInv
<1> QED
  BY <1>1, <1>2, <1>3

\* Who comes to a character has an empty screen, and whose character it was is asked
\* nothing any more.  Whether the character thinks it has a cursor does not matter.
LEMMA SelectKeepsCursors ==
  ASSUME Sessions, AskInv, CursorInv, NEW k \in Conns, NEW c \in Chars, char_select(k, c)
  PROVE  CursorInv'
<1> DEFINE old == IF active = c THEN {chr[c].client} \ {NoConn} ELSE {}
<1>1. /\ stage[k] = "choosing" /\ client[k].chr = NoChar
      /\ gd' = [j \in Conns |-> IF j \in old THEN {} ELSE gd[j]]
      /\ client' = [j \in Conns |->
           IF j \in old THEN [acct |-> FALSE, chr |-> NoChar]
           ELSE IF j = k THEN [client[k] EXCEPT !.chr = c] ELSE client[j]]
      /\ chr' = [chr EXCEPT ![c].client = k, ![c].logged_in = TRUE]
      /\ stage' = [stage EXCEPT ![k] = "playing"]
      /\ UNCHANGED screen
  BY DEF char_select, Sessions
<1>2. k \notin old
  BY <1>1, ClientsAssumption DEF Sessions, OneSession
<1> HIDE DEF old
<1>3. /\ \A d \in Chars : chr'[d].tcursor2 = chr[d].tcursor2
      /\ \A j \in Conns : client[j].chr # NoChar => client[j].chr \in Chars
      /\ stage'[k] = "playing" /\ \A j \in Conns \ {k} : stage'[j] = stage[j]
  BY <1>1 DEF Sessions, SessionTypes
<1>4. CursorAt(k)'
  <2>1. gd'[k] = gd[k] /\ screen'[k] = screen[k]
    BY <1>1, <1>2
  <2>2. /\ \A s \in Scripts : <<"target", s>> \notin gd[k]
        /\ k \notin Forgers => screen[k] = {}
    BY <1>1 DEF CursorInv, CursorAt
  <2> QED
    BY <2>1, <2>2 DEF CursorAt
<1>5. ASSUME NEW j \in old, j \in Conns PROVE CursorAt(j)'
  <2>1. gd'[j] = {} /\ client'[j].chr = NoChar /\ j # k
    BY <1>1, <1>2, <1>5
  <2> QED
    BY <1>1, <1>3, <1>5, <2>1 DEF CursorInv, CursorAt
<1>6. ASSUME NEW j \in Conns \ {k}, j \notin old PROVE CursorAt(j)'
  <2>1. Quiet(j)
    BY <1>1, <1>3, <1>6 DEF Quiet
  <2> QED
    BY <2>1, QuietKeeps DEF CursorInv
<1> QED
  BY <1>4, <1>5, <1>6 DEF CursorInv

LEMMA CursorsKept == Sessions /\ AskInv /\ CursorInv /\ [Next]_vars => CursorInv'
<1> SUFFICES ASSUME Sessions, AskInv, CursorInv, [Next]_vars PROVE CursorInv'
  OBVIOUS
<1>1. CASE \E s \in Scripts, c \in Known : Ask(s, c)
  BY <1>1, AsksKeepCursors, ClientsAssumption
<1>2. ASSUME NEW c \in Chars, send_object_cursor(c) PROVE CursorInv'
  BY <1>2, CursorSent DEF send_object_cursor
<1>3. CASE \E k \in Conns, cursor \in {"script", "core"} : handle_target_cursor(k, cursor)
  BY <1>3, CursorAnswered
<1>4. CASE \/ \E k \in Conns : handle_menu_selection(k)
           \/ \E k \in Conns, kind \in Kinds \ {"target", "menu", "gump"} : HandleAnswer(k, kind)
           \/ \E k \in Conns, s \in Scripts : gumpbutton_handler(k, s)
  BY <1>4, AnswersKeepCursors
<1>5. ASSUME NEW s \in Scripts, NEW by \in Scripts, NEW c \in Known, mf_CloseGump(by, c, s)
      PROVE  CursorInv'
  <2>1. chr[c].client \in Conns
    BY <1>5, Closing
  <2> QED
    BY <1>5, <2>1, AnswersKeepCursors
<1>6. CASE \E s \in Scripts : Kill(s) \/ Delete(s) \/ start_script(s)
  BY <1>6, EndsKeepCursors DEF Ends
<1>7. CASE \E k \in Conns : login2(k) \/ Drop(k) \/ ClientThread(k)
  BY <1>7, ThreadsKeepCursors DEF ClientThread
<1>8. CASE \E k \in Conns, c \in Chars : char_select(k, c) \/ SelectRefused(k, c)
  BY <1>8, ThreadsKeepCursors, SelectKeepsCursors
<1>9. CASE Gone \/ UNCHANGED vars
  <2>1. UNCHANGED <<stage, client, screen, chr, gd>>
    BY <1>9 DEF Gone, vars
  <2> QED
    BY <2>1 DEF CursorInv, CursorAt
<1> QED
  BY <1>1, <1>2, <1>3, <1>4, <1>5, <1>6, <1>7, <1>8, <1>9 DEF Next

\* Whatever cursors of killed scripts stay with players, whatever cursors the core sends and
\* however players come back: a player who answers in sequence and is asked for a target
\* has the cursor of the script that waits, and no other.
THEOREM TargetIsOwn == Spec => []OwnCursor
<1>1. Spec => []Sessions
  BY SessionsInitially, SessionsKept, PTL DEF Spec
<1>2. Spec => []AskInv
  BY <1>1, AskInitially, AskKept, PTL DEF Spec
<1>3. Init => CursorInv
  BY DEF Init, CursorInv, CursorAt
<1>4. Spec => []CursorInv
  BY <1>1, <1>2, <1>3, CursorsKept, PTL DEF Spec
<1>5. CursorInv => OwnCursor
  BY DEF CursorInv, CursorAt, OwnCursor, Asked
<1> QED
  BY <1>4, <1>5, PTL
=============================================================================
