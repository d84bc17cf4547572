---------------------------- MODULE PartyProofs ----------------------------
(***************************************************************************)
(* Theorems of Party, for any characters and addresses of parties.  They   *)
(* are about servers whose hook refuses a leader who is invited himself,   *)
(* and on which no leader logs off who leaves nobody to lead: without      *)
(* either, the two sides come apart.                                       *)
(*                                                                         *)
(* The lists first: what Append, RemoveFirst and RemoveAt do to a list     *)
(* that names nobody twice.  Then a lemma for each operation on both sides *)
(* taken as one value, with the strengthening that the whole proof needs:  *)
(* nobody has more than one tie.  At last each action, by the lemmas of    *)
(* the operations that it is made of, and a restart.                       *)
(***************************************************************************)
EXTENDS Party, SequenceTheorems, FiniteSetTheorems, WellFoundedInduction, TLAPS

-----------------------------------------------------------------------------
(* Lists that name nobody twice *)

List(S) == {s \in Seq(S) : IsInjective(s)}

\* The least element.
LEMMA LeastIndex ==
  ASSUME NEW I \in SUBSET Nat, I # {}
  PROVE  Min(I) \in I
<1>1. PICK x \in I : \A y \in I : ~(<<y, x>> \in OpToRel(<, Nat))
  BY NatLessThanWellFounded, WFMin, Zenon
<1>2. \A y \in I : <<y, x>> \notin OpToRel(<, Nat) => ~(y < x)
  <2> SUFFICES ASSUME NEW y \in I, y < x PROVE <<y, x>> \in OpToRel(<, Nat)
    BY Zenon
  <2>1. <<y, x>> \in Nat \X Nat /\ <<y, x>>[1] = y /\ <<y, x>>[2] = x
    BY SMT
  <2> QED
    BY <2>1, Zenon DEF OpToRel
<1>3. \A y \in I : ~(y < x)
  BY <1>1, <1>2, Zenon
<1>4. \A y \in I : x <= y
  BY <1>3
<1> QED
  BY <1>4 DEF Min

LEMMA ListIs ==
  ASSUME NEW S, NEW s \in List(S)
  PROVE  /\ s \in Seq(S) /\ Len(s) \in Nat /\ DOMAIN s = 1..Len(s)
         /\ \A i \in 1..Len(s) : s[i] \in S /\ s[i] \in ToSet(s)
         /\ \A e \in ToSet(s) : e \in S /\ \E i \in 1..Len(s) : s[i] = e
         /\ \A i, j \in 1..Len(s) : s[i] = s[j] => i = j
BY DEF List, IsInjective, ToSet

LEMMA EmptyList ==
  ASSUME NEW S
  PROVE  <<>> \in List(S) /\ ToSet(<<>>) = {} /\ Len(<<>>) = 0
BY DEF List, IsInjective, ToSet

LEMMA OneList ==
  ASSUME NEW S, NEW e \in S
  PROVE  <<e>> \in List(S) /\ ToSet(<<e>>) = {e} /\ Len(<<e>>) = 1 /\ <<e>>[1] = e
BY DEF List, IsInjective, ToSet

LEMMA AppendList ==
  ASSUME NEW S, NEW s \in List(S), NEW e \in S, e \notin ToSet(s)
  PROVE  /\ Append(s, e) \in List(S) /\ ToSet(Append(s, e)) = ToSet(s) \cup {e}
         /\ Len(Append(s, e)) = Len(s) + 1
         /\ s # <<>> => Append(s, e)[1] = s[1]
<1>1. /\ s \in Seq(S) /\ Len(s) \in Nat /\ DOMAIN s = 1..Len(s)
      /\ \A i, j \in 1..Len(s) : s[i] = s[j] => i = j
      /\ \A i \in 1..Len(s) : s[i] # e
  BY ListIs
<1> DEFINE t == Append(s, e)
<1>2. /\ t \in Seq(S) /\ Len(t) = Len(s) + 1 /\ DOMAIN t = 1..(Len(s) + 1)
      /\ \A i \in 1..Len(s) : t[i] = s[i]
      /\ t[Len(s) + 1] = e
  BY <1>1
<1> HIDE DEF t
<1>3. t \in List(S)
  BY <1>1, <1>2 DEF List, IsInjective
<1>4. ToSet(t) = ToSet(s) \cup {e}
  BY <1>1, <1>2 DEF ToSet
<1>5. s # <<>> => t[1] = s[1]
  BY <1>1, <1>2
<1> QED
  BY <1>2, <1>3, <1>4, <1>5 DEF t

LEMMA RemoveAtList ==
  ASSUME NEW S, NEW s \in List(S), NEW k \in 1..Len(s)
  PROVE  /\ RemoveAt(s, k) \in List(S) /\ ToSet(RemoveAt(s, k)) = ToSet(s) \ {s[k]}
         /\ Len(RemoveAt(s, k)) = Len(s) - 1
         /\ k # 1 => RemoveAt(s, k)[1] = s[1]
<1>1. /\ s \in Seq(S) /\ Len(s) \in Nat /\ DOMAIN s = 1..Len(s)
      /\ \A i \in 1..Len(s) : s[i] \in S
      /\ \A i, j \in 1..Len(s) : s[i] = s[j] => i = j
  BY ListIs
<1> DEFINE a == SubSeq(s, 1, k - 1)
           b == SubSeq(s, k + 1, Len(s))
           t == a \o b
<1>2. a \in Seq(S) /\ Len(a) = k - 1 /\ \A i \in 1..(k - 1) : a[i] = s[i]
  BY <1>1, SubSeqProperties
<1>3. b \in Seq(S) /\ Len(b) = Len(s) - k /\ \A i \in 1..(Len(s) - k) : b[i] = s[i + k]
  <2>1. \A i \in (k + 1)..Len(s) : s[i] \in S
    BY <1>1
  <2>2. /\ SubSeq(s, k + 1, Len(s)) \in Seq(S)
        /\ Len(SubSeq(s, k + 1, Len(s))) = IF k + 1 <= Len(s) THEN Len(s) - (k + 1) + 1 ELSE 0
        /\ \A i \in 1..(Len(s) - (k + 1) + 1) : SubSeq(s, k + 1, Len(s))[i] = s[(k + 1) + i - 1]
    BY <1>1, <2>1, SubSeqProperties
  <2>3. \A i \in 1..(Len(s) - k) : (k + 1) + i - 1 = i + k /\ i \in 1..(Len(s) - (k + 1) + 1)
    BY <1>1
  <2>4. Len(b) = Len(s) - k
    <3>1. Len(s) \in Nat /\ k \in 1..Len(s)
      BY <1>1
    <3>2. (IF k + 1 <= Len(s) THEN Len(s) - (k + 1) + 1 ELSE 0) = Len(s) - k
      BY <3>1
    <3> QED
      BY <2>2, <3>2
  <2>5. \A i \in 1..(Len(s) - k) : b[i] = s[i + k]
    BY <2>2, <2>3
  <2> QED
    BY <2>2, <2>4, <2>5
<1> HIDE DEF a, b
<1>4. /\ t \in Seq(S) /\ Len(t) = Len(s) - 1
      /\ \A i \in 1..(Len(s) - 1) : t[i] = IF i < k THEN s[i] ELSE s[i + 1]
  <2>1. /\ t \in Seq(S) /\ Len(t) = Len(a) + Len(b)
        /\ \A i \in 1..(Len(a) + Len(b)) : t[i] = IF i <= Len(a) THEN a[i] ELSE b[i - Len(a)]
    BY <1>2, <1>3, ConcatProperties
  <2>2. Len(a) + Len(b) = Len(s) - 1
    BY <1>1, <1>2, <1>3
  <2>3. ASSUME NEW i \in 1..(Len(s) - 1) PROVE t[i] = IF i < k THEN s[i] ELSE s[i + 1]
    <3>1. CASE i < k
      BY <1>1, <1>2, <2>1, <2>2, <3>1
    <3>2. CASE i >= k
      <4>1. i - (k - 1) \in 1..(Len(s) - k) /\ (i - (k - 1)) + k = i + 1
        BY <1>1, <3>2
      <4>2. t[i] = b[i - (k - 1)]
        BY <1>1, <1>2, <2>1, <2>2, <3>2
      <4>3. b[i - (k - 1)] = s[(i - (k - 1)) + k]
        BY <1>3, <4>1
      <4> QED
        BY <3>2, <4>1, <4>2, <4>3
    <3>3. i < k \/ i >= k
      OBVIOUS
    <3> QED
      BY <3>1, <3>2, <3>3
  <2> QED
    BY <2>1, <2>2, <2>3
<1>5. t = RemoveAt(s, k)
  BY DEF RemoveAt, a, b
<1> HIDE DEF t
<1>6. DOMAIN t = 1..(Len(s) - 1)
  BY <1>4
<1>7. t \in List(S)
  BY <1>1, <1>4, <1>6 DEF List, IsInjective
<1>8. ToSet(t) = ToSet(s) \ {s[k]}
  <2>1. ASSUME NEW e \in ToSet(t) PROVE e \in ToSet(s) \ {s[k]}
    BY <1>1, <1>4, <1>6, <2>1 DEF ToSet
  <2>2. ASSUME NEW e \in ToSet(s), e # s[k] PROVE e \in ToSet(t)
    <3>1. PICK i \in 1..Len(s) : s[i] = e /\ i # k
      BY <1>1, <2>2 DEF ToSet
    <3>2. CASE i < k
      BY <1>1, <1>4, <1>6, <3>1, <3>2 DEF ToSet
    <3>3. CASE i > k
      <4>1. i - 1 \in 1..(Len(s) - 1) /\ t[i - 1] = s[i]
        BY <1>1, <1>4, <3>1, <3>3
      <4> QED
        BY <1>6, <3>1, <4>1 DEF ToSet
    <3> QED
      BY <3>1, <3>2, <3>3
  <2> QED
    BY <2>1, <2>2
<1>9. k # 1 => t[1] = s[1]
  BY <1>1, <1>4
<1> QED
  BY <1>4, <1>5, <1>7, <1>8, <1>9

LEMMA RemoveFirstList ==
  ASSUME NEW S, NEW s \in List(S), NEW e
  PROVE  /\ RemoveFirst(s, e) \in List(S) /\ ToSet(RemoveFirst(s, e)) = ToSet(s) \ {e}
         /\ e \in ToSet(s) => Len(RemoveFirst(s, e)) = Len(s) - 1
         /\ s # <<>> /\ e # s[1] => RemoveFirst(s, e)[1] = s[1] /\ RemoveFirst(s, e) # <<>>
<1> DEFINE I == {i \in 1..Len(s) : s[i] = e}
<1>1. CASE I = {}
  <2>1. RemoveFirst(s, e) = s
    BY <1>1 DEF RemoveFirst
  <2>2. e \notin ToSet(s)
    BY <1>1, ListIs
  <2> QED
    BY <2>1, <2>2
<1>2. CASE I # {}
  <2>1. Min(I) \in I
    BY <1>2, LeastIndex
  <2>2. RemoveFirst(s, e) = RemoveAt(s, Min(I))
    BY <1>2 DEF RemoveFirst, SelectInSeq
  <2> DEFINE k == Min(I)
  <2>3. k \in 1..Len(s) /\ s[k] = e
    BY <2>1
  <2> HIDE DEF k, I
  <2>4. /\ RemoveAt(s, k) \in List(S) /\ ToSet(RemoveAt(s, k)) = ToSet(s) \ {s[k]}
        /\ Len(RemoveAt(s, k)) = Len(s) - 1
        /\ k # 1 => RemoveAt(s, k)[1] = s[1]
    BY <2>3, RemoveAtList
  <2>5. s # <<>> /\ e # s[1] => RemoveAt(s, k) # <<>>
    <3>1. s # <<>> => s[1] \in ToSet(s)
      BY ListIs
    <3> QED
      BY <2>3, <2>4, <3>1, EmptyList
  <2> QED
    BY <2>2, <2>3, <2>4, <2>5 DEF k
<1> QED
  BY <1>1, <1>2

LEMMA MovedToFront ==
  ASSUME NEW S, NEW s \in List(S), NEW e \in ToSet(s)
  PROVE  LET t == <<e>> \o RemoveFirst(s, e)
         IN t \in List(S) /\ ToSet(t) = ToSet(s) /\ Len(t) = Len(s) /\ t # <<>> /\ t[1] = e
<1> DEFINE r == RemoveFirst(s, e)
           t == <<e>> \o r
<1>1. r \in List(S) /\ ToSet(r) = ToSet(s) \ {e} /\ Len(r) = Len(s) - 1 /\ e \in S
  BY RemoveFirstList, ListIs
<1> HIDE DEF r
<1>2. /\ r \in Seq(S) /\ Len(r) \in Nat /\ DOMAIN r = 1..Len(r)
      /\ \A i, j \in 1..Len(r) : r[i] = r[j] => i = j
      /\ \A i \in 1..Len(r) : r[i] # e
  BY <1>1, ListIs
<1>3. /\ t \in Seq(S) /\ Len(t) = Len(r) + 1 /\ DOMAIN t = 1..(Len(r) + 1)
      /\ t[1] = e /\ \A i \in 2..(Len(r) + 1) : t[i] = r[i - 1]
  BY <1>1, <1>2
<1> HIDE DEF t
<1>4. t \in List(S)
  BY <1>2, <1>3 DEF List, IsInjective
<1>5. ToSet(t) = ToSet(r) \cup {e}
  <2>1. ASSUME NEW x \in ToSet(r) PROVE x \in ToSet(t)
    <3>1. PICK i \in 1..Len(r) : r[i] = x
      BY <1>2, <2>1 DEF ToSet
    <3>2. i + 1 \in DOMAIN t /\ t[i + 1] = x
      BY <1>2, <1>3, <3>1
    <3> QED
      BY <3>2 DEF ToSet
  <2>2. e \in ToSet(t)
    BY <1>2, <1>3 DEF ToSet
  <2>3. ASSUME NEW x \in ToSet(t) PROVE x \in ToSet(r) \cup {e}
    BY <1>2, <1>3, <2>3 DEF ToSet
  <2> QED
    BY <2>1, <2>2, <2>3
<1>6. Len(s) \in Nat /\ t # <<>>
  BY <1>2, <1>3, ListIs
<1> QED
  BY <1>1, <1>3, <1>4, <1>5, <1>6 DEF t, r

-----------------------------------------------------------------------------
(* Both sides, and what each operation does to them *)

Group == [leader : Players \cup {Nobody}, members : List(Players), candidates : List(Players),
          offline : List(Players)]
Character == [party : Links, candidate_of : Links, offline_mem_of : Links, timer : BOOLEAN]
World == [parties : List(PartyIds), grp : [PartyIds -> Group], chr : [Players -> Character]]

Live(s) == ToSet(s.parties)

\* SidesAgree of such a state.
Agree(s) ==
  \A c \in Players, p \in PartyIds :
    /\ s.chr[c].party = p <=> p \in Live(s) /\ c \in ToSet(s.grp[p].members)
    /\ s.chr[c].candidate_of = p <=> p \in Live(s) /\ c \in ToSet(s.grp[p].candidates)
    /\ s.chr[c].offline_mem_of = p <=> p \in Live(s) /\ c \in ToSet(s.grp[p].offline)

\* Nobody is in a party and invited, or one that waits to rejoin; invitations are timed.
OneTie(x) ==
  /\ x.candidate_of # NoParty => x.party = NoParty /\ (DeclineTimeout => x.timer)
  /\ x.offline_mem_of # NoParty => x.party = NoParty /\ x.candidate_of = NoParty

Sound(s) == s \in World /\ Agree(s) /\ \A c \in Players : OneTie(s.chr[c])

Led(s, p) == s.grp[p].members # <<>> /\ s.grp[p].leader = s.grp[p].members[1]
Big(s, p) == Len(s.grp[p].members) + Len(s.grp[p].candidates) > 1

\* Only that party is not as it was.
Elsewhere(s, t, p) == t.parties = s.parties /\ \A q \in PartyIds \ {p} : t.grp[q] = s.grp[q]

LEMMA Elsewheres ==
  ASSUME NEW s, NEW t, NEW p, Elsewhere(s, t, p), NEW q \in Live(s), q # p, Live(s) \subseteq PartyIds
  PROVE  q \in Live(t) /\ (Led(s, q) => Led(t, q)) /\ (Big(s, q) => Big(t, q))
BY DEF Elsewhere, Live, Led, Big

LEMMA LiveAre ==
  ASSUME NEW s \in World
  PROVE  Live(s) \subseteq PartyIds
BY ListIs DEF World, Live

\* One party and one character changed together.
Put(s, p, g, c, x) == [s EXCEPT !.grp[p] = g, !.chr[c] = x]

LEMMA PutIs ==
  ASSUME NEW s \in World, NEW p \in PartyIds, NEW g \in Group, NEW c \in Players, NEW x \in Character
  PROVE  LET t == Put(s, p, g, c, x)
         IN /\ t \in World /\ Elsewhere(s, t, p) /\ t.grp[p] = g /\ t.chr[c] = x
            /\ \A d \in Players \ {c} : t.chr[d] = s.chr[d]
BY DEF Put, World, Elsewhere

\* The lists of g have c where x says so; of the others they have who was in them.
LEMMA PutSound ==
  ASSUME NEW s, Sound(s), NEW p \in Live(s), NEW g \in Group, NEW c \in Players, NEW x \in Character,
         OneTie(x),
         x.party = p <=> c \in ToSet(g.members),
         x.candidate_of = p <=> c \in ToSet(g.candidates),
         x.offline_mem_of = p <=> c \in ToSet(g.offline),
         \A q \in PartyIds \ {p} : /\ x.party = q <=> s.chr[c].party = q
                                   /\ x.candidate_of = q <=> s.chr[c].candidate_of = q
                                   /\ x.offline_mem_of = q <=> s.chr[c].offline_mem_of = q,
         \A d \in Players \ {c} : /\ d \in ToSet(g.members) <=> d \in ToSet(s.grp[p].members)
                                  /\ d \in ToSet(g.candidates) <=> d \in ToSet(s.grp[p].candidates)
                                  /\ d \in ToSet(g.offline) <=> d \in ToSet(s.grp[p].offline)
  PROVE  LET t == Put(s, p, g, c, x)
         IN /\ Sound(t) /\ Live(t) = Live(s) /\ Elsewhere(s, t, p) /\ t.grp[p] = g /\ t.chr[c] = x
            /\ \A d \in Players \ {c} : t.chr[d] = s.chr[d]
<1> DEFINE t == Put(s, p, g, c, x)
<1>1. s \in World /\ p \in PartyIds
  BY LiveAre DEF Sound
<1>2. /\ t \in World /\ Elsewhere(s, t, p) /\ t.grp[p] = g /\ t.chr[c] = x
      /\ \A d \in Players \ {c} : t.chr[d] = s.chr[d]
  BY <1>1, PutIs
<1> HIDE DEF t
<1>3. Live(t) = Live(s) /\ \A q \in PartyIds \ {p} : t.grp[q] = s.grp[q]
  BY <1>2 DEF Elsewhere, Live
<1>4. Agree(t)
  <2> SUFFICES ASSUME NEW d \in Players, NEW q \in PartyIds
               PROVE  /\ t.chr[d].party = q <=> q \in Live(s) /\ d \in ToSet(t.grp[q].members)
                      /\ t.chr[d].candidate_of = q <=> q \in Live(s) /\ d \in ToSet(t.grp[q].candidates)
                      /\ t.chr[d].offline_mem_of = q <=> q \in Live(s) /\ d \in ToSet(t.grp[q].offline)
    BY <1>3 DEF Agree
  <2>1. /\ s.chr[d].party = q <=> q \in Live(s) /\ d \in ToSet(s.grp[q].members)
        /\ s.chr[d].candidate_of = q <=> q \in Live(s) /\ d \in ToSet(s.grp[q].candidates)
        /\ s.chr[d].offline_mem_of = q <=> q \in Live(s) /\ d \in ToSet(s.grp[q].offline)
    BY DEF Sound, Agree
  <2>2. CASE q = p /\ d = c
    BY <1>2, <2>2
  <2>3. CASE q = p /\ d # c
    BY <1>2, <2>1, <2>3
  <2>4. CASE q # p /\ d = c
    BY <1>2, <1>3, <2>1, <2>4
  <2>5. CASE q # p /\ d # c
    BY <1>2, <1>3, <2>1, <2>5
  <2> QED
    BY <2>2, <2>3, <2>4, <2>5
<1>5. \A d \in Players : OneTie(t.chr[d])
  BY <1>2 DEF Sound
<1> QED
  BY <1>2, <1>3, <1>4, <1>5 DEF Sound, t

AfterAnswered(s, p, c, t) ==
  /\ Sound(t) /\ Live(t) = Live(s) /\ Elsewhere(s, t, p)
  /\ t.grp[p].leader = s.grp[p].leader /\ t.grp[p].members = s.grp[p].members
  /\ Len(t.grp[p].candidates) = Len(s.grp[p].candidates) - 1
  /\ \A d \in Players \ {c} : t.chr[d] = s.chr[d]
  /\ t.chr[c].party = s.chr[c].party /\ t.chr[c].candidate_of = NoParty
  /\ t.chr[c].offline_mem_of = s.chr[c].offline_mem_of

LEMMA AnsweredSound ==
  ASSUME NEW s, Sound(s), NEW p \in Live(s), NEW c \in Players, is_candidate(s, p, c)
  PROVE  AfterAnswered(s, p, c, Answered(s, p, c))
<1> DEFINE r == RemoveFirst(s.grp[p].candidates, c)
           g == [s.grp[p] EXCEPT !.candidates = r]
           x == [s.chr[c] EXCEPT !.timer = FALSE, !.candidate_of = NoParty]
<1>1. s \in World /\ p \in PartyIds /\ s.grp[p] \in Group /\ s.chr[c] \in Character
  BY LiveAre DEF Sound, World
<1>2. r \in List(Players) /\ ToSet(r) = ToSet(s.grp[p].candidates) \ {c} /\ Len(r) = Len(s.grp[p].candidates) - 1
  BY <1>1, RemoveFirstList DEF Group, is_candidate
<1>3. Answered(s, p, c) = Put(s, p, g, c, x)
  BY <1>1 DEF Answered, remove_candidate, Put, World
<1> HIDE DEF r
<1>4. /\ g \in Group /\ g.leader = s.grp[p].leader /\ g.members = s.grp[p].members
      /\ g.candidates = r /\ g.offline = s.grp[p].offline
  BY <1>1, <1>2 DEF Group
<1>5. /\ x \in Character /\ x.party = s.chr[c].party /\ x.candidate_of = NoParty
      /\ x.offline_mem_of = s.chr[c].offline_mem_of
  BY <1>1 DEF Character, Links
<1>6. /\ s.chr[c].candidate_of = p /\ OneTie(s.chr[c])
      /\ s.chr[c].party = p <=> c \in ToSet(s.grp[p].members)
      /\ s.chr[c].offline_mem_of = p <=> c \in ToSet(s.grp[p].offline)
  BY <1>1 DEF Sound, Agree, is_candidate
<1>13. x.party = s.chr[c].party /\ x.candidate_of = NoParty /\ x.offline_mem_of = s.chr[c].offline_mem_of
  BY <1>1 DEF Character
<1> HIDE DEF g, x
<1>7. OneTie(x) /\ NoParty \notin PartyIds
  BY <1>5, <1>6, PartyAssumption DEF OneTie
<1>8. /\ x.party = p <=> c \in ToSet(g.members)
      /\ x.candidate_of = p <=> c \in ToSet(g.candidates)
      /\ x.offline_mem_of = p <=> c \in ToSet(g.offline)
  BY <1>1, <1>2, <1>4, <1>5, <1>6, <1>7
<1>9. \A q \in PartyIds \ {p} : /\ x.party = q <=> s.chr[c].party = q
                                /\ x.candidate_of = q <=> s.chr[c].candidate_of = q
                                /\ x.offline_mem_of = q <=> s.chr[c].offline_mem_of = q
  BY <1>5, <1>6, <1>7
<1>10. \A d \in Players \ {c} : /\ d \in ToSet(g.members) <=> d \in ToSet(s.grp[p].members)
                                /\ d \in ToSet(g.candidates) <=> d \in ToSet(s.grp[p].candidates)
                                /\ d \in ToSet(g.offline) <=> d \in ToSet(s.grp[p].offline)
  BY <1>2, <1>4
<1>11. LET t == Put(s, p, g, c, x)
       IN /\ Sound(t) /\ Live(t) = Live(s) /\ Elsewhere(s, t, p) /\ t.grp[p] = g /\ t.chr[c] = x
          /\ \A d \in Players \ {c} : t.chr[d] = s.chr[d]
  BY <1>4, <1>5, <1>7, <1>8, <1>9, <1>10, PutSound
<1> QED
  BY <1>2, <1>3, <1>4, <1>11, <1>13 DEF AfterAnswered

\* A member less.
Without(s, p, c) == [remove_member(s, p, c) EXCEPT !.chr[c].party = NoParty]

LEMMA WithoutSound ==
  ASSUME NEW s, Sound(s), NEW p \in Live(s), NEW c \in Players, is_member(s, p, c)
  PROVE  LET t == Without(s, p, c)
         IN /\ Sound(t) /\ Live(t) = Live(s) /\ Elsewhere(s, t, p)
            /\ t.grp[p] = [s.grp[p] EXCEPT !.members = RemoveFirst(s.grp[p].members, c)]
            /\ Len(t.grp[p].members) = Len(s.grp[p].members) - 1
            /\ Led(s, p) /\ ~is_leader(s, p, c) => Led(t, p)
            /\ \A d \in Players \ {c} : t.chr[d] = s.chr[d]
            /\ t.chr[c].party = NoParty /\ t.chr[c].candidate_of = s.chr[c].candidate_of
            /\ t.chr[c].offline_mem_of = s.chr[c].offline_mem_of
            /\ s.chr[c].candidate_of = NoParty /\ s.chr[c].offline_mem_of = NoParty
<1> DEFINE r == RemoveFirst(s.grp[p].members, c)
           g == [s.grp[p] EXCEPT !.members = r]
           x == [s.chr[c] EXCEPT !.party = NoParty]
<1>1. s \in World /\ p \in PartyIds /\ s.grp[p] \in Group /\ s.chr[c] \in Character
  BY LiveAre DEF Sound, World
<1>2. /\ r \in List(Players) /\ ToSet(r) = ToSet(s.grp[p].members) \ {c} /\ Len(r) = Len(s.grp[p].members) - 1
      /\ s.grp[p].members # <<>> /\ c # s.grp[p].members[1] => r[1] = s.grp[p].members[1] /\ r # <<>>
  BY <1>1, RemoveFirstList DEF Group, is_member
<1>3. Without(s, p, c) = Put(s, p, g, c, x)
  BY <1>1 DEF Without, remove_member, Put, World
<1> HIDE DEF r
<1>4. /\ g \in Group /\ g.leader = s.grp[p].leader /\ g.members = r
      /\ g.candidates = s.grp[p].candidates /\ g.offline = s.grp[p].offline
  BY <1>1, <1>2 DEF Group
<1>5. /\ x \in Character /\ x.party = NoParty /\ x.candidate_of = s.chr[c].candidate_of
      /\ x.offline_mem_of = s.chr[c].offline_mem_of /\ x.timer = s.chr[c].timer
  BY <1>1 DEF Character, Links
<1>6. /\ s.chr[c].party = p /\ OneTie(s.chr[c])
      /\ s.chr[c].party = p <=> c \in ToSet(s.grp[p].members)
      /\ s.chr[c].candidate_of = p <=> c \in ToSet(s.grp[p].candidates)
      /\ s.chr[c].offline_mem_of = p <=> c \in ToSet(s.grp[p].offline)
  BY <1>1 DEF Sound, Agree, is_member
<1>13. x.party = NoParty /\ x.candidate_of = s.chr[c].candidate_of /\ x.offline_mem_of = s.chr[c].offline_mem_of
  BY <1>1 DEF Character
<1> HIDE DEF g, x
<1>7. /\ OneTie(x) /\ NoParty \notin PartyIds
      /\ s.chr[c].candidate_of = NoParty /\ s.chr[c].offline_mem_of = NoParty
  BY <1>1, <1>5, <1>6, PartyAssumption DEF OneTie
<1>8. /\ x.party = p <=> c \in ToSet(g.members)
      /\ x.candidate_of = p <=> c \in ToSet(g.candidates)
      /\ x.offline_mem_of = p <=> c \in ToSet(g.offline)
  BY <1>1, <1>2, <1>4, <1>5, <1>6, <1>7
<1>9. \A q \in PartyIds \ {p} : /\ x.party = q <=> s.chr[c].party = q
                                /\ x.candidate_of = q <=> s.chr[c].candidate_of = q
                                /\ x.offline_mem_of = q <=> s.chr[c].offline_mem_of = q
  BY <1>5, <1>6, <1>7
<1>10. \A d \in Players \ {c} : /\ d \in ToSet(g.members) <=> d \in ToSet(s.grp[p].members)
                                /\ d \in ToSet(g.candidates) <=> d \in ToSet(s.grp[p].candidates)
                                /\ d \in ToSet(g.offline) <=> d \in ToSet(s.grp[p].offline)
  BY <1>2, <1>4
<1>11. LET t == Put(s, p, g, c, x)
       IN /\ Sound(t) /\ Live(t) = Live(s) /\ Elsewhere(s, t, p) /\ t.grp[p] = g /\ t.chr[c] = x
          /\ \A d \in Players \ {c} : t.chr[d] = s.chr[d]
  BY <1>4, <1>5, <1>7, <1>8, <1>9, <1>10, PutSound
<1>12. Led(s, p) /\ ~is_leader(s, p, c) => g.members # <<>> /\ g.leader = g.members[1]
  BY <1>2, <1>4 DEF Led, is_leader
<1> QED
  BY <1>2, <1>3, <1>4, <1>7, <1>11, <1>12, <1>13 DEF g, r, Led

\* A member more.
AfterJoined(s, p, c, t) ==
  /\ Sound(t) /\ Live(t) = Live(s) /\ Elsewhere(s, t, p)
  /\ t.grp[p].candidates = s.grp[p].candidates
  /\ Len(t.grp[p].members) = Len(s.grp[p].members) + 1
  /\ Led(s, p) => Led(t, p)
  /\ \A d \in Players \ {c} : t.chr[d] = s.chr[d]
  /\ t.chr[c].party = p /\ t.chr[c].candidate_of = s.chr[c].candidate_of
  /\ t.chr[c].offline_mem_of = s.chr[c].offline_mem_of

LEMMA JoinedSound ==
  ASSUME NEW s, Sound(s), NEW p \in Live(s), NEW c \in Players,
         s.chr[c].party = NoParty, s.chr[c].candidate_of = NoParty, s.chr[c].offline_mem_of = NoParty
  PROVE  AfterJoined(s, p, c, Joined(s, p, c))
<1> DEFINE r == Append(s.grp[p].members, c)
           g == [s.grp[p] EXCEPT !.members = r]
           x == [s.chr[c] EXCEPT !.party = p]
<1>1. s \in World /\ p \in PartyIds /\ s.grp[p] \in Group /\ s.chr[c] \in Character
  BY LiveAre DEF Sound, World
<1>6. /\ NoParty \notin PartyIds
      /\ s.chr[c].party = p <=> c \in ToSet(s.grp[p].members)
      /\ s.chr[c].candidate_of = p <=> c \in ToSet(s.grp[p].candidates)
      /\ s.chr[c].offline_mem_of = p <=> c \in ToSet(s.grp[p].offline)
  BY <1>1, PartyAssumption DEF Sound, Agree
<1>2. /\ r \in List(Players) /\ ToSet(r) = ToSet(s.grp[p].members) \cup {c} /\ Len(r) = Len(s.grp[p].members) + 1
      /\ s.grp[p].members # <<>> => r[1] = s.grp[p].members[1]
  BY <1>1, <1>6, AppendList DEF Group
<1>3. Joined(s, p, c) = Put(s, p, g, c, x)
  BY <1>1 DEF Joined, Put, World
<1> HIDE DEF r
<1>4. /\ g \in Group /\ g.leader = s.grp[p].leader /\ g.members = r
      /\ g.candidates = s.grp[p].candidates /\ g.offline = s.grp[p].offline
  BY <1>1, <1>2 DEF Group
<1>5. /\ x \in Character /\ x.party = p /\ x.candidate_of = NoParty /\ x.offline_mem_of = NoParty
  BY <1>1 DEF Character, Links
<1>13. x.party = p /\ x.candidate_of = s.chr[c].candidate_of /\ x.offline_mem_of = s.chr[c].offline_mem_of
  BY <1>1 DEF Character
<1> HIDE DEF g, x
<1>7. OneTie(x)
  BY <1>5 DEF OneTie
<1>8. /\ x.party = p <=> c \in ToSet(g.members)
      /\ x.candidate_of = p <=> c \in ToSet(g.candidates)
      /\ x.offline_mem_of = p <=> c \in ToSet(g.offline)
  BY <1>1, <1>2, <1>4, <1>5, <1>6, <1>7
<1>9. \A q \in PartyIds \ {p} : /\ x.party = q <=> s.chr[c].party = q
                                /\ x.candidate_of = q <=> s.chr[c].candidate_of = q
                                /\ x.offline_mem_of = q <=> s.chr[c].offline_mem_of = q
  BY <1>5, <1>6, <1>7
<1>10. \A d \in Players \ {c} : /\ d \in ToSet(g.members) <=> d \in ToSet(s.grp[p].members)
                                /\ d \in ToSet(g.candidates) <=> d \in ToSet(s.grp[p].candidates)
                                /\ d \in ToSet(g.offline) <=> d \in ToSet(s.grp[p].offline)
  BY <1>2, <1>4
<1>11. LET t == Put(s, p, g, c, x)
       IN /\ Sound(t) /\ Live(t) = Live(s) /\ Elsewhere(s, t, p) /\ t.grp[p] = g /\ t.chr[c] = x
          /\ \A d \in Players \ {c} : t.chr[d] = s.chr[d]
  BY <1>4, <1>5, <1>7, <1>8, <1>9, <1>10, PutSound
<1>12. Led(s, p) => g.members # <<>> /\ g.leader = g.members[1]
  <2>1. r # <<>>
    BY <1>2, EmptyList
  <2> QED
    BY <1>2, <1>4, <2>1 DEF Led
<1> QED
  BY <1>2, <1>3, <1>4, <1>11, <1>12, <1>13 DEF Led, AfterJoined

\* Somebody invited more, whose timer runs.
AfterInvited(s, p, c, t) ==
  /\ Sound(t) /\ Live(t) = Live(s) /\ Elsewhere(s, t, p)
  /\ t.grp[p].members = s.grp[p].members
  /\ Len(t.grp[p].candidates) = Len(s.grp[p].candidates) + 1
  /\ Led(s, p) => Led(t, p)
  /\ \A d \in Players \ {c} : t.chr[d] = s.chr[d]
  /\ t.chr[c].party = s.chr[c].party /\ t.chr[c].candidate_of = p
  /\ t.chr[c].offline_mem_of = s.chr[c].offline_mem_of

LEMMA InvitedSound ==
  ASSUME NEW s, Sound(s), NEW p \in Live(s), NEW c \in Players, DeclineTimeout => s.chr[c].timer = TRUE,
         s.chr[c].party = NoParty, s.chr[c].candidate_of = NoParty, s.chr[c].offline_mem_of = NoParty
  PROVE  AfterInvited(s, p, c, Invited(s, p, c))
<1> DEFINE r == Append(s.grp[p].candidates, c)
           g == [s.grp[p] EXCEPT !.candidates = r]
           x == [s.chr[c] EXCEPT !.candidate_of = p]
<1>1. s \in World /\ p \in PartyIds /\ s.grp[p] \in Group /\ s.chr[c] \in Character
  BY LiveAre DEF Sound, World
<1>6. /\ NoParty \notin PartyIds
      /\ s.chr[c].party = p <=> c \in ToSet(s.grp[p].members)
      /\ s.chr[c].candidate_of = p <=> c \in ToSet(s.grp[p].candidates)
      /\ s.chr[c].offline_mem_of = p <=> c \in ToSet(s.grp[p].offline)
  BY <1>1, PartyAssumption DEF Sound, Agree
<1>2. r \in List(Players) /\ ToSet(r) = ToSet(s.grp[p].candidates) \cup {c} /\ Len(r) = Len(s.grp[p].candidates) + 1
  BY <1>1, <1>6, AppendList DEF Group
<1>3. Invited(s, p, c) = Put(s, p, g, c, x)
  BY <1>1 DEF Invited, Put, World
<1> HIDE DEF r
<1>4. /\ g \in Group /\ g.leader = s.grp[p].leader /\ g.members = s.grp[p].members
      /\ g.candidates = r /\ g.offline = s.grp[p].offline
  BY <1>1, <1>2 DEF Group
<1>5. /\ x \in Character /\ x.party = NoParty /\ x.candidate_of = p /\ x.offline_mem_of = NoParty
      /\ DeclineTimeout => x.timer
  BY <1>1 DEF Character, Links
<1>13. x.party = s.chr[c].party /\ x.candidate_of = p /\ x.offline_mem_of = s.chr[c].offline_mem_of
  BY <1>1 DEF Character
<1> HIDE DEF g, x
<1>7. OneTie(x)
  BY <1>5 DEF OneTie
<1>8. /\ x.party = p <=> c \in ToSet(g.members)
      /\ x.candidate_of = p <=> c \in ToSet(g.candidates)
      /\ x.offline_mem_of = p <=> c \in ToSet(g.offline)
  BY <1>1, <1>2, <1>4, <1>5, <1>6, <1>7
<1>9. \A q \in PartyIds \ {p} : /\ x.party = q <=> s.chr[c].party = q
                                /\ x.candidate_of = q <=> s.chr[c].candidate_of = q
                                /\ x.offline_mem_of = q <=> s.chr[c].offline_mem_of = q
  BY <1>5, <1>6, <1>7
<1>10. \A d \in Players \ {c} : /\ d \in ToSet(g.members) <=> d \in ToSet(s.grp[p].members)
                                /\ d \in ToSet(g.candidates) <=> d \in ToSet(s.grp[p].candidates)
                                /\ d \in ToSet(g.offline) <=> d \in ToSet(s.grp[p].offline)
  BY <1>2, <1>4
<1>11. LET t == Put(s, p, g, c, x)
       IN /\ Sound(t) /\ Live(t) = Live(s) /\ Elsewhere(s, t, p) /\ t.grp[p] = g /\ t.chr[c] = x
          /\ \A d \in Players \ {c} : t.chr[d] = s.chr[d]
  BY <1>4, <1>5, <1>7, <1>8, <1>9, <1>10, PutSound
<1> QED
  BY <1>2, <1>3, <1>4, <1>11, <1>13 DEF Led, AfterInvited

\* One more that waits to rejoin.
Waiting(s, p, c) == [s EXCEPT !.grp[p].offline = Append(@, c), !.chr[c].offline_mem_of = p]

LEMMA WaitsSound ==
  ASSUME NEW s, Sound(s), NEW p \in Live(s), NEW c \in Players,
         s.chr[c].party = NoParty, s.chr[c].candidate_of = NoParty, s.chr[c].offline_mem_of = NoParty
  PROVE  LET t == Waiting(s, p, c)
         IN /\ Sound(t) /\ Live(t) = Live(s) /\ Elsewhere(s, t, p)
            /\ t.grp[p].members = s.grp[p].members /\ t.grp[p].candidates = s.grp[p].candidates
            /\ t.grp[p].leader = s.grp[p].leader
            /\ \A d \in Players \ {c} : t.chr[d] = s.chr[d]
            /\ t.chr[c].party = s.chr[c].party /\ t.chr[c].candidate_of = s.chr[c].candidate_of
            /\ t.chr[c].offline_mem_of = p
<1> DEFINE r == Append(s.grp[p].offline, c)
           g == [s.grp[p] EXCEPT !.offline = r]
           x == [s.chr[c] EXCEPT !.offline_mem_of = p]
<1>1. s \in World /\ p \in PartyIds /\ s.grp[p] \in Group /\ s.chr[c] \in Character
  BY LiveAre DEF Sound, World
<1>6. /\ NoParty \notin PartyIds
      /\ s.chr[c].party = p <=> c \in ToSet(s.grp[p].members)
      /\ s.chr[c].candidate_of = p <=> c \in ToSet(s.grp[p].candidates)
      /\ s.chr[c].offline_mem_of = p <=> c \in ToSet(s.grp[p].offline)
  BY <1>1, PartyAssumption DEF Sound, Agree
<1>2. r \in List(Players) /\ ToSet(r) = ToSet(s.grp[p].offline) \cup {c}
  BY <1>1, <1>6, AppendList DEF Group
<1>3. Waiting(s, p, c) = Put(s, p, g, c, x)
  BY <1>1 DEF Waiting, Put, World
<1> HIDE DEF r
<1>4. /\ g \in Group /\ g.leader = s.grp[p].leader /\ g.members = s.grp[p].members
      /\ g.candidates = s.grp[p].candidates /\ g.offline = r
  BY <1>1, <1>2 DEF Group
<1>5. /\ x \in Character /\ x.party = NoParty /\ x.candidate_of = NoParty /\ x.offline_mem_of = p
  BY <1>1 DEF Character, Links
<1>13. x.party = s.chr[c].party /\ x.candidate_of = s.chr[c].candidate_of /\ x.offline_mem_of = p
  BY <1>1 DEF Character
<1> HIDE DEF g, x
<1>7. OneTie(x)
  BY <1>5 DEF OneTie
<1>8. /\ x.party = p <=> c \in ToSet(g.members)
      /\ x.candidate_of = p <=> c \in ToSet(g.candidates)
      /\ x.offline_mem_of = p <=> c \in ToSet(g.offline)
  BY <1>1, <1>2, <1>4, <1>5, <1>6, <1>7
<1>9. \A q \in PartyIds \ {p} : /\ x.party = q <=> s.chr[c].party = q
                                /\ x.candidate_of = q <=> s.chr[c].candidate_of = q
                                /\ x.offline_mem_of = q <=> s.chr[c].offline_mem_of = q
  BY <1>5, <1>6, <1>7
<1>10. \A d \in Players \ {c} : /\ d \in ToSet(g.members) <=> d \in ToSet(s.grp[p].members)
                                /\ d \in ToSet(g.candidates) <=> d \in ToSet(s.grp[p].candidates)
                                /\ d \in ToSet(g.offline) <=> d \in ToSet(s.grp[p].offline)
  BY <1>2, <1>4
<1>11. LET t == Put(s, p, g, c, x)
       IN /\ Sound(t) /\ Live(t) = Live(s) /\ Elsewhere(s, t, p) /\ t.grp[p] = g /\ t.chr[c] = x
          /\ \A d \in Players \ {c} : t.chr[d] = s.chr[d]
  BY <1>4, <1>5, <1>7, <1>8, <1>9, <1>10, PutSound
<1> QED
  BY <1>2, <1>3, <1>4, <1>11, <1>13

\* ...and one less.
Returned(s, p, c) ==
  [s EXCEPT !.grp[p].offline = RemoveFirst(@, c), !.chr[c].offline_mem_of = NoParty]

AfterReturned(s, p, c, t) ==
  /\ Sound(t) /\ Live(t) = Live(s) /\ Elsewhere(s, t, p)
  /\ t.grp[p].members = s.grp[p].members /\ t.grp[p].candidates = s.grp[p].candidates
  /\ t.grp[p].leader = s.grp[p].leader
  /\ \A d \in Players \ {c} : t.chr[d] = s.chr[d]
  /\ t.chr[c].party = s.chr[c].party /\ t.chr[c].candidate_of = s.chr[c].candidate_of
  /\ t.chr[c].offline_mem_of = NoParty
  /\ s.chr[c].party = NoParty /\ s.chr[c].candidate_of = NoParty

LEMMA BackSound ==
  ASSUME NEW s, Sound(s), NEW p \in Live(s), NEW c \in Players, s.chr[c].offline_mem_of = p
  PROVE  AfterReturned(s, p, c, Returned(s, p, c))
<1> DEFINE r == RemoveFirst(s.grp[p].offline, c)
           g == [s.grp[p] EXCEPT !.offline = r]
           x == [s.chr[c] EXCEPT !.offline_mem_of = NoParty]
<1>1. s \in World /\ p \in PartyIds /\ s.grp[p] \in Group /\ s.chr[c] \in Character
  BY LiveAre DEF Sound, World
<1>6. /\ NoParty \notin PartyIds /\ s.chr[c].party = NoParty /\ s.chr[c].candidate_of = NoParty
      /\ s.chr[c].party = p <=> c \in ToSet(s.grp[p].members)
      /\ s.chr[c].candidate_of = p <=> c \in ToSet(s.grp[p].candidates)
      /\ s.chr[c].offline_mem_of = p <=> c \in ToSet(s.grp[p].offline)
  BY <1>1, PartyAssumption DEF Sound, Agree, OneTie
<1>2. r \in List(Players) /\ ToSet(r) = ToSet(s.grp[p].offline) \ {c}
  BY <1>1, RemoveFirstList DEF Group
<1>3. Returned(s, p, c) = Put(s, p, g, c, x)
  BY <1>1 DEF Returned, Put, World
<1> HIDE DEF r
<1>4. /\ g \in Group /\ g.leader = s.grp[p].leader /\ g.members = s.grp[p].members
      /\ g.candidates = s.grp[p].candidates /\ g.offline = r
  BY <1>1, <1>2 DEF Group
<1>5. /\ x \in Character /\ x.party = NoParty /\ x.candidate_of = NoParty /\ x.offline_mem_of = NoParty
  BY <1>1, <1>6 DEF Character, Links
<1>13. x.party = s.chr[c].party /\ x.candidate_of = s.chr[c].candidate_of /\ x.offline_mem_of = NoParty
  BY <1>1 DEF Character
<1> HIDE DEF g, x
<1>7. OneTie(x)
  BY <1>5 DEF OneTie
<1>8. /\ x.party = p <=> c \in ToSet(g.members)
      /\ x.candidate_of = p <=> c \in ToSet(g.candidates)
      /\ x.offline_mem_of = p <=> c \in ToSet(g.offline)
  BY <1>1, <1>2, <1>4, <1>5, <1>6, <1>7
<1>9. \A q \in PartyIds \ {p} : /\ x.party = q <=> s.chr[c].party = q
                                /\ x.candidate_of = q <=> s.chr[c].candidate_of = q
                                /\ x.offline_mem_of = q <=> s.chr[c].offline_mem_of = q
  BY <1>5, <1>6, <1>7
<1>10. \A d \in Players \ {c} : /\ d \in ToSet(g.members) <=> d \in ToSet(s.grp[p].members)
                                /\ d \in ToSet(g.candidates) <=> d \in ToSet(s.grp[p].candidates)
                                /\ d \in ToSet(g.offline) <=> d \in ToSet(s.grp[p].offline)
  BY <1>2, <1>4
<1>11. LET t == Put(s, p, g, c, x)
       IN /\ Sound(t) /\ Live(t) = Live(s) /\ Elsewhere(s, t, p) /\ t.grp[p] = g /\ t.chr[c] = x
          /\ \A d \in Players \ {c} : t.chr[d] = s.chr[d]
  BY <1>4, <1>5, <1>7, <1>8, <1>9, <1>10, PutSound
<1> QED
  BY <1>2, <1>3, <1>4, <1>6, <1>11, <1>13 DEF AfterReturned

AfterSetLeader(s, p, c, t) ==
  /\ Sound(t) /\ Live(t) = Live(s) /\ Elsewhere(s, t, p) /\ t.chr = s.chr
  /\ t.grp[p].candidates = s.grp[p].candidates
  /\ Len(t.grp[p].members) = Len(s.grp[p].members) /\ Led(t, p)

LEMMA SetLeaderSound ==
  ASSUME NEW s, Sound(s), NEW p \in Live(s), NEW c \in Players, is_member(s, p, c)
  PROVE  AfterSetLeader(s, p, c, set_leader(s, p, c))
<1> DEFINE r == <<c>> \o RemoveFirst(s.grp[p].members, c)
           g == [s.grp[p] EXCEPT !.members = r, !.leader = c]
           x == s.chr[c]
<1>1. s \in World /\ p \in PartyIds /\ s.grp[p] \in Group /\ s.chr[c] \in Character
  BY LiveAre DEF Sound, World
<1>6. /\ NoParty \notin PartyIds
      /\ s.chr[c].party = p <=> c \in ToSet(s.grp[p].members)
      /\ s.chr[c].candidate_of = p <=> c \in ToSet(s.grp[p].candidates)
      /\ s.chr[c].offline_mem_of = p <=> c \in ToSet(s.grp[p].offline)
  BY <1>1, PartyAssumption DEF Sound, Agree
<1>2. /\ r \in List(Players) /\ ToSet(r) = ToSet(s.grp[p].members) /\ Len(r) = Len(s.grp[p].members)
      /\ r # <<>> /\ r[1] = c
  BY <1>1, MovedToFront DEF Group, is_member
<1>3. set_leader(s, p, c) = Put(s, p, g, c, x) /\ set_leader(s, p, c).chr = s.chr
  BY <1>1 DEF set_leader, Put, World
<1> HIDE DEF r
<1>4. /\ g \in Group /\ g.leader = c /\ g.members = r
      /\ g.candidates = s.grp[p].candidates /\ g.offline = s.grp[p].offline
  BY <1>1, <1>2 DEF Group
<1>5. x \in Character /\ x = s.chr[c]
  BY <1>1
<1> HIDE DEF g, x
<1>7. OneTie(x)
  BY <1>5 DEF Sound
<1>8. /\ x.party = p <=> c \in ToSet(g.members)
      /\ x.candidate_of = p <=> c \in ToSet(g.candidates)
      /\ x.offline_mem_of = p <=> c \in ToSet(g.offline)
  BY <1>1, <1>2, <1>4, <1>5, <1>6, <1>7
<1>9. \A q \in PartyIds \ {p} : /\ x.party = q <=> s.chr[c].party = q
                                /\ x.candidate_of = q <=> s.chr[c].candidate_of = q
                                /\ x.offline_mem_of = q <=> s.chr[c].offline_mem_of = q
  BY <1>5, <1>6, <1>7
<1>10. \A d \in Players \ {c} : /\ d \in ToSet(g.members) <=> d \in ToSet(s.grp[p].members)
                                /\ d \in ToSet(g.candidates) <=> d \in ToSet(s.grp[p].candidates)
                                /\ d \in ToSet(g.offline) <=> d \in ToSet(s.grp[p].offline)
  BY <1>2, <1>4
<1>11. LET t == Put(s, p, g, c, x)
       IN /\ Sound(t) /\ Live(t) = Live(s) /\ Elsewhere(s, t, p) /\ t.grp[p] = g /\ t.chr[c] = x
          /\ \A d \in Players \ {c} : t.chr[d] = s.chr[d]
  BY <1>4, <1>5, <1>7, <1>8, <1>9, <1>10, PutSound
<1> QED
  BY <1>2, <1>3, <1>4, <1>11 DEF Led, AfterSetLeader


\* Nobody's links change: the timer of one who is not invited, or a timer set.
Timed(s, c, b) == [s EXCEPT !.chr[c].timer = b]

AfterTimed(s, c, b, t) ==
  /\ Sound(t) /\ t.parties = s.parties /\ Live(t) = Live(s) /\ t.grp = s.grp
  /\ \A d \in Players \ {c} : t.chr[d] = s.chr[d]
  /\ t.chr[c].party = s.chr[c].party /\ t.chr[c].candidate_of = s.chr[c].candidate_of
  /\ t.chr[c].offline_mem_of = s.chr[c].offline_mem_of /\ t.chr[c].timer = b

LEMMA TimerSound ==
  ASSUME NEW s, Sound(s), NEW c \in Players, NEW b \in BOOLEAN, s.chr[c].candidate_of # NoParty => b
  PROVE  AfterTimed(s, c, b, Timed(s, c, b))
<1> DEFINE t == Timed(s, c, b)
           x == [s.chr[c] EXCEPT !.timer = b]
<1>1. s \in World /\ s.chr[c] \in Character /\ OneTie(s.chr[c])
  BY DEF Sound, World
<1>2. /\ x \in Character /\ x.party = s.chr[c].party /\ x.candidate_of = s.chr[c].candidate_of
      /\ x.offline_mem_of = s.chr[c].offline_mem_of /\ x.timer = b
  BY <1>1 DEF Character
<1>3. /\ t.parties = s.parties /\ t.grp = s.grp /\ t.chr[c] = x
      /\ \A d \in Players \ {c} : t.chr[d] = s.chr[d]
  BY <1>1 DEF World, Timed
<1>4. t \in World
  BY <1>1, <1>2 DEF World, Timed
<1> HIDE DEF t, x
<1>5. Live(t) = Live(s)
  BY <1>3 DEF Live
<1>6. \A d \in Players : /\ t.chr[d].party = s.chr[d].party /\ t.chr[d].candidate_of = s.chr[d].candidate_of
                         /\ t.chr[d].offline_mem_of = s.chr[d].offline_mem_of
  BY <1>2, <1>3
<1>7. Agree(t)
  BY <1>3, <1>5, <1>6 DEF Sound, Agree
<1>8. \A d \in Players : OneTie(t.chr[d])
  BY <1>1, <1>2, <1>3 DEF Sound, OneTie
<1> QED
  BY <1>3, <1>4, <1>5, <1>7, <1>8 DEF t, x, Sound, AfterTimed

\* A party at a free address, of one who has no ties.
AfterNewParty(s, p, c, t) ==
  /\ Sound(t) /\ Live(t) = Live(s) \cup {p}
  /\ \A q \in PartyIds \ {p} : t.grp[q] = s.grp[q]
  /\ Led(t, p) /\ Len(t.grp[p].members) = 1 /\ t.grp[p].candidates = <<>>
  /\ \A d \in Players \ {c} : t.chr[d] = s.chr[d]
  /\ t.chr[c].party = p /\ t.chr[c].candidate_of = s.chr[c].candidate_of
  /\ t.chr[c].offline_mem_of = s.chr[c].offline_mem_of

LEMMA NewPartySound ==
  ASSUME NEW s, Sound(s), NEW p \in PartyIds, p \notin Live(s), NEW c \in Players,
         s.chr[c].party = NoParty, s.chr[c].candidate_of = NoParty, s.chr[c].offline_mem_of = NoParty
  PROVE  AfterNewParty(s, p, c, NewParty(s, p, c))
<1> DEFINE t == NewParty(s, p, c)
           g == [NoMembers EXCEPT !.leader = c, !.members = <<c>>]
           x == [s.chr[c] EXCEPT !.party = p]
<1>1. s \in World /\ s.chr[c] \in Character /\ NoParty \notin PartyIds
  BY PartyAssumption DEF Sound, World
<1>2. /\ x \in Character /\ x.party = p /\ x.candidate_of = NoParty /\ x.offline_mem_of = NoParty
  BY <1>1 DEF Character, Links
<1>3. /\ g \in Group /\ g.leader = c /\ g.members = <<c>> /\ g.candidates = <<>> /\ g.offline = <<>>
  BY EmptyList, OneList DEF Group, NoMembers
<1>4. /\ t.parties = Append(s.parties, p) /\ t.grp[p] = g /\ t.chr[c] = x
      /\ \A q \in PartyIds \ {p} : t.grp[q] = s.grp[q]
      /\ \A d \in Players \ {c} : t.chr[d] = s.chr[d]
  BY <1>1 DEF NewParty, World
<1>5. Append(s.parties, p) \in List(PartyIds) /\ ToSet(Append(s.parties, p)) = Live(s) \cup {p}
  BY <1>1, AppendList DEF World, Live
<1>6. t \in World
  BY <1>1, <1>2, <1>3, <1>5 DEF World, NewParty
<1> HIDE DEF t, g, x
<1>7. Live(t) = Live(s) \cup {p}
  BY <1>4, <1>5 DEF Live
<1>8. Agree(t)
  <2> SUFFICES ASSUME NEW d \in Players, NEW q \in PartyIds
               PROVE  /\ t.chr[d].party = q <=> q \in Live(t) /\ d \in ToSet(t.grp[q].members)
                      /\ t.chr[d].candidate_of = q <=> q \in Live(t) /\ d \in ToSet(t.grp[q].candidates)
                      /\ t.chr[d].offline_mem_of = q <=> q \in Live(t) /\ d \in ToSet(t.grp[q].offline)
    BY DEF Agree
  <2>1. /\ s.chr[d].party = q <=> q \in Live(s) /\ d \in ToSet(s.grp[q].members)
        /\ s.chr[d].candidate_of = q <=> q \in Live(s) /\ d \in ToSet(s.grp[q].candidates)
        /\ s.chr[d].offline_mem_of = q <=> q \in Live(s) /\ d \in ToSet(s.grp[q].offline)
    BY DEF Sound, Agree
  <2>2. ToSet(<<c>>) = {c} /\ ToSet(<<>>) = {}
    BY EmptyList, OneList
  <2>3. CASE q = p /\ d = c
    BY <1>1, <1>2, <1>3, <1>4, <1>7, <2>2, <2>3
  <2>4. CASE q = p /\ d # c
    BY <1>3, <1>4, <1>7, <2>1, <2>2, <2>4
  <2>5. CASE q # p /\ d = c
    BY <1>1, <1>2, <1>4, <1>7, <2>1, <2>5
  <2>6. CASE q # p /\ d # c
    BY <1>4, <1>7, <2>1, <2>6
  <2> QED
    BY <2>3, <2>4, <2>5, <2>6
<1>9. \A d \in Players : OneTie(t.chr[d])
  BY <1>2, <1>4 DEF Sound, OneTie
<1>10. Led(t, p) /\ Len(t.grp[p].members) = 1
  <2>1. Len(<<c>>) = 1 /\ <<c>>[1] = c /\ <<c>> # <<>>
    OBVIOUS
  <2> QED
    BY <1>3, <1>4, <2>1 DEF Led
<1> QED
  BY <1>3, <1>4, <1>6, <1>7, <1>8, <1>9, <1>10 DEF t, x, Sound, AfterNewParty

\* The party is freed: nobody is left with a link to it.
LEMMA DisbandSound ==
  ASSUME NEW s, Sound(s), NEW p \in Live(s), NEW c, is_leader(s, p, c),
         \A q \in Live(s) \ {p} : ~is_leader(s, q, c)
  PROVE  LET t == disband_party(s, c)
         IN /\ Sound(t) /\ Live(t) = Live(s) \ {p}
            /\ \A q \in PartyIds \ {p} : t.grp[q] = s.grp[q]
            /\ t.grp[p].members = <<>> /\ t.grp[p].candidates = <<>>
            /\ \A d \in Players :
                 /\ t.chr[d].party = IF s.chr[d].party = p THEN NoParty ELSE s.chr[d].party
                 /\ t.chr[d].offline_mem_of = IF s.chr[d].offline_mem_of = p THEN NoParty
                                              ELSE s.chr[d].offline_mem_of
<1> DEFINE I == {i \in 1..Len(s.parties) : is_leader(s, s.parties[i], c)}
           k == Min(I)
           u == disband(s, p)
           g == [NoMembers EXCEPT !.leader = s.grp[p].leader]
           t == [u EXCEPT !.parties = RemoveAt(s.parties, k)]
<1>1. /\ s \in World /\ p \in PartyIds /\ s.grp[p] \in Group /\ s.parties \in List(PartyIds)
      /\ NoParty \notin PartyIds
  BY LiveAre, PartyAssumption DEF Sound, World
<1>2. PICK i \in 1..Len(s.parties) : s.parties[i] = p
  BY <1>1, ListIs DEF Live
<1>3. i \in I /\ I \in SUBSET Nat
  BY <1>2
<1>4. k \in I
  BY <1>3, LeastIndex
<1>5. k \in 1..Len(s.parties) /\ s.parties[k] = p
  <2>1. s.parties[k] \in Live(s) /\ is_leader(s, s.parties[k], c)
    BY <1>1, <1>4, ListIs DEF Live
  <2> QED
    BY <1>4, <2>1
<1>6. disband_party(s, c) = t
  <2>1. SelectInSeq(s.parties, LAMBDA q : is_leader(s, q, c)) = k
    BY <1>3 DEF SelectInSeq
  <2>2. \E j \in DOMAIN s.parties : is_leader(s, s.parties[j], c)
    BY <1>1, <1>2, ListIs
  <2>3. u.parties = s.parties
    BY <1>1 DEF disband, World
  <2> HIDE DEF k, u
  <2> QED
    BY <1>5, <2>1, <2>2, <2>3 DEF disband_party, u
<1> HIDE DEF k, I
<1>7. /\ RemoveAt(s.parties, k) \in List(PartyIds)
      /\ ToSet(RemoveAt(s.parties, k)) = Live(s) \ {p}
  BY <1>1, <1>5, RemoveAtList DEF Live
<1>8. g \in Group /\ g.members = <<>> /\ g.candidates = <<>> /\ g.offline = <<>>
  BY <1>1, EmptyList DEF Group, NoMembers
<1> DEFINE x(d) == [s.chr[d] EXCEPT
                      !.party = IF d \in ToSet(s.grp[p].members) THEN NoParty ELSE @,
                      !.candidate_of = IF d \in ToSet(s.grp[p].candidates) THEN NoParty ELSE @,
                      !.offline_mem_of = IF d \in ToSet(s.grp[p].offline) THEN NoParty ELSE @]
<1>9. /\ t.parties = RemoveAt(s.parties, k)
      /\ t.grp[p] = g /\ \A q \in PartyIds \ {p} : t.grp[q] = s.grp[q]
      /\ t.chr = [d \in Players |-> x(d)]
      /\ t.grp = [s.grp EXCEPT ![p] = g]
  BY <1>1 DEF disband, World
<1>10. ASSUME NEW d \in Players
       PROVE  /\ x(d) \in Character /\ x(d).timer = s.chr[d].timer
              /\ x(d).party = IF s.chr[d].party = p THEN NoParty ELSE s.chr[d].party
              /\ x(d).candidate_of = IF s.chr[d].candidate_of = p THEN NoParty ELSE s.chr[d].candidate_of
              /\ x(d).offline_mem_of = IF s.chr[d].offline_mem_of = p THEN NoParty
                                       ELSE s.chr[d].offline_mem_of
  <2>1. /\ s.chr[d].party = p <=> d \in ToSet(s.grp[p].members)
        /\ s.chr[d].candidate_of = p <=> d \in ToSet(s.grp[p].candidates)
        /\ s.chr[d].offline_mem_of = p <=> d \in ToSet(s.grp[p].offline)
        /\ s.chr[d] \in Character
    BY <1>1 DEF Sound, Agree, World
  <2> QED
    BY <2>1 DEF Character, Links
<1>11. t \in World
  <2>1. /\ [d \in Players |-> x(d)] \in [Players -> Character]
        /\ [s.grp EXCEPT ![p] = g] \in [PartyIds -> Group]
    <3> HIDE DEF x, g
    <3> QED
      BY <1>1, <1>8, <1>10 DEF World
  <2>2. u = [parties |-> s.parties, grp |-> [s.grp EXCEPT ![p] = g], chr |-> [d \in Players |-> x(d)]]
    <3> DEFINE X == [d \in Players |-> x(d)]
    <3>1. u = [s EXCEPT !.chr = X, !.grp[p] = g]
      BY DEF disband
    <3> DEFINE v == [s EXCEPT !.chr = X]
    <3> HIDE DEF u, X, g
    <3>2. v = [parties |-> s.parties, grp |-> s.grp, chr |-> X]
      BY <1>1 DEF World
    <3>3. u = [v EXCEPT !.grp[p] = g]
      BY <3>1
    <3> HIDE DEF v
    <3> QED
      BY <3>2, <3>3 DEF X
  <2> HIDE DEF u, x, g
  <2>3. t = [parties |-> RemoveAt(s.parties, k), grp |-> [s.grp EXCEPT ![p] = g],
             chr |-> [d \in Players |-> x(d)]]
    BY <2>2
  <2> QED
    BY <1>7, <2>1, <2>3 DEF World
<1>12. \A d \in Players : t.chr[d] = x(d)
  BY <1>9
<1> HIDE DEF t, x, g
<1>13. Live(t) = Live(s) \ {p}
  BY <1>7, <1>9 DEF Live
<1>14. Agree(t)
  <2> SUFFICES ASSUME NEW d \in Players, NEW q \in PartyIds
               PROVE  /\ t.chr[d].party = q <=> q \in Live(t) /\ d \in ToSet(t.grp[q].members)
                      /\ t.chr[d].candidate_of = q <=> q \in Live(t) /\ d \in ToSet(t.grp[q].candidates)
                      /\ t.chr[d].offline_mem_of = q <=> q \in Live(t) /\ d \in ToSet(t.grp[q].offline)
    BY DEF Agree
  <2>1. /\ s.chr[d].party = q <=> q \in Live(s) /\ d \in ToSet(s.grp[q].members)
        /\ s.chr[d].candidate_of = q <=> q \in Live(s) /\ d \in ToSet(s.grp[q].candidates)
        /\ s.chr[d].offline_mem_of = q <=> q \in Live(s) /\ d \in ToSet(s.grp[q].offline)
    BY DEF Sound, Agree
  <2>2. CASE q = p
    BY <1>1, <1>10, <1>12, <1>13, <2>2
  <2>3. CASE q # p
    BY <1>1, <1>9, <1>10, <1>12, <1>13, <2>1, <2>3
  <2> QED
    BY <2>2, <2>3
<1>15. \A d \in Players : OneTie(t.chr[d])
  BY <1>10, <1>12 DEF Sound, OneTie
<1> QED
  BY <1>6, <1>8, <1>9, <1>10, <1>11, <1>12, <1>13, <1>14, <1>15 DEF Sound

-----------------------------------------------------------------------------
(* Operations that may end a party *)

Good(s) == Sound(s) /\ \A q \in Live(s) : Led(s, q) /\ Big(s, q)

\* Nobody has come into a party, or waits to.
Shrinks(s, t) ==
  \A d \in Players : /\ t.chr[d].party \in {NoParty, s.chr[d].party}
                     /\ t.chr[d].offline_mem_of \in {NoParty, s.chr[d].offline_mem_of}

LEMMA LeaderIs ==
  ASSUME NEW s, Sound(s), NEW p \in Live(s), Led(s, p)
  PROVE  LET l == s.grp[p].leader IN l \in Players /\ is_member(s, p, l) /\ s.chr[l].party = p
<1>1. s \in World /\ p \in PartyIds /\ s.grp[p] \in Group
  BY LiveAre DEF Sound, World
<1>2. s.grp[p].members[1] \in Players /\ is_member(s, p, s.grp[p].members[1])
  <2>1. 1 \in 1..Len(s.grp[p].members)
    BY <1>1, ListIs DEF Led, Group
  <2> QED
    BY <1>1, <2>1, ListIs DEF Group, is_member
<1> QED
  BY <1>1, <1>2 DEF Led, Sound, Agree, is_member

\* Who has not a member more than a leader, nor a candidate, is small.
LEMMA SizeIs ==
  ASSUME NEW s, Sound(s), NEW p \in Live(s)
  PROVE  /\ Len(s.grp[p].members) \in Nat /\ Len(s.grp[p].candidates) \in Nat
         /\ s.grp[p].members # <<>> <=> Len(s.grp[p].members) > 0
         /\ s.grp[p].candidates # <<>> <=> Len(s.grp[p].candidates) > 0
         /\ s.grp[p].members # <<>> /\ test_size(s, p) => Big(s, p)
         /\ Big(s, p) => test_size(s, p)
<1>1. s \in World /\ s.grp[p] \in Group
  BY LiveAre DEF Sound, World
<1>2. /\ s.grp[p].members \in Seq(Players) /\ s.grp[p].candidates \in Seq(Players)
      /\ Len(s.grp[p].members) \in Nat /\ Len(s.grp[p].candidates) \in Nat
  BY <1>1, ListIs DEF Group
<1>3. /\ s.grp[p].members # <<>> <=> Len(s.grp[p].members) > 0
      /\ s.grp[p].candidates # <<>> <=> Len(s.grp[p].candidates) > 0
  BY <1>2
<1> DEFINE m == Len(s.grp[p].members)
           k == Len(s.grp[p].candidates)
<1>4. m \in Nat /\ k \in Nat
  BY <1>2
<1>5. ASSUME s.grp[p].members # <<>>, test_size(s, p) PROVE Big(s, p)
  <2>1. k > 0 \/ m > 1
    BY <1>3, <1>5, Zenon DEF test_size
  <2>2. m > 0
    BY <1>3, <1>5
  <2> HIDE DEF m, k
  <2>3. m + k > 1
    BY <1>4, <2>1, <2>2
  <2> QED
    BY <2>3 DEF Big, m, k
<1>6. ASSUME Big(s, p) PROVE test_size(s, p)
  <2>1. m + k > 1
    BY <1>6 DEF Big
  <2> HIDE DEF m, k
  <2>2. k > 0 \/ m > 1
    BY <1>4, <2>1
  <2> QED
    BY <1>3, <2>2, Zenon DEF test_size, m, k
<1> QED
  BY <1>2, <1>3, <1>5, <1>6

\* A party that is too small or has no leader is freed, all others are as they should be.
LEMMA DisbandGood ==
  ASSUME NEW s, Sound(s), NEW p \in Live(s), NEW c, is_leader(s, p, c),
         \A q \in Live(s) \ {p} : Led(s, q) /\ Big(s, q) /\ ~is_leader(s, q, c)
  PROVE  LET t == disband_party(s, c)
         IN Good(t) /\ Shrinks(s, t) /\ ~test_size(t, p) /\ p \notin Live(t)
            /\ \A d \in Players : s.chr[d].party = NoParty => t.chr[d].party = NoParty
<1> DEFINE t == disband_party(s, c)
<1>1. /\ Sound(t) /\ Live(t) = Live(s) \ {p}
      /\ \A q \in PartyIds \ {p} : t.grp[q] = s.grp[q]
      /\ t.grp[p].members = <<>> /\ t.grp[p].candidates = <<>>
      /\ \A d \in Players :
           /\ t.chr[d].party = IF s.chr[d].party = p THEN NoParty ELSE s.chr[d].party
           /\ t.chr[d].offline_mem_of = IF s.chr[d].offline_mem_of = p THEN NoParty
                                        ELSE s.chr[d].offline_mem_of
  BY DisbandSound
<1> HIDE DEF t
<1>2. Live(t) \subseteq PartyIds
  BY <1>1, LiveAre DEF Sound
<1>3. \A q \in Live(t) : Led(t, q) /\ Big(t, q)
  BY <1>1, <1>2 DEF Led, Big
<1>4. ~test_size(t, p)
  BY <1>1, EmptyList DEF test_size
<1>5. Shrinks(s, t)
  BY <1>1 DEF Shrinks
<1> QED
  BY <1>1, <1>3, <1>4, <1>5 DEF Good, t

LEMMA SmallGood ==
  ASSUME NEW s, Sound(s), NEW p \in Live(s), NEW c, test_size(s, p) \/ is_leader(s, p, c),
         Led(s, p), \A q \in Live(s) \ {p} : Led(s, q) /\ Big(s, q)
  PROVE  LET t == disband_if_small(s, p, c)
         IN Good(t) /\ Shrinks(s, t)
<1>1. CASE test_size(s, p)
  <2>1. disband_if_small(s, p, c) = s
    BY <1>1 DEF disband_if_small
  <2>2. Big(s, p)
    BY <1>1, SizeIs DEF Led
  <2> QED
    BY <2>1, <2>2 DEF Good, Shrinks
<1>2. CASE ~test_size(s, p)
  <2>1. disband_if_small(s, p, c) = disband_party(s, c) /\ is_leader(s, p, c)
    BY <1>2 DEF disband_if_small
  <2>2. \A q \in Live(s) \ {p} : ~is_leader(s, q, c)
    BY <2>1, LeaderIs DEF is_leader
  <2> HIDE DEF disband_party
  <2>3. Good(disband_party(s, c)) /\ Shrinks(s, disband_party(s, c))
    BY <2>1, <2>2, DisbandGood
  <2> QED
    BY <2>1, <2>3
<1> QED
  BY <1>1, <1>2

\* A member leaves; if the party goes on, he has no ties.
AfterLeft(s, p, c, t) ==
  /\ Good(t) /\ Shrinks(s, t) /\ t.chr[c].party = NoParty
  /\ test_size(t, p) => /\ p \in Live(t)
                        /\ t.chr[c].candidate_of = NoParty /\ t.chr[c].offline_mem_of = NoParty

LEMMA LeftGood ==
  ASSUME NEW s, Good(s), NEW p \in Live(s), NEW c \in Players, is_member(s, p, c)
  PROVE  AfterLeft(s, p, c, Left(s, p, c))
<1> DEFINE u == Without(s, p, c)
           l == u.grp[p].leader
<1>1. /\ Sound(u) /\ Live(u) = Live(s) /\ Elsewhere(s, u, p)
      /\ u.grp[p] = [s.grp[p] EXCEPT !.members = RemoveFirst(s.grp[p].members, c)]
      /\ Led(s, p) /\ ~is_leader(s, p, c) => Led(u, p)
      /\ \A d \in Players \ {c} : u.chr[d] = s.chr[d]
      /\ u.chr[c].party = NoParty /\ u.chr[c].candidate_of = s.chr[c].candidate_of
      /\ u.chr[c].offline_mem_of = s.chr[c].offline_mem_of
      /\ s.chr[c].candidate_of = NoParty /\ s.chr[c].offline_mem_of = NoParty
  BY WithoutSound DEF Good
<1>2. Left(s, p, c) = IF is_leader(u, p, c) \/ ~test_size(u, p) THEN disband_party(u, l) ELSE u
  BY DEF Left, Without
<1>3. /\ s.grp[p] \in Group /\ s.chr[c] \in Character /\ Live(s) \subseteq PartyIds
      /\ Sound(s) /\ \A q \in Live(s) : Led(s, q) /\ Big(s, q)
  BY LiveAre DEF Good, Sound, World
<1> HIDE DEF u
<1>4. /\ l = s.grp[p].leader
      /\ u.chr[c].party = NoParty /\ u.chr[c].candidate_of = NoParty /\ u.chr[c].offline_mem_of = NoParty
  BY <1>1, <1>3 DEF Group, Character
<1>5. \A q \in Live(u) \ {p} : Led(u, q) /\ Big(u, q) /\ ~is_leader(u, q, l)
  <2> SUFFICES ASSUME NEW q \in Live(s) \ {p} PROVE Led(u, q) /\ Big(u, q) /\ ~is_leader(u, q, l)
    BY <1>1
  <2>1. u.grp[q] = s.grp[q]
    BY <1>1, <1>3 DEF Elsewhere
  <2>2. s.grp[q].leader # s.grp[p].leader
    <3>1. s.chr[s.grp[q].leader].party = q /\ s.chr[s.grp[p].leader].party = p
      BY <1>3, LeaderIs
    <3> QED
      BY <3>1
  <2> QED
    BY <1>3, <1>4, <2>1, <2>2 DEF Led, Big, is_leader
<1>6. Shrinks(s, u)
  BY <1>1, <1>4 DEF Shrinks
<1> HIDE DEF l
<1>7. CASE is_leader(u, p, c) \/ ~test_size(u, p)
  <2> DEFINE t == disband_party(u, l)
  <2>1. is_leader(u, p, l)
    BY DEF is_leader, l
  <2>2. /\ Good(t) /\ Shrinks(u, t) /\ ~test_size(t, p)
        /\ \A d \in Players : u.chr[d].party = NoParty => t.chr[d].party = NoParty
    BY <1>1, <1>5, <2>1, DisbandGood
  <2>3. Left(s, p, c) = t
    BY <1>2, <1>7
  <2> HIDE DEF t
  <2>4. Shrinks(s, t)
    BY <1>6, <2>2 DEF Shrinks
  <2> QED
    BY <1>4, <2>2, <2>3, <2>4 DEF AfterLeft
<1>8. CASE ~is_leader(u, p, c) /\ test_size(u, p)
  <2>1. Left(s, p, c) = u
    BY <1>2, <1>8
  <2>2. ~is_leader(s, p, c)
    BY <1>4, <1>8 DEF is_leader, l
  <2>3. Led(u, p) /\ Big(u, p)
    <3>1. Led(u, p)
      BY <1>1, <1>3, <2>2
    <3> QED
      BY <1>1, <1>8, <3>1, SizeIs DEF Led
  <2> QED
    BY <1>1, <1>4, <1>5, <1>6, <2>1, <2>3 DEF Good, AfterLeft
<1> QED
  BY <1>7, <1>8 DEF AfterLeft

\* The leader logs off, and another one leads.
AfterHandover(s, p, c, t) ==
  /\ Good(t) /\ Shrinks(s, t) /\ t.chr[c].party = NoParty
  /\ p \in Live(t)
  /\ t.chr[c].candidate_of = NoParty /\ t.chr[c].offline_mem_of = NoParty

LEMMA LeaderLeftGood ==
  ASSUME NEW s, Good(s), NEW p \in Live(s), NEW c \in Players, is_member(s, p, c),
         Len(s.grp[p].members) > 1, test_size(remove_member(s, p, c), p)
  PROVE  AfterHandover(s, p, c, LeaderLeft(remove_member(s, p, c), p, c))
<1> DEFINE u == Without(s, p, c)
           r == remove_member(s, p, c)
           n == u.grp[p].members[1]
           t == set_leader(u, p, n)
<1>1. /\ Sound(u) /\ Live(u) = Live(s) /\ Elsewhere(s, u, p)
      /\ u.grp[p] = [s.grp[p] EXCEPT !.members = RemoveFirst(s.grp[p].members, c)]
      /\ Len(u.grp[p].members) = Len(s.grp[p].members) - 1
      /\ \A d \in Players \ {c} : u.chr[d] = s.chr[d]
      /\ u.chr[c].party = NoParty /\ u.chr[c].candidate_of = s.chr[c].candidate_of
      /\ u.chr[c].offline_mem_of = s.chr[c].offline_mem_of
      /\ s.chr[c].candidate_of = NoParty /\ s.chr[c].offline_mem_of = NoParty
  BY WithoutSound DEF Good
<1>2. /\ s \in World /\ s.grp[p] \in Group /\ s.chr[c] \in Character /\ Live(s) \subseteq PartyIds
      /\ Sound(s) /\ \A q \in Live(s) : Led(s, q) /\ Big(s, q)
  BY LiveAre DEF Good, Sound, World
<1>3. /\ u.chr[c].party = NoParty /\ u.chr[c].candidate_of = NoParty /\ u.chr[c].offline_mem_of = NoParty
  BY <1>1, <1>2 DEF Character
<1>4. r.grp = u.grp /\ u = [r EXCEPT !.chr[c].party = NoParty] /\ r.grp[p].candidates = u.grp[p].candidates
  BY <1>2 DEF Without, remove_member, World
<1> HIDE DEF u, r
<1>5. u.grp[p].members \in List(Players) /\ u.grp[p] \in Group
  BY <1>1, LiveAre DEF Sound, World, Group
<1>6. u.grp[p].members # <<>> /\ Len(u.grp[p].members) \in Nat
  BY <1>1, <1>5, SizeIs
<1>7. is_member(u, p, n) /\ n \in Players
  <2>1. 1 \in 1..Len(u.grp[p].members)
    BY <1>5, <1>6, ListIs
  <2> QED
    BY <1>5, <2>1, ListIs DEF is_member
<1>8. LeaderLeft(r, p, c) = t
  <2>1. NextLeader(r, p, c) = n
    BY <1>4, <1>5, <1>6 DEF NextLeader
  <2>2. LeaderLeft(r, p, c) = [set_leader(r, p, n) EXCEPT !.chr[c].party = NoParty]
    BY <2>1 DEF LeaderLeft, r
  <2>3. r \in World
    <3>1. r = [s EXCEPT !.grp[p].members = RemoveFirst(@, c)]
      BY DEF r, remove_member
    <3>2. RemoveFirst(s.grp[p].members, c) \in List(Players)
      BY <1>2, RemoveFirstList DEF Group
    <3> QED
      BY <1>2, <3>1, <3>2 DEF World, Group
  <2> HIDE DEF n
  <2> DEFINE H(g) == [g EXCEPT ![p].members = <<n>> \o RemoveFirst(@, n), ![p].leader = n]
             v == [r EXCEPT !.chr[c].party = NoParty]
  <2>4. ASSUME NEW w, w.grp = r.grp, w = [parties |-> w.parties, grp |-> w.grp, chr |-> w.chr]
        PROVE  set_leader(w, p, n) = [parties |-> w.parties, grp |-> H(w.grp), chr |-> w.chr]
    <3> DEFINE m == <<n>> \o RemoveFirst(w.grp[p].members, n)
               y == [w EXCEPT !.grp[p].members = m]
    <3>1. set_leader(w, p, n) = [y EXCEPT !.grp[p].leader = n]
      BY DEF set_leader
    <3>2. H(w.grp) = [[w.grp EXCEPT ![p].members = m] EXCEPT ![p].leader = n]
      OBVIOUS
    <3> HIDE DEF m, H
    <3>3. y = [parties |-> w.parties, grp |-> [w.grp EXCEPT ![p].members = m], chr |-> w.chr]
      BY <2>4
    <3> HIDE DEF y
    <3>4. [y EXCEPT !.grp[p].leader = n]
            = [parties |-> w.parties, grp |-> [[w.grp EXCEPT ![p].members = m] EXCEPT ![p].leader = n],
               chr |-> w.chr]
      BY <3>3
    <3> QED
      BY <3>1, <3>2, <3>4
  <2>5. r = [parties |-> r.parties, grp |-> r.grp, chr |-> r.chr]
    BY <2>3 DEF World
  <2>6. v = [parties |-> r.parties, grp |-> r.grp, chr |-> [r.chr EXCEPT ![c].party = NoParty]]
    BY <2>3 DEF World
  <2>7. set_leader(v, p, n) = [parties |-> r.parties, grp |-> H(r.grp),
                               chr |-> [r.chr EXCEPT ![c].party = NoParty]]
    <3>1. v.parties = r.parties /\ v.grp = r.grp /\ v.chr = [r.chr EXCEPT ![c].party = NoParty]
      BY <2>6
    <3> HIDE DEF v, H
    <3> QED
      BY <2>4, <2>6, <3>1
  <2>8. [set_leader(r, p, n) EXCEPT !.chr[c].party = NoParty]
          = [parties |-> r.parties, grp |-> H(r.grp), chr |-> [r.chr EXCEPT ![c].party = NoParty]]
    <3> HIDE DEF H
    <3>1. set_leader(r, p, n) = [parties |-> r.parties, grp |-> H(r.grp), chr |-> r.chr]
      BY <2>4, <2>5
    <3> QED
      BY <3>1
  <2> HIDE DEF H, v
  <2>9. [set_leader(r, p, n) EXCEPT !.chr[c].party = NoParty] = set_leader(v, p, n)
    BY <2>7, <2>8
  <2> QED
    BY <1>4, <2>2, <2>9 DEF v
<1>9. /\ Sound(t) /\ Live(t) = Live(u) /\ Elsewhere(u, t, p) /\ t.chr = u.chr
      /\ t.grp[p].candidates = u.grp[p].candidates
      /\ Len(t.grp[p].members) = Len(u.grp[p].members) /\ Led(t, p)
  BY <1>1, <1>7, SetLeaderSound DEF AfterSetLeader
<1> HIDE DEF t, n
<1>10. Big(t, p)
  <2>1. test_size(t, p)
    BY <1>4, <1>9 DEF test_size, r
  <2> QED
    BY <1>1, <1>9, <2>1, SizeIs DEF Led
<1>11. \A q \in Live(t) \ {p} : Led(t, q) /\ Big(t, q)
  <2> SUFFICES ASSUME NEW q \in Live(s) \ {p} PROVE Led(t, q) /\ Big(t, q)
    BY <1>1, <1>9
  <2>1. t.grp[q] = s.grp[q]
    BY <1>1, <1>2, <1>9 DEF Elsewhere
  <2> QED
    BY <1>2, <2>1 DEF Led, Big
<1>12. Shrinks(s, t)
  BY <1>1, <1>3, <1>9 DEF Shrinks
<1> QED
  BY <1>1, <1>3, <1>8, <1>9, <1>10, <1>11, <1>12 DEF Good, r, AfterHandover

AfterWaits(s, p, c, t) ==
  /\ Good(t) /\ t.chr[c].party = NoParty
  /\ \A d \in Players \ {c} : t.chr[d] = s.chr[d]

LEMMA WaitsGood ==
  ASSUME NEW s, Good(s), NEW p, NEW c \in Players,
         s.chr[c].party = NoParty,
         test_size(s, p) => p \in Live(s) /\ s.chr[c].candidate_of = NoParty /\ s.chr[c].offline_mem_of = NoParty
  PROVE  AfterWaits(s, p, c, WaitsToRejoin(s, p, c))
<1>1. CASE mode = "rejoin" /\ test_size(s, p)
  <2> DEFINE t == Waiting(s, p, c)
  <2>1. WaitsToRejoin(s, p, c) = t /\ Sound(s) /\ p \in Live(s) /\ s.chr[c] \in Character
    BY <1>1 DEF WaitsToRejoin, Waiting, Good, Sound, World
  <2>2. /\ Sound(t) /\ Live(t) = Live(s) /\ Elsewhere(s, t, p)
        /\ t.grp[p].members = s.grp[p].members /\ t.grp[p].candidates = s.grp[p].candidates
        /\ t.grp[p].leader = s.grp[p].leader
        /\ \A d \in Players \ {c} : t.chr[d] = s.chr[d]
        /\ t.chr[c].party = s.chr[c].party
    BY <1>1, <2>1, WaitsSound
  <2> HIDE DEF t
  <2>3. \A q \in Live(t) : Led(t, q) /\ Big(t, q)
    <3>1. Live(s) \subseteq PartyIds
      BY <2>1, LiveAre DEF Sound
    <3> QED
      BY <2>2, <3>1 DEF Good, Led, Big, Elsewhere
  <2> QED
    BY <2>1, <2>2, <2>3 DEF Good, Character, AfterWaits
<1>2. CASE ~(mode = "rejoin" /\ test_size(s, p))
  BY <1>2 DEF WaitsToRejoin, AfterWaits
<1> QED
  BY <1>1, <1>2 DEF AfterWaits

-----------------------------------------------------------------------------
(* The inductive invariant, and its steps *)

IInv ==
  /\ Good(Now)
  /\ \A c \in online : chr[c].offline_mem_of = NoParty
  /\ mode \in LogoffModes /\ online \subseteq Players /\ crashed \in BOOLEAN

\* Who is in a party before and after is in the same one.
Keeps(s, t) ==
  \A d \in Players : s.chr[d].party # NoParty /\ t.chr[d].party # NoParty
                       => t.chr[d].party = s.chr[d].party

\* A state to go to from here, while the same characters are online.
Fine(t) ==
  /\ Good(t) /\ Keeps(Now, t)
  /\ \A d \in Players : t.chr[d].offline_mem_of \in {NoParty, chr[d].offline_mem_of}

LEMMA NowIs ==
  ASSUME NEW t, t \in World, Become(t)
  PROVE  Now' = t
BY DEF Become, Now, World

LEMMA Steps ==
  ASSUME IInv, NEW t, Become(t), Good(t), Keeps(Now, t), mode' = mode, crashed' \in BOOLEAN,
         online' \subseteq Players, \A c \in online' : t.chr[c].offline_mem_of = NoParty
  PROVE  IInv' /\ Keeps(Now, Now')
<1>1. Now' = t /\ chr' = t.chr
  BY NowIs DEF Good, Sound, Become
<1> HIDE DEF Now
<1>2. Good(Now') /\ Keeps(Now, Now')
  BY <1>1
<1>3. \A c \in online' : chr'[c].offline_mem_of = NoParty
  BY <1>1
<1> QED
  BY <1>2, <1>3 DEF IInv

LEMMA FineSteps ==
  ASSUME IInv, NEW t, Become(t), Fine(t), mode' = mode, online' = online, crashed' \in BOOLEAN
  PROVE  IInv' /\ Keeps(Now, Now')
<1>1. \A c \in online' : t.chr[c].offline_mem_of = NoParty
  BY DEF Fine, IInv
<1>2. online' \subseteq Players
  BY DEF IInv
<1> QED
  BY <1>1, <1>2, Steps DEF Fine

LEMMA Here ==
  ASSUME IInv
  PROVE  /\ Now.parties = parties /\ Now.grp = grp /\ Now.chr = chr
         /\ Sound(Now) /\ NoParty \notin PartyIds
         /\ \A p \in Live(Now) : p \in PartyIds /\ p # NoParty /\ Led(Now, p) /\ Big(Now, p)
         /\ \A c \in online : c \in Players /\ chr[c].offline_mem_of = NoParty
         /\ \A c \in Players :
              /\ chr[c] \in Character /\ OneTie(chr[c])
              /\ chr[c].party # NoParty =>
                   chr[c].party \in Live(Now) /\ is_member(Now, chr[c].party, c)
              /\ chr[c].candidate_of # NoParty =>
                   chr[c].candidate_of \in Live(Now) /\ is_candidate(Now, chr[c].candidate_of, c)
              /\ chr[c].offline_mem_of # NoParty =>
                   chr[c].offline_mem_of \in Live(Now) /\ c \in ToSet(grp[chr[c].offline_mem_of].offline)
<1>1. Now.parties = parties /\ Now.grp = grp /\ Now.chr = chr
  BY DEF Now
<1>2. Sound(Now) /\ NoParty \notin PartyIds /\ Live(Now) \subseteq PartyIds
  BY LiveAre, PartyAssumption DEF IInv, Good, Sound
<1>3. ASSUME NEW c \in Players
      PROVE  /\ chr[c] \in Character /\ OneTie(chr[c])
             /\ chr[c].party # NoParty =>
                  chr[c].party \in Live(Now) /\ is_member(Now, chr[c].party, c)
             /\ chr[c].candidate_of # NoParty =>
                  chr[c].candidate_of \in Live(Now) /\ is_candidate(Now, chr[c].candidate_of, c)
             /\ chr[c].offline_mem_of # NoParty =>
                  chr[c].offline_mem_of \in Live(Now) /\ c \in ToSet(grp[chr[c].offline_mem_of].offline)
  <2>1. chr[c] \in Character /\ OneTie(chr[c]) /\ Agree(Now)
    BY <1>1, <1>2 DEF Sound, World
  <2>2. /\ chr[c].party \in PartyIds \cup {NoParty}
        /\ chr[c].candidate_of \in PartyIds \cup {NoParty}
        /\ chr[c].offline_mem_of \in PartyIds \cup {NoParty}
    BY <2>1 DEF Character, Links
  <2> QED
    BY <1>1, <2>1, <2>2 DEF Agree, is_member, is_candidate
<1> QED
  BY <1>1, <1>2, <1>3 DEF IInv, Good

\* Only that party is another one, and it is led and big enough.
LEMMA OtherGood ==
  ASSUME NEW s, NEW t, NEW p \in PartyIds, Live(s) \subseteq PartyIds,
         \A q \in Live(s) \ {p} : Led(s, q) /\ Big(s, q),
         Sound(t), Live(t) = Live(s), \A q \in PartyIds \ {p} : t.grp[q] = s.grp[q],
         Led(t, p), Big(t, p)
  PROVE  Good(t)
BY DEF Good, Led, Big

\* The characters but one are as they were, and he did not come to wait.
LEMMA OneFine ==
  ASSUME IInv, NEW t, Good(t), NEW c \in Players, \A d \in Players \ {c} : t.chr[d] = chr[d],
         t.chr[c].offline_mem_of = NoParty,
         chr[c].party = NoParty \/ t.chr[c].party \in {NoParty, chr[c].party}
  PROVE  Fine(t)
BY Here DEF Fine, Keeps

\* Nobody came.
LEMMA ShrunkFine ==
  ASSUME IInv, NEW t, Good(t), Shrinks(Now, t)
  PROVE  Fine(t)
BY Here DEF Fine, Keeps, Shrinks

LEMMA SameFine ==
  ASSUME IInv
  PROVE  Fine(Now)
BY Here DEF Fine, Keeps, IInv

-----------------------------------------------------------------------------
(* Invitations *)

LEMMA InvitesFine ==
  ASSUME IInv, NEW p \in Live(Now), NEW c \in Players,
         chr[c].party = NoParty, chr[c].candidate_of = NoParty, chr[c].offline_mem_of = NoParty
  PROVE  Fine(Invited(set_party_invite_timeout(Now, c), p, c))
<1> DEFINE s == set_party_invite_timeout(Now, c)
           t == Invited(s, p, c)
<1>1. /\ Now.chr = chr /\ Sound(Now) /\ p \in PartyIds /\ chr[c] \in Character
      /\ Live(Now) \subseteq PartyIds
      /\ \A q \in Live(Now) : Led(Now, q) /\ Big(Now, q)
  BY Here
<1>2. /\ Sound(s) /\ s.parties = Now.parties /\ Live(s) = Live(Now) /\ s.grp = Now.grp
      /\ \A d \in Players \ {c} : s.chr[d] = chr[d]
      /\ s.chr[c].party = NoParty /\ s.chr[c].candidate_of = NoParty
      /\ s.chr[c].offline_mem_of = NoParty /\ (DeclineTimeout => s.chr[c].timer = TRUE)
  <2> DEFINE b == DeclineTimeout \/ chr[c].timer
  <2>1. s = Timed(Now, c, b)
    BY DEF set_party_invite_timeout, Timed, Now
  <2>3. b \in BOOLEAN /\ (DeclineTimeout => b = TRUE)
    BY <1>1, PartyAssumption DEF Character
  <2> HIDE DEF s, b
  <2>2. AfterTimed(Now, c, b, s)
    BY <1>1, <2>1, <2>3, TimerSound, Zenon
  <2> QED
    BY <1>1, <2>2, <2>3 DEF AfterTimed
<1> HIDE DEF s
<1>4. /\ Sound(t) /\ Live(t) = Live(s) /\ Elsewhere(s, t, p)
      /\ t.grp[p].members = s.grp[p].members
      /\ Len(t.grp[p].candidates) = Len(s.grp[p].candidates) + 1
      /\ Led(s, p) => Led(t, p)
      /\ \A d \in Players \ {c} : t.chr[d] = s.chr[d]
      /\ t.chr[c].party = NoParty /\ t.chr[c].offline_mem_of = NoParty
  <2>1. p \in Live(s)
    BY <1>2
  <2> QED
    <3>1. AfterInvited(s, p, c, t)
      BY <1>2, <2>1, InvitedSound
    <3> HIDE DEF t
    <3> QED
      BY <1>2, <3>1 DEF AfterInvited
<1> HIDE DEF t
<1>5. Led(t, p) /\ Big(t, p)
  <2>1. Led(s, p) /\ Big(s, p)
    BY <1>1, <1>2 DEF Led, Big
  <2>2. Len(s.grp[p].members) \in Nat /\ Len(s.grp[p].candidates) \in Nat
    BY <1>2, SizeIs
  <2> DEFINE m == Len(s.grp[p].members)
             k == Len(s.grp[p].candidates)
  <2>3. m + k > 1 /\ m \in Nat /\ k \in Nat
    BY <2>1, <2>2 DEF Big
  <2>4. Len(t.grp[p].members) = m /\ Len(t.grp[p].candidates) = k + 1
    BY <1>4
  <2> HIDE DEF m, k
  <2>5. m + (k + 1) > 1
    BY <2>3
  <2> QED
    BY <1>4, <2>1, <2>4, <2>5 DEF Big
<1>6. Good(t)
  <2>1. \A q \in PartyIds \ {p} : t.grp[q] = Now.grp[q]
    BY <1>2, <1>4 DEF Elsewhere
  <2> QED
    BY <1>1, <1>2, <1>4, <1>5, <2>1, OtherGood
<1> QED
  BY <1>2, <1>4, <1>6, OneFine DEF s, t

LEMMA NewPartyFine ==
  ASSUME IInv, NEW p \in PartyIds, p \notin Live(Now), NEW c \in Players, NEW d \in Players, c # d,
         chr[c].party = NoParty, chr[c].candidate_of = NoParty, chr[c].offline_mem_of = NoParty,
         chr[d].party = NoParty, chr[d].candidate_of = NoParty, chr[d].offline_mem_of = NoParty
  PROVE  /\ Fine(Joined(NewParty(Now, p, c), p, d))
         /\ Fine(Invited(NewParty(set_party_invite_timeout(Now, d), p, c), p, d))
<1>1. /\ Now.chr = chr /\ Sound(Now) /\ chr[d] \in Character /\ Live(Now) \subseteq PartyIds
      /\ \A q \in Live(Now) : Led(Now, q) /\ Big(Now, q)
  BY Here
\* The state just before the other one comes: the leader alone.
<1> DEFINE Alone(s) ==
      /\ Sound(s) /\ Live(s) = Live(Now) \cup {p}
      /\ \A q \in PartyIds \ {p} : s.grp[q] = Now.grp[q]
      /\ Led(s, p) /\ Len(s.grp[p].members) = 1 /\ s.grp[p].candidates = <<>>
      /\ \A e \in Players \ {c, d} : s.chr[e] = chr[e]
      /\ s.chr[c].offline_mem_of = NoParty
      /\ s.chr[d].party = NoParty /\ s.chr[d].candidate_of = NoParty /\ s.chr[d].offline_mem_of = NoParty
<1>2. ASSUME NEW s, Alone(s), NEW t, Sound(t), Live(t) = Live(s), Elsewhere(s, t, p), Led(t, p),
             Len(t.grp[p].members) + Len(t.grp[p].candidates) = 2,
             \A e \in Players \ {d} : t.chr[e] = s.chr[e], t.chr[d].offline_mem_of = NoParty
      PROVE  Fine(t)
  <2>1. Big(t, p)
    <3> DEFINE n == Len(t.grp[p].members) + Len(t.grp[p].candidates)
    <3>1. n = 2
      BY <1>2
    <3> HIDE DEF n
    <3>2. n > 1
      BY <3>1
    <3> QED
      BY <3>2 DEF Big, n
  <2>2. \A q \in Live(t) \ {p} : Led(t, q) /\ Big(t, q)
    <3>1. \A q \in PartyIds \ {p} : t.grp[q] = Now.grp[q]
      BY <1>2 DEF Elsewhere
    <3>2. \A q \in Live(t) \ {p} : t.grp[q] = Now.grp[q] /\ Led(Now, q) /\ Big(Now, q)
      BY <1>1, <1>2, <3>1
    <3> QED
      BY <3>2 DEF Led, Big
  <2>3. \A e \in Players \ {c, d} : t.chr[e] = chr[e]
    BY <1>2
  <2>4. t.chr[c].offline_mem_of = NoParty /\ t.chr[d].offline_mem_of = NoParty
    BY <1>2
  <2> QED
    BY <1>1, <1>2, <2>1, <2>2, <2>3, <2>4 DEF Fine, Good, Keeps
<1>3. Fine(Joined(NewParty(Now, p, c), p, d))
  <2> DEFINE s == NewParty(Now, p, c)
             t == Joined(s, p, d)
  <2>1. AfterNewParty(Now, p, c, s)
    BY <1>1, NewPartySound
  <2> HIDE DEF s
  <2>2. Alone(s)
    BY <1>1, <2>1 DEF AfterNewParty
  <2>3. AfterJoined(s, p, d, t)
    BY <2>2, JoinedSound
  <2> HIDE DEF t, Alone
  <2>4. Len(t.grp[p].members) + Len(t.grp[p].candidates) = 2
    BY <2>2, <2>3, EmptyList DEF AfterJoined, Alone
  <2> QED
    BY <1>2, <2>2, <2>3, <2>4 DEF AfterJoined, Alone, s, t
<1>4. Fine(Invited(NewParty(set_party_invite_timeout(Now, d), p, c), p, d))
  <2> DEFINE r == set_party_invite_timeout(Now, d)
             s == NewParty(r, p, c)
             t == Invited(s, p, d)
             b == DeclineTimeout \/ chr[d].timer
  <2>9. b \in BOOLEAN /\ (DeclineTimeout => b = TRUE)
    BY <1>1, PartyAssumption DEF Character
  <2>1. AfterTimed(Now, d, b, r)
    <3>1. r = Timed(Now, d, b)
      BY DEF set_party_invite_timeout, Timed, Now
    <3> HIDE DEF r, b
    <3> QED
      BY <1>1, <2>9, <3>1, TimerSound, Zenon
  <2> HIDE DEF r, b
  <2>2. AfterNewParty(r, p, c, s)
    BY <1>1, <2>1, NewPartySound DEF AfterTimed
  <2> HIDE DEF s
  <2>3. Alone(s) /\ (DeclineTimeout => s.chr[d].timer = TRUE)
    BY <1>1, <2>1, <2>2, <2>9 DEF AfterNewParty, AfterTimed
  <2>4. AfterInvited(s, p, d, t)
    BY <2>3, InvitedSound
  <2> HIDE DEF t, Alone
  <2>5. Len(t.grp[p].members) + Len(t.grp[p].candidates) = 2
    <3>1. Len(s.grp[p].candidates) = 0 /\ Len(s.grp[p].members) = 1
      BY <2>3, EmptyList DEF Alone
    <3>2. Len(t.grp[p].candidates) = Len(s.grp[p].candidates) + 1 /\ t.grp[p].members = s.grp[p].members
      BY <2>4 DEF AfterInvited
    <3>3. Len(t.grp[p].candidates) = 1 /\ Len(t.grp[p].members) = 1
      BY <3>1, <3>2
    <3> QED
      BY <3>3
  <2>6. /\ Sound(t) /\ Live(t) = Live(s) /\ Elsewhere(s, t, p) /\ Led(t, p)
        /\ \A e \in Players \ {d} : t.chr[e] = s.chr[e]
        /\ t.chr[d].offline_mem_of = NoParty
    BY <2>3, <2>4 DEF AfterInvited, Alone
  <2>7. Fine(t)
    BY <1>2, <2>3, <2>5, <2>6
  <2> QED
    BY <2>7 DEF r, s, t
<1> QED
  BY <1>3, <1>4

LEMMA AcceptFine ==
  ASSUME IInv, NEW p \in Live(Now), NEW c \in Players, is_candidate(Now, p, c)
  PROVE  Fine(Joined(Answered(Now, p, c), p, c))
<1> DEFINE s == Answered(Now, p, c)
           t == Joined(s, p, c)
<1>1. /\ Now.chr = chr /\ Sound(Now) /\ p \in PartyIds /\ Live(Now) \subseteq PartyIds /\ OneTie(chr[c])
      /\ \A q \in Live(Now) : Led(Now, q) /\ Big(Now, q)
      /\ p # NoParty
  BY Here
<1>2. chr[c].candidate_of = p
  BY <1>1 DEF Sound, Agree, is_candidate
<1>3. chr[c].party = NoParty /\ chr[c].offline_mem_of = NoParty
  BY <1>1, <1>2 DEF OneTie
<1>4. AfterAnswered(Now, p, c, s)
  BY <1>1, AnsweredSound
<1> HIDE DEF s
<1>5. AfterJoined(s, p, c, t)
  <2>1. /\ Sound(s) /\ p \in Live(s) /\ s.chr[c].party = NoParty
        /\ s.chr[c].candidate_of = NoParty /\ s.chr[c].offline_mem_of = NoParty
    BY <1>1, <1>3, <1>4 DEF AfterAnswered
  <2> QED
    BY <2>1, JoinedSound
<1> HIDE DEF t
<1>6. Led(t, p) /\ Big(t, p)
  <2> DEFINE m == Len(Now.grp[p].members)
             k == Len(Now.grp[p].candidates)
  <2>1. m \in Nat /\ k \in Nat /\ m + k > 1
    BY <1>1, SizeIs DEF Big
  <2>2. Led(s, p)
    BY <1>1, <1>4 DEF AfterAnswered, Led
  <2>3. Len(s.grp[p].members) = m /\ Len(s.grp[p].candidates) = k - 1
    BY <1>4 DEF AfterAnswered
  <2>4. Len(t.grp[p].members) = m + 1 /\ Len(t.grp[p].candidates) = k - 1
    BY <1>5, <2>3 DEF AfterJoined
  <2> HIDE DEF m, k
  <2>5. (m + 1) + (k - 1) > 1
    BY <2>1
  <2> QED
    BY <1>5, <2>2, <2>4, <2>5 DEF AfterJoined, Big
<1>7. Good(t)
  <2>1. \A q \in PartyIds \ {p} : t.grp[q] = Now.grp[q]
    BY <1>4, <1>5 DEF AfterAnswered, AfterJoined, Elsewhere
  <2>2. Sound(t) /\ Live(t) = Live(Now)
    BY <1>4, <1>5 DEF AfterAnswered, AfterJoined
  <2> QED
    BY <1>1, <1>6, <2>1, <2>2, OtherGood
<1>8. /\ \A d \in Players \ {c} : t.chr[d] = chr[d]
      /\ t.chr[c].offline_mem_of = NoParty
  BY <1>1, <1>3, <1>4, <1>5 DEF AfterAnswered, AfterJoined
<1> QED
  BY <1>3, <1>7, <1>8, OneFine DEF s, t

\* Whoever asks for it in the party's name, it ends if it has become small.
LEMMA DeclineFine ==
  ASSUME IInv, NEW p \in Live(Now), NEW c \in Players, is_candidate(Now, p, c), NEW l,
         (l \in Players /\ chr[l].party = p) \/ l = grp[p].leader
  PROVE  Fine(disband_if_small(Answered(Now, p, c), p, l))
<1> DEFINE s == Answered(Now, p, c)
           t == disband_if_small(s, p, l)
<1>1. /\ Now.chr = chr /\ Now.grp = grp /\ Sound(Now) /\ p \in PartyIds /\ Live(Now) \subseteq PartyIds
      /\ \A q \in Live(Now) : Led(Now, q) /\ Big(Now, q)
      /\ p # NoParty
  BY Here
<1>2. AfterAnswered(Now, p, c, s)
  BY <1>1, AnsweredSound
<1> HIDE DEF s
<1>3. /\ Sound(s) /\ Live(s) = Live(Now) /\ p \in Live(s) /\ Led(s, p)
      /\ s.grp[p].leader = grp[p].leader /\ s.grp[p].members = grp[p].members
  BY <1>1, <1>2 DEF AfterAnswered, Led
<1>4. \A q \in Live(s) \ {p} : Led(s, q) /\ Big(s, q)
  <2>1. \A q \in Live(Now) \ {p} : s.grp[q] = Now.grp[q]
    BY <1>1, <1>2 DEF AfterAnswered, Elsewhere
  <2> QED
    BY <1>1, <1>3, <2>1 DEF Led, Big
<1>5. ASSUME ~test_size(s, p) PROVE is_leader(s, p, l)
  <2>1. CASE l = grp[p].leader
    BY <1>3, <2>1 DEF is_leader
  <2>2. CASE l \in Players /\ chr[l].party = p
    <3>1. l \in ToSet(grp[p].members)
      BY <1>1, <2>2 DEF Sound, Agree
    <3>2. grp[p].members \in List(Players)
      BY <1>1 DEF Sound, World, Group
    <3>3. PICK i \in 1..Len(grp[p].members) : grp[p].members[i] = l
      BY <3>1, <3>2, ListIs
    <3>4. ~(Len(grp[p].members) > 1) /\ Len(grp[p].members) \in Nat
      BY <1>3, <1>5, <3>2, ListIs DEF test_size
    <3>5. i = 1
      BY <3>3, <3>4
    <3> QED
      BY <1>3, <3>3, <3>5 DEF Led, is_leader
  <2> QED
    BY <2>1, <2>2
<1>6. Good(t) /\ Shrinks(s, t)
  BY <1>3, <1>4, <1>5, SmallGood
<1> HIDE DEF t
<1>7. Shrinks(Now, s)
  BY <1>1, <1>2 DEF AfterAnswered, Shrinks
<1>8. Shrinks(Now, t)
  BY <1>6, <1>7 DEF Shrinks
<1> QED
  BY <1>6, <1>8, ShrunkFine DEF s, t

-----------------------------------------------------------------------------
(* Leaving, coming back, scripts *)

LEMMA LeftFine ==
  ASSUME IInv, NEW p \in Live(Now), NEW c \in Players, is_member(Now, p, c)
  PROVE  Fine(Left(Now, p, c))
<1> DEFINE t == Left(Now, p, c)
<1>1. Good(Now)
  BY DEF IInv
<1>2. AfterLeft(Now, p, c, t)
  BY <1>1, LeftGood
<1> HIDE DEF t
<1>3. Fine(t)
  BY <1>2, ShrunkFine DEF AfterLeft
<1> QED
  BY <1>3 DEF t

LEMMA JoinFine ==
  ASSUME NEW s, Good(s), NEW p \in Live(s), NEW c \in Players,
         s.chr[c].party = NoParty, s.chr[c].candidate_of = NoParty, s.chr[c].offline_mem_of = NoParty
  PROVE  Good(Joined(s, p, c)) /\ AfterJoined(s, p, c, Joined(s, p, c))
<1> DEFINE t == Joined(s, p, c)
<1>1. /\ Sound(s) /\ p \in PartyIds /\ Live(s) \subseteq PartyIds
      /\ \A q \in Live(s) : Led(s, q) /\ Big(s, q)
  BY LiveAre DEF Good, Sound
<1>2. AfterJoined(s, p, c, t)
  BY <1>1, JoinedSound
<1> HIDE DEF t
<1>3. Led(t, p) /\ Big(t, p)
  <2> DEFINE m == Len(s.grp[p].members)
             k == Len(s.grp[p].candidates)
  <2>1. m \in Nat /\ k \in Nat /\ m + k > 1
    BY <1>1, SizeIs DEF Big
  <2>2. Len(t.grp[p].members) = m + 1 /\ Len(t.grp[p].candidates) = k
    BY <1>2 DEF AfterJoined
  <2> HIDE DEF m, k
  <2>3. (m + 1) + k > 1
    BY <2>1
  <2> QED
    BY <1>1, <1>2, <2>2, <2>3 DEF AfterJoined, Big
<1>4. Good(t)
  <2>1. \A q \in PartyIds \ {p} : t.grp[q] = s.grp[q]
    BY <1>2 DEF AfterJoined, Elsewhere
  <2>2. Sound(t) /\ Live(t) = Live(s)
    BY <1>2 DEF AfterJoined
  <2> QED
    BY <1>1, <1>3, <2>1, <2>2, OtherGood
<1> QED
  BY <1>2, <1>4 DEF t

LEMMA AddFine ==
  ASSUME IInv, NEW p \in Live(Now), NEW c \in Players, Unattached(c)
  PROVE  Fine(Joined(Now, p, c))
<1> DEFINE t == Joined(Now, p, c)
<1>1. /\ Good(Now) /\ Now.chr = chr
      /\ chr[c].party = NoParty /\ chr[c].candidate_of = NoParty /\ chr[c].offline_mem_of = NoParty
  BY Here DEF IInv, Unattached
<1>2. Good(t) /\ AfterJoined(Now, p, c, t)
  BY <1>1, JoinFine
<1> HIDE DEF t
<1>3. Fine(t)
  <2>1. t.chr[c].offline_mem_of = NoParty /\ \A d \in Players \ {c} : t.chr[d] = chr[d]
    BY <1>1, <1>2 DEF AfterJoined
  <2> QED
    BY <1>1, <1>2, <2>1, OneFine
<1> QED
  BY <1>3 DEF t

LEMMA LeadFine ==
  ASSUME IInv, NEW p \in Live(Now), NEW c \in Players, is_member(Now, p, c)
  PROVE  Fine(set_leader(Now, p, c))
<1> DEFINE t == set_leader(Now, p, c)
<1>1. /\ Now.chr = chr /\ Sound(Now) /\ p \in PartyIds /\ Live(Now) \subseteq PartyIds
      /\ \A q \in Live(Now) : Led(Now, q) /\ Big(Now, q)
  BY Here
<1>2. AfterSetLeader(Now, p, c, t)
  BY <1>1, SetLeaderSound
<1> HIDE DEF t
<1>3. Big(t, p)
  BY <1>1, <1>2 DEF AfterSetLeader, Big
<1>4. Good(t)
  <2>1. \A q \in PartyIds \ {p} : t.grp[q] = Now.grp[q]
    BY <1>2 DEF AfterSetLeader, Elsewhere
  <2>2. Sound(t) /\ Live(t) = Live(Now) /\ Led(t, p)
    BY <1>2 DEF AfterSetLeader
  <2> QED
    BY <1>1, <1>3, <2>1, <2>2, OtherGood
<1>5. Shrinks(Now, t)
  BY <1>2 DEF AfterSetLeader, Shrinks
<1> QED
  BY <1>4, <1>5, ShrunkFine DEF t

LEMMA DisbandFine ==
  ASSUME IInv, NEW p \in Live(Now)
  PROVE  Fine(disband_party(Now, grp[p].leader))
<1> DEFINE t == disband_party(Now, grp[p].leader)
<1>1. /\ Now.grp = grp /\ Sound(Now) /\ \A q \in Live(Now) : Led(Now, q) /\ Big(Now, q)
  BY Here
<1>2. is_leader(Now, p, grp[p].leader)
  BY <1>1 DEF is_leader
<1>3. \A q \in Live(Now) \ {p} : ~is_leader(Now, q, grp[p].leader)
  BY <1>1, LeaderIs DEF is_leader
<1>4. Good(t) /\ Shrinks(Now, t)
  BY <1>1, <1>2, <1>3, DisbandGood
<1> HIDE DEF t
<1>5. Fine(t)
  BY <1>4, ShrunkFine
<1> QED
  BY <1>5 DEF t

\* The timer of one who is not invited any more.
LEMMA TimeoutFine ==
  ASSUME IInv, NEW c \in Players, chr[c].candidate_of = NoParty
  PROVE  Fine([Now EXCEPT !.chr[c].timer = FALSE, !.chr[c].candidate_of = NoParty])
<1> DEFINE t == Timed(Now, c, FALSE)
<1>1. /\ Now.chr = chr /\ Sound(Now) /\ Live(Now) \subseteq PartyIds /\ Now \in World
      /\ \A q \in Live(Now) : Led(Now, q) /\ Big(Now, q)
  BY Here DEF Sound
<1>2. AfterTimed(Now, c, FALSE, t)
  BY <1>1, TimerSound, Zenon
<1>3. t = [Now EXCEPT !.chr[c].timer = FALSE, !.chr[c].candidate_of = NoParty]
  <2>1. t.chr[c].candidate_of = NoParty
    BY <1>1, <1>2 DEF AfterTimed
  <2>2. t \in World
    BY <1>2 DEF AfterTimed, Sound
  <2>3. [t EXCEPT !.chr[c].candidate_of = NoParty] = t
    BY <2>1, <2>2 DEF World, Character
  <2> QED
    BY <2>3 DEF Timed
<1> HIDE DEF t
<1>4. Good(t) /\ Shrinks(Now, t)
  BY <1>1, <1>2 DEF AfterTimed, Good, Led, Big, Shrinks
<1> QED
  BY <1>3, <1>4, ShrunkFine

-----------------------------------------------------------------------------
(* The actions *)

Goes == IInv' /\ Keeps(Now, Now')

LEMMA FineGoes ==
  ASSUME IInv, NEW t, Become(t), Fine(t), mode' = mode, online' = online, crashed' \in BOOLEAN
  PROVE  Goes
BY FineSteps DEF Goes

\* What leaves crashed alone.
LEMMA FineCalm ==
  ASSUME IInv, NEW t, Become(t), Fine(t), UNCHANGED <<mode, online, crashed>>
  PROVE  Goes
BY FineGoes DEF IInv

LEMMA AddCandidateGoes ==
  ASSUME IInv, VetInvited, NEW c \in Players, NEW d \in Players, add_candidate(c, d)
  PROVE  Goes
<1>1. /\ c \in online /\ d \in online /\ d # c
      /\ chr[d].party = NoParty /\ chr[d].candidate_of = NoParty /\ chr[c].candidate_of = NoParty
  BY DEF add_candidate, MayInvite
<1>2. chr[c].offline_mem_of = NoParty /\ chr[d].offline_mem_of = NoParty /\ Now.parties = parties
  BY <1>1, Here
<1>3. CASE chr[c].party # NoParty
  <2>1. chr[c].party \in Live(Now)
    BY <1>3, Here
  <2> DEFINE t == Invited(set_party_invite_timeout(Now, d), chr[c].party, d)
  <2>2. Fine(t)
    BY <1>1, <1>2, <2>1, InvitesFine
  <2>3. Become(t) /\ UNCHANGED <<mode, online, crashed>>
    BY <1>3 DEF add_candidate
  <2> HIDE DEF t
  <2> QED
    BY <2>2, <2>3, FineCalm
<1>4. CASE chr[c].party = NoParty
  <2>1. PICK p \in Free : Become(Invited(NewParty(set_party_invite_timeout(Now, d), p, c), p, d))
    BY <1>4 DEF add_candidate
  <2> DEFINE t == Invited(NewParty(set_party_invite_timeout(Now, d), p, c), p, d)
  <2>2. p \in PartyIds /\ p \notin Live(Now)
    BY <1>2 DEF Free, Live
  <2>3. Fine(t)
    BY <1>1, <1>2, <1>4, <2>2, NewPartyFine
  <2>4. Become(t) /\ UNCHANGED <<mode, online, crashed>>
    BY <2>1 DEF add_candidate
  <2> HIDE DEF t
  <2> QED
    BY <2>3, <2>4, FineCalm
<1> QED
  BY <1>3, <1>4

LEMMA InviteOfflineGoes ==
  ASSUME IInv, NEW c \in Players, NEW d \in Players, InviteOffline(c, d)
  PROVE  Goes
<1>1. Become(Now) /\ mode' = mode /\ online' = online /\ crashed' \in BOOLEAN
  BY Here DEF InviteOffline, Become
<1> QED
  BY <1>1, SameFine, FineGoes

LEMMA AcceptGoes ==
  ASSUME IInv, NEW c \in Players, NEW l \in Players, handle_accept_invite(c, l)
  PROVE  Goes
<1> DEFINE p == chr[l].party
           t == Joined(Answered(Now, p, c), p, c)
<1>1. Become(t) /\ UNCHANGED <<mode, online, crashed>> /\ p # NoParty /\ is_candidate(Now, p, c)
  BY DEF handle_accept_invite
<1>2. p \in Live(Now)
  BY <1>1, Here
<1>3. Fine(t)
  BY <1>1, <1>2, AcceptFine
<1> HIDE DEF t
<1> QED
  BY <1>1, <1>3, FineCalm

LEMMA DeclineGoes ==
  ASSUME IInv, NEW c \in Players, NEW l \in Players, handle_decline_invite(c, l)
  PROVE  Goes
<1> DEFINE p == chr[l].party
           t == disband_if_small(Answered(Now, p, c), p, l)
<1>1. Become(t) /\ UNCHANGED <<mode, online, crashed>> /\ p # NoParty /\ is_candidate(Now, p, c)
  BY DEF handle_decline_invite
<1>2. p \in Live(Now)
  BY <1>1, Here
<1>3. Fine(t)
  BY <1>1, <1>2, DeclineFine
<1> HIDE DEF t
<1> QED
  BY <1>1, <1>3, FineCalm

LEMMA TimeoutGoes ==
  ASSUME IInv, NEW c \in Players, invite_timeout(c)
  PROVE  Goes
<1> DEFINE p == chr[c].candidate_of
           a == disband_if_small(Answered(Now, p, c), p, grp[p].leader)
           b == [Now EXCEPT !.chr[c].timer = FALSE, !.chr[c].candidate_of = NoParty]
<1>1. UNCHANGED <<mode, online, crashed>>
  BY DEF invite_timeout
<1>2. CASE p # NoParty
  <2>1. p \in Live(Now) /\ is_candidate(Now, p, c)
    BY <1>2, Here
  <2>2. Become(a)
    BY <1>2, <2>1 DEF invite_timeout
  <2>3. Fine(a)
    BY <2>1, DeclineFine
  <2> HIDE DEF a
  <2> QED
    BY <1>1, <2>2, <2>3, FineCalm
<1>3. CASE p = NoParty
  <2>1. Become(b)
    BY <1>3 DEF invite_timeout
  <2>2. Fine(b)
    BY <1>3, TimeoutFine
  <2> HIDE DEF b
  <2> QED
    BY <1>1, <2>1, <2>2, FineCalm
<1> QED
  BY <1>2, <1>3

LEMMA RemoveGoes ==
  ASSUME IInv, NEW c \in Players, NEW m \in Players,
         handle_remove(c, m) \/ handle_remove_member_cursor(c, m)
  PROVE  Goes
<1> DEFINE p == chr[c].party
           t == Left(Now, p, m)
<1>1. /\ Become(t) /\ mode' = mode /\ online' = online /\ crashed' \in BOOLEAN
      /\ p # NoParty /\ is_member(Now, p, m)
  BY DEF handle_remove, handle_remove_member_cursor, IInv
<1>2. p \in Live(Now)
  BY <1>1, Here
<1>3. Fine(t)
  BY <1>1, <1>2, LeftFine
<1> HIDE DEF t
<1> QED
  BY <1>1, <1>3, FineGoes

LEMMA LogoffGoes ==
  ASSUME IInv, ~LonelyLogoffs, NEW c \in Players, on_loggoff_party(c)
  PROVE  Goes
<1> DEFINE p == chr[c].party
           left == IF is_leader(Now, p, c) THEN LeaderLeft(remove_member(Now, p, c), p, c)
                   ELSE Left(Now, p, c)
<1>1. /\ mode' = mode /\ crashed' \in BOOLEAN /\ online' = online \ {c} /\ online \subseteq Players
      /\ Good(Now) /\ \A d \in online : chr[d].offline_mem_of = NoParty
      /\ Now.chr = chr /\ Now.grp = grp
  BY Here DEF on_loggoff_party, IInv
<1>2. ASSUME LogoffRemoves(c) PROVE Goes
  <2>1. p \in Live(Now) /\ is_member(Now, p, c)
    BY <1>2, Here DEF LogoffRemoves
  <2> DEFINE v == left
  <2>2. /\ Good(v) /\ Shrinks(Now, v) /\ v.chr[c].party = NoParty
        /\ test_size(v, p) => /\ p \in Live(v)
                              /\ v.chr[c].candidate_of = NoParty /\ v.chr[c].offline_mem_of = NoParty
    <3>1. CASE is_leader(Now, p, c)
      <4>1. Len(grp[p].members) > 1 /\ test_size(remove_member(Now, p, c), p)
        BY <1>2, <3>1 DEF on_loggoff_party
      <4>2. AfterHandover(Now, p, c, LeaderLeft(remove_member(Now, p, c), p, c))
        BY <1>1, <2>1, <4>1, LeaderLeftGood
      <4> QED
        BY <3>1, <4>2 DEF AfterHandover
    <3>2. CASE ~is_leader(Now, p, c)
      <4>1. AfterLeft(Now, p, c, Left(Now, p, c))
        BY <1>1, <2>1, LeftGood
      <4> QED
        BY <3>2, <4>1 DEF AfterLeft
    <3> QED
      BY <3>1, <3>2
  <2> DEFINE t == WaitsToRejoin(v, p, c)
  <2>3. Become(t)
    BY <1>2 DEF on_loggoff_party
  <2> HIDE DEF v
  <2>4. AfterWaits(v, p, c, t)
    BY <2>2, WaitsGood
  <2> HIDE DEF t
  <2>5. Keeps(Now, t)
    BY <1>1, <2>2, <2>4 DEF AfterWaits, Keeps, Shrinks
  <2>6. \A d \in online' : t.chr[d].offline_mem_of = NoParty
    BY <1>1, <2>2, <2>4 DEF AfterWaits, Shrinks
  <2> QED
    BY <1>1, <2>3, <2>4, <2>5, <2>6, Steps DEF AfterWaits, Goes
<1>3. ASSUME ~LogoffRemoves(c) PROVE Goes
  <2>1. Become(Now)
    BY <1>3 DEF on_loggoff_party
  <2>2. Keeps(Now, Now)
    BY DEF Keeps
  <2>3. \A d \in online' : Now.chr[d].offline_mem_of = NoParty
    BY <1>1
  <2> QED
    BY <1>1, <2>1, <2>2, <2>3, Steps DEF Goes
<1> QED
  BY <1>2, <1>3

LEMMA LogonGoes ==
  ASSUME IInv, NEW c \in Players, on_loggon_party(c)
  PROVE  Goes
<1> DEFINE p == chr[c].offline_mem_of
           b == Returned(Now, p, c)
           j == Joined(b, p, c)
<1>1. /\ mode' = mode /\ crashed' \in BOOLEAN /\ online' = online \cup {c} /\ online \subseteq Players
      /\ Good(Now) /\ Sound(Now) /\ Live(Now) \subseteq PartyIds
      /\ \A d \in online : chr[d].offline_mem_of = NoParty
      /\ Now.chr = chr
  BY Here DEF on_loggon_party, IInv
<1>2. CASE p = NoParty
  <2>1. Become(Now)
    BY <1>2 DEF on_loggon_party
  <2>2. Keeps(Now, Now)
    BY DEF Keeps
  <2>3. \A d \in online' : Now.chr[d].offline_mem_of = NoParty
    BY <1>1, <1>2
  <2> QED
    BY <1>1, <2>1, <2>2, <2>3, Steps DEF Goes
<1>3. CASE p # NoParty
  <2>1. p \in Live(Now)
    BY <1>3, Here
  <2>2. Become(j) \/ Become(b)
    <3>1. b = [Now EXCEPT !.grp[p].offline = RemoveFirst(@, c), !.chr[c].offline_mem_of = NoParty]
      BY DEF Returned
    <3>2. Become(IF c \in ToSet(grp[p].offline) /\ can_add(b, p) THEN j ELSE b)
      BY <1>3, <3>1 DEF on_loggon_party
    <3> HIDE DEF b, j
    <3> QED
      BY <3>2
  <2>3. AfterReturned(Now, p, c, b)
    BY <1>1, <2>1, BackSound
  <2> HIDE DEF b
  <2>4. Good(b)
    <3>1. \A q \in Live(b) : Led(b, q) /\ Big(b, q)
      <4> SUFFICES ASSUME NEW q \in Live(Now) PROVE Led(b, q) /\ Big(b, q)
        BY <2>3 DEF AfterReturned
      <4>1. Led(Now, q) /\ Big(Now, q)
        BY <1>1 DEF Good
      <4>2. CASE q = p
        BY <2>3, <4>1, <4>2 DEF AfterReturned, Led, Big
      <4>3. CASE q # p
        <5>1. b.grp[q] = Now.grp[q]
          BY <1>1, <2>3, <4>3 DEF AfterReturned, Elsewhere
        <5> QED
          BY <4>1, <5>1 DEF Led, Big
      <4> QED
        BY <4>2, <4>3
    <3> QED
      BY <2>3, <3>1 DEF AfterReturned, Good
  <2>5. /\ p \in Live(b) /\ b.chr[c].party = NoParty /\ b.chr[c].candidate_of = NoParty
        /\ b.chr[c].offline_mem_of = NoParty /\ chr[c].party = NoParty
        /\ \A d \in Players \ {c} : b.chr[d] = chr[d]
    BY <1>1, <2>1, <2>3 DEF AfterReturned
  <2>6. Good(j) /\ AfterJoined(b, p, c, j)
    BY <2>4, <2>5, JoinFine
  <2> HIDE DEF j
  <2>7. \A d \in Players \ {c} : j.chr[d] = chr[d]
    BY <2>5, <2>6 DEF AfterJoined
  <2>8. j.chr[c].offline_mem_of = NoParty
    BY <2>5, <2>6 DEF AfterJoined
  <2>9. CASE Become(j)
    <3>1. Keeps(Now, j) /\ \A d \in online' : j.chr[d].offline_mem_of = NoParty
      BY <1>1, <2>5, <2>7, <2>8 DEF Keeps
    <3>2. online' \subseteq Players
      BY <1>1
    <3> QED
      BY <1>1, <2>6, <2>9, <3>1, <3>2, Steps DEF Goes
  <2>10. CASE Become(b)
    <3>1. Keeps(Now, b) /\ \A d \in online' : b.chr[d].offline_mem_of = NoParty
      BY <1>1, <2>5 DEF Keeps
    <3>2. online' \subseteq Players
      BY <1>1
    <3> QED
      BY <1>1, <2>4, <2>10, <3>1, <3>2, Steps DEF Goes
  <2> QED
    BY <2>2, <2>9, <2>10
<1> QED
  BY <1>2, <1>3

\* A script has a reference to a party that there is.
LEMMA RefsAre ==
  ASSUME IInv, NEW p \in Refs \ {NoParty}
  PROVE  p \in Live(Now)
BY Here DEF Refs

LEMMA ScriptGoes ==
  ASSUME IInv, NEW p \in PartyIds, NEW c \in Players,
         addmember(p, c) \/ removemember(p, c) \/ setleader(p, c) \/ addcandidate(p, c)
           \/ removecandidate(p, c)
  PROVE  Goes
<1>1. p \in Live(Now)
  BY RefsAre DEF addmember, removemember, setleader, addcandidate, removecandidate
<1>2. CASE addmember(p, c)
  <2> DEFINE t == Joined(Now, p, c)
  <2>1. Become(t) /\ UNCHANGED <<mode, online, crashed>> /\ Unattached(c)
    BY <1>2 DEF addmember, Scripted
  <2>2. Fine(t)
    BY <1>1, <2>1, AddFine
  <2> HIDE DEF t
  <2> QED
    BY <2>1, <2>2, FineCalm
<1>3. CASE removemember(p, c)
  <2> DEFINE t == Left(Now, p, c)
  <2>1. Become(t) /\ UNCHANGED <<mode, online, crashed>> /\ is_member(Now, p, c)
    BY <1>3 DEF removemember, Scripted
  <2>2. Fine(t)
    BY <1>1, <2>1, LeftFine
  <2> HIDE DEF t
  <2> QED
    BY <2>1, <2>2, FineCalm
<1>4. CASE setleader(p, c)
  <2> DEFINE t == set_leader(Now, p, c)
  <2>1. Become(t) /\ UNCHANGED <<mode, online, crashed>> /\ is_member(Now, p, c)
    BY <1>4 DEF setleader, Scripted
  <2>2. Fine(t)
    BY <1>1, <2>1, LeadFine
  <2> HIDE DEF t
  <2> QED
    BY <2>1, <2>2, FineCalm
<1>5. CASE addcandidate(p, c)
  <2> DEFINE t == Invited(set_party_invite_timeout(Now, c), p, c)
  <2>1. /\ Become(t) /\ mode' = mode /\ online' = online /\ crashed' \in BOOLEAN
        /\ Unattached(c)
    BY <1>5 DEF addcandidate
  <2>2. Fine(t)
    BY <1>1, <2>1, InvitesFine DEF Unattached
  <2> HIDE DEF t
  <2> QED
    BY <2>1, <2>2, FineGoes
<1>6. CASE removecandidate(p, c)
  <2> DEFINE t == disband_if_small(Answered(Now, p, c), p, grp[p].leader)
  <2>1. Become(t) /\ UNCHANGED <<mode, online, crashed>> /\ is_candidate(Now, p, c)
    BY <1>6 DEF removecandidate, Scripted
  <2>2. Fine(t)
    BY <1>1, <2>1, DeclineFine
  <2> HIDE DEF t
  <2> QED
    BY <2>1, <2>2, FineCalm
<1> QED
  BY <1>2, <1>3, <1>4, <1>5, <1>6

LEMMA CreateGoes ==
  ASSUME IInv, NEW c \in Players, NEW d \in Players, CreateParty(c, d)
  PROVE  Goes
<1>1. PICK p \in Free : Scripted(Joined(NewParty(Now, p, c), p, d))
  BY DEF CreateParty
<1>2. p \in PartyIds /\ p \notin Live(Now)
  BY Here DEF Free, Live
<1> DEFINE t == Joined(NewParty(Now, p, c), p, d)
<1>3. Fine(t)
  BY <1>2, NewPartyFine DEF CreateParty, Unattached
<1>4. Become(t) /\ UNCHANGED <<mode, online, crashed>>
  BY <1>1 DEF Scripted
<1> HIDE DEF t
<1> QED
  BY <1>3, <1>4, FineCalm

LEMMA DisbandGoes ==
  ASSUME IInv, NEW p \in PartyIds, DisbandParty(p)
  PROVE  Goes
<1> DEFINE t == disband_party(Now, grp[p].leader)
<1>1. Become(t) /\ UNCHANGED <<mode, online, crashed>> /\ p \in Refs \ {NoParty}
  BY DEF DisbandParty, Scripted
<1>2. Fine(t)
  BY <1>1, RefsAre, DisbandFine
<1> HIDE DEF t
<1> QED
  BY <1>1, <1>2, FineCalm

LEMMA StepGoes ==
  ASSUME IInv, VetInvited, ~LonelyLogoffs, Step
  PROVE  Goes
<1>1. CASE \E c, d \in Players :
             \/ add_candidate(c, d) \/ InviteOffline(c, d)
             \/ handle_accept_invite(c, d) \/ handle_decline_invite(c, d)
             \/ handle_remove(c, d) \/ handle_remove_member_cursor(c, d)
             \/ CreateParty(c, d)
  BY <1>1, AddCandidateGoes, InviteOfflineGoes, AcceptGoes, DeclineGoes, RemoveGoes, CreateGoes
<1>2. CASE \E c \in Players : invite_timeout(c) \/ on_loggoff_party(c) \/ on_loggon_party(c)
  BY <1>2, TimeoutGoes, LogoffGoes, LogonGoes
<1>3. CASE \E p \in PartyIds, c \in Players :
             \/ addmember(p, c) \/ removemember(p, c) \/ setleader(p, c)
             \/ addcandidate(p, c) \/ removecandidate(p, c)
  BY <1>3, ScriptGoes
<1>4. CASE \E p \in PartyIds : DisbandParty(p)
  BY <1>4, DisbandGoes
<1> QED
  BY <1>1, <1>2, <1>3, <1>4 DEF Step

-----------------------------------------------------------------------------
(* A restart *)

\* The n parties src are read again, at the addresses at.
Reread(n, src, at) ==
  /\ \A j, k \in 1..n : src[j] = src[k] => j = k
  /\ \A j, k \in 1..n : at[j] = at[k] => j = k
  /\ \A k \in 1..n : Len(grp[src[k]].members) > 1
  /\ parties' = at
  /\ \A k \in 1..n : grp'[at[k]] = [NoMembers EXCEPT !.leader = grp[src[k]].leader,
                                                     !.members = grp[src[k]].members]
  /\ \A p \in PartyIds : (\A k \in 1..n : at[k] # p) => grp'[p] = NoMembers
  /\ \A c \in Players : \A k \in 1..n :
       c \in ToSet(grp[src[k]].members) => chr'[c] = [Outsider EXCEPT !.party = at[k]]
  /\ \A c \in Players :
       (\A k \in 1..n : c \notin ToSet(grp[src[k]].members)) => chr'[c] = Outsider
  /\ grp' = [p \in PartyIds |-> grp'[p]] /\ chr' = [c \in Players |-> chr'[c]]

LEMMA ReadIs ==
  ASSUME IInv, Restart
  PROVE  \E n \in Nat : \E src \in [1..n -> Live(Now)], at \in [1..n -> PartyIds] :
           Reread(n, src, at)
<1> DEFINE worth == {k \in DOMAIN parties : mode = "stay" /\ Len(grp[parties[k]].members) > 1}
           n == Cardinality(worth)
<1>1. PICK f \in InOrder(worth) : read_party_dat([k \in DOMAIN f |-> Saved(parties[f[k]])])
  BY DEF Restart, write_party
<1>2. parties \in List(PartyIds) /\ Sound(Now) /\ Live(Now) = ToSet(parties) /\ Now.chr = chr /\ Now.grp = grp
  BY Here DEF Sound, World, Live
<1>3. /\ DOMAIN parties = 1..Len(parties) /\ Len(parties) \in Nat
      /\ \A i \in 1..Len(parties) : parties[i] \in ToSet(parties)
      /\ \A i, j \in 1..Len(parties) : parties[i] = parties[j] => i = j
  BY <1>2, ListIs
<1>4. n \in Nat
  <2>1. IsFiniteSet(1..Len(parties))
    BY <1>3, FS_Interval
  <2>2. worth \subseteq 1..Len(parties)
    BY <1>3
  <2> QED
    BY <2>1, <2>2, FS_Subset, FS_CardinalityType
<1>5. f \in [1..n -> worth] /\ \A j, k \in 1..n : j < k => f[j] < f[k]
  BY DEF InOrder
<1>6. \A k \in 1..n : f[k] \in 1..Len(parties) /\ Len(grp[parties[f[k]]].members) > 1
  BY <1>3, <1>5
<1> HIDE DEF n, worth
<1>7. \A j, k \in 1..n : f[j] = f[k] => j = k
  <2> SUFFICES ASSUME NEW j \in 1..n, NEW k \in 1..n, j # k PROVE f[j] # f[k]
    OBVIOUS
  <2>1. j < k \/ k < j
    BY <1>4
  <2>2. f[j] < f[k] \/ f[k] < f[j]
    BY <1>5, <2>1
  <2> QED
    BY <1>3, <1>6, <2>2
<1> DEFINE src == [k \in 1..n |-> parties[f[k]]]
           file == [k \in 1..n |-> Saved(parties[f[k]])]
<1>8. src \in [1..n -> Live(Now)] /\ \A j, k \in 1..n : src[j] = src[k] => j = k
  BY <1>2, <1>3, <1>6, <1>7
<1>9. read_party_dat(file)
  <2>1. [k \in DOMAIN f |-> Saved(parties[f[k]])] = file
    BY <1>5
  <2> HIDE DEF file
  <2> QED
    BY <1>1, <2>1
<1>10. DOMAIN file = 1..n /\ \A k \in 1..n : file[k] = Saved(src[k])
  OBVIOUS
<1> HIDE DEF file, src
<1>11. PICK at \in [DOMAIN file -> PartyIds] :
         /\ IsInjective(at)
         /\ parties' = at
         /\ grp' = [p \in PartyIds |->
                     IF p \in ToSet(at)
                     THEN LET k == SelectInSeq(at, LAMBDA q : q = p)
                          IN [NoMembers EXCEPT !.leader = file[k].leader, !.members = file[k].members]
                     ELSE NoMembers]
         /\ chr' = [c \in Players |->
                     LET its == {k \in DOMAIN file : c \in ToSet(file[k].members)}
                     IN [Outsider EXCEPT !.party = IF its = {} THEN NoParty ELSE at[Max(its)]]]
  BY <1>9 DEF read_party_dat
<1>12. /\ \A j, k \in 1..n : at[j] = at[k] => j = k
       /\ DOMAIN at = 1..n /\ Len(at) = n /\ ToSet(at) = {at[k] : k \in 1..n}
  <2>1. DOMAIN at = 1..n /\ at \in Seq(PartyIds)
    BY <1>4, <1>10
  <2>2. Len(at) = n
    BY <1>4, <2>1
  <2> QED
    BY <1>11, <2>1, <2>2 DEF IsInjective, ToSet
<1>13. ASSUME NEW k \in 1..n
       PROVE  grp'[at[k]] = [NoMembers EXCEPT !.leader = grp[src[k]].leader,
                                              !.members = grp[src[k]].members]
  <2> DEFINE p == at[k]
             I == {i \in 1..Len(at) : at[i] = p}
  <2>1. I = {k} /\ I \in SUBSET Nat
    BY <1>4, <1>12
  <2>2. SelectInSeq(at, LAMBDA q : q = p) = k
    <3>1. Min(I) \in I
      BY <2>1, LeastIndex
    <3>2. Min(I) = k
      BY <2>1, <3>1
    <3> QED
      BY <2>1, <3>2 DEF SelectInSeq
  <2>3. p \in PartyIds /\ p \in ToSet(at)
    BY <1>10, <1>12
  <2>4. grp'[p] = [NoMembers EXCEPT !.leader = file[k].leader, !.members = file[k].members]
    <3> HIDE DEF p
    <3> QED
      BY <1>11, <2>2, <2>3
  <2>5. file[k].leader = grp[src[k]].leader /\ file[k].members = grp[src[k]].members
    BY <1>10 DEF Saved
  <2> QED
    BY <2>4, <2>5
<1>14. ASSUME NEW p \in PartyIds, \A k \in 1..n : at[k] # p PROVE grp'[p] = NoMembers
  <2>1. p \notin ToSet(at)
    BY <1>12, <1>14
  <2> QED
    BY <1>11, <2>1
<1> DEFINE Its(c) == {k \in 1..n : c \in ToSet(grp[src[k]].members)}
<1>15. ASSUME NEW c \in Players
       PROVE  chr'[c] = [Outsider EXCEPT !.party = IF Its(c) = {} THEN NoParty ELSE at[Max(Its(c))]]
  <2>1. {k \in DOMAIN file : c \in ToSet(file[k].members)} = Its(c)
    BY <1>10 DEF Saved
  <2> HIDE DEF Its
  <2> QED
    BY <1>11, <2>1
<1>16. ASSUME NEW c \in Players, NEW k \in 1..n, c \in ToSet(grp[src[k]].members)
       PROVE  chr'[c] = [Outsider EXCEPT !.party = at[k]]
  <2>1. \A j \in Its(c) : src[j] = chr[c].party /\ src[k] = chr[c].party
    BY <1>2, <1>8, <1>16, Here DEF Sound, Agree
  <2>2. Its(c) = {k}
    BY <1>8, <1>16, <2>1
  <2>3. Max({k}) = k
    <3>1. \A x \in {k} : \A y \in {k} : x >= y
      BY <1>4
    <3> QED
      BY <3>1 DEF Max
  <2> HIDE DEF Its
  <2> QED
    BY <1>15, <2>2, <2>3
<1>17. ASSUME NEW c \in Players, \A k \in 1..n : c \notin ToSet(grp[src[k]].members)
       PROVE  chr'[c] = Outsider
  <2>1. Its(c) = {}
    BY <1>17
  <2> HIDE DEF Its
  <2>2. chr'[c] = [Outsider EXCEPT !.party = NoParty]
    BY <1>15, <2>1
  <2> QED
    BY <2>2 DEF Outsider
<1>18. grp' = [p \in PartyIds |-> grp'[p]] /\ chr' = [c \in Players |-> chr'[c]]
  BY <1>11
<1>19. at \in [1..n -> PartyIds]
  BY <1>10
<1>20. \A k \in 1..n : Len(grp[src[k]].members) > 1
  BY <1>6 DEF src
<1>21. n \in Nat /\ src \in [1..n -> Live(Now)] /\ parties' = at
  BY <1>4, <1>8, <1>11
<1> USE <1>19, <1>21
<1> WITNESS n \in Nat
<1> WITNESS src \in [1..n -> Live(Now)], at \in [1..n -> PartyIds]
<1> QED
  BY <1>8, <1>12, <1>13, <1>14, <1>16, <1>17, <1>18, <1>20, <1>21 DEF Reread

LEMMA RestartKeeps ==
  ASSUME IInv, Restart
  PROVE  IInv'
<1>1. PICK n \in Nat : \E src \in [1..n -> Live(Now)], at \in [1..n -> PartyIds] : Reread(n, src, at)
  BY ReadIs
<1>2. PICK src \in [1..n -> Live(Now)], at \in [1..n -> PartyIds] : Reread(n, src, at)
  BY <1>1
<1> USE DEF Reread
<1> DEFINE t == [parties |-> parties', grp |-> grp', chr |-> chr']
<1>3. /\ t.parties = at /\ t.grp = grp' /\ t.chr = chr'
  BY <1>2
<1>4. /\ NoParty \notin PartyIds /\ \A p \in Live(Now) : p \in PartyIds /\ Led(Now, p)
      /\ Now.grp = grp /\ \A p \in PartyIds : grp[p] \in Group
  BY Here DEF Sound, World
<1>5. at \in List(PartyIds) /\ ToSet(at) = {at[k] : k \in 1..n}
  <2>1. DOMAIN at = 1..n /\ at \in Seq(PartyIds)
    OBVIOUS
  <2> QED
    BY <1>2, <2>1 DEF List, IsInjective, ToSet
<1>6. ASSUME NEW k \in 1..n
      PROVE  LET g == grp'[at[k]]
             IN /\ g \in Group /\ g.leader = grp[src[k]].leader /\ g.members = grp[src[k]].members
                /\ g.candidates = <<>> /\ g.offline = <<>>
  <2>1. grp[src[k]].leader \in Players \cup {Nobody} /\ grp[src[k]].members \in List(Players)
    BY <1>4 DEF Group
  <2>2. grp'[at[k]] = [NoMembers EXCEPT !.leader = grp[src[k]].leader, !.members = grp[src[k]].members]
    BY <1>2
  <2>3. <<>> \in List(Players)
    BY EmptyList
  <2> QED
    BY <2>1, <2>2, <2>3 DEF NoMembers, Group
<1>7. /\ NoMembers \in Group /\ Outsider \in Character
      /\ Outsider.party = NoParty /\ Outsider.candidate_of = NoParty /\ Outsider.offline_mem_of = NoParty
  BY EmptyList DEF NoMembers, Group, Outsider, Character, Links
<1>8. ASSUME NEW c \in Players
      PROVE  /\ chr'[c] \in Character
             /\ chr'[c].candidate_of = NoParty /\ chr'[c].offline_mem_of = NoParty
             /\ \A k \in 1..n : c \in ToSet(grp[src[k]].members) => chr'[c].party = at[k]
             /\ \A k \in 1..n : c \notin ToSet(grp[src[k]].members) => chr'[c].party # at[k]
  <2>1. CASE \E k \in 1..n : c \in ToSet(grp[src[k]].members)
    <3>1. PICK k \in 1..n : c \in ToSet(grp[src[k]].members)
      BY <2>1
    <3>2. chr'[c] = [Outsider EXCEPT !.party = at[k]]
      BY <1>2, <3>1
    <3>3. /\ chr'[c] \in Character /\ chr'[c].party = at[k]
          /\ chr'[c].candidate_of = NoParty /\ chr'[c].offline_mem_of = NoParty
      BY <3>2 DEF Outsider, Character, Links
    <3>4. ASSUME NEW j \in 1..n
          PROVE  /\ c \in ToSet(grp[src[j]].members) => chr'[c].party = at[j]
                 /\ c \notin ToSet(grp[src[j]].members) => chr'[c].party # at[j]
      <4>1. ASSUME c \in ToSet(grp[src[j]].members) PROVE chr'[c].party = at[j]
        <5>1. chr'[c] = [Outsider EXCEPT !.party = at[j]]
          BY <1>2, <4>1
        <5> QED
          BY <5>1 DEF Outsider
      <4>2. ASSUME c \notin ToSet(grp[src[j]].members) PROVE chr'[c].party # at[j]
        <5>1. j # k
          BY <3>1, <4>2
        <5> QED
          BY <1>2, <3>3, <5>1
      <4> QED
        BY <4>1, <4>2
    <3> QED
      BY <3>3, <3>4
  <2>2. CASE ~\E k \in 1..n : c \in ToSet(grp[src[k]].members)
    <3>1. chr'[c] = Outsider
      BY <1>2, <2>2
    <3>2. \A k \in 1..n : at[k] # NoParty
      BY <1>4
    <3> QED
      BY <1>7, <2>2, <3>1, <3>2
  <2> QED
    BY <2>1, <2>2
<1>9. t \in World
  <2>1. ASSUME NEW p \in PartyIds PROVE grp'[p] \in Group
    <3>1. CASE \A k \in 1..n : at[k] # p
      BY <1>2, <1>7, <3>1
    <3>2. CASE ~\A k \in 1..n : at[k] # p
      BY <1>6, <3>2
    <3> QED
      BY <3>1, <3>2
  <2>2. grp' \in [PartyIds -> Group]
    BY <1>2, <2>1
  <2>3. chr' \in [Players -> Character]
    BY <1>2, <1>8
  <2> QED
    BY <1>2, <1>5, <2>2, <2>3 DEF World
<1> HIDE DEF t
<1>10. Live(t) = {at[k] : k \in 1..n}
  BY <1>3, <1>5 DEF Live
<1>11. Agree(t)
  <2> SUFFICES ASSUME NEW c \in Players, NEW p \in PartyIds
               PROVE  /\ t.chr[c].party = p <=> p \in Live(t) /\ c \in ToSet(t.grp[p].members)
                      /\ t.chr[c].candidate_of = p <=> p \in Live(t) /\ c \in ToSet(t.grp[p].candidates)
                      /\ t.chr[c].offline_mem_of = p <=> p \in Live(t) /\ c \in ToSet(t.grp[p].offline)
    BY DEF Agree
  <2>1. CASE \E k \in 1..n : at[k] = p
    <3>1. PICK k \in 1..n : at[k] = p
      BY <2>1
    <3>2. /\ t.grp[p].members = grp[src[k]].members
          /\ ToSet(t.grp[p].candidates) = {} /\ ToSet(t.grp[p].offline) = {}
      BY <1>3, <1>6, <3>1, EmptyList
    <3>3. p \in Live(t)
      BY <1>10, <3>1
    <3>4. chr'[c].party = p <=> c \in ToSet(grp[src[k]].members)
      BY <1>8, <3>1
    <3> QED
      BY <1>3, <1>4, <1>8, <3>2, <3>3, <3>4
  <2>2. CASE ~\E k \in 1..n : at[k] = p
    <3>1. p \notin Live(t)
      BY <1>10, <2>2
    <3>2. chr'[c].party # p
      <4>1. CASE \E k \in 1..n : c \in ToSet(grp[src[k]].members)
        BY <1>8, <2>2, <4>1
      <4>2. CASE ~\E k \in 1..n : c \in ToSet(grp[src[k]].members)
        <5>1. chr'[c] = Outsider
          BY <1>2, <4>2
        <5> QED
          BY <1>4, <1>7, <5>1
      <4> QED
        BY <4>1, <4>2
    <3> QED
      BY <1>3, <1>4, <1>8, <3>1, <3>2
  <2> QED
    BY <2>1, <2>2
<1>12. Sound(t)
  BY <1>3, <1>8, <1>9, <1>11 DEF Sound, OneTie
<1>13. \A p \in Live(t) : Led(t, p) /\ Big(t, p)
  <2> SUFFICES ASSUME NEW p \in Live(t) PROVE Led(t, p) /\ Big(t, p)
    OBVIOUS
  <2>1. PICK k \in 1..n : at[k] = p
    BY <1>10
  <2>2. /\ t.grp[p].members = grp[src[k]].members /\ t.grp[p].leader = grp[src[k]].leader
        /\ t.grp[p].candidates = <<>>
    BY <1>3, <1>6, <2>1
  <2>3. Led(t, p)
    BY <1>4, <2>2 DEF Led
  <2>4. test_size(t, p)
    BY <1>2, <2>2 DEF test_size
  <2> QED
    BY <1>12, <2>3, <2>4, SizeIs DEF Led
<1>14. Now' = t
  BY DEF Now, t
<1> QED
  <2>1. Good(Now')
    BY <1>12, <1>13, <1>14 DEF Good
  <2>2. online' = {} /\ mode' = mode /\ crashed' = crashed
    BY DEF Restart
  <2> QED
    BY <2>1, <2>2 DEF IInv

-----------------------------------------------------------------------------
(* The theorems, under those two assumptions *)

LEMMA Starts == Init => IInv
<1> SUFFICES ASSUME Init PROVE IInv
  OBVIOUS
<1>1. /\ parties = <<>> /\ grp = [p \in PartyIds |-> NoMembers] /\ chr = [c \in Players |-> Outsider]
      /\ mode \in LogoffModes /\ online = {} /\ crashed = FALSE
  BY DEF Init
<1>2. /\ NoMembers \in Group /\ Outsider \in Character /\ OneTie(Outsider) /\ NoParty \notin PartyIds
      /\ Outsider.party = NoParty /\ Outsider.candidate_of = NoParty /\ Outsider.offline_mem_of = NoParty
  BY EmptyList, PartyAssumption DEF NoMembers, Group, Outsider, Character, Links, OneTie
<1>3. Now.parties = parties /\ Now.grp = grp /\ Now.chr = chr
  BY DEF Now
<1>4. Now \in World /\ Live(Now) = {}
  BY <1>1, <1>2, EmptyList DEF World, Now, Live
<1>5. Agree(Now)
  BY <1>1, <1>2, <1>3, <1>4 DEF Agree
<1>6. \A c \in Players : OneTie(Now.chr[c])
  BY <1>1, <1>2, <1>3
<1> QED
  BY <1>1, <1>4, <1>5, <1>6 DEF IInv, Good, Sound

LEMMA Stays ==
  ASSUME VetInvited, ~LonelyLogoffs, IInv, [Next]_vars
  PROVE  IInv' /\ (~Restart => Keeps(Now, Now'))
<1>1. CASE Step
  BY <1>1, StepGoes DEF Goes
<1>2. CASE Restart
  BY <1>2, RestartKeeps
<1>3. CASE UNCHANGED vars
  <2>1. Now' = Now /\ chr' = chr /\ online' = online /\ mode' = mode /\ crashed' = crashed
    BY <1>3 DEF vars, Now
  <2> QED
    BY <2>1 DEF IInv, Keeps
<1> QED
  BY <1>1, <1>2, <1>3 DEF Next, Gone

LEMMA Implied ==
  ASSUME IInv
  PROVE  TypeOK /\ SidesAgree /\ FirstLeads /\ BigEnough /\ InvitationsTimed
<1>1. /\ Now.parties = parties /\ Now.grp = grp /\ Now.chr = chr
      /\ Sound(Now) /\ Live(Now) = ToSet(parties)
      /\ \A p \in ToSet(parties) : Led(Now, p) /\ Big(Now, p)
  BY Here DEF Live
<1>2. TypeOK
  <2>1. /\ parties \in List(PartyIds) /\ grp \in [PartyIds -> Group] /\ chr \in [Players -> Character]
    BY <1>1 DEF Sound, World
  <2>2. grp \in [PartyIds -> [leader : Players \cup {Nobody}, members : Seq(Players),
                              candidates : Seq(Players), offline : Seq(Players)]]
    BY <2>1 DEF Group, List
  <2>3. \A p \in PartyIds : /\ IsInjective(grp[p].members) /\ IsInjective(grp[p].candidates)
                            /\ IsInjective(grp[p].offline)
    BY <2>1 DEF Group, List
  <2> QED
    BY <2>1, <2>2, <2>3 DEF TypeOK, IInv, Character, List
<1>3. SidesAgree
  BY <1>1 DEF Sound, Agree, SidesAgree, is_member, is_candidate
<1>4. FirstLeads
  BY <1>1 DEF FirstLeads, Led
<1>5. BigEnough
  BY <1>1 DEF BigEnough, Big
<1>6. InvitationsTimed
  BY <1>1 DEF Sound, OneTie, InvitationsTimed
<1> QED
  BY <1>2, <1>3, <1>4, <1>5, <1>6

LEMMA Invariant ==
  ASSUME VetInvited, ~LonelyLogoffs
  PROVE  Spec => []IInv
<1>1. Init => IInv
  BY Starts
<1>2. IInv /\ [Next]_vars => IInv'
  BY Stays
<1> QED
  BY <1>1, <1>2, PTL DEF Spec

\* The lists of a party never name anybody twice, nor the vector a party.
THEOREM TypeCorrect ==
  ASSUME VetInvited, ~LonelyLogoffs
  PROVE  Spec => []TypeOK
<1>1. IInv => TypeOK
  BY Implied
<1> QED
  BY <1>1, Invariant, PTL

\* A party's lists and the characters' pointers always say the same, and no pointer
\* dangles: whoever is invited, answers, leaves, leads, logs off or on, or is read from
\* the file.
THEOREM SidesAlwaysAgree ==
  ASSUME VetInvited, ~LonelyLogoffs
  PROVE  Spec => []SidesAgree
<1>1. IInv => SidesAgree
  BY Implied
<1> QED
  BY <1>1, Invariant, PTL

\* The first member of every party is its leader.
THEOREM FirstAlwaysLeads ==
  ASSUME VetInvited, ~LonelyLogoffs
  PROVE  Spec => []FirstLeads
<1>1. IInv => FirstLeads
  BY Implied
<1> QED
  BY <1>1, Invariant, PTL

\* Whatever makes a party too small also ends it.
THEOREM AlwaysBigEnough ==
  ASSUME VetInvited, ~LonelyLogoffs
  PROVE  Spec => []BigEnough
<1>1. IInv => BigEnough
  BY Implied
<1> QED
  BY <1>1, Invariant, PTL

\* Every invitation has its timer.
THEOREM InvitationsEnd ==
  ASSUME VetInvited, ~LonelyLogoffs
  PROVE  Spec => []InvitationsTimed
<1>1. IInv => InvitationsTimed
  BY Implied
<1> QED
  BY <1>1, Invariant, PTL

\* Nobody goes from one party to another in one step of a running server.
THEOREM LeavesFirst ==
  ASSUME VetInvited, ~LonelyLogoffs
  PROVE  Spec => NobodySwitches
<1>1. IInv /\ [Next]_vars =>
        [\A c \in Players : chr[c].party # NoParty /\ chr'[c].party # NoParty /\ ~Restart
                              => chr'[c].party = chr[c].party]_vars
  <2> SUFFICES ASSUME IInv, [Next]_vars, ~Restart, NEW c \in Players,
                      chr[c].party # NoParty, chr'[c].party # NoParty
               PROVE  chr'[c].party = chr[c].party
    BY Zenon
  <2>1. Keeps(Now, Now')
    BY Stays
  <2>2. Now.chr = chr /\ Now'.chr = chr'
    BY DEF Now
  <2> QED
    BY <2>1, <2>2 DEF Keeps
<1> QED
  BY <1>1, Invariant, PTL DEF Spec, NobodySwitches

=============================================================================
