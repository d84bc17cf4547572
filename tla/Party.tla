------------------------------- MODULE Party -------------------------------
(***************************************************************************)
(* Parties of players (pol/party.cpp, party.h) and what scripts do to them *)
(* (pol/module/partymod.cpp).  A party knows its members, those it has     *)
(* invited, and members that are offline, by serial; a character knows the *)
(* party it is in, is invited to, or is an offline member of, by a bare    *)
(* pointer.  Packets, answers to cursors, the timers of invitations,       *)
(* logins, logoffs and scripts change both sides.                          *)
(*                                                                         *)
(* A step is one packet, answer, timer, login, logoff or script's call     *)
(* handled, all of it with PolLock held.  Messages to the clients, party   *)
(* chat and looting permissions are left out.  Any hook that is asked may  *)
(* refuse: then nothing happens.  Characters are not deleted.              *)
(*                                                                         *)
(* An operator with an underscore and a word after the name of another is  *)
(* a mutation of it, used by no definition here.                           *)
(***************************************************************************)
EXTENDS Integers, Sequences, FiniteSets, SequencesExt

CONSTANTS
  Players,          \* characters of players
  PartyIds,         \* the addresses at which a Party may be allocated
  Nobody,           \* the serial of a leader there never was
  NoParty,          \* a Party* that is NULL
  MaxPartyMembers,  \* party_cfg.General.MaxPartyMembers
  DeclineTimeout,   \* party_cfg.General.DeclineTimeout is more than 0
  LogoffModes,      \* what party.cfg may say of logoffs, see Modes
  VetInvited,       \* the hook CanAddToParty refuses leaders that are invited themselves
  LonelyLogoffs,    \* a leader may log off who leaves nobody to lead
  NullClients       \* messages may be addressed to characters that are not online

\* RemoveMemberOnLogoff off; on; on, with RejoinPartyOnLogon.
Modes == {"stay", "remove", "rejoin"}

ASSUME PartyAssumption ==
  /\ NoParty \notin PartyIds /\ Nobody \notin Players
  /\ MaxPartyMembers \in Nat /\ MaxPartyMembers > 1
  /\ LogoffModes \subseteq Modes /\ DeclineTimeout \in BOOLEAN
  /\ VetInvited \in BOOLEAN /\ LonelyLogoffs \in BOOLEAN /\ NullClients \in BOOLEAN

VARIABLES
  mode,     \* party_cfg.General, as far as it concerns logoffs
  parties,  \* the vector parties, each by its address
  grp,      \* the Party at each address; a freed one is as its destructor left it
  chr,      \* each Character's side of it
  online,   \* who has an active client
  crashed   \* a NULL client was followed

vars == <<mode, parties, grp, chr, online, crashed>>

NoMembers == [leader |-> Nobody,
              members |-> <<>>, candidates |-> <<>>, offline |-> <<>>]

Outsider == [party |-> NoParty, candidate_of |-> NoParty, offline_mem_of |-> NoParty,
             timer |-> FALSE]   \* timer: party_decline_timeout_ is not NULL

Init ==
  /\ mode \in LogoffModes
  /\ parties = <<>>
  /\ grp = [p \in PartyIds |-> NoMembers]
  /\ chr = [c \in Players |-> Outsider]
  /\ online = {}
  /\ crashed = FALSE

----------------------------------------------------------------------------
\* Both sides together, as a value that the operations below change in turn.

Now == [parties |-> parties, grp |-> grp, chr |-> chr]

\* Nothing happens any more after a crash.
Become(s) == ~crashed /\ parties' = s.parties /\ grp' = s.grp /\ chr' = s.chr

is_member(s, p, c) == c \in ToSet(s.grp[p].members)
is_candidate(s, p, c) == c \in ToSet(s.grp[p].candidates)
is_leader(s, p, c) == s.grp[p].leader = c

test_size(s, p) == s.grp[p].candidates # <<>> \/ Len(s.grp[p].members) > 1

can_add(s, p) == Len(s.grp[p].members) + Len(s.grp[p].candidates) < MaxPartyMembers

remove_member(s, p, c) == [s EXCEPT !.grp[p].members = RemoveFirst(@, c)]
remove_candidate(s, p, c) == [s EXCEPT !.grp[p].candidates = RemoveFirst(@, c)]

\* Party::add_member where it succeeds, with the character's side.
Joined(s, p, c) == [s EXCEPT !.grp[p].members = Append(@, c), !.chr[c].party = p]

set_leader(s, p, c) ==
  [s EXCEPT !.grp[p].members = <<c>> \o RemoveFirst(@, c), !.grp[p].leader = c]

\* If there is a timeout at all: both callers look.
set_party_invite_timeout(s, c) == [s EXCEPT !.chr[c].timer = DeclineTimeout \/ @]

\* Party::disband: timers are left to run.
disband_Candidates(s, p) ==
  LET were == s.grp[p]
  IN [s EXCEPT
       !.chr = [c \in Players |->
          [s.chr[c] EXCEPT
             !.party = IF c \in ToSet(were.members) THEN NoParty ELSE @,
             !.offline_mem_of = IF c \in ToSet(were.offline) THEN NoParty ELSE @]],
       !.grp[p] = [NoMembers EXCEPT !.leader = were.leader]]
disband(s, p) ==
  LET were == s.grp[p]
  IN [s EXCEPT
       !.chr = [c \in Players |->
          [s.chr[c] EXCEPT
             !.party = IF c \in ToSet(were.members) THEN NoParty ELSE @,
             !.candidate_of = IF c \in ToSet(were.candidates) THEN NoParty ELSE @,
             !.offline_mem_of = IF c \in ToSet(were.offline) THEN NoParty ELSE @]],
       !.grp[p] = [NoMembers EXCEPT !.leader = were.leader]]

\* The first party of that leader is disbanded and freed.
disband_party(s, c) ==
  IF \E k \in DOMAIN s.parties : is_leader(s, s.parties[k], c)
  THEN LET p == SelectInSeq(s.parties, LAMBDA q : is_leader(s, q, c))
       IN [disband(s, s.parties[p]) EXCEPT !.parties = RemoveAt(@, p)]
  ELSE s

\* ...if nobody is invited and nobody is left but a leader.
disband_if_small(s, p, c) == IF test_size(s, p) THEN s ELSE disband_party(s, c)

\* new Party( leader ): at an address that no party of the vector has, though a
\* pointer may be left to it.
NewParty(s, p, c) ==
  [s EXCEPT !.parties = Append(@, p),
            !.grp[p] = [NoMembers EXCEPT !.leader = c, !.members = <<c>>],
            !.chr[c].party = p]

Free == PartyIds \ ToSet(parties)

----------------------------------------------------------------------------
\* Invitations

\* add_candidate, after the checks that only send a message.  A cursor's answer may
\* name somebody who has logged off since he was chosen: send_invite then follows his
\* client, which is NULL.
MayInvite(leader, member) ==
  LET p == chr[leader].party
  IN /\ leader \in online /\ member # leader
     /\ p # NoParty => /\ is_leader(Now, p, leader) /\ can_add(Now, p)
                       /\ ~is_member(Now, p, member) /\ ~is_candidate(Now, p, member)
     /\ chr[member].party = NoParty
     /\ chr[member].candidate_of = NoParty
     /\ VetInvited => chr[leader].candidate_of = NoParty

Invited(s, p, c) ==
  [s EXCEPT !.grp[p].candidates = Append(@, c), !.chr[c].candidate_of = p]

add_candidate_Untimed(leader, member) ==
  /\ MayInvite(leader, member)
  /\ member \in online
  /\ IF chr[leader].party # NoParty
     THEN Become(Invited(Now, chr[leader].party, member))
     ELSE \E p \in Free : Become(Invited(NewParty(Now, p, leader), p, member))
  /\ UNCHANGED <<mode, online, crashed>>
add_candidate(leader, member) ==
  /\ MayInvite(leader, member)
  /\ member \in online
  /\ LET s == set_party_invite_timeout(Now, member)
     IN IF chr[leader].party # NoParty
        THEN Become(Invited(s, chr[leader].party, member))
        ELSE \E p \in Free : Become(Invited(NewParty(s, p, leader), p, member))
  /\ UNCHANGED <<mode, online, crashed>>

InviteOffline(leader, member) ==
  /\ ~crashed /\ NullClients
  /\ MayInvite(leader, member) /\ member \notin online
  /\ crashed' = TRUE
  /\ UNCHANGED <<mode, parties, grp, chr, online>>

\* Off the list, and the timer is cancelled.
Answered(s, p, c) ==
  [remove_candidate(s, p, c) EXCEPT !.chr[c].timer = FALSE, !.chr[c].candidate_of = NoParty]

\* The packet names a leader, but any member of the party will do.  Who accepts
\* leaves a place free, so add_member succeeds.
handle_accept_invite(c, l) ==
  LET p == chr[l].party
  IN /\ c \in online
     /\ p # NoParty /\ is_candidate(Now, p, c)
     /\ Become(Joined(Answered(Now, p, c), p, c))
     /\ UNCHANGED <<mode, online, crashed>>

handle_decline_invite_Leave(c, l) ==
  LET p == chr[l].party
  IN /\ c \in online
     /\ p # NoParty /\ is_candidate(Now, p, c)
     /\ Become(Answered(Now, p, c))
     /\ UNCHANGED <<mode, online, crashed>>
handle_decline_invite(c, l) ==
  LET p == chr[l].party
  IN /\ c \in online
     /\ p # NoParty /\ is_candidate(Now, p, c)
     /\ Become(disband_if_small(Answered(Now, p, c), p, l))
     /\ UNCHANGED <<mode, online, crashed>>

\* The OneShotTask clears its handle before it runs.
invite_timeout(c) ==
  LET p == chr[c].candidate_of
  IN /\ chr[c].timer
     /\ Become(IF p # NoParty /\ is_candidate(Now, p, c)
               THEN disband_if_small(Answered(Now, p, c), p, grp[p].leader)
               ELSE [Now EXCEPT !.chr[c].timer = FALSE, !.chr[c].candidate_of = NoParty])
     /\ UNCHANGED <<mode, online, crashed>>

----------------------------------------------------------------------------
\* Leaving

\* Out of the list and of the party; send_remove_member says whether that ends it.
Left(s, p, c) ==
  LET t == [remove_member(s, p, c) EXCEPT !.chr[c].party = NoParty]
  IN IF is_leader(t, p, c) \/ ~test_size(t, p)
     THEN disband_party(t, t.grp[p].leader)
     ELSE t

\* A leader removes anybody, another member himself.
handle_remove(c, m) ==
  LET p == chr[c].party
  IN /\ c \in online
     /\ p # NoParty
     /\ is_leader(Now, p, c) \/ c = m
     /\ is_member(Now, p, m)
     /\ Become(Left(Now, p, m))
     /\ UNCHANGED <<mode, online, crashed>>

\* The same by a cursor, for others than oneself.  The message to one who has logged
\* off follows his client.
handle_remove_member_cursor(c, m) ==
  LET p == chr[c].party
  IN /\ c \in online /\ c # m
     /\ p # NoParty
     /\ is_leader(Now, p, c) /\ is_member(Now, p, m)
     /\ m \in online \/ NullClients
     /\ Become(Left(Now, p, m))
     /\ crashed' = (m \notin online)
     /\ UNCHANGED <<mode, online>>

\* get_member_at( 0 ) of a vector emptied by erase reads the element erased last.
NextLeader(s, p, c) == IF s.grp[p].members = <<>> THEN c ELSE Head(s.grp[p].members)

\* The leader is gone from the list: another one leads, or the party is disbanded,
\* and then the function returns before it clears the leader's own pointer.
LeaderLeft(s, p, c) ==
  IF test_size(s, p)
  THEN [set_leader(s, p, NextLeader(s, p, c)) EXCEPT !.chr[c].party = NoParty]
  ELSE disband_party(s, c)

WaitsToRejoin(s, p, c) ==
  IF mode = "rejoin" /\ test_size(s, p) /\ s.chr[c].party = NoParty
  THEN [s EXCEPT !.grp[p].offline = Append(@, c), !.chr[c].offline_mem_of = p]
  ELSE s

LogoffRemoves(c) == mode # "stay" /\ chr[c].party # NoParty /\ is_member(Now, chr[c].party, c)

on_loggoff_party_Leaderless(c) ==
  LET p == chr[c].party
  IN /\ c \in online
     /\ online' = online \ {c}
     /\ LogoffRemoves(c) /\ is_leader(Now, p, c) =>
          LonelyLogoffs \/ (Len(grp[p].members) > 1 /\ test_size(remove_member(Now, p, c), p))
     /\ Become(IF LogoffRemoves(c)
               THEN WaitsToRejoin([remove_member(Now, p, c) EXCEPT !.chr[c].party = NoParty], p, c)
               ELSE Now)
     /\ UNCHANGED <<mode, crashed>>
on_loggoff_party(c) ==
  LET p == chr[c].party
  IN /\ c \in online
     /\ online' = online \ {c}
     /\ LogoffRemoves(c) /\ is_leader(Now, p, c) =>
          LonelyLogoffs \/ (Len(grp[p].members) > 1 /\ test_size(remove_member(Now, p, c), p))
     /\ Become(IF LogoffRemoves(c)
               THEN WaitsToRejoin(IF is_leader(Now, p, c)
                                  THEN LeaderLeft(remove_member(Now, p, c), p, c)
                                  ELSE Left(Now, p, c), p, c)
               ELSE Now)
     /\ UNCHANGED <<mode, crashed>>

\* One who waits to rejoin does, if there is room.
on_loggon_party_Twice(c) ==
  LET p == chr[c].offline_mem_of
  IN /\ c \notin online
     /\ online' = online \cup {c}
     /\ Become(IF p # NoParty /\ can_add(Now, p) THEN Joined(Now, p, c) ELSE Now)
     /\ UNCHANGED <<mode, crashed>>
on_loggon_party(c) ==
  LET p == chr[c].offline_mem_of
      back == [Now EXCEPT !.grp[p].offline = RemoveFirst(@, c), !.chr[c].offline_mem_of = NoParty]
  IN /\ c \notin online
     /\ online' = online \cup {c}
     /\ Become(IF p = NoParty
               THEN Now
               ELSE IF c \in ToSet(grp[p].offline) /\ can_add(back, p)
                    THEN Joined(back, p, c)
                    ELSE back)
     /\ UNCHANGED <<mode, crashed>>

----------------------------------------------------------------------------
\* Scripts: partymod.cpp.  A script has a PartyRef from a character's members.

Refs == {chr[c].party : c \in Players} \cup {chr[c].candidate_of : c \in Players}

Unattached(c) ==
  chr[c].party = NoParty /\ chr[c].candidate_of = NoParty /\ chr[c].offline_mem_of = NoParty

Scripted(s) == Become(s) /\ UNCHANGED <<mode, online, crashed>>

addmember(p, c) ==
  /\ p \in Refs \ {NoParty} /\ Unattached(c) /\ can_add(Now, p)
  /\ Scripted(Joined(Now, p, c))

removemember(p, c) ==
  /\ p \in Refs \ {NoParty} /\ is_member(Now, p, c) /\ ~is_leader(Now, p, c)
  /\ Scripted(Left(Now, p, c))

setleader(p, c) ==
  /\ p \in Refs \ {NoParty} /\ is_member(Now, p, c) /\ ~is_leader(Now, p, c)
  /\ Scripted(set_leader(Now, p, c))

addcandidate(p, c) ==
  /\ p \in Refs \ {NoParty} /\ Unattached(c) /\ can_add(Now, p)
  /\ c \in online
  /\ grp[p].leader \in online \/ NullClients
  /\ Become(Invited(set_party_invite_timeout(Now, c), p, c))
  /\ crashed' = (grp[p].leader \notin online)
  /\ UNCHANGED <<mode, online>>

removecandidate(p, c) ==
  /\ p \in Refs \ {NoParty} /\ is_candidate(Now, p, c)
  /\ Scripted(disband_if_small(Answered(Now, p, c), p, grp[p].leader))

CreateParty_Unlooked(c, first) ==
  /\ c # first /\ Unattached(c)
  /\ \E p \in Free : Scripted(Joined(NewParty(Now, p, c), p, first))
CreateParty(c, first) ==
  /\ c # first /\ Unattached(c) /\ Unattached(first)
  /\ \E p \in Free : Scripted(Joined(NewParty(Now, p, c), p, first))

DisbandParty(p) ==
  /\ p \in Refs \ {NoParty}
  /\ Scripted(disband_party(Now, grp[p].leader))

----------------------------------------------------------------------------
\* Saving the world, and a new process that reads it.  What a restart leads to depends
\* on the last save alone, so that it is enough to look at those right after a save.

\* printOn writes a party of more than a leader.
Saved(p) == [leader |-> grp[p].leader, members |-> grp[p].members]

\* The one way to list numbers from the least to the greatest.
InOrder(S) ==
  {f \in [1..Cardinality(S) -> S] : \A j, k \in DOMAIN f : j < k => f[j] < f[k]}

\* What may be in the file: in the order of the vector; with RemoveMemberOnLogoff
\* nothing is written, nor read.
write_party ==
  LET worth == {k \in DOMAIN parties : mode = "stay" /\ Len(grp[parties[k]].members) > 1}
  IN {[k \in DOMAIN f |-> Saved(parties[f[k]])] : f \in InOrder(worth)}

\* The constructor, and register_with_members, for each party.
read_party_dat(file) ==
  \E at \in [DOMAIN file -> PartyIds] :
    /\ IsInjective(at)
    /\ parties' = at
    /\ grp' = [p \in PartyIds |->
                IF p \in ToSet(at)
                THEN LET k == SelectInSeq(at, LAMBDA q : q = p)
                     IN [NoMembers EXCEPT !.leader = file[k].leader, !.members = file[k].members]
                ELSE NoMembers]
    /\ chr' = [c \in Players |->
                LET its == {k \in DOMAIN file : c \in ToSet(file[k].members)}
                IN [Outsider EXCEPT !.party = IF its = {} THEN NoParty ELSE at[Max(its)]]]

Restart ==
  /\ ~crashed
  /\ \E file \in write_party : read_party_dat(file)
  /\ online' = {}
  /\ UNCHANGED <<mode, crashed>>

----------------------------------------------------------------------------

Step ==
  \/ \E c, d \in Players :
       \/ add_candidate(c, d) \/ InviteOffline(c, d)
       \/ handle_accept_invite(c, d) \/ handle_decline_invite(c, d)
       \/ handle_remove(c, d) \/ handle_remove_member_cursor(c, d)
       \/ CreateParty(c, d)
  \/ \E c \in Players : invite_timeout(c) \/ on_loggoff_party(c) \/ on_loggon_party(c)
  \/ \E p \in PartyIds, c \in Players :
       \/ addmember(p, c) \/ removemember(p, c) \/ setleader(p, c)
       \/ addcandidate(p, c) \/ removecandidate(p, c)
  \/ \E p \in PartyIds : DisbandParty(p)

Gone == crashed /\ UNCHANGED vars

Next == Step \/ Restart \/ Gone

Spec == Init /\ [][Next]_vars

----------------------------------------------------------------------------
\* Properties

Links == PartyIds \cup {NoParty}

\* The state is well formed; no list of a party ever names anybody twice.
TypeOK ==
  /\ mode \in LogoffModes
  /\ parties \in Seq(PartyIds) /\ IsInjective(parties)
  /\ grp \in [PartyIds -> [leader : Players \cup {Nobody}, members : Seq(Players),
                           candidates : Seq(Players), offline : Seq(Players)]]
  /\ \A p \in PartyIds :
       IsInjective(grp[p].members) /\ IsInjective(grp[p].candidates) /\ IsInjective(grp[p].offline)
  /\ chr \in [Players -> [party : Links, candidate_of : Links, offline_mem_of : Links,
                          timer : BOOLEAN]]
  /\ online \subseteq Players
  /\ crashed \in BOOLEAN

\* Nobody's pointer dangles, and a party's members are just the characters that
\* believe to be in it: in one party each, across accepted, refused and overdue
\* invitations, removals, logoffs and restarts.  The same of who is invited, and of
\* who may rejoin.
SidesAgree ==
  \A c \in Players, p \in PartyIds :
    /\ chr[c].party = p <=> (p \in ToSet(parties) /\ is_member(Now, p, c))
    /\ chr[c].candidate_of = p <=> (p \in ToSet(parties) /\ is_candidate(Now, p, c))
    /\ chr[c].offline_mem_of = p <=> (p \in ToSet(parties) /\ c \in ToSet(grp[p].offline))

\* The first member leads, whoever left, logged off or was made the leader; who logs
\* off hands over to the next ("if partyleader logoffs the next member becomes the
\* leader", core-changes.txt:452).
FirstLeads ==
  \A p \in ToSet(parties) : grp[p].members # <<>> /\ grp[p].leader = grp[p].members[1]

\* "A party with (candidates+members)<=1 gets disbanded" (core-changes.txt:726), by
\* whichever of its operations made it so small.
BigEnough ==
  \A p \in ToSet(parties) : Len(grp[p].members) + Len(grp[p].candidates) > 1

\* Who is in a party changes to another one only by leaving the first, unless the
\* process is started anew.
NobodySwitches ==
  [][\A c \in Players :
       chr[c].party # NoParty /\ chr'[c].party # NoParty /\ ~Restart
         => chr'[c].party = chr[c].party]_vars

\* No place in a party stays taken by somebody who never answers: whoever comes, goes,
\* or disbands the party he was invited to before, the timer of an invitation is set, on
\* shards that have a timeout.
InvitationsTimed ==
  DeclineTimeout => \A c \in Players : chr[c].candidate_of # NoParty => chr[c].timer
=============================================================================
