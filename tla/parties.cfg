SPECIFICATION Spec
CONSTANTS
  ann = ann
  bob = bob
  cid = cid
  dan = dan
  eve = eve
  p1 = p1
  p2 = p2
  Players = {ann, bob, cid, dan, eve}
  PartyIds = {p1, p2}
  Nobody = Nobody
  NoParty = NoParty
  MaxPartyMembers = 3
  DeclineTimeout = TRUE
  LogoffModes = {"stay", "remove", "rejoin"}
  VetInvited = TRUE
  LonelyLogoffs = FALSE
  NullClients = TRUE
SYMMETRY Alike
INVARIANTS
  TypeOK
  SidesAgree
  FirstLeads
  BigEnough
  InvitationsTimed
PROPERTIES
  NobodySwitches
