SPECIFICATION Spec
CONSTANTS
  ann = ann
  bob = bob
  cid = cid
  coins = coins
  change = change
  rest = rest
  hat = hat
  cap = cap
  Chars = {ann, bob, cid}
  Items = {coins, change, rest, hat, cap}
  Wearable = {hat, cap}
  StackLimit = 2
  Starts <- CoinsOrHats
  Leaving = {ann, bob}
  Mortal = {ann}
  Nobody = Nobody
  NoItem = NoItem
  MaxSaves = 1
SYMMETRY HatsAlike
INVARIANTS
  TypeOK
  HeldOrPlaced
  TradersPaired
  AcceptedAsSeen
PROPERTIES
  SumKept
  ExchangeAsAgreed
  SavesMissNothing
