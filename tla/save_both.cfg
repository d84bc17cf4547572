SPECIFICATION Spec
CHECK_DEADLOCK FALSE
CONSTANTS
  mobile = mobile
  item = item
  guild = guild
  Objects = {mobile, item}
  Others = {}
  Files <- OneFileEach
  Home <- Homes
  NoFile = NoFile
  Plans <- BothKinds
  MaxChanges = 2
  MaxIncrementals = 2
INVARIANTS
  ObjectsDurable
