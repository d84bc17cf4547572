SPECIFICATION Spec
CHECK_DEADLOCK FALSE
CONSTANTS
  mobile = mobile
  item = item
  guild = guild
  Objects = {mobile, item}
  Others = {guild}
  Files <- OneFileEach
  Home <- Homes
  NoFile = NoFile
  Plans <- OneKind
  MaxChanges = 3
  MaxIncrementals = 2
INVARIANTS
  TypeOK
  OnlyDirtyDiffers
PROPERTIES
  SavesAreAtomic
