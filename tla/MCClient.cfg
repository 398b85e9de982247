SPECIFICATION Spec
CONSTANTS
  Person = {1, 2, 3}
  Self = 2
  RoleOf <- ThreeRoles
  Playing = {3}
  Writers = {3}
  NoOne = NoOne
  Pieces = 1
  Group = Group
  Accounts <- ManyAccounts
  NoLayout = NoLayout
  TileLists <- TwoLists
  PackOf <- TwoPacks
  Callers = {editor, other}
  Editor = editor
  Unset = Unset
  Torn = Torn
  Nothing = Nothing
  MaxEdits = 4
  MaxTroubles = 2
  Process = {p, q}
  Server = {home, away}
  NoServer = NoServer
  None = None
  MaxCommands = 3
  Client = {a, b}
  NoRelease = NoRelease
  MaxRelease = 3
  MaxEnds = 1
  Key = {ann, bob}
  Zeroed = Zeroed
  NoEntry = NoEntry
  MaxTruth = 3
  MaxErrors = 2
  Fields <- FiveFields
  Contents <- OneKey
  NoFile = NoFile
  Broken = Broken
  MaxWrites = 2
  Program = {terminal}
  Title = {game, tool}
  Half = Half
  MaxQuits = 2
  MaxWaits = 1
INVARIANTS KeysActAsShown CardHolds TakenIsSaved NoBlend OneInstall OwnOutput AsksSparingly
PROPERTIES SavedArrives SameCard ImplementsSingleFlight
CHECK_DEADLOCK FALSE
