SPECIFICATION SourcesSpec
CONSTANTS
  old = old
  new = new
  Tree = {old, new}
  MaxWrites = 3
  MaxFailures = 1
  MaxDeaths = 2
  Backend = {"keychain", "keyring", "windows"}
  u = u
  v = v
  x = x
  y = y
  Owner = {u, v}
  Secret = {x, y}
  Unset = Unset
  MaxCommandFaults = 2
  MaxForeign = 1
  Bytes = {x, y}
  MaxSwaps = 2
  MaxUpsets = 2
  Free = {"link", "mine"}
  PluginAccount = {"other"}
  PluginId = {"mine", "yours"}
  PluginFiles <- MCPluginFiles
  MaxChanges = 2
  SecretValue = {x, y}
  CaseFolded = TRUE
  MaxVerbs = 1
  MaxFaults = 1
  MaxLate = 1
  MaxOutput = 3
  MaxChars = 3
  SavedValues = 1
  LiveValues = 2
  MaxLiveWrites = 2
CHECK_DEADLOCK FALSE
INVARIANTS
  SourcesTypeOK OthersKept AnswersTruthful OwnersSettled EnvironmentExact FreshnessHonest
