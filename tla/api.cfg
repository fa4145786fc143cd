SPECIFICATION ApiSpec
CONSTANTS
  n1 = n1
  n2 = n2
  n3 = n3
  Nodes = {n1, n2, n3}
  Fields = {"ch_name"}
  Deployments <- MCDeployments
  AnyPattern = ".*"
  conf_tables <- MCTables
  Options = {"none", "t1"}
  NoOption = "none"
  Parameters <- MCParameters
  FOX_END_RETRY = 1
  Identities = {1, 2}
  Unset = Unset
  MaxFoxTuples <- MCTuples
  Threads = {t1, t2}
  NrChannels = 2
  NrQueries = 1
  MaxSignals = 1
  IPFound = {TRUE, FALSE}
  Loggers = {l1, l2}
  MaxMessages = 2
  OpenFails = {TRUE, FALSE}
  t1 = t1
  t2 = t2
  l1 = l1
  l2 = l2
  NoThread = none
  Unlocked = unlocked
INVARIANTS
  ConfiguredRight LogsAgree ChannelsKept LogGuarded
PROPERTIES
  NodesServed CallsReturn
CHECK_DEADLOCK FALSE
