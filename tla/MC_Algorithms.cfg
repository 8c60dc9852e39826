SPECIFICATION MCSpec
CONSTANTS
  Place <- MCPlace
  Needles <- MCNeedles
  RowLists <- MCRowLists
  Queries <- MCQueries
  ColumnIds <- MCColumnIds
  Listings <- MCListings
  SortFlags <- MCSortFlags
  Lenses <- MCLenses
  Resources <- MCResources
  Secrets <- MCSecrets
  KindSecrets <- MCKindSecrets
  Sensitive <- MCSensitive
  SecretKinds <- MCSecretKinds
  CopyKeys <- MCCopyKeys
  Files <- MCFiles
  Contexts <- MCContexts
  Candidates <- MCCandidates
  JumpQueries <- MCJumpQueries
  Statuses <- MCStatuses
  PodLists <- MCPodLists
  CoreEvents <- MCCoreEvents
  ModernEvents <- MCModernEvents
  Windows <- MCWindows
  Now <- MCNow
  Owners <- MCOwners
  Evictables <- MCEvictables
  Trees <- MCTrees
  DisabledSets <- MCDisabledSets
  RedactLine <- MCRedactLine
  Matched <- MCMatched
  JsonKeys <- MCJsonKeys
  PodGroups <- MCPodGroups
  Regexes <- MCRegexes
  Tails <- MCTails
  Reviews <- MCReviews
  Actions <- MCActions
  Configs <- MCConfigs
  ContextNames <- MCContextNames
  Environments <- MCEnvironments
  Versions <- MCVersions
  Kinds <- MCKinds
  NameLists <- MCNameLists
  MaxKeys = 7
INVARIANTS
  TablesAreExact
  LensesAreExact
  SecretsStayMasked
  LogPathsAgree
  PreviewsAreWhole
  JumpsAreBest
  DiagnosesAreSpecific
  ReportsAreComplete
  PoliciesMeanWhatTheySay
  LastSortKeyWins
PROPERTIES
  IsBrowser
  NamespacesOnlyByChoice
CHECK_DEADLOCK FALSE
