\* Every part on a small scale: characters of 2 bits, bytes of 3, addresses of 3,
\* bodies of a few bytes, two or three records, and the deployments of MCParts.
SPECIFICATION Spec
CONSTANTS
  MaxDepth = 1
  MaxCollectionLength = 3
  Chunks <- Pieces
  MaxBodyLength = 4
  CharBits = 2
  ByteBits = 3
  KeyBytes = 2
  ChecksumBytes = 1
  AccumulatorBits = 4
  Checksum <- Mixed
  Keys = {"k1", "k2", "k3"}
  Rank <- Ranks
  Documents <- SmallDocuments
  Depth <- Depths
  References = {i, j}
  Uetrs = {u, v}
  Amounts <- SomeAmounts
  MaxDebits = 2
  MaxFiles = 2
  MaxSettlements = 2
  MaxBodyBytes = 5
  MaxSent = 8
  IpBits = 3
  Loopback <- OneZeroOne
  Forwardings <- SomeForwardings
  Words = {"network", "status", "params", "accounts", "assets", "transactions", "pending", "ready", "v1", "x", "", "%"}
  MaxParts = 4
  Key = "key"
  Queries <- SomeQueries
  Instances = {f, g}
  Deployments <- FewDeployments
  MaxStarts = 4
  MaxSubmissions = 9
  Unset = Unset
  Malformed = Malformed
  Given = Given
  Environments <- ManyEnvironments
SYMMETRY Symmetry
INVARIANTS
  ValuesEndWhereTheirBytesEnd
  TransactionsAddUp
  NestingIsBounded
  AddressesReadBack
  WalletsArePayable
  HashesTellDocumentsApart
  ReconciledTotalIsDebited
  ChunksDoNotMatter
  NoCharacterIsLost
  CidrMatchesPrefix
  PlatformMeansTheSame
  KeyInPathOnlyAuthenticates
  InstancesRemember
  PagesFitMaximum
CHECK_DEADLOCK FALSE
