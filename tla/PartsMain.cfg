\* Each part by itself.
SPECIFICATION PartsSpec
CONSTANTS
  Conns = {1, 2, 3}
  PeerIds = {"p"}
  Rooms = {"r"}
  IPs <- Addresses
  IpOf <- IpOfConn
  NoConn = 0
  NoPeer = "none"
  NoRoom = ""
  MaxPeersPerRoom = 0
  MaxConnsPerIP = 1
  OutCap = 2
  Vanishers = {1}
  MaxJoins = 1
  MaxRouted = 0
  Flavors = {"ts", "dart"}
  Slots <- TwoSlots
  NoSlot = 0
  MaxConnects = 1
  Rates = {0, 1, 3}
  Second = 2
  MaxNow = 5
  MaxPassed = 9
  Values = {0, 1, 2}
  Default = 0
  MaxSaves = 2
  Transfers = {1}
  Block = {"a", "b"}
  File <- OneFile
  NotSaved <- NoFile
  Opening = 2
  Cancels <- EitherCancels
  N = 3
  Mounts = {1, 2}
  MaxCloses = 1
  MaxSends = 2
  D = 2
  NonceLen = 2
  IdLen = 1
  SpreadMax = 2
  DigitsMod = 1000
  Keys <- SomeKeys
  Nonces <- TwoNonces
  Ids <- TwoIds
  Seqs <- SomeSeqs
  Slices <- ToTwo
  Texts <- ToFour
  Encrypt <- Scramble
  Decrypt <- Unscramble
  Sha256 <- Digest
INVARIANTS
  PartsTypeOK
  SingleSocket
  BacksOff
  Discovered
  SessionsPaired
  RoundTrips
  SasTells
  ShownIsStored
  OthersSurvive
  WindowBound
  ConnsCounted
PROPERTIES
  Rejoins
  VanishedLeaves
  MobileDelivers
  FilesArrive
CHECK_DEADLOCK FALSE
