\* One peer, two sessions, five events from outside; desktop and mobile; fair renders and user.
SPECIFICATION FairSpec
CONSTANTS
  p1 = p1
  Peers <- OnePeer
  Platforms <- Both
  MaxSessions = 2
  MaxOffers = 2
  MaxFiles = 2
  MaxEvents = 5
INVARIANTS
  TypeOK
  OneRelay
  NoSessionLeaks
  RosterFollows
  FingerprintIsCurrent
PROPERTIES
  NewestIsSettled
  SendEnds
CHECK_DEADLOCK FALSE
