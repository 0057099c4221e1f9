\* Two files offered one after the other to a desktop client, whose user answers what is on the screen.
SPECIFICATION FairSpec
CONSTANTS
  p1 = p1
  Peers <- OnePeer
  Platforms <- Desktop
  MaxSessions = 2
  MaxOffers = 2
  MaxFiles = 2
  MaxEvents = 5
PROPERTIES
  EveryOfferIsAnswered
CHECK_DEADLOCK FALSE
