\* Three frames of both kinds and lengths through a ring of five cells.
SPECIFICATION FairSpec
CONSTANTS
  RxSize = 5
  Kinds <- MCKinds
  MaxFrames = 3
INVARIANTS
  SendsIntact
  ReceiverStaysOn
PROPERTIES
  ReceivesInOrder
  TakenOnce
  FrameFate
  PendingEnds
  Drains
