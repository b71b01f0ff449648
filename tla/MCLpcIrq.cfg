SPECIFICATION FairSpec
CONSTANTS
  Irqs <- SomeIrqs
  Requests <- SomeRequests
  Wakers <- SomeIrqs
INVARIANTS
  TypeOK
  Deliverable
  WakersArmed
PROPERTIES
  ResumeNamesWaker
  HandlerEnds
