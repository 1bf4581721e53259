CONSTANTS
  Dev = {d1, d2, d3}
  MaxSlots = 2
SPECIFICATION FairSpec
INVARIANTS
  TypeOK
  LockStep
  NoMissedSignal
PROPERTIES
  TimerStops
  ImplementsBarrier
