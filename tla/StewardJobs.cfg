\* Two workers, packets of at most two observations, one of each fault.
SPECIFICATION Spec
CONSTANTS
  Workers = {tick, refresh}
  Background = tick
  Contexts = {c1, c2}
  NoPacket = NoPacket
  ObservationLimit = 2
  MaxObservations = 2
  MaxFaults = 1
  MaxRefreshes = 1
  MaxWipes = 1
SYMMETRY ContextSymmetry
INVARIANTS
  OneActiveJob
  SingleOwner
  AcceptanceIsWhole
  WipeLeavesNothing
PROPERTIES
  KeepsPromise
CHECK_DEADLOCK FALSE
