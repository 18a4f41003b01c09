\* Everything is deleted while a tick may be running, and nothing fails.
SPECIFICATION Spec
CONSTANTS
  Ticks = {t1}
  Frame = frame
  Event = event
  Texts = {a, b}
  Contexts = {c1}
  NoRow = NoRow
  NoBatch = NoBatch
  NoPacket = NoPacket
  PageLimit = 1
  BatchLimit = 1
  Lag = 1
  MaxRows = 2
  MaxFaults = 0
  MaxWipes = 1
  WipeAtRest = FALSE
INVARIANTS
  WipeStartsEmpty
CHECK_DEADLOCK FALSE
