SPECIFICATION Spec
CONSTANTS
  a = a
  b = b
  None = None
  Ids = {a, b}
  Slots = 1
  Hung = {a}
  MaxFaults = 1
INVARIANTS TypeOK OnePerSwap SlotsCounted NoIdleSlot TriggerRemembered
PROPERTIES EventsServed CatchUpCovers
CHECK_DEADLOCK FALSE
