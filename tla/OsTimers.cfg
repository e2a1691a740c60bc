CONSTANTS
  p1 = p1
  p2 = p2
  p3 = p3
  worker = worker
  application = application
  None = None
  Timers <- MCTimers
  Slots = 2
  Spans <- MCSpans
  Poll = 2
  Callers <- MCCallers
  Prio <- MCPrio
  Core <- MCCore
  TimerPrio = 10
  WifiCore = 0
  MaxLate = 2
  MaxScan = 1
SPECIFICATION FairSpec
INVARIANTS TypeOK OneSlotPerTimer NoStaleCallback
PROPERTIES DueFires TimerTaskSleeps
