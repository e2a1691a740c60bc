CONSTANTS
  t1 = t1
  t2 = t2
  x1 = x1
  x2 = x2
  Isr = Isr
  NoItem = NoItem
  Nobody = Nobody
  Tasks <- MCTasks
  Items <- MCItems
  Cap = 3
SPECIFICATION FairSpec
INVARIANTS TypeOK IndicesAgree
PROPERTIES ImplementsFifo NobodyWaitsInVain
