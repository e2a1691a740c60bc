CONSTANTS
  w1 = w1
  w2 = w2
  c1 = c1
  c2 = c2
  f1 = f1
  f2 = f2
  f3 = f3
  Nothing = Nothing
  Workers <- MCWorkers
  Creators <- MCCreators
  Functions <- MCFunctions
SPECIFICATION Spec
INVARIANTS KnowsItselfFromTheStart
