SPECIFICATION FairSpec
CONSTANTS
  p1 = p1
  p2 = p2
  x = x
  kid = kid
  k = k
  r = r
  Root = Root
  None = None
  Fiber = {p2, x, kid}
  Key = {k, r}
  Inject <- MCInject
  Provides <- MCProvides
  Parent <- MCParent
  RootKeys = {r}
  Flaky = {x}
  Acquiring = {x}
  GuardExpires = TRUE
  MaxGen = 1
  MaxRootSets = 1
INVARIANT DependentsLeaveFirst
PROPERTY UnloadEnds
CHECK_DEADLOCK FALSE
