SPECIFICATION PromptSpec
CONSTANTS
  p1 = p1
  y = y
  x = x
  kid = kid
  k = k
  ky = ky
  r = r
  Root = Root
  None = None
  Fiber = {p1, y, x, kid}
  Key = {k, ky, r}
  Inject <- MCInject
  Provides <- MCProvides
  Parent <- MCParent
  RootKeys = {r}
  Flaky = {y}
  Acquiring = {}
  GuardExpires = FALSE
  MaxGen = 2
  MaxRootSets = 2
INVARIANT ServedByTheSameLoad
PROPERTY ReadyLoads
CHECK_DEADLOCK FALSE
