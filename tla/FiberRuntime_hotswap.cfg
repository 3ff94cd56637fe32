SPECIFICATION Spec
CONSTANTS
  p1 = p1
  p2 = p2
  x = x
  kid = kid
  k = k
  r = r
  Root = Root
  None = None
  Fiber = {p1, p2, x}
  Key = {k, r}
  Inject <- MCInject
  Provides <- MCProvides
  Parent <- MCParent
  RootKeys = {r}
  Flaky = {}
  Acquiring = {}
  GuardExpires = TRUE
  MaxGen = 1
  MaxRootSets = 2
INVARIANT ActiveIsServed NoBindingLeftBehind
PROPERTY SuccessorKeepsKey
CHECK_DEADLOCK FALSE
