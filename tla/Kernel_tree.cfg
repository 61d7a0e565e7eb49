\* One goroutine in the kernel at a time; providers may fail to apply, two
\* optional seams form a cycle and two rows provide one key.
SPECIFICATION Spec
CONSTANTS
  m1 = m1
  Mounters = {m1}
  Keys <- SessionKeys
  RowIds <- SessionPlugins
  Plugins <- SessionPlugins
  Configs = {"a", "b"}
  Inject <- SessionInject
  Optional <- SessionOptional
  Offers <- SessionOffers
  MayFail = {"llm", "cost"}
  CtxKeys = {}
  Trees <- SessionTrees
  PassCap = 16
  MaxCalls = 3
  NoState = NoState
  Ctx = Ctx
  Nobody = Nobody
INVARIANTS ServicesAgree TreeInOrder SettleConverges
PROPERTIES FreshRows FailedStaysDown CallsReturn
CHECK_DEADLOCK FALSE
