\* A stale row whose reload fails.
SPECIFICATION Spec
CONSTANTS
  m1 = m1
  Mounters = {m1}
  Keys <- SessionKeys
  RowIds <- SessionPlugins
  Plugins <- SessionPlugins
  Configs = {"a", "b"}
  Inject <- SessionInject
  Optional <- SessionOptional
  Offers <- SessionOffers
  MayFail = {"llm2", "history", "agent"}
  CtxKeys = {}
  Trees <- PlainTrees
  PassCap = 16
  MaxCalls = 3
  NoState = NoState
  Ctx = Ctx
  Nobody = Nobody
INVARIANTS InjectsPresent
CHECK_DEADLOCK FALSE
