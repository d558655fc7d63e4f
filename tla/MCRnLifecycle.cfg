SPECIFICATION Spec
CONSTANTS
  Callers = {js1, js2}
  Teardowns = {t1, t2}
  NoThread = noThread
  NoRuntime = noRuntime
  registry = registry
  context1 = context1
  context2 = context2
  provider1 = provider1
  provider2 = provider2
  Identities <- MCTwoHosts
  MaxRegistrations = 2
  MaxGenerations = 2
  MaxCalls = 2
INVARIANTS
  OneRegistrationPerHost
  NoStaleDelivery
  OneInvocationAtATime
  ClosedIsQuiescent
PROPERTIES
  DeadRequestsStayDead
  BindingIsFinal
  InvocationsReturn
  TeardownsReturn
