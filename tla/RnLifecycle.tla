---------------------------- MODULE RnLifecycle -----------------------------
(***************************************************************************)
(* The React Native adapter's lifecycle: RnLifecycleCoordinator, one per   *)
(* process, and the AdmissionTicket that every invoke() of the native      *)
(* module holds (packages/wallet-core/cpp).  JS threads run invocations    *)
(* that may take seconds; meanwhile React Native registers, replaces and   *)
(* invalidates modules and the platform tears the process down.            *)
(*                                                                         *)
(* A critical section of stateMutex_ is one step: nobody waits inside it.  *)
(* A section that also holds deliveryBarrier_ exclusively is one step that *)
(* waits for the shared holders.  executionMutex_ and shared ownership of  *)
(* the barrier are held across steps, so they are state.                   *)
(***************************************************************************)
EXTENDS Integers, Sequences, FiniteSets

CONSTANTS
  Callers,            \* JS threads; each drives one jsi::Runtime, named by it
  Teardowns,          \* threads that call processTeardown, once each
  NoThread,           \* executionMutex_ is free
  NoRuntime,          \* the null runtime of a pending (Android) registration
  Identities,         \* the module identities React Native registers
  MaxRegistrations,   \* bound on registerModule calls
  MaxGenerations,     \* bound on process lifecycles
  MaxCalls            \* bound on invoke calls

Threads == Callers \cup Teardowns

ASSUME RnAssumption ==
  /\ Callers \cap Teardowns = {}
  /\ NoThread \notin Threads
  /\ NoRuntime \notin Callers
  /\ \A i \in Identities : {"moduleRegistry", "logicalContext", "provider"} \subseteq DOMAIN i
  /\ MaxRegistrations \in Nat /\ MaxGenerations \in Nat /\ MaxCalls \in Nat

VARIABLES
  processState,       \* processState_
  processGeneration,  \* processGeneration_: the lifecycle's number, 0 for null
  generations,        \* how many ProcessGeneration objects were made
  regs,               \* every RegistrationState ever made, by providerGeneration
  registrations,      \* registrations_: the listed ones
  inFlight,           \* inFlight_
  execution,          \* the holder of executionMutex_
  barrier,            \* the shared holders of deliveryBarrier_
  pc,                 \* where each thread is
  target,             \* the registration a JS thread invokes
  request,            \* the Request of each JS thread's ticket
  hasActiveRequest,   \* thread_local
  calls               \* how many invocations were made

coordinator == <<processState, processGeneration, generations, regs, registrations>>
threads == <<pc, target, request, hasActiveRequest, calls>>
vars == <<coordinator, inFlight, execution, barrier, threads>>

NoRequest == [registration |-> 0, processGeneration |-> 0, runtime |-> NoRuntime]

\* Where a JS thread is between the constructor and the destructor of a ticket.
Admitted == {"working", "captured", "checking", "building", "unwinding"}

-----------------------------------------------------------------------------
Init ==
  /\ processState = "uninitialized"
  /\ processGeneration = 0
  /\ generations = 0
  /\ regs = <<>>
  /\ registrations = {}
  /\ inFlight = 0
  /\ execution = NoThread
  /\ barrier = {}
  /\ pc = [t \in Threads |-> "idle"]
  /\ target = [c \in Callers |-> 0]
  /\ request = [c \in Callers |-> NoRequest]
  /\ hasActiveRequest = [c \in Callers |-> FALSE]
  /\ calls = 0

Go(t, label) == pc' = [pc EXCEPT ![t] = label]

(***************************************************************************)
(* Registration and invalidation, called by React Native's own threads     *)
(***************************************************************************)

\* Starts a lifecycle unless one is running; throws while draining.
ensureReadyLocked ==
  /\ processState \in {"uninitialized", "closed", "ready"}
  /\ processState' = "ready"
  /\ IF processState = "ready"
     THEN UNCHANGED <<processGeneration, generations>>
     ELSE /\ generations < MaxGenerations
          /\ generations' = generations + 1
          /\ processGeneration' = generations + 1

registerProcessLifecycle ==
  /\ ensureReadyLocked
  /\ UNCHANGED <<regs, registrations, inFlight, execution, barrier, threads>>

Retired(ids) ==
  [r \in DOMAIN regs |->
     IF r \in ids THEN [regs[r] EXCEPT !.active = FALSE, !.retired = TRUE] ELSE regs[r]]

(***************************************************************************)
(* Mutants: plausible bugs of the operations below.  Each replaces one of  *)
(* them to show that a property notices.                                   *)
(***************************************************************************)

MutantRegister(identity, runtime, old) ==
  /\ Len(regs) < MaxRegistrations
  /\ barrier = {}
  /\ ensureReadyLocked
  /\ regs' = Append(old,
                    [identity |-> identity, runtime |-> runtime,
                     processGeneration |-> processGeneration',
                     active |-> runtime # NoRuntime,
                     runtimeBound |-> runtime # NoRuntime, retired |-> FALSE])
  /\ registrations' = registrations \cup {Len(regs) + 1}
  /\ UNCHANGED <<inFlight, execution, barrier, threads>>

SameRegistry(identity) ==
  {r \in registrations : regs[r].identity.moduleRegistry = identity.moduleRegistry}

\* A replacement retires the registrations of the same runtime only.
registerModule_ByRuntime(identity, runtime) ==
  MutantRegister(identity, runtime,
    Retired({r \in registrations : regs[r].identity = identity /\ regs[r].runtime = runtime}))

\* A listed registration of the same registry is activated again, not replaced.
registerModule_Reuses(identity, runtime) ==
  MutantRegister(identity, runtime,
    [r \in DOMAIN regs |->
       IF r \in SameRegistry(identity)
       THEN [regs[r] EXCEPT !.active = TRUE, !.retired = FALSE] ELSE regs[r]])

\* The teardown closes without waiting for the running invocation.
TeardownLock_NoWait(t) ==
  /\ pc[t] = "draining"
  /\ execution' = t
  /\ Go(t, "closing")
  /\ UNCHANGED <<coordinator, inFlight, barrier, target, request, hasActiveRequest, calls>>

\* A nested call of the same thread waits for the execution mutex.
Call_Nested(c, r) ==
  /\ pc[c] \in {"idle", "working"}
  /\ calls < MaxCalls
  /\ calls' = calls + 1
  /\ Go(c, "locking")
  /\ target' = [target EXCEPT ![c] = r]
  /\ UNCHANGED <<coordinator, inFlight, execution, barrier, request, hasActiveRequest>>

\* Invocations of different threads run concurrently.
LockExecution_Shared(c) ==
  /\ pc[c] = "locking"
  /\ execution' = c
  /\ Go(c, "beginning")
  /\ UNCHANGED <<coordinator, inFlight, barrier, target, request, hasActiveRequest, calls>>

\* A bound registration admits any runtime.
Admissible_AnyRuntime(r, runtime) ==
  /\ processState = "ready"
  /\ ~regs[r].retired
  /\ regs[r].processGeneration = processGeneration

\* A refused call returns without releasing the execution mutex.
BeginFails_KeepsLock(c) ==
  /\ pc[c] = "beginning"
  /\ processState # "ready" \/ regs[target[c]].retired
  /\ Go(c, "idle")
  /\ UNCHANGED <<coordinator, inFlight, execution, barrier, target, request,
                 hasActiveRequest, calls>>

\* The last check is made without holding the barrier.
DeliverLock_NoBarrier(c) ==
  /\ pc[c] = "captured"
  /\ Go(c, "checking")
  /\ UNCHANGED <<coordinator, inFlight, execution, barrier, target, request,
                 hasActiveRequest, calls>>

(***************************************************************************)
(* registerModule and the invalidations                                    *)
(***************************************************************************)

\* A null runtime makes a pending registration that its first call binds.
registerModule(identity, runtime) ==
  /\ Len(regs) < MaxRegistrations
  /\ barrier = {}
  /\ ensureReadyLocked
  /\ LET replaced == {r \in registrations :
                        /\ regs[r].identity.moduleRegistry = identity.moduleRegistry
                        /\ regs[r].identity.logicalContext = identity.logicalContext}
         bound == runtime # NoRuntime
     IN  regs' = Append(Retired(replaced),
                        [identity |-> identity, runtime |-> runtime,
                         processGeneration |-> processGeneration',
                         active |-> bound, runtimeBound |-> bound, retired |-> FALSE])
  /\ registrations' = registrations \cup {Len(regs) + 1}
  /\ UNCHANGED <<inFlight, execution, barrier, threads>>

\* The module's destructor or invalidate(): also unlists the registration.
invalidate(r) ==
  /\ barrier = {}
  /\ regs' = Retired({r})
  /\ registrations' = registrations \ {r}
  /\ UNCHANGED <<processState, processGeneration, generations,
                 inFlight, execution, barrier, threads>>

\* The listed registrations of a provider or of a context: its host reloads.
invalidateListed(ids) ==
  /\ barrier = {}
  /\ regs' = Retired(ids \cap registrations)
  /\ UNCHANGED <<processState, processGeneration, generations, registrations,
                 inFlight, execution, barrier, threads>>

invalidateProvider(provider) ==
  invalidateListed({r \in DOMAIN regs : regs[r].identity.provider = provider})

invalidateContext(logicalContext) ==
  invalidateListed({r \in DOMAIN regs : regs[r].identity.logicalContext = logicalContext})

(***************************************************************************)
(* processTeardown: drain, wait for the running invocation, close          *)
(***************************************************************************)

TeardownDrain(t) ==
  /\ pc[t] = "idle"
  /\ barrier = {}
  /\ IF processState \in {"closed", "unavailable"}
     THEN /\ Go(t, "done")
          /\ UNCHANGED coordinator
     ELSE /\ Go(t, "draining")
          /\ processState' = "draining"
          /\ regs' = Retired(registrations)
          /\ registrations' = {}
          /\ processGeneration' = 0
          /\ UNCHANGED generations
  /\ UNCHANGED <<inFlight, execution, barrier, target, request, hasActiveRequest, calls>>

TeardownLock(t) ==
  /\ pc[t] = "draining"
  /\ execution = NoThread
  /\ execution' = t
  /\ Go(t, "closing")
  /\ UNCHANGED <<coordinator, inFlight, barrier, target, request, hasActiveRequest, calls>>

TeardownClose(t) ==
  /\ pc[t] = "closing"
  /\ processState' = "closed"
  /\ execution' = NoThread
  /\ Go(t, "done")
  /\ UNCHANGED <<processGeneration, generations, regs, registrations, inFlight, barrier,
                 target, request, hasActiveRequest, calls>>

(***************************************************************************)
(* invoke: one ticket                                                      *)
(***************************************************************************)

\* The caller is idle, or reading its arguments runs JS code that calls the
\* module again: the ticket refuses a second request of the same thread.
Call(c, r) ==
  /\ pc[c] \in {"idle", "working"}
  /\ calls < MaxCalls
  /\ calls' = calls + 1
  /\ IF hasActiveRequest[c]
     THEN UNCHANGED <<pc, target>>
     ELSE /\ Go(c, "locking")
          /\ target' = [target EXCEPT ![c] = r]
  /\ UNCHANGED <<coordinator, inFlight, execution, barrier, request, hasActiveRequest>>

LockExecution(c) ==
  /\ pc[c] = "locking"
  /\ execution = NoThread
  /\ execution' = c
  /\ Go(c, "beginning")
  /\ UNCHANGED <<coordinator, inFlight, barrier, target, request, hasActiveRequest, calls>>

Admissible(r, runtime) ==
  /\ processState = "ready"
  /\ ~regs[r].retired
  /\ regs[r].processGeneration = processGeneration
  /\ processGeneration # 0
  /\ regs[r].runtimeBound => regs[r].runtime = runtime /\ regs[r].active

\* A pending registration is bound to the runtime of its first call.
begin(c) ==
  /\ pc[c] = "beginning"
  /\ ~hasActiveRequest[c]
  /\ Admissible(target[c], c)
  /\ regs' = [regs EXCEPT ![target[c]] =
                [@ EXCEPT !.runtime = c, !.runtimeBound = TRUE, !.active = TRUE]]
  /\ inFlight' = inFlight + 1
  /\ hasActiveRequest' = [hasActiveRequest EXCEPT ![c] = TRUE]
  /\ request' = [request EXCEPT ![c] =
                   [registration |-> target[c],
                    processGeneration |-> processGeneration, runtime |-> c]]
  /\ Go(c, "working")
  /\ UNCHANGED <<processState, processGeneration, generations, registrations,
                 execution, barrier, target, calls>>

\* begin throws: no ticket exists, unwinding releases the execution mutex.
BeginFails(c) ==
  /\ pc[c] = "beginning"
  /\ hasActiveRequest[c] \/ ~Admissible(target[c], c)
  /\ execution' = NoThread
  /\ target' = [target EXCEPT ![c] = 0]
  /\ Go(c, "idle")
  /\ UNCHANGED <<coordinator, inFlight, barrier, request, hasActiveRequest, calls>>

\* The identities that the code compares besides these never change.
isLive(q) ==
  /\ processState = "ready"
  /\ q.registration # 0
  /\ regs[q.registration].active
  /\ ~regs[q.registration].retired
  /\ q.runtime # NoRuntime
  /\ regs[q.registration].runtime = q.runtime
  /\ q.processGeneration = processGeneration
  /\ q.processGeneration # 0

\* The C ABI call fails, or an argument is refused: an error is thrown to JS.
CoreError(c) ==
  /\ pc[c] = "working"
  /\ Go(c, "unwinding")
  /\ UNCHANGED <<coordinator, inFlight, execution, barrier, target, request,
                 hasActiveRequest, calls>>

\* The C ABI call succeeds; copying its outputs requires a live request.
copyOwnedBytes(c) ==
  /\ pc[c] = "working"
  /\ Go(c, IF isLive(request[c]) THEN "captured" ELSE "unwinding")
  /\ UNCHANGED <<coordinator, inFlight, execution, barrier, target, request,
                 hasActiveRequest, calls>>

\* The operation that reports the build's identities calls no Core function.
runtimeIdentity(c) ==
  /\ pc[c] = "working"
  /\ Go(c, "captured")
  /\ UNCHANGED <<coordinator, inFlight, execution, barrier, target, request,
                 hasActiveRequest, calls>>

\* deliver: shared ownership of the barrier, the last check, the JS result.
DeliverLock(c) ==
  /\ pc[c] = "captured"
  /\ barrier' = barrier \cup {c}
  /\ Go(c, "checking")
  /\ UNCHANGED <<coordinator, inFlight, execution, target, request, hasActiveRequest, calls>>

DeliverCheck(c) ==
  /\ pc[c] = "checking"
  /\ IF isLive(request[c])
     THEN Go(c, "building") /\ UNCHANGED barrier
     ELSE Go(c, "unwinding") /\ barrier' = barrier \ {c}
  /\ UNCHANGED <<coordinator, inFlight, execution, target, request, hasActiveRequest, calls>>

DeliverResult(c) ==
  /\ pc[c] = "building"
  /\ barrier' = barrier \ {c}
  /\ Go(c, "unwinding")
  /\ UNCHANGED <<coordinator, inFlight, execution, target, request, hasActiveRequest, calls>>

\* The ticket's destructor: finish, then its members release the mutex.
finish(c) ==
  /\ pc[c] = "unwinding"
  /\ inFlight' = IF inFlight > 0 THEN inFlight - 1 ELSE inFlight
  /\ hasActiveRequest' = [hasActiveRequest EXCEPT ![c] = FALSE]
  /\ Go(c, "unlocking")
  /\ UNCHANGED <<coordinator, execution, barrier, target, request, calls>>

UnlockExecution(c) ==
  /\ pc[c] = "unlocking"
  /\ execution' = NoThread
  /\ request' = [request EXCEPT ![c] = NoRequest]
  /\ target' = [target EXCEPT ![c] = 0]
  /\ Go(c, "idle")
  /\ UNCHANGED <<coordinator, inFlight, barrier, hasActiveRequest, calls>>

-----------------------------------------------------------------------------
Lifecycle ==
  \/ registerProcessLifecycle
  \/ \E i \in Identities, runtime \in Callers \cup {NoRuntime} : registerModule(i, runtime)
  \/ \E r \in DOMAIN regs : invalidate(r)
  \/ \E i \in Identities :
       invalidateProvider(i.provider) \/ invalidateContext(i.logicalContext)

Teardown(t) == TeardownDrain(t) \/ TeardownLock(t) \/ TeardownClose(t)

\* What a thread inside invoke does next.
Invoking(c) ==
  \/ LockExecution(c) \/ begin(c) \/ BeginFails(c)
  \/ CoreError(c) \/ copyOwnedBytes(c) \/ runtimeIdentity(c)
  \/ DeliverLock(c) \/ DeliverCheck(c) \/ DeliverResult(c)
  \/ finish(c) \/ UnlockExecution(c)

Next ==
  \/ Lifecycle
  \/ \E t \in Teardowns : Teardown(t)
  \/ \E c \in Callers : Invoking(c) \/ \E r \in DOMAIN regs : Call(c, r)

\* A thread that has entered the adapter and is not blocked keeps running;
\* nothing forces React Native to call, and no mutex is assumed to be fair.
Fairness ==
  /\ \A c \in Callers : WF_vars(Invoking(c))
  /\ \A t \in Teardowns : WF_vars(TeardownLock(t) \/ TeardownClose(t))

Spec == Init /\ [][Next]_vars /\ Fairness
-----------------------------------------------------------------------------
Registration ==
  [identity : Identities, runtime : Callers \cup {NoRuntime},
   processGeneration : Nat, active : BOOLEAN, runtimeBound : BOOLEAN, retired : BOOLEAN]

\* Every variable of the coordinator and of the threads has its type.
TypeOK ==
  /\ processState \in {"uninitialized", "ready", "draining", "closed", "unavailable"}
  /\ processGeneration \in Nat
  /\ generations \in Nat
  /\ regs \in Seq(Registration)
  /\ registrations \subseteq DOMAIN regs
  /\ inFlight \in Nat
  /\ execution \in Threads \cup {NoThread}
  /\ barrier \subseteq Callers
  /\ pc \in [Threads -> {"idle", "draining", "closing", "done", "locking", "beginning",
                         "unlocking"} \cup Admitted]
  /\ target \in [Callers -> Nat]
  /\ request \in [Callers -> [registration : Nat, processGeneration : Nat,
                              runtime : Callers \cup {NoRuntime}]]
  /\ hasActiveRequest \in [Callers -> BOOLEAN]
  /\ calls \in Nat

\* While a JS result is being built its registration is live: an invalidation,
\* a reload or a teardown that starts after the last check waits for the
\* delivery, and one that finished before makes the check fail.
NoStaleDelivery == \A c \in Callers : pc[c] = "building" => isLive(request[c])

\* One invocation at a time holds a ticket, whatever its registration, and
\* inFlight_ counts it: no path leaks or repeats a decrement.
OneInvocationAtATime ==
  /\ \A c \in Callers : pc[c] \in Admitted => execution = c
  /\ inFlight = Cardinality({c \in Callers : pc[c] \in Admitted})

\* A registry and context have at most one registration that may still be
\* admitted, whichever of replacement, invalidation and teardown retired the
\* others, and retiring it again is always possible: it is listed.
OneRegistrationPerHost ==
  \A r \in DOMAIN regs : ~regs[r].retired =>
    /\ r \in registrations
    /\ \A s \in DOMAIN regs \ {r} :
         /\ regs[s].identity.moduleRegistry = regs[r].identity.moduleRegistry
         /\ regs[s].identity.logicalContext = regs[r].identity.logicalContext
         => regs[s].retired

\* When the process lifecycle is closed no invocation holds a ticket: the
\* teardown waited for the running one, and no later one was admitted.
ClosedIsQuiescent ==
  processState = "closed" => \A c \in Callers : pc[c] \notin Admitted

\* A request that is not live, because its registration or its lifecycle
\* ended, is never live again: a later lifecycle does not revive it.
DeadRequestsStayDead ==
  [][\A c \in Callers :
       request[c].registration # 0 /\ request'[c] = request[c] /\ ~isLive(request[c])
         => ~isLive(request[c])']_vars

\* Retirement is final, and a runtime that is bound stays bound: no later
\* runtime enters through a registration that was pending once.
BindingIsFinal ==
  [][\A r \in DOMAIN regs :
       /\ regs[r].retired => regs'[r].retired /\ ~regs'[r].active
       /\ regs[r].runtimeBound => regs'[r].runtimeBound /\ regs'[r].runtime = regs[r].runtime
    ]_vars

\* Every invocation returns to JS, nested and refused ones included, although
\* it waits for other threads' invocations and teardowns.
InvocationsReturn == \A c \in Callers : pc[c] # "idle" ~> pc[c] = "idle"

\* A teardown that started draining closes the lifecycle.
TeardownsReturn == \A t \in Teardowns : pc[t] = "draining" ~> pc[t] = "done"
=============================================================================
