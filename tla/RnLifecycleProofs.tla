------------------------- MODULE RnLifecycleProofs --------------------------
(***************************************************************************)
(* Proofs about RnLifecycle, for any number of JS threads, teardown        *)
(* threads, registrations, lifecycles and calls.                           *)
(***************************************************************************)
EXTENDS RnLifecycle, SequenceTheorems, FiniteSetTheorems, TLAPS

\* Between taking and releasing the execution mutex.
Holding == {"beginning", "unlocking"} \cup Admitted

\* The program counters say who holds the execution mutex,
MutexInv ==
  /\ \A c \in Callers : pc[c] \in Holding => execution = c
  /\ \A t \in Teardowns : pc[t] = "closing" => execution = t

\* who shares the delivery barrier,
BarrierInv == \A c \in Callers : pc[c] \in {"checking", "building"} => c \in barrier

\* and whose request is valid; requests are of lifecycles that existed.
RequestInv ==
  \A c \in Callers :
    /\ pc[c] # "idle" => target[c] \in DOMAIN regs
    /\ pc[c] \in Admitted => request[c].registration \in DOMAIN regs
    /\ pc[c] \in Admitted <=> hasActiveRequest[c]
    /\ request[c].registration # 0 => pc[c] \in Admitted \cup {"unlocking"}

\* The inductive invariant of safe delivery.
DeliveryInv == TypeOK /\ MutexInv /\ BarrierInv /\ RequestInv /\ NoStaleDelivery

-----------------------------------------------------------------------------
(***************************************************************************)
(* The registrations a step produces                                       *)
(***************************************************************************)

\* Retiring keeps the number and the type of the registrations, and changes
\* only the two flags of the retired ones.
LEMMA RetiredProperties ==
  ASSUME TypeOK, NEW ids
  PROVE  /\ Retired(ids) \in Seq(Registration)
         /\ Len(Retired(ids)) = Len(regs)
         /\ DOMAIN Retired(ids) = DOMAIN regs
         /\ \A r \in DOMAIN regs :
              Retired(ids)[r] = IF r \in ids
                                THEN [regs[r] EXCEPT !.active = FALSE, !.retired = TRUE]
                                ELSE regs[r]
<1>1. regs \in Seq(Registration)
  BY DEF TypeOK
<1>2. Len(regs) \in Nat /\ DOMAIN regs = 1..Len(regs)
  BY <1>1, LenProperties
<1>3. \A r \in 1..Len(regs) : regs[r] \in Registration
  BY <1>1, ElementOfSeq
<1>4. \A r \in 1..Len(regs) :
        (IF r \in ids THEN [regs[r] EXCEPT !.active = FALSE, !.retired = TRUE] ELSE regs[r])
          \in Registration
  BY <1>3 DEF Registration
<1>5. Retired(ids) \in [1..Len(regs) -> Registration]
  BY <1>2, <1>4 DEF Retired
<1>6. Retired(ids) \in Seq(Registration)
  BY <1>2, <1>5, SeqDef
<1>7. DOMAIN Retired(ids) = DOMAIN regs
  BY DEF Retired
<1>8. Len(Retired(ids)) = Len(regs)
  BY <1>2, <1>6, <1>7, LenProperties
<1> QED
  BY <1>6, <1>7, <1>8 DEF Retired

\* What retiring does to the fields of one registration.
LEMMA RetireRecord ==
  ASSUME NEW g \in Registration
  PROVE  LET h == [g EXCEPT !.active = FALSE, !.retired = TRUE] IN
         /\ h.identity = g.identity /\ h.processGeneration = g.processGeneration
         /\ h.runtime = g.runtime /\ h.runtimeBound = g.runtimeBound
         /\ h.retired /\ ~h.active
BY DEF Registration

\* What a registration of the step owes to the one before it.
Later(h, g) ==
  /\ h.identity = g.identity
  /\ h.processGeneration = g.processGeneration
  /\ g.retired => h.retired
  /\ (g.retired => ~g.active) => (h.retired => ~h.active)
  /\ g.runtimeBound => h.runtimeBound /\ h.runtime = g.runtime
  /\ (g.runtimeBound => g.active \/ g.retired) => (h.runtimeBound => h.active \/ h.retired)

LEMMA RetiredLater ==
  ASSUME TypeOK, NEW ids
  PROVE  \A r \in DOMAIN regs : Later(Retired(ids)[r], regs[r])
<1> TAKE r \in DOMAIN regs
<1>1. regs[r] \in Registration
  BY ElementOfSeq, LenProperties DEF TypeOK
<1>2. Retired(ids)[r] = IF r \in ids
                        THEN [regs[r] EXCEPT !.active = FALSE, !.retired = TRUE]
                        ELSE regs[r]
  BY RetiredProperties
<1>3. CASE r \in ids
  <2> DEFINE h == [regs[r] EXCEPT !.active = FALSE, !.retired = TRUE]
  <2>1. /\ h.identity = regs[r].identity /\ h.processGeneration = regs[r].processGeneration
        /\ h.runtime = regs[r].runtime /\ h.runtimeBound = regs[r].runtimeBound
        /\ h.retired /\ ~h.active
    BY <1>1, RetireRecord
  <2>2. Retired(ids)[r] = h
    BY <1>2, <1>3
  <2> HIDE DEF h
  <2> QED
    BY <2>1, <2>2 DEF Later
<1>4. CASE r \notin ids
  BY <1>2, <1>4 DEF Later
<1> QED
  BY <1>3, <1>4

\* A step never removes a registration, and keeps the identity of each; it
\* neither revives a retired one nor unbinds or rebinds a bound one.
RegsMonotone ==
  /\ regs' \in Seq(Registration)
  /\ DOMAIN regs \subseteq DOMAIN regs'
  /\ \A r \in DOMAIN regs : Later(regs'[r], regs[r])
  /\ \A r \in DOMAIN regs' \ DOMAIN regs :
       ~regs'[r].retired /\ (regs'[r].runtimeBound => regs'[r].active)

LEMMA RetireMonotone ==
  ASSUME TypeOK, NEW ids, regs' = Retired(ids)
  PROVE  RegsMonotone
BY RetiredProperties, RetiredLater DEF RegsMonotone

LEMMA RegisterMonotone ==
  ASSUME TypeOK, NEW ids, NEW new \in Registration, ~new.retired,
         new.runtimeBound => new.active,
         regs' = Append(Retired(ids), new)
  PROVE  RegsMonotone /\ DOMAIN regs' = DOMAIN regs \cup {Len(regs) + 1}
<1> DEFINE old == Retired(ids)
<1>2. /\ old \in Seq(Registration) /\ Len(old) = Len(regs)
      /\ \A r \in DOMAIN regs : Later(old[r], regs[r])
  BY RetiredProperties, RetiredLater
<1>3. Len(regs) \in Nat /\ DOMAIN regs = 1..Len(regs)
  BY LenProperties DEF TypeOK
<1> HIDE DEF old
<1>4. regs' = Append(old, new)
  BY DEF old
<1>5. /\ regs' \in Seq(Registration)
      /\ Len(regs') = Len(regs) + 1
      /\ \A r \in 1..Len(regs) : regs'[r] = old[r]
  <2>1. old \in Seq(Registration) /\ Len(old) = Len(regs)
    BY <1>2
  <2>2. /\ Append(old, new) \in Seq(Registration)
        /\ Len(Append(old, new)) = Len(old) + 1
        /\ \A r \in 1..Len(old) : Append(old, new)[r] = old[r]
    BY <2>1, AppendProperties
  <2> QED
    BY <1>4, <2>1, <2>2
<1>6. DOMAIN regs' = 1..(Len(regs) + 1)
  BY <1>5, LenProperties
<1>7. DOMAIN regs' = DOMAIN regs \cup {Len(regs) + 1}
  BY <1>3, <1>6
<1>8. \A r \in DOMAIN regs : regs'[r] = old[r]
  BY <1>3, <1>5
<1>9. regs'[Len(regs) + 1] = new
  <2>1. Append(old, new)[Len(old) + 1] = new
    BY <1>2, AppendProperties
  <2> QED
    BY <1>2, <1>4, <2>1
<1> QED
  BY <1>2, <1>5, <1>7, <1>8, <1>9 DEF RegsMonotone

LEMMA BeginMonotone ==
  ASSUME TypeOK, RequestInv, NEW c \in Callers, begin(c)
  PROVE  RegsMonotone /\ DOMAIN regs' = DOMAIN regs
<1> DEFINE r == target[c]
           new == [regs[r] EXCEPT !.runtime = c, !.runtimeBound = TRUE, !.active = TRUE]
<1>1. r \in DOMAIN regs
  BY DEF begin, RequestInv
<1>2. \A s \in DOMAIN regs : regs[s] \in Registration
  BY ElementOfSeq, LenProperties DEF TypeOK
<1>3. new \in Registration
  BY <1>1, <1>2 DEF Registration
<1>4. regs' = [regs EXCEPT ![r] = new]
  BY DEF begin
<1>5. regs[r].runtimeBound => regs[r].runtime = c
  BY DEF begin, Admissible
<1>6. ~regs[r].retired
  BY DEF begin, Admissible
<1>7. /\ new.identity = regs[r].identity
      /\ new.processGeneration = regs[r].processGeneration
      /\ new.retired = regs[r].retired
      /\ new.runtime = c
      /\ new.runtimeBound /\ new.active
  BY <1>1, <1>2 DEF Registration
<1>8. regs \in Seq(Registration) /\ DOMAIN regs = 1..Len(regs)
  BY LenProperties DEF TypeOK
<1> HIDE DEF r, new
<1>9. regs' \in Seq(Registration) /\ Len(regs') = Len(regs)
  BY <1>1, <1>3, <1>4, <1>8, ExceptSeq
<1>10. DOMAIN regs' = DOMAIN regs
  BY <1>4
<1>11. \A s \in DOMAIN regs : regs'[s] = IF s = r THEN new ELSE regs[s]
  BY <1>4
<1>12. \A s \in DOMAIN regs : Later(regs'[s], regs[s])
  BY <1>5, <1>6, <1>7, <1>11 DEF Later
<1> QED
  BY <1>9, <1>10, <1>12 DEF RegsMonotone

-----------------------------------------------------------------------------
(***************************************************************************)
(* Type correctness, with the validity of requests it needs                *)
(***************************************************************************)

\* Every step of React Native's threads leaves the invocations alone.
LEMMA LifecycleFrame ==
  ASSUME Lifecycle
  PROVE  UNCHANGED <<inFlight, execution, barrier, threads>>
BY DEF Lifecycle, registerProcessLifecycle, registerModule, invalidate, invalidateListed,
       invalidateProvider, invalidateContext

LEMMA LifecycleType ==
  ASSUME TypeOK, Lifecycle
  PROVE  /\ RegsMonotone
         /\ registrations' \subseteq DOMAIN regs'
         /\ processState' \in {"uninitialized", "ready", "draining", "closed", "unavailable"}
         /\ processGeneration' \in Nat
         /\ generations' \in Nat
<1>0. regs' = regs => RegsMonotone
  BY DEF TypeOK, RegsMonotone, Later
<1>1. CASE registerProcessLifecycle
  BY <1>0, <1>1 DEF registerProcessLifecycle, ensureReadyLocked, TypeOK
<1>2. ASSUME NEW i \in Identities, NEW runtime \in Callers \cup {NoRuntime},
             registerModule(i, runtime)
      PROVE  /\ RegsMonotone
             /\ registrations' \subseteq DOMAIN regs'
             /\ processState' \in {"ready"}
             /\ processGeneration' \in Nat
             /\ generations' \in Nat
  <2> DEFINE bound == runtime # NoRuntime
             new == [identity |-> i, runtime |-> runtime,
                     processGeneration |-> processGeneration',
                     active |-> bound, runtimeBound |-> bound, retired |-> FALSE]
             replaced == {r \in registrations :
                            /\ regs[r].identity.moduleRegistry = i.moduleRegistry
                            /\ regs[r].identity.logicalContext = i.logicalContext}
  <2>1. /\ processState' = "ready"
        /\ processGeneration' \in Nat
        /\ generations' \in Nat
    BY <1>2 DEF registerModule, ensureReadyLocked, TypeOK
  <2>2. bound \in BOOLEAN
    OBVIOUS
  <2>3. new \in Registration /\ ~new.retired /\ (new.runtimeBound => new.active)
    BY <2>1, <2>2 DEF Registration
  <2>4. regs' = Append(Retired(replaced), new)
    BY <1>2 DEF registerModule
  <2>5. registrations' = registrations \cup {Len(regs) + 1}
    BY <1>2 DEF registerModule
  <2> HIDE DEF new, replaced
  <2>6. RegsMonotone /\ DOMAIN regs' = DOMAIN regs \cup {Len(regs) + 1}
    BY <2>3, <2>4, RegisterMonotone
  <2> QED
    BY <2>1, <2>5, <2>6 DEF TypeOK
<1>3. ASSUME NEW r \in DOMAIN regs, invalidate(r)
      PROVE  /\ RegsMonotone
             /\ registrations' \subseteq DOMAIN regs'
             /\ UNCHANGED <<processState, processGeneration, generations>>
  <2>1. regs' = Retired({r})
    BY <1>3 DEF invalidate
  <2> QED
    BY <1>3, <2>1, RetireMonotone DEF invalidate, TypeOK, RegsMonotone
<1>4. ASSUME NEW ids, invalidateListed(ids)
      PROVE  /\ RegsMonotone
             /\ registrations' \subseteq DOMAIN regs'
             /\ UNCHANGED <<processState, processGeneration, generations>>
  <2>1. regs' = Retired(ids \cap registrations)
    BY <1>4 DEF invalidateListed
  <2> QED
    BY <1>4, <2>1, RetireMonotone DEF invalidateListed, TypeOK, RegsMonotone
<1> QED
  BY <1>1, <1>2, <1>3, <1>4 DEF Lifecycle, invalidateProvider, invalidateContext, TypeOK

LEMMA TeardownType ==
  ASSUME TypeOK, NEW t \in Teardowns, Teardown(t)
  PROVE  RegsMonotone /\ TypeOK'
<1>0. regs' = regs => RegsMonotone
  BY DEF TypeOK, RegsMonotone, Later
<1>t. t \in Threads
  BY DEF Threads
<1>1. CASE TeardownDrain(t)
  <2>1. CASE processState \in {"closed", "unavailable"}
    BY <1>0, <1>t, <1>1, <2>1 DEF TeardownDrain, Go, coordinator, TypeOK
  <2>2. CASE processState \notin {"closed", "unavailable"}
    <3>1. RegsMonotone
      BY <1>1, <2>2, RetireMonotone DEF TeardownDrain
    <3>2. regs' \in Seq(Registration)
      BY <3>1 DEF RegsMonotone
    <3>3. /\ pc' = [pc EXCEPT ![t] = "draining"]
          /\ processState' = "draining" /\ registrations' = {}
          /\ processGeneration' = 0 /\ generations' = generations
          /\ UNCHANGED <<inFlight, execution, barrier, target, request,
                         hasActiveRequest, calls>>
      BY <1>1, <2>2 DEF TeardownDrain, Go
    <3>4. TypeOK'
      BY <1>t, <3>2, <3>3 DEF TypeOK
    <3> QED
      BY <3>1, <3>4
  <2> QED
    BY <2>1, <2>2
<1>2. CASE TeardownLock(t)
  BY <1>0, <1>t, <1>2 DEF TeardownLock, Go, coordinator, TypeOK
<1>3. CASE TeardownClose(t)
  BY <1>0, <1>t, <1>3 DEF TeardownClose, Go, TypeOK
<1> QED
  BY <1>1, <1>2, <1>3 DEF Teardown

LEMMA InvokingType ==
  ASSUME TypeOK, RequestInv, NEW c \in Callers, Invoking(c)
  PROVE  RegsMonotone /\ TypeOK'
<1>0. regs' = regs => RegsMonotone
  BY DEF TypeOK, RegsMonotone, Later
<1>t. c \in Threads
  BY DEF Threads
<1>1. CASE LockExecution(c)
  BY <1>0, <1>t, <1>1 DEF LockExecution, Go, coordinator, TypeOK
<1>2. CASE begin(c)
  <2>1. RegsMonotone /\ DOMAIN regs' = DOMAIN regs
    BY <1>2, BeginMonotone
  <2>2. regs' \in Seq(Registration)
    BY <2>1 DEF RegsMonotone
  <2>3. request' \in [Callers -> [registration : Nat, processGeneration : Nat,
                                  runtime : Callers \cup {NoRuntime}]]
    BY <1>2 DEF begin, TypeOK
  <2> QED
    BY <1>t, <1>2, <2>1, <2>2, <2>3 DEF begin, Go, Admitted, TypeOK
<1>3. CASE BeginFails(c)
  BY <1>0, <1>t, <1>3 DEF BeginFails, Go, coordinator, TypeOK
<1>4. CASE CoreError(c)
  BY <1>0, <1>t, <1>4 DEF CoreError, Go, coordinator, Admitted, TypeOK
<1>5. CASE copyOwnedBytes(c) \/ runtimeIdentity(c)
  BY <1>0, <1>t, <1>5 DEF copyOwnedBytes, runtimeIdentity, Go, coordinator, Admitted, TypeOK
<1>6. CASE DeliverLock(c)
  BY <1>0, <1>t, <1>6 DEF DeliverLock, Go, coordinator, Admitted, TypeOK
<1>7. CASE DeliverCheck(c)
  BY <1>0, <1>t, <1>7 DEF DeliverCheck, Go, coordinator, Admitted, TypeOK
<1>8. CASE DeliverResult(c)
  BY <1>0, <1>t, <1>8 DEF DeliverResult, Go, coordinator, Admitted, TypeOK
<1>9. CASE finish(c)
  BY <1>0, <1>t, <1>9 DEF finish, Go, coordinator, TypeOK
<1>10. CASE UnlockExecution(c)
  BY <1>0, <1>t, <1>10 DEF UnlockExecution, Go, coordinator, NoRequest, TypeOK
<1> QED
  BY <1>1, <1>2, <1>3, <1>4, <1>5, <1>6, <1>7, <1>8, <1>9, <1>10 DEF Invoking

LEMMA CallType ==
  ASSUME TypeOK, NEW c \in Callers, NEW r \in DOMAIN regs, Call(c, r)
  PROVE  RegsMonotone /\ TypeOK'
<1>1. regs' = regs /\ RegsMonotone
  BY DEF Call, coordinator, TypeOK, RegsMonotone, Later
<1>2. c \in Threads /\ r \in Nat
  BY LenProperties DEF Threads, TypeOK
<1> QED
  BY <1>1, <1>2 DEF Call, Go, coordinator, TypeOK

\* One step preserves the types; registrations only grow and only age.
LEMMA TypeStep ==
  ASSUME TypeOK, RequestInv, [Next]_vars
  PROVE  RegsMonotone /\ TypeOK'
<1>1. CASE Lifecycle
  <2>1. UNCHANGED <<inFlight, execution, barrier, threads>>
    BY <1>1, LifecycleFrame
  <2> QED
    BY <1>1, <2>1, LifecycleType DEF TypeOK, RegsMonotone, threads
<1>2. CASE UNCHANGED vars
  BY <1>2 DEF vars, coordinator, threads, TypeOK, RegsMonotone, Later
<1> QED
  BY <1>1, <1>2, TeardownType, InvokingType, CallType DEF Next

\* Requests and targets always name registrations that exist.
LEMMA RequestStep ==
  ASSUME TypeOK, RequestInv, [Next]_vars
  PROVE  RequestInv'
<1>0. DOMAIN regs \subseteq DOMAIN regs'
  BY TypeStep DEF RegsMonotone
<1>1. CASE UNCHANGED threads
  BY <1>0, <1>1 DEF RequestInv, threads
<1>2. ASSUME NEW t \in Teardowns, Teardown(t)
      PROVE  RequestInv'
  <2>1. UNCHANGED <<target, request, hasActiveRequest>>
    BY <1>2 DEF Teardown, TeardownDrain, TeardownLock, TeardownClose
  <2>2. \A c \in Callers : pc'[c] = pc[c]
    BY <1>2, RnAssumption DEF Teardown, TeardownDrain, TeardownLock, TeardownClose, Go,
                              TypeOK, Threads
  <2> QED
    BY <1>0, <2>1, <2>2 DEF RequestInv
<1>3. ASSUME NEW c \in Callers, Invoking(c)
      PROVE  RequestInv'
  <2>1. c \in Threads
    BY DEF Threads
  <2>2. CASE begin(c)
    <3>1. target[c] \in DOMAIN regs
      BY <2>2 DEF begin, RequestInv
    <3> QED
      BY <1>0, <2>1, <2>2, <3>1 DEF begin, Go, RequestInv, Admitted, TypeOK
  <2>3. CASE UnlockExecution(c)
    BY <1>0, <2>1, <2>3 DEF UnlockExecution, Go, RequestInv, Admitted, NoRequest, TypeOK
  <2>4. CASE BeginFails(c)
    BY <1>0, <2>1, <2>4 DEF BeginFails, Go, RequestInv, Admitted, TypeOK
  <2>5. CASE LockExecution(c)
    BY <1>0, <2>1, <2>5 DEF LockExecution, Go, RequestInv, Admitted, TypeOK
  <2>6. CASE finish(c)
    BY <1>0, <2>1, <2>6 DEF finish, Go, RequestInv, Admitted, TypeOK
  <2>7. ASSUME NEW l \in Admitted, pc[c] \in Admitted, Go(c, l),
               UNCHANGED <<target, request, hasActiveRequest>>
        PROVE  RequestInv'
    BY <1>0, <2>1, <2>7 DEF Go, RequestInv, Admitted, TypeOK
  <2>8. CASE CoreError(c)
    BY <2>7, <2>8 DEF CoreError, Admitted
  <2>9. CASE copyOwnedBytes(c) \/ runtimeIdentity(c)
    BY <2>7, <2>9 DEF copyOwnedBytes, runtimeIdentity, Admitted
  <2>10. CASE DeliverLock(c)
    BY <2>7, <2>10 DEF DeliverLock, Admitted
  <2>11. CASE DeliverCheck(c)
    BY <2>7, <2>11 DEF DeliverCheck, Admitted
  <2>12. CASE DeliverResult(c)
    BY <2>7, <2>12 DEF DeliverResult, Admitted
  <2> QED
    BY <1>3, <2>2, <2>3, <2>4, <2>5, <2>6, <2>8, <2>9, <2>10, <2>11, <2>12 DEF Invoking
<1>4. ASSUME NEW c \in Callers, NEW r \in DOMAIN regs, Call(c, r)
      PROVE  RequestInv'
  <2>1. c \in Threads
    BY DEF Threads
  <2>2. CASE hasActiveRequest[c]
    BY <1>0, <1>4, <2>2 DEF Call, RequestInv
  <2>3. CASE ~hasActiveRequest[c]
    <3>1. pc[c] = "idle" /\ pc' = [pc EXCEPT ![c] = "locking"]
      BY <1>4, <2>3 DEF Call, Go, RequestInv, Admitted
    <3>2. /\ target' = [target EXCEPT ![c] = r]
          /\ UNCHANGED <<request, hasActiveRequest>>
      BY <1>4, <2>3 DEF Call
    <3> QED
      BY <1>0, <2>1, <3>1, <3>2 DEF RequestInv, Admitted, TypeOK
  <2> QED
    BY <2>2, <2>3
<1> QED
  BY <1>1, <1>2, <1>3, <1>4, LifecycleFrame DEF Next, vars

\* Every variable keeps its type, for any number of threads.
THEOREM TypeCorrect == Spec => []TypeOK
<1>1. Init => TypeOK /\ RequestInv
  <2> SUFFICES ASSUME Init PROVE TypeOK /\ RequestInv
    OBVIOUS
  <2>1. regs \in Seq(Registration)
    BY EmptySeq DEF Init
  <2> QED
    BY <2>1 DEF Init, TypeOK, RequestInv, NoRequest, Admitted, Threads
<1>2. TypeOK /\ RequestInv /\ [Next]_vars => (TypeOK /\ RequestInv)'
  BY TypeStep, RequestStep
<1> QED
  BY <1>1, <1>2, PTL DEF Spec
-----------------------------------------------------------------------------
(***************************************************************************)
(* Locks and delivery                                                      *)
(***************************************************************************)

\* The execution mutex excludes the invocations and the teardowns.
LEMMA MutexStep ==
  ASSUME TypeOK, MutexInv, RequestInv, [Next]_vars
  PROVE  MutexInv'
<1>0. ASSUME NEW u \in Threads
      PROVE  u # NoThread
  BY <1>0, RnAssumption
<1>1. CASE UNCHANGED <<pc, execution>>
  BY <1>1 DEF MutexInv
<1>2. ASSUME NEW t \in Teardowns, Teardown(t)
      PROVE  MutexInv'
  <2>1. t \in Threads /\ t \notin Callers
    BY RnAssumption DEF Threads
  <2>2. CASE TeardownDrain(t)
    BY <2>1, <2>2 DEF TeardownDrain, Go, MutexInv, Holding, TypeOK, Threads
  <2>3. CASE TeardownLock(t)
    BY <1>0, <2>1, <2>3 DEF TeardownLock, Go, MutexInv, Holding, TypeOK, Threads
  <2>4. CASE TeardownClose(t)
    BY <1>0, <2>1, <2>4 DEF TeardownClose, Go, MutexInv, Holding, TypeOK, Threads
  <2> QED
    BY <1>2, <2>2, <2>3, <2>4 DEF Teardown
<1>3. ASSUME NEW c \in Callers, Invoking(c)
      PROVE  MutexInv'
  <2>1. c \in Threads /\ c \notin Teardowns
    BY RnAssumption DEF Threads
  <2>2. CASE LockExecution(c)
    BY <1>0, <2>1, <2>2 DEF LockExecution, Go, MutexInv, Holding, TypeOK, Threads
  <2>3. CASE BeginFails(c)
    BY <1>0, <2>1, <2>3 DEF BeginFails, Go, MutexInv, Holding, Admitted, TypeOK, Threads
  <2>4. CASE UnlockExecution(c)
    BY <1>0, <2>1, <2>4 DEF UnlockExecution, Go, MutexInv, Holding, Admitted, TypeOK, Threads
  <2>5. ASSUME NEW l \in Holding, pc[c] \in Holding, Go(c, l), UNCHANGED execution
        PROVE  MutexInv'
    BY <2>1, <2>5 DEF Go, MutexInv, Holding, Admitted, TypeOK, Threads
  <2>6. CASE begin(c)
    BY <2>5, <2>6 DEF begin, Holding, Admitted
  <2>7. CASE CoreError(c)
    BY <2>5, <2>7 DEF CoreError, Holding, Admitted
  <2>8. CASE copyOwnedBytes(c) \/ runtimeIdentity(c)
    BY <2>5, <2>8 DEF copyOwnedBytes, runtimeIdentity, Holding, Admitted
  <2>9. CASE finish(c)
    BY <2>5, <2>9 DEF finish, Holding, Admitted
  <2>10. CASE DeliverLock(c)
    BY <2>5, <2>10 DEF DeliverLock, Holding, Admitted
  <2>11. CASE DeliverCheck(c)
    BY <2>5, <2>11 DEF DeliverCheck, Holding, Admitted
  <2>12. CASE DeliverResult(c)
    BY <2>5, <2>12 DEF DeliverResult, Holding, Admitted
  <2> QED
    BY <1>3, <2>2, <2>3, <2>4, <2>6, <2>7, <2>8, <2>9, <2>10, <2>11, <2>12 DEF Invoking
<1>4. ASSUME NEW c \in Callers, NEW r \in DOMAIN regs, Call(c, r)
      PROVE  MutexInv'
  <2>1. c \in Threads /\ c \notin Teardowns
    BY RnAssumption DEF Threads
  <2> QED
    BY <1>4, <2>1 DEF Call, Go, MutexInv, Holding, Admitted, TypeOK, Threads
<1> QED
  BY <1>1, <1>2, <1>3, <1>4, LifecycleFrame DEF Next, vars, threads

\* A thread that checks or builds a result shares the delivery barrier.
LEMMA BarrierStep ==
  ASSUME TypeOK, BarrierInv, [Next]_vars
  PROVE  BarrierInv'
<1>1. CASE UNCHANGED <<pc, barrier>>
  BY <1>1 DEF BarrierInv
<1>2. ASSUME NEW u \in Threads, NEW l, l \notin {"checking", "building"}, Go(u, l),
             barrier \ {u} \subseteq barrier'
      PROVE  BarrierInv'
  BY <1>2 DEF Go, BarrierInv, TypeOK, Threads
<1>3. ASSUME NEW t \in Teardowns, Teardown(t)
      PROVE  BarrierInv'
  <2>1. t \in Threads
    BY DEF Threads
  <2> QED
    BY <1>2, <1>3, <2>1 DEF Teardown, TeardownDrain, TeardownLock, TeardownClose
<1>4. ASSUME NEW c \in Callers, Invoking(c)
      PROVE  BarrierInv'
  <2>1. c \in Threads
    BY DEF Threads
  <2>2. CASE DeliverLock(c)
    BY <2>1, <2>2 DEF DeliverLock, Go, BarrierInv, TypeOK, Threads
  <2>3. CASE DeliverCheck(c)
    BY <2>1, <2>3 DEF DeliverCheck, Go, BarrierInv, TypeOK, Threads
  <2>4. CASE DeliverResult(c)
    BY <1>2, <2>1, <2>4 DEF DeliverResult
  <2>5. CASE LockExecution(c) \/ begin(c) \/ BeginFails(c)
    BY <1>2, <2>1, <2>5 DEF LockExecution, begin, BeginFails
  <2>6. CASE CoreError(c) \/ finish(c) \/ UnlockExecution(c)
    BY <1>2, <2>1, <2>6 DEF CoreError, finish, UnlockExecution
  <2>7. CASE copyOwnedBytes(c) \/ runtimeIdentity(c)
    BY <1>2, <2>1, <2>7 DEF copyOwnedBytes, runtimeIdentity
  <2> QED
    BY <1>4, <2>2, <2>3, <2>4, <2>5, <2>6, <2>7 DEF Invoking
<1>5. ASSUME NEW c \in Callers, NEW r \in DOMAIN regs, Call(c, r)
      PROVE  BarrierInv'
  <2>1. c \in Threads
    BY DEF Threads
  <2> QED
    BY <1>1, <1>2, <1>5, <2>1 DEF Call
<1> QED
  BY <1>1, <1>3, <1>4, <1>5, LifecycleFrame DEF Next, vars, threads

\* A step that leaves the coordinator alone leaves live what was live.
LEMMA LiveFrame ==
  ASSUME NEW c \in Callers, isLive(request[c]), request'[c] = request[c],
         UNCHANGED <<processState, processGeneration, regs>>
  PROVE  isLive(request[c])'
BY DEF isLive

\* The heart of the argument: nothing ends a registration's life between the
\* last check and the construction of the result.
LEMMA DeliveryStep ==
  ASSUME DeliveryInv, [Next]_vars
  PROVE  NoStaleDelivery'
<1> SUFFICES ASSUME NEW c \in Callers, pc'[c] = "building"
             PROVE  isLive(request[c])'
  BY DEF NoStaleDelivery
<1> USE DEF DeliveryInv
<1>t. c \in Threads /\ c \notin Teardowns
  BY RnAssumption DEF Threads
<1>1. CASE pc[c] = "building"
  <2>1. isLive(request[c]) /\ c \in barrier /\ execution = c
    BY <1>1 DEF NoStaleDelivery, BarrierInv, MutexInv, Holding, Admitted
  <2>2. processState = "ready"
    BY <2>1 DEF isLive
  <2>3. CASE UNCHANGED vars
    BY <2>1, <2>3, LiveFrame DEF vars, coordinator, threads
  <2>4. CASE Lifecycle
    <3>1. registerProcessLifecycle
      BY <2>1, <2>4 DEF Lifecycle, registerModule, invalidate, invalidateListed,
                        invalidateProvider, invalidateContext
    <3> QED
      BY <2>1, <2>2, <3>1, LiveFrame DEF registerProcessLifecycle, ensureReadyLocked, threads
  <2>5. ASSUME NEW t \in Teardowns, Teardown(t)
        PROVE  isLive(request[c])'
    <3>1. TeardownLock(t)
      BY <1>t, <2>1, <2>5 DEF Teardown, TeardownDrain, TeardownClose, MutexInv
    <3> QED
      BY <2>1, <3>1, LiveFrame DEF TeardownLock, coordinator
  <2>6. ASSUME NEW d \in Callers, Invoking(d)
        PROVE  isLive(request[c])'
    <3>1. CASE d = c
      <4>1. DeliverResult(c)
        BY <1>1, <2>6, <3>1 DEF Invoking, LockExecution, begin, BeginFails, CoreError,
             copyOwnedBytes, runtimeIdentity, DeliverLock, DeliverCheck, finish,
             UnlockExecution
      <4> QED
        BY <1>t, <4>1 DEF DeliverResult, Go, TypeOK
    <3>2. CASE d # c
      <4>1. LockExecution(d)
        <5>1. pc[d] \notin Holding
          BY <2>1, <3>2 DEF MutexInv
        <5> QED
          BY <2>6, <5>1 DEF Invoking, begin, BeginFails, CoreError, copyOwnedBytes,
               runtimeIdentity, DeliverLock, DeliverCheck, DeliverResult, finish, UnlockExecution,
               Holding, Admitted
      <4> QED
        BY <2>1, <4>1, LiveFrame DEF LockExecution, coordinator
    <3> QED
      BY <3>1, <3>2
  <2>7. ASSUME NEW d \in Callers, NEW r \in DOMAIN regs, Call(d, r)
        PROVE  isLive(request[c])'
    BY <2>1, <2>7, LiveFrame DEF Call, coordinator
  <2> QED
    BY <2>3, <2>4, <2>5, <2>6, <2>7 DEF Next
<1>2. CASE pc[c] # "building"
  <2>1. DeliverCheck(c) /\ isLive(request[c])
    <3>1. pc'[c] # pc[c]
      BY <1>2
    <3>2. ~Lifecycle /\ vars' # vars
      BY <3>1, LifecycleFrame DEF vars, threads
    <3>3. ~\E t \in Teardowns : Teardown(t)
      BY <1>t, <3>1 DEF Teardown, TeardownDrain, TeardownLock, TeardownClose, Go, TypeOK
    <3>4. ASSUME NEW d \in Callers, NEW r \in DOMAIN regs, Call(d, r)
          PROVE  FALSE
      BY <1>t, <3>1, <3>4 DEF Call, Go, TypeOK
    <3>5. PICK d \in Callers : Invoking(d)
      BY <3>2, <3>3, <3>4 DEF Next
    <3>6. ASSUME NEW l, Go(d, l)
          PROVE  d = c /\ l = "building"
      BY <1>t, <3>1, <3>6 DEF Go, TypeOK
    <3>7. DeliverCheck(d) /\ isLive(request[d]) /\ d = c
      BY <3>5, <3>6 DEF Invoking, LockExecution, begin, BeginFails, CoreError,
           copyOwnedBytes, runtimeIdentity, DeliverLock, DeliverCheck, DeliverResult,
           finish, UnlockExecution
    <3> QED
      BY <3>7
  <2> QED
    BY <2>1, LiveFrame DEF DeliverCheck, coordinator
<1> QED
  BY <1>1, <1>2

-----------------------------------------------------------------------------
(***************************************************************************)
(* One invocation at a time                                                *)
(***************************************************************************)

\* The thread that holds a ticket, if any, is the one inFlight_ counts, and
\* there is none once the lifecycle is closed.
TicketInv ==
  /\ inFlight = IF \E c \in Callers : pc[c] \in Admitted THEN 1 ELSE 0
  /\ ClosedIsQuiescent

LEMMA TicketStep ==
  ASSUME TypeOK, MutexInv, RequestInv, TicketInv, [Next]_vars
  PROVE  TicketInv'
<1>1. ASSUME \A c \in Callers : pc'[c] \in Admitted <=> pc[c] \in Admitted,
             UNCHANGED inFlight, processState' = "closed" => processState = "closed"
      PROVE  TicketInv'
  BY <1>1 DEF TicketInv, ClosedIsQuiescent
<1>2. CASE UNCHANGED vars
  BY <1>1, <1>2 DEF vars, coordinator, threads
<1>3. CASE Lifecycle
  <2>1. processState' = "closed" => processState = "closed"
    BY <1>3 DEF Lifecycle, registerProcessLifecycle, registerModule, ensureReadyLocked,
                invalidate, invalidateListed, invalidateProvider, invalidateContext
  <2> QED
    BY <1>1, <1>3, <2>1, LifecycleFrame DEF threads
<1>4. ASSUME NEW t \in Teardowns, Teardown(t)
      PROVE  TicketInv'
  <2>1. t \in Threads /\ t \notin Callers
    BY RnAssumption DEF Threads
  <2>2. \A c \in Callers : pc'[c] = pc[c]
    BY <1>4, <2>1 DEF Teardown, TeardownDrain, TeardownLock, TeardownClose, Go, TypeOK, Threads
  <2>3. CASE TeardownDrain(t) \/ TeardownLock(t)
    BY <1>1, <2>2, <2>3 DEF TeardownDrain, TeardownLock, coordinator
  <2>4. CASE TeardownClose(t)
    <3>1. \A c \in Callers : pc[c] \notin Admitted
      BY <2>1, <2>4 DEF TeardownClose, MutexInv, Holding
    <3> QED
      BY <2>2, <2>4, <3>1 DEF TeardownClose, TicketInv, ClosedIsQuiescent
  <2> QED
    BY <1>4, <2>3, <2>4 DEF Teardown
<1>5. ASSUME NEW c \in Callers, Invoking(c)
      PROVE  TicketInv'
  <2>1. c \in Threads
    BY DEF Threads
  <2>2. ASSUME NEW l, Go(c, l), l \in Admitted <=> pc[c] \in Admitted,
               UNCHANGED <<inFlight, processState>>
        PROVE  TicketInv'
    BY <1>1, <2>1, <2>2 DEF Go, TypeOK
  <2>3. CASE begin(c)
    <3>1. /\ pc[c] = "beginning" /\ pc' = [pc EXCEPT ![c] = "working"]
          /\ processState = "ready" /\ processState' = processState
          /\ inFlight' = inFlight + 1
      BY <2>3 DEF begin, Admissible, Go
    <3>2. \A d \in Callers : pc[d] \notin Admitted
      BY <3>1 DEF MutexInv, Holding, Admitted
    <3>3. pc'[c] \in Admitted
      BY <2>1, <3>1 DEF Admitted, TypeOK
    <3>4. inFlight' = 1
      BY <3>1, <3>2 DEF TicketInv
    <3> QED
      BY <3>1, <3>3, <3>4 DEF TicketInv, ClosedIsQuiescent
  <2>4. CASE finish(c)
    <3>1. /\ pc[c] \in Admitted /\ pc' = [pc EXCEPT ![c] = "unlocking"]
          /\ processState' = processState
          /\ inFlight' = IF inFlight > 0 THEN inFlight - 1 ELSE inFlight
      BY <2>4 DEF finish, Go, coordinator, Admitted
    <3>2. \A d \in Callers : pc'[d] \notin Admitted
      BY <2>1, <3>1 DEF MutexInv, Holding, Admitted, TypeOK, Threads
    <3>3. inFlight' = 0
      BY <3>1 DEF TicketInv
    <3> QED
      BY <3>2, <3>3 DEF TicketInv, ClosedIsQuiescent
  <2>5. CASE LockExecution(c)
    BY <2>2, <2>5 DEF LockExecution, coordinator, Admitted
  <2>6. CASE BeginFails(c)
    BY <2>2, <2>6 DEF BeginFails, coordinator, Admitted
  <2>7. CASE CoreError(c)
    BY <2>2, <2>7 DEF CoreError, coordinator, Admitted
  <2>8. CASE copyOwnedBytes(c) \/ runtimeIdentity(c)
    BY <2>2, <2>8 DEF copyOwnedBytes, runtimeIdentity, coordinator, Admitted
  <2>9. CASE DeliverLock(c)
    BY <2>2, <2>9 DEF DeliverLock, coordinator, Admitted
  <2>10. CASE DeliverCheck(c)
    BY <2>2, <2>10 DEF DeliverCheck, coordinator, Admitted
  <2>11. CASE DeliverResult(c)
    BY <2>2, <2>11 DEF DeliverResult, coordinator, Admitted
  <2>12. CASE UnlockExecution(c)
    BY <2>2, <2>12 DEF UnlockExecution, coordinator, Admitted
  <2> QED
    BY <1>5, <2>3, <2>4, <2>5, <2>6, <2>7, <2>8, <2>9, <2>10, <2>11, <2>12 DEF Invoking
<1>6. ASSUME NEW c \in Callers, NEW r \in DOMAIN regs, Call(c, r)
      PROVE  TicketInv'
  <2>1. c \in Threads
    BY DEF Threads
  <2>2. \A d \in Callers : pc'[d] \in Admitted <=> pc[d] \in Admitted
    <3>1. CASE hasActiveRequest[c]
      BY <1>6, <3>1 DEF Call
    <3>2. CASE ~hasActiveRequest[c]
      <4>1. pc[c] = "idle" /\ pc' = [pc EXCEPT ![c] = "locking"]
        BY <1>6, <3>2 DEF Call, Go, RequestInv, Admitted
      <4> QED
        BY <2>1, <4>1 DEF Admitted, TypeOK
    <3> QED
      BY <3>1, <3>2
  <2> QED
    BY <1>1, <1>6, <2>2 DEF Call, coordinator
<1> QED
  BY <1>2, <1>3, <1>4, <1>5, <1>6 DEF Next

\* The conjunction that the remaining theorems are proved from.
SafetyInv == DeliveryInv /\ TicketInv

LEMMA SafetyInductive == Spec => []SafetyInv
<1>1. Init => SafetyInv
  <2> SUFFICES ASSUME Init PROVE SafetyInv
    OBVIOUS
  <2>1. regs \in Seq(Registration)
    BY EmptySeq DEF Init
  <2>2. TypeOK
    BY <2>1 DEF Init, TypeOK, NoRequest, Threads
  <2>3. MutexInv /\ BarrierInv /\ RequestInv /\ NoStaleDelivery /\ TicketInv
    BY DEF Init, MutexInv, BarrierInv, RequestInv, NoStaleDelivery, NoRequest,
           TicketInv, ClosedIsQuiescent, Holding, Admitted, Threads
  <2> QED
    BY <2>2, <2>3 DEF SafetyInv, DeliveryInv
<1>2. SafetyInv /\ [Next]_vars => SafetyInv'
  BY TypeStep, MutexStep, BarrierStep, RequestStep, DeliveryStep, TicketStep
     DEF SafetyInv, DeliveryInv
<1> QED
  BY <1>1, <1>2, PTL DEF Spec

\* No JS result is built from a request whose registration is no longer live:
\* invalidation, replacement and teardown wait for a delivery that passed its
\* check and defeat one that did not.
THEOREM SafeDelivery == Spec => []NoStaleDelivery
<1>1. SafetyInv => NoStaleDelivery
  BY DEF SafetyInv, DeliveryInv
<1> QED
  BY <1>1, SafetyInductive, PTL

\* At most one thread holds a ticket, and inFlight_ is their number.
THEOREM ExclusiveInvocation == Spec => []OneInvocationAtATime
<1>1. SafetyInv => OneInvocationAtATime
  <2> SUFFICES ASSUME SafetyInv PROVE OneInvocationAtATime
    OBVIOUS
  <2> DEFINE admitted == {c \in Callers : pc[c] \in Admitted}
  <2>1. \A c \in Callers : pc[c] \in Admitted => execution = c
    BY DEF SafetyInv, DeliveryInv, MutexInv, Holding
  <2>2. inFlight = IF admitted = {} THEN 0 ELSE 1
    BY DEF SafetyInv, TicketInv
  <2>3. CASE admitted = {}
    BY <2>1, <2>2, <2>3, FS_EmptySet DEF OneInvocationAtATime
  <2>4. CASE admitted # {}
    <3>1. admitted = {execution}
      BY <2>1, <2>4
    <3>2. Cardinality(admitted) = 1
      BY <3>1, FS_Singleton
    <3> QED
      BY <2>1, <2>2, <2>4, <3>2 DEF OneInvocationAtATime
  <2> QED
    BY <2>3, <2>4
<1> QED
  BY <1>1, SafetyInductive, PTL

\* Once the process lifecycle is closed no invocation is in flight, however
\* many teardowns overlap.
THEOREM TeardownWaits == Spec => []ClosedIsQuiescent
<1>1. SafetyInv => ClosedIsQuiescent
  BY DEF SafetyInv, TicketInv
<1> QED
  BY <1>1, SafetyInductive, PTL

-----------------------------------------------------------------------------
(***************************************************************************)
(* Registrations only age                                                  *)
(***************************************************************************)

RetiredInactive == \A r \in DOMAIN regs : regs[r].retired => ~regs[r].active

\* A retired registration is never admitted again, and a bound runtime is
\* never exchanged.
THEOREM FinalBinding == Spec => BindingIsFinal
<1>1. Init => RetiredInactive
  BY EmptySeq DEF Init, RetiredInactive
<1>2. TypeOK /\ RequestInv /\ RetiredInactive /\ [Next]_vars => RetiredInactive'
  <2> SUFFICES ASSUME TypeOK, RequestInv, RetiredInactive, [Next]_vars
               PROVE  RetiredInactive'
    OBVIOUS
  <2>1. RegsMonotone
    BY TypeStep
  <2> QED
    BY <2>1 DEF RegsMonotone, Later, RetiredInactive
<1>3. TypeOK /\ RequestInv /\ RetiredInactive /\ [Next]_vars =>
        [\A r \in DOMAIN regs :
           /\ regs[r].retired => regs'[r].retired /\ ~regs'[r].active
           /\ regs[r].runtimeBound =>
                regs'[r].runtimeBound /\ regs'[r].runtime = regs[r].runtime]_vars
  BY TypeStep DEF RegsMonotone, Later, RetiredInactive
<1>4. SafetyInv => TypeOK /\ RequestInv
  BY DEF SafetyInv, DeliveryInv
<1> QED
  BY <1>1, <1>2, <1>3, <1>4, SafetyInductive, PTL DEF Spec, BindingIsFinal
-----------------------------------------------------------------------------
(***************************************************************************)
(* A host has one registration                                             *)
(***************************************************************************)

SameHost(i, j) == i.moduleRegistry = j.moduleRegistry /\ i.logicalContext = j.logicalContext

\* A step that adds no registration may only forget to list one.
LEMMA HostFrame ==
  ASSUME TypeOK, OneRegistrationPerHost, RegsMonotone, DOMAIN regs' = DOMAIN regs,
         \A r \in DOMAIN regs : ~regs'[r].retired => r \in registrations'
  PROVE  OneRegistrationPerHost'
BY DEF OneRegistrationPerHost, RegsMonotone, Later

LEMMA HostRetire ==
  ASSUME TypeOK, OneRegistrationPerHost, NEW ids, regs' = Retired(ids),
         registrations \ ids \subseteq registrations'
  PROVE  OneRegistrationPerHost'
<1>1. RegsMonotone /\ DOMAIN regs' = DOMAIN regs
  BY RetireMonotone, RetiredProperties
<1>2. ASSUME NEW r \in DOMAIN regs, ~regs'[r].retired
      PROVE  r \in registrations'
  <2>1. ~regs[r].retired
    BY <1>1, <1>2 DEF RegsMonotone, Later
  <2>2. r \notin ids
    <3>1. regs[r] \in Registration
      BY ElementOfSeq, LenProperties DEF TypeOK
    <3>2. r \in ids => regs'[r] = [regs[r] EXCEPT !.active = FALSE, !.retired = TRUE]
      BY RetiredProperties
    <3>3. r \in ids => regs'[r].retired
      BY <3>1, <3>2, RetireRecord
    <3> QED
      BY <1>2, <3>3
  <2> QED
    BY <2>1, <2>2 DEF OneRegistrationPerHost
<1> QED
  BY <1>1, <1>2, HostFrame

\* A replacement retires every listed registration of its registry and context.
LEMMA HostRegister ==
  ASSUME TypeOK, OneRegistrationPerHost, NEW i \in Identities,
         NEW runtime \in Callers \cup {NoRuntime}, registerModule(i, runtime)
  PROVE  OneRegistrationPerHost'
<1> DEFINE bound == runtime # NoRuntime
           new == [identity |-> i, runtime |-> runtime,
                   processGeneration |-> processGeneration',
                   active |-> bound, runtimeBound |-> bound, retired |-> FALSE]
           ids == {r \in registrations :
                     /\ regs[r].identity.moduleRegistry = i.moduleRegistry
                     /\ regs[r].identity.logicalContext = i.logicalContext}
           n == Len(regs) + 1
<1>1. processGeneration' \in Nat /\ bound \in BOOLEAN
  BY DEF registerModule, ensureReadyLocked, TypeOK
<1>2. /\ new \in Registration /\ ~new.retired /\ (new.runtimeBound => new.active)
      /\ new.identity = i
  BY <1>1 DEF Registration
<1>3. /\ regs' = Append(Retired(ids), new)
      /\ registrations' = registrations \cup {n}
  BY DEF registerModule
<1>4. \A r \in ids : regs[r].identity.moduleRegistry = i.moduleRegistry
                     /\ regs[r].identity.logicalContext = i.logicalContext
  OBVIOUS
<1>5. ids \subseteq registrations /\ \A r \in registrations : SameHost(regs[r].identity, i) => r \in ids
  BY DEF SameHost
<1> HIDE DEF new, ids
<1>6. RegsMonotone /\ DOMAIN regs' = DOMAIN regs \cup {n}
  BY <1>2, <1>3, RegisterMonotone
<1>7. /\ Retired(ids) \in Seq(Registration) /\ Len(Retired(ids)) = Len(regs)
      /\ \A r \in DOMAIN regs :
           Retired(ids)[r] = IF r \in ids
                             THEN [regs[r] EXCEPT !.active = FALSE, !.retired = TRUE]
                             ELSE regs[r]
  BY RetiredProperties
<1>8. DOMAIN regs = 1..Len(regs) /\ Len(regs) \in Nat /\ n \notin DOMAIN regs
  BY LenProperties DEF TypeOK
<1>9. regs'[n] = new /\ \A r \in DOMAIN regs : regs'[r] = Retired(ids)[r]
  <2> DEFINE old == Retired(ids)
  <2>1. old \in Seq(Registration) /\ Len(old) = Len(regs)
    BY <1>7
  <2> HIDE DEF old
  <2>2. /\ Append(old, new)[Len(old) + 1] = new
        /\ \A r \in 1..Len(old) : Append(old, new)[r] = old[r]
    BY <1>2, <2>1, AppendProperties
  <2>3. regs' = Append(old, new)
    BY <1>3 DEF old
  <2>4. regs'[n] = new /\ \A r \in DOMAIN regs : regs'[r] = old[r]
    BY <1>8, <2>1, <2>2, <2>3
  <2> QED
    BY <2>4 DEF old
<1> HIDE DEF n
<1>10. ASSUME NEW r \in DOMAIN regs, ~regs'[r].retired
       PROVE  ~regs[r].retired /\ r \in registrations /\ ~SameHost(regs[r].identity, i)
  <2>1. ~regs[r].retired
    BY <1>6, <1>10 DEF RegsMonotone, Later
  <2>2. r \in registrations
    BY <2>1 DEF OneRegistrationPerHost
  <2>3. regs[r] \in Registration
    BY ElementOfSeq, LenProperties DEF TypeOK
  <2>4. r \notin ids
    BY <1>7, <1>9, <1>10, <2>3, RetireRecord
  <2> QED
    BY <1>5, <2>1, <2>2, <2>4
<1>11. \A r \in DOMAIN regs : regs'[r].identity = regs[r].identity
  BY <1>6 DEF RegsMonotone, Later
<1>12. ASSUME NEW r \in DOMAIN regs', ~regs'[r].retired,
              NEW s \in DOMAIN regs' \ {r}, SameHost(regs'[s].identity, regs'[r].identity)
       PROVE  regs'[s].retired
  <2>1. CASE r = n
    BY <1>2, <1>6, <1>9, <1>10, <1>11, <1>12, <2>1
  <2>2. CASE r # n /\ s = n
    BY <1>2, <1>6, <1>9, <1>10, <1>11, <1>12, <2>2 DEF SameHost
  <2>3. CASE r # n /\ s # n
    <3>1. r \in DOMAIN regs /\ s \in DOMAIN regs
      BY <1>6, <2>3
    <3>2. ~regs[r].retired /\ SameHost(regs[s].identity, regs[r].identity)
      BY <1>10, <1>11, <1>12, <3>1
    <3>3. regs[s].retired
      BY <1>12, <3>1, <3>2 DEF OneRegistrationPerHost, SameHost
    <3> QED
      BY <1>6, <3>1, <3>3 DEF RegsMonotone, Later
  <2> QED
    BY <2>1, <2>2, <2>3
<1>13. \A r \in DOMAIN regs' : ~regs'[r].retired => r \in registrations'
  BY <1>3, <1>6, <1>10
<1> QED
  BY <1>12, <1>13 DEF OneRegistrationPerHost, SameHost

LEMMA HostStep ==
  ASSUME TypeOK, RequestInv, OneRegistrationPerHost, [Next]_vars
  PROVE  OneRegistrationPerHost'
<1>1. CASE UNCHANGED <<regs, registrations>>
  BY <1>1 DEF OneRegistrationPerHost
<1>2. ASSUME NEW r \in DOMAIN regs, invalidate(r)
      PROVE  OneRegistrationPerHost'
  BY <1>2, HostRetire DEF invalidate
<1>3. ASSUME NEW ids, invalidateListed(ids)
      PROVE  OneRegistrationPerHost'
  BY <1>3, HostRetire DEF invalidateListed
<1>4. CASE Lifecycle
  BY <1>1, <1>2, <1>3, <1>4, HostRegister
     DEF Lifecycle, registerProcessLifecycle, invalidateProvider, invalidateContext
<1>5. ASSUME NEW t \in Teardowns, Teardown(t)
      PROVE  OneRegistrationPerHost'
  <2>1. CASE regs' = Retired(registrations)
    BY <2>1, HostRetire
  <2>2. CASE UNCHANGED <<regs, registrations>>
    BY <1>1, <2>2
  <2> QED
    BY <1>5, <2>1, <2>2 DEF Teardown, TeardownDrain, TeardownLock, TeardownClose, coordinator
<1>6. ASSUME NEW c \in Callers, begin(c)
      PROVE  OneRegistrationPerHost'
  <2>1. RegsMonotone /\ DOMAIN regs' = DOMAIN regs
    BY <1>6, BeginMonotone
  <2>2. registrations' = registrations
    BY <1>6 DEF begin
  <2> QED
    BY <2>1, <2>2, HostFrame DEF OneRegistrationPerHost, RegsMonotone, Later
<1>7. ASSUME NEW c \in Callers, Invoking(c)
      PROVE  OneRegistrationPerHost'
  BY <1>1, <1>6, <1>7 DEF Invoking, LockExecution, BeginFails, CoreError, copyOwnedBytes,
       runtimeIdentity, DeliverLock, DeliverCheck, DeliverResult, finish, UnlockExecution,
       coordinator
<1>8. ASSUME NEW c \in Callers, NEW r \in DOMAIN regs, Call(c, r)
      PROVE  OneRegistrationPerHost'
  BY <1>1, <1>8 DEF Call, coordinator
<1> QED
  BY <1>1, <1>4, <1>5, <1>7, <1>8 DEF Next, vars, coordinator

\* However registrations are replaced, invalidated and torn down, a registry
\* and context has at most one that may still be admitted, and it is listed.
THEOREM OneHostRegistration == Spec => []OneRegistrationPerHost
<1>1. Init => OneRegistrationPerHost
  BY EmptySeq DEF Init, OneRegistrationPerHost
<1>2. SafetyInv /\ OneRegistrationPerHost /\ [Next]_vars => OneRegistrationPerHost'
  BY HostStep DEF SafetyInv, DeliveryInv
<1> QED
  BY <1>1, <1>2, SafetyInductive, PTL DEF Spec
-----------------------------------------------------------------------------
(***************************************************************************)
(* The dead stay dead                                                      *)
(***************************************************************************)

\* A request is of a lifecycle that existed and of a registration that is bound
\* to its runtime; a bound registration is active until it is retired.
BoundInv ==
  /\ processGeneration <= generations
  /\ \A r \in DOMAIN regs : regs[r].runtimeBound => regs[r].active \/ regs[r].retired
  /\ \A c \in Callers : request[c].registration # 0 =>
       /\ request[c].registration \in DOMAIN regs
       /\ regs[request[c].registration].runtimeBound
       /\ regs[request[c].registration].runtime = request[c].runtime
       /\ request[c].processGeneration <= generations

\* Lifecycles are numbered upwards, and only a step into "ready" starts one.
LEMMA GenerationStep ==
  ASSUME TypeOK, BoundInv, [Next]_vars
  PROVE  /\ generations <= generations'
         /\ processGeneration' <= generations'
         /\ processState = "ready" /\ processState' = "ready"
              => processGeneration' = processGeneration
         /\ processState # "ready" /\ processState' = "ready"
              => processGeneration' = generations + 1
<1>1. CASE UNCHANGED <<processState, processGeneration, generations>>
  BY <1>1 DEF TypeOK, BoundInv
<1>2. CASE ensureReadyLocked
  BY <1>2 DEF ensureReadyLocked, TypeOK, BoundInv
<1>3. CASE Lifecycle
  BY <1>1, <1>2, <1>3 DEF Lifecycle, registerProcessLifecycle, registerModule, invalidate,
       invalidateListed, invalidateProvider, invalidateContext
<1>4. ASSUME NEW t \in Teardowns, Teardown(t)
      PROVE  /\ generations' = generations
             /\ processGeneration' \in {0, processGeneration}
             /\ processState' = "ready" =>
                  processState = "ready" /\ processGeneration' = processGeneration
  BY <1>4 DEF Teardown, TeardownDrain, TeardownLock, TeardownClose, coordinator
<1>5. ASSUME NEW c \in Callers, Invoking(c)
      PROVE  UNCHANGED <<processState, processGeneration, generations>>
  BY <1>5 DEF Invoking, LockExecution, begin, BeginFails, CoreError, copyOwnedBytes,
       runtimeIdentity, DeliverLock, DeliverCheck, DeliverResult, finish, UnlockExecution,
       coordinator
<1>6. ASSUME NEW c \in Callers, NEW r \in DOMAIN regs, Call(c, r)
      PROVE  UNCHANGED <<processState, processGeneration, generations>>
  BY <1>6 DEF Call, coordinator
<1>7. CASE UNCHANGED vars
  BY <1>1, <1>7 DEF vars, coordinator
<1> QED
  BY <1>1, <1>3, <1>4, <1>5, <1>6, <1>7 DEF Next, TypeOK, BoundInv

\* A request changes only when it is begun, with its registration, and dropped.
LEMMA RequestChange ==
  ASSUME TypeOK, [Next]_vars, NEW c \in Callers
  PROVE  \/ request'[c] = request[c]
         \/ request'[c].registration = 0
         \/ begin(c)
<1>1. CASE UNCHANGED request
  BY <1>1
<1>2. CASE Lifecycle
  BY <1>2, LifecycleFrame DEF threads
<1>3. ASSUME NEW t \in Teardowns, Teardown(t)
      PROVE  UNCHANGED request
  BY <1>3 DEF Teardown, TeardownDrain, TeardownLock, TeardownClose
<1>4. ASSUME NEW d \in Callers, UnlockExecution(d)
      PROVE  request'[c] = request[c] \/ request'[c].registration = 0
  BY <1>4 DEF UnlockExecution, NoRequest, TypeOK
<1>5. ASSUME NEW d \in Callers, begin(d), d # c
      PROVE  request'[c] = request[c]
  BY <1>5 DEF begin, TypeOK
<1>6. ASSUME NEW d \in Callers, Invoking(d)
      PROVE  UNCHANGED request \/ UnlockExecution(d) \/ begin(d)
  BY <1>6 DEF Invoking, LockExecution, BeginFails, CoreError, copyOwnedBytes,
       runtimeIdentity, DeliverLock, DeliverCheck, DeliverResult, finish
<1>7. ASSUME NEW d \in Callers, NEW r \in DOMAIN regs, Call(d, r)
      PROVE  UNCHANGED request
  BY <1>7 DEF Call
<1> QED
  BY <1>1, <1>2, <1>3, <1>4, <1>5, <1>6, <1>7 DEF Next, vars, threads

LEMMA BoundStep ==
  ASSUME TypeOK, RequestInv, BoundInv, [Next]_vars
  PROVE  BoundInv'
<1>1. RegsMonotone
  BY TypeStep
<1>2. generations <= generations' /\ processGeneration' <= generations'
  BY GenerationStep
<1>3. \A r \in DOMAIN regs' : regs'[r].runtimeBound => regs'[r].active \/ regs'[r].retired
  BY <1>1 DEF RegsMonotone, Later, BoundInv
<1>4. ASSUME NEW c \in Callers, request'[c].registration # 0
      PROVE  /\ request'[c].registration \in DOMAIN regs'
             /\ regs'[request'[c].registration].runtimeBound
             /\ regs'[request'[c].registration].runtime = request'[c].runtime
             /\ request'[c].processGeneration <= generations'
  <2> DEFINE q == request'[c]
             r == q.registration
  <2>1. CASE request'[c] = request[c]
    <3>1. r \in DOMAIN regs /\ regs[r].runtimeBound /\ regs[r].runtime = q.runtime
      BY <1>4, <2>1 DEF BoundInv
    <3>2. regs'[r].runtimeBound /\ regs'[r].runtime = q.runtime /\ r \in DOMAIN regs'
      BY <1>1, <3>1 DEF RegsMonotone, Later
    <3>3. q.processGeneration <= generations'
      <4>1. q.processGeneration \in Nat /\ generations \in Nat /\ generations' \in Nat
        BY <2>1, TypeStep DEF TypeOK
      <4>2. q.processGeneration <= generations
        BY <1>4, <2>1 DEF BoundInv
      <4> HIDE DEF q
      <4> QED
        BY <1>2, <4>1, <4>2
    <3> QED
      BY <3>2, <3>3
  <2>2. CASE begin(c)
    <3>1. q = [registration |-> target[c], processGeneration |-> processGeneration,
               runtime |-> c]
      BY <2>2 DEF begin, TypeOK
    <3>2. target[c] \in DOMAIN regs
      BY <2>2 DEF begin, RequestInv
    <3>3. regs[target[c]] \in Registration
      BY <3>2, ElementOfSeq, LenProperties DEF TypeOK
    <3>4. regs'[target[c]] = [regs[target[c]] EXCEPT !.runtime = c, !.runtimeBound = TRUE,
                                                     !.active = TRUE]
      BY <2>2, <3>2 DEF begin
    <3>5. regs'[target[c]].runtimeBound /\ regs'[target[c]].runtime = c
      BY <3>3, <3>4 DEF Registration
    <3>6. target[c] \in DOMAIN regs'
      BY <1>1, <3>2 DEF RegsMonotone
    <3>7. processGeneration <= generations'
      BY <2>2 DEF begin, BoundInv
    <3> QED
      BY <3>1, <3>5, <3>6, <3>7
  <2> QED
    BY <1>4, <2>1, <2>2, RequestChange
<1> QED
  BY <1>2, <1>3, <1>4 DEF BoundInv

\* A request that died with its registration or its lifecycle is not revived by
\* a later lifecycle, which has a number of its own.
THEOREM NoRevival == Spec => DeadRequestsStayDead
<1>1. Init => BoundInv
  BY EmptySeq DEF Init, BoundInv, NoRequest
<1>2. TypeOK /\ RequestInv /\ BoundInv /\ [Next]_vars => BoundInv'
  BY BoundStep
<1>3. TypeOK /\ RequestInv /\ BoundInv /\ [Next]_vars =>
        [\A c \in Callers :
           request[c].registration # 0 /\ request'[c] = request[c] /\ ~isLive(request[c])
             => ~isLive(request[c])']_vars
  <2> SUFFICES ASSUME TypeOK, RequestInv, BoundInv, [Next]_vars, NEW c \in Callers,
                      request[c].registration # 0, request'[c] = request[c],
                      isLive(request[c])'
               PROVE  isLive(request[c])
    OBVIOUS
  <2> DEFINE q == request[c]
             r == q.registration
  <2>1. /\ processState' = "ready" /\ ~regs'[r].retired
        /\ q.runtime # NoRuntime /\ q.processGeneration = processGeneration'
        /\ q.processGeneration # 0
    BY DEF isLive
  <2>2. /\ r \in DOMAIN regs /\ regs[r].runtimeBound /\ regs[r].runtime = q.runtime
        /\ q.processGeneration <= generations
        /\ regs[r].active \/ regs[r].retired
    BY DEF BoundInv
  <2>3. ~regs[r].retired
    BY <2>1, <2>2, TypeStep DEF RegsMonotone, Later
  <2>4. processState = "ready"
    <3>1. q.processGeneration \in Nat /\ generations \in Nat
      BY DEF TypeOK
    <3> HIDE DEF q
    <3> QED
      BY <2>1, <2>2, <3>1, GenerationStep
  <2>5. processGeneration = q.processGeneration
    BY <2>1, <2>4, GenerationStep
  <2> QED
    BY <2>1, <2>2, <2>3, <2>4, <2>5 DEF isLive
<1>4. SafetyInv => TypeOK /\ RequestInv
  BY DEF SafetyInv, DeliveryInv
<1> QED
  BY <1>1, <1>2, <1>3, <1>4, SafetyInductive, PTL DEF Spec, DeadRequestsStayDead
=============================================================================
