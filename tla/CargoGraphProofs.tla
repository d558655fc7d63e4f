--------------------------- MODULE CargoGraphProofs ---------------------------
(***************************************************************************)
(* The walk over the Cargo metadata is correct for every graph and every   *)
(* number of targets.  The invariant says what holds in the middle of a    *)
(* walk: what was entered or pushed is shipped (Sound), the targets walked *)
(* before are entered completely (Past), and of the current one the        *)
(* visited packages are entered and their dependencies are visited or on   *)
(* the stack (Frontier).  When the stack is empty the visited set is       *)
(* closed, so it holds everything the target ships.                        *)
(***************************************************************************)
EXTENDS CargoGraph, TLAPS

Role(i) == Targets(script)[i]

Sound ==
    /\ \A id \in Ids : \A r \in packageMap[id] :
           \E i \in 1 .. current : Role(i) = r /\ Shipped(metadata[i], id)
    /\ \A e \in edgeMap :
           \E i \in 1 .. current : Shipped(metadata[i], e[1]) /\ Needs(metadata[i], e[1], e[2])
    /\ \A id \in stack \cup visited : current > 0 /\ Shipped(metadata[current], id)

Entered(i) ==
    /\ \A id \in Ids : Shipped(metadata[i], id) => Role(i) \in packageMap[id]
    /\ \A a \in Ids, b \in Ids :
           Shipped(metadata[i], a) /\ Needs(metadata[i], a, b) => <<a, b>> \in edgeMap
    /\ Complete(metadata[i])

(* The packages the walk can enter. *)
Known(md) == (md.packages \cap md.nodes) \ md.outside

Past == \A i \in 1 .. current - 1 : Entered(i)

Frontier ==
    current > 0 =>
        /\ metadata[current].roots \subseteq stack \cup visited
        /\ Startable(metadata[current])
        /\ \A a \in visited :
               /\ Role(current) \in packageMap[a]
               /\ a \in Known(metadata[current])
               /\ \A b \in Ids : Needs(metadata[current], a, b) =>
                      b \in stack \cup visited /\ <<a, b>> \in edgeMap

Ended ==
    /\ outcome = "collected" => stack = {} /\ current = Len(Targets(script))
    /\ outcome = "failed" => \E i \in Indices(script) : ~Complete(metadata[i])

Inv == TypeOK /\ Sound /\ Past /\ Frontier /\ Ended

(* The dependencies the scripts follow are the normal ones. *)
LEMMA FollowedAreNeeded ==
    ASSUME NEW md \in Metadata, NEW a \in Ids
    PROVE  /\ normalRuntimeDependency(md, a) \subseteq Ids
           /\ \A b \in Ids : b \in normalRuntimeDependency(md, a) <=> Needs(md, a, b)
BY DEF Metadata, normalRuntimeDependency, Needs

(* The targets are natural in number and each has a role. *)
LEMMA TargetFacts ==
    ASSUME script \in {"npm", "c-abi"}
    PROVE  /\ Len(Targets(script)) \in Nat
           /\ \A i \in Indices(script) : Targets(script)[i] \in Roles
BY GraphAssumption DEF Targets, Indices, Roles

(* A target ships what a shipped package needs. *)
LEMMA ShippedNeeds ==
    ASSUME NEW md \in Metadata, NEW a \in Ids, NEW b \in Ids, Shipped(md, a), Needs(md, a, b)
    PROVE  Shipped(md, b)
BY DEF Shipped, Closed

(* A closed set with the root holds everything shipped. *)
LEMMA ShippedInClosed ==
    ASSUME NEW md \in Metadata, NEW S \in SUBSET Ids, md.roots \subseteq S, Closed(md, S),
           NEW id \in Ids, Shipped(md, id)
    PROVE  id \in S
BY DEF Shipped

(* When the stack is empty the current target is entered completely. *)
LEMMA EmptyStackEntered ==
    ASSUME TypeOK, Frontier, stack = {}, current > 0
    PROVE  Entered(current)
<1> DEFINE md == metadata[current]
<1>1. md \in Metadata /\ current \in Indices(script)
  BY TargetFacts DEF TypeOK, Indices
<1>2. Closed(md, visited) /\ md.roots \subseteq visited
  BY DEF Frontier, Closed
<1>3. \A id \in Ids : Shipped(md, id) => id \in visited
  BY <1>1, <1>2, ShippedInClosed DEF TypeOK
<1>4. \A id \in Ids : Shipped(md, id) => Role(current) \in packageMap[id]
  BY <1>3 DEF Frontier
<1>5. \A a \in Ids, b \in Ids : Shipped(md, a) /\ Needs(md, a, b) => <<a, b>> \in edgeMap
  BY <1>3 DEF Frontier
<1>6. Complete(md)
  BY <1>1, <1>3 DEF Frontier, Complete, Known, Startable, Sourced, Metadata
<1> QED
  BY <1>4, <1>5, <1>6 DEF Entered

LEMMA InitInv == Init => Inv
<1> SUFFICES ASSUME Init PROVE Inv
  OBVIOUS
<1>1. TypeOK
  BY TargetFacts, GraphAssumption DEF Init, TypeOK, Indices
<1>2. Sound /\ Past /\ Frontier /\ Ended
  BY DEF Init, Sound, Past, Frontier, Ended
<1> QED
  BY <1>1, <1>2 DEF Inv

(* A failing step keeps the invariant when some document is incomplete. *)
LEMMA FailInv ==
    ASSUME Inv, Fail, outcome = "running", \E i \in Indices(script) : ~Complete(metadata[i])
    PROVE  Inv'
BY DEF Inv, Fail, TypeOK, Sound, Past, Entered, Complete, Frontier, Startable, Known,
          Ended, Role, Indices, Targets

LEMMA StartTargetInv == Inv /\ StartTarget => Inv'
<1> SUFFICES ASSUME Inv, StartTarget PROVE Inv'
  OBVIOUS
<1> DEFINE md == metadata[current + 1]
<1> USE DEF Inv
<1>1. current + 1 \in Indices(script) /\ md \in Metadata /\ current \in Nat
  BY TargetFacts DEF StartTarget, TypeOK, Indices
<1>2. CASE Startable(md)
  <2>1. /\ outcome = "running" /\ stack = {} /\ current < Len(Targets(script))
        /\ current' = current + 1 /\ stack' = md.roots /\ visited' = {}
        /\ UNCHANGED <<script, metadata, packageMap, edgeMap, outcome>>
    BY <1>2 DEF StartTarget
  <2>2. TypeOK'
    BY <2>1, <1>1 DEF TypeOK, Metadata, Indices, Targets
  <2>3. \A id \in md.roots : Shipped(md, id)
    BY <1>1 DEF Shipped, Metadata
  <2>4. Sound'
    BY <2>1, <2>3, <1>1 DEF Sound, Role, Targets
  <2>5. \A i \in 1 .. current : Entered(i)
    BY <2>1, <1>1, EmptyStackEntered DEF Past
  <2>6. Past'
    BY <2>1, <2>5, <1>1 DEF Past, Entered, Complete, Role, Targets
  <2>7. Frontier'
    BY <2>1, <1>2, <1>1 DEF Frontier, Startable
  <2>8. Ended'
    BY <2>1 DEF Ended
  <2> QED
    BY <2>2, <2>4, <2>6, <2>7, <2>8
<1>3. CASE ~Startable(md)
  <2>1. Fail /\ outcome = "running"
    BY <1>3 DEF StartTarget
  <2>2. md.packages \subseteq Ids /\ md.outside \subseteq md.packages
    BY <1>1 DEF Metadata
  <2>3. ~Complete(md)
    BY <1>3, <2>2 DEF Complete, Startable, Sourced
  <2> QED
    BY <2>1, <2>3, <1>1, FailInv
<1> QED
  BY <1>2, <1>3

LEMMA SkipInv == ASSUME Inv, NEW id \in stack, Skip(id) PROVE Inv'
<1> USE DEF Inv
<1>1. TypeOK'
  BY DEF Skip, TypeOK, Indices, Targets
<1>2. stack' \cup visited' = stack \cup visited
  BY DEF Skip
<1>3. Sound'
  BY <1>2 DEF Skip, Sound, Role, Targets
<1>4. Past'
  BY DEF Skip, Past, Entered, Complete, Role, Targets
<1>5. Frontier'
  BY <1>2 DEF Skip, Frontier, Startable, Role, Targets
<1>6. Ended'
  BY DEF Skip, Ended, Complete, Indices, Targets
<1> QED
  BY <1>1, <1>3, <1>4, <1>5, <1>6

LEMMA VisitInv == ASSUME Inv, outcome = "running", NEW id \in stack, Visit(id) PROVE Inv'
<1> DEFINE md == metadata[current]
           deps == normalRuntimeDependency(md, id)
           role == Role(current)
<1> USE DEF Inv
<1>1. current \in Nat /\ current > 0 /\ current \in Indices(script) /\ md \in Metadata /\ id \in Ids
  BY TargetFacts DEF TypeOK, Sound, Indices
<1>2. Shipped(md, id)
  BY DEF Sound
<1>3. deps \subseteq Ids /\ \A b \in Ids : b \in deps <=> Needs(md, id, b)
  BY <1>1, FollowedAreNeeded
<1>4. \A b \in deps : Shipped(md, b)
  BY <1>1, <1>2, <1>3, ShippedNeeds
<1>5. role \in Roles
  BY <1>1, TargetFacts DEF TypeOK, Role
<1>6. CASE /\ id \in md.packages \cap md.nodes /\ deps \subseteq md.packages
           /\ Sourced(md, {id} \cup deps)
  <2> DEFINE entered == IF script = "npm" THEN {id} \cup deps ELSE {id}
  <2>1. /\ visited' = visited \cup {id} /\ stack' = (stack \ {id}) \cup deps
        /\ packageMap' = addCargoPackage(packageMap, entered, role)
        /\ edgeMap' = edgeMap \cup {<<id, d>> : d \in deps}
        /\ UNCHANGED <<script, metadata, current, outcome>>
    BY <1>6 DEF Visit, Role
  <2>2. \A x \in entered : x \in Ids /\ Shipped(md, x)
    BY <1>1, <1>2, <1>3, <1>4
  <2>3. \A x \in Ids : packageMap'[x] = IF x \in entered THEN packageMap[x] \cup {role} ELSE packageMap[x]
    BY <2>1 DEF addCargoPackage
  <2>4. TypeOK'
    <3>1. packageMap' \in [Ids -> SUBSET Roles]
      BY <2>1, <1>5 DEF addCargoPackage, TypeOK
    <3>2. stack' \subseteq Ids /\ visited' \subseteq Ids /\ edgeMap' \subseteq Ids \X Ids
      BY <2>1, <1>1, <1>3 DEF TypeOK
    <3> QED
      BY <3>1, <3>2, <2>1 DEF TypeOK, Indices, Targets
  <2>5. Sound'
    <3>1. \A x \in Ids : \A r \in packageMap'[x] :
              \E i \in 1 .. current : Role(i) = r /\ Shipped(metadata[i], x)
      <4> SUFFICES ASSUME NEW x \in Ids, NEW r \in packageMap'[x]
                   PROVE  \E i \in 1 .. current : Role(i) = r /\ Shipped(metadata[i], x)
        OBVIOUS
      <4>1. CASE r \in packageMap[x]
        BY <4>1 DEF Sound
      <4>2. CASE r = role /\ x \in entered
        BY <4>2, <2>2, <1>1
      <4>3. packageMap'[x] = IF x \in entered THEN packageMap[x] \cup {role} ELSE packageMap[x]
        BY <2>3
      <4>4. r \in packageMap[x] \/ (r = role /\ x \in entered)
        <5> HIDE DEF entered, role
        <5> QED
          BY <4>3
      <4> QED
        BY <4>1, <4>2, <4>4
    <3>2. \A e \in edgeMap' :
              \E i \in 1 .. current : Shipped(metadata[i], e[1]) /\ Needs(metadata[i], e[1], e[2])
      BY <2>1, <1>1, <1>2, <1>3 DEF Sound
    <3>3. \A x \in stack' \cup visited' : Shipped(md, x)
      BY <2>1, <1>2, <1>4 DEF Sound
    <3> QED
      BY <3>1, <3>2, <3>3, <2>1, <1>1 DEF Sound, Role, Targets
  <2>6. (\A x \in Ids : packageMap[x] \subseteq packageMap'[x]) /\ edgeMap \subseteq edgeMap'
    BY <2>1, <2>3
  <2>7. Past'
    BY <2>6, <2>1 DEF Past, Entered, Complete, Role, Targets
  <2>8. Frontier'
    <3>1. stack \cup visited \subseteq stack' \cup visited'
      BY <2>1
    <3>2. \A a \in visited' :
              /\ role \in packageMap'[a]
              /\ a \in Known(md)
              /\ \A b \in Ids : Needs(md, a, b) => b \in stack' \cup visited' /\ <<a, b>> \in edgeMap'
      <4> SUFFICES ASSUME NEW a \in visited'
                   PROVE  /\ role \in packageMap'[a]
                          /\ a \in Known(md)
                          /\ \A b \in Ids : Needs(md, a, b) => b \in stack' \cup visited' /\ <<a, b>> \in edgeMap'
        OBVIOUS
      <4>1. CASE a = id
        BY <4>1, <1>1, <1>3, <1>6, <2>1, <2>3 DEF Known, Sourced
      <4>2. CASE a \in visited
        BY <4>2, <1>1, <2>6, <3>1 DEF Frontier, TypeOK
      <4> QED
        BY <4>1, <4>2, <2>1
    <3> QED
      BY <3>1, <3>2, <2>1, <1>1 DEF Frontier, Startable, Role, Targets
  <2>9. Ended'
    BY <2>1 DEF Ended
  <2> QED
    BY <2>4, <2>5, <2>7, <2>8, <2>9
<1>7. CASE ~(/\ id \in md.packages \cap md.nodes /\ deps \subseteq md.packages
             /\ Sourced(md, {id} \cup deps))
  <2>1. Fail
    BY <1>7 DEF Visit
  <2>2. ~Complete(md)
    BY <1>1, <1>2, <1>3, <1>4, <1>7 DEF Complete, Sourced
  <2> QED
    BY <2>1, <2>2, <1>1, FailInv
<1> QED
  BY <1>6, <1>7

LEMMA NextInv == Inv /\ [Next]_vars => Inv'
<1> SUFFICES ASSUME Inv, [Next]_vars PROVE Inv'
  OBVIOUS
<1>1. CASE StartTarget
  BY <1>1, StartTargetInv
<1>2. CASE Walk
  BY <1>2, SkipInv, VisitInv DEF Walk
<1>3. CASE Finish
  BY <1>3 DEF Finish, Inv, TypeOK, Sound, Past, Entered, Complete, Frontier, Startable, Known,
          Ended, Role, Indices, Targets
<1>4. CASE UNCHANGED vars
  BY <1>4 DEF vars, Inv, TypeOK, Sound, Past, Entered, Complete, Frontier, Startable, Known,
          Ended, Role, Indices, Targets
<1> QED
  BY <1>1, <1>2, <1>3, <1>4 DEF Next

LEMMA Invariance == Spec => []Inv
<1>1. Init => Inv
  BY InitInv
<1>2. Inv /\ [Next]_vars => Inv'
  BY NextInv
<1> QED
  BY <1>1, <1>2, PTL DEF Spec

(* A finished walk has entered every target completely. *)
LEMMA CollectedEntered ==
    ASSUME Inv, outcome = "collected", NEW i \in Indices(script)
    PROVE  Entered(i)
<1>1. current = Len(Targets(script)) /\ stack = {} /\ current \in Nat
  BY TargetFacts DEF Inv, Ended, TypeOK
<1>2. CASE i < current
  BY <1>1, <1>2 DEF Inv, Past, Indices
<1>3. CASE i = current
  BY <1>1, <1>3, EmptyStackEntered DEF Inv, Indices
<1> QED
  BY <1>1, <1>2, <1>3 DEF Indices

(* Whatever the graphs, the packages collected with a role are those shipped
   by a target of that role (collectCargoGraph, collectRuntimeGraph).       *)
THEOREM RolesAreShipped == Spec => []RolesAreWhatIsShipped
<1>1. Inv => RolesAreWhatIsShipped
  <2> SUFFICES ASSUME Inv, outcome = "collected", NEW id \in Ids, NEW r \in Roles
               PROVE  (r \in packageMap[id]) <=>
                         \E i \in Indices(script) : Targets(script)[i] = r /\ Shipped(metadata[i], id)
    BY DEF RolesAreWhatIsShipped
  <2>1. ASSUME r \in packageMap[id]
        PROVE  \E i \in Indices(script) : Targets(script)[i] = r /\ Shipped(metadata[i], id)
    BY <2>1 DEF Inv, Sound, Ended, Role, Indices
  <2>2. ASSUME NEW i \in Indices(script), Targets(script)[i] = r, Shipped(metadata[i], id)
        PROVE  r \in packageMap[id]
    BY <2>2, CollectedEntered DEF Entered, Role
  <2> QED
    BY <2>1, <2>2
<1> QED
  BY <1>1, Invariance, PTL

(* Whatever the graphs, the relationships collected are the normal
   dependencies of shipped packages.                                        *)
THEOREM EdgesAreShipped == Spec => []EdgesAreShippedDependencies
<1>1. Inv => EdgesAreShippedDependencies
  <2> SUFFICES ASSUME Inv, outcome = "collected", NEW a \in Ids, NEW b \in Ids
               PROVE  (<<a, b>> \in edgeMap) <=>
                         \E i \in Indices(script) : Shipped(metadata[i], a) /\ Needs(metadata[i], a, b)
    BY DEF EdgesAreShippedDependencies
  <2>1. ASSUME <<a, b>> \in edgeMap
        PROVE  \E i \in Indices(script) : Shipped(metadata[i], a) /\ Needs(metadata[i], a, b)
    <3>1. PICK i \in 1 .. current : Shipped(metadata[i], <<a, b>>[1]) /\ Needs(metadata[i], <<a, b>>[1], <<a, b>>[2])
      BY <2>1 DEF Inv, Sound
    <3> QED
      BY <3>1 DEF Inv, Ended, Indices
  <2>2. ASSUME NEW i \in Indices(script), Shipped(metadata[i], a), Needs(metadata[i], a, b)
        PROVE  <<a, b>> \in edgeMap
    BY <2>2, CollectedEntered DEF Entered
  <2> QED
    BY <2>1, <2>2
<1> QED
  BY <1>1, Invariance, PTL

(* Whatever the graphs, a finished walk has collected the packages that are
   shipped, with their roles, and the dependencies between them.            *)
THEOREM CollectedIsShipped == Spec => []CollectedIsWhatIsShipped
BY RolesAreShipped, EdgesAreShipped, PTL DEF CollectedIsWhatIsShipped

(* Whatever the documents, generation fails exactly when one of them has an
   unsupported shape, no single resolved crate, a shipped package that is
   unknown or from outside the checkout or, for the npm package, any package
   from outside the checkout (cargoPackageSource, cargoSource).             *)
THEOREM FailsExactlyOnIncomplete == Spec => []CollectedIffComplete
<1>1. Inv => CollectedIffComplete
  <2>1. ASSUME Inv, outcome = "collected", NEW i \in Indices(script)
        PROVE  Complete(metadata[i])
    BY <2>1, CollectedEntered DEF Entered
  <2> QED
    BY <2>1 DEF CollectedIffComplete, Inv, Ended
<1> QED
  BY <1>1, Invariance, PTL
=============================================================================
