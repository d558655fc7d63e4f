------------------------------ MODULE CargoGraph ------------------------------
(***************************************************************************)
(* Which Cargo packages the software bills of materials list.              *)
(*                                                                         *)
(* collectCargoGraph (release-sbom.mjs, the npm package) and               *)
(* collectRuntimeGraph (c-abi-sbom.mjs, the C ABI archives) read one       *)
(* `cargo metadata` document per target and walk its resolve graph from    *)
(* the binding's crate along the normal dependencies.  A package gets a    *)
(* role for every target that ships it: the artifact kind of the target    *)
(* (npm) or the target itself (C ABI).  The two walks differ in when they  *)
(* enter a package in the map: with the edge that leads to it, or when it  *)
(* is visited.                                                             *)
(*                                                                         *)
(* A package is its identity (name, version and source).  The stack is     *)
(* kept as the set of what is on it: whatever order it is popped in is a   *)
(* behaviour of the model.                                                 *)
(***************************************************************************)
EXTENDS Naturals, Sequences

CONSTANTS
    Ids,                \* package identities
    NATIVE_TARGETS,     \* sequence of the roles of the npm targets
    C_ABI_TARGET_ORDER, \* sequence of the C ABI targets
    Observed            \* the metadata documents the walk may be given

(* A metadata document: supported tells whether it has the version and the
   shape the scripts read; packages is its package list, outside those of
   them that are path packages with no directory below the checkout's root,
   nodes its resolve nodes, roots the packages with the name of the
   binding's crate.                                                         *)
Metadata ==
    {md \in [supported : BOOLEAN, packages : SUBSET Ids, outside : SUBSET Ids,
             nodes : SUBSET Ids, roots : SUBSET Ids,
             deps : SUBSET [from : Ids, pkg : Ids, normal : BOOLEAN]] :
        md.roots \cup md.outside \subseteq md.packages}

Targets(s) == IF s = "npm" THEN NATIVE_TARGETS ELSE C_ABI_TARGET_ORDER
Indices(s) == 1 .. Len(Targets(s))
Roles == {NATIVE_TARGETS[i] : i \in DOMAIN NATIVE_TARGETS}
         \cup {C_ABI_TARGET_ORDER[i] : i \in DOMAIN C_ABI_TARGET_ORDER}

ASSUME GraphAssumption ==
    /\ NATIVE_TARGETS \in Seq(STRING) /\ C_ABI_TARGET_ORDER \in Seq(STRING)
    /\ \A md \in Observed : md \in Metadata

VARIABLES
    script,      \* "npm" or "c-abi"
    metadata,    \* the document of each target
    current,     \* index of the target being walked, 0 before the first
    stack, visited,
    packageMap,  \* roles of each package, none when it is not in the map
    edgeMap,
    outcome      \* "running", "collected" or "failed"

vars == <<script, metadata, current, stack, visited, packageMap, edgeMap, outcome>>

TypeOK ==
    /\ script \in {"npm", "c-abi"}
    /\ metadata \in [Indices(script) -> Metadata]
    /\ current \in 0 .. Len(Targets(script))
    /\ stack \subseteq Ids /\ visited \subseteq Ids
    /\ packageMap \in [Ids -> SUBSET Roles]
    /\ edgeMap \subseteq Ids \X Ids
    /\ outcome \in {"running", "collected", "failed"}

Init ==
    /\ script \in {"npm", "c-abi"}
    /\ metadata \in [Indices(script) -> Observed]
    /\ current = 0
    /\ stack = {} /\ visited = {}
    /\ packageMap = [id \in Ids |-> {}]
    /\ edgeMap = {}
    /\ outcome = "running"

Fail == outcome' = "failed" /\ UNCHANGED <<script, metadata, current, stack, visited, packageMap, edgeMap>>

(* The dependencies of a package that end up in its binary. *)
normalRuntimeDependency_AnyKind(md, id) == {d.pkg : d \in {x \in md.deps : x.from = id}}
normalRuntimeDependency(md, id) == {d.pkg : d \in {x \in md.deps : x.from = id /\ x.normal}}

(* Every package among these has an identity: cargoPackageSource, in the C
   ABI script cargoSource, fails for one outside the checkout.              *)
Sourced(md, ids) == ids \cap md.outside = {}

addCargoPackage(map, ids, role) ==
    [id \in Ids |-> IF id \in ids THEN map[id] \cup {role} ELSE map[id]]

(***************************************************************************)
(* The next target: its crate occurs once and is resolved.  The npm script *)
(* first asks every package of the document for its identity, those that   *)
(* are not walked to included; the C ABI script asks only where it walks.  *)
(***************************************************************************)
Startable(md) ==
    /\ md.supported
    /\ script = "npm" => Sourced(md, md.packages)
    /\ \E root \in md.nodes : md.roots = {root}

StartTarget_KeepsVisited ==
    /\ outcome = "running" /\ stack = {} /\ current < Len(Targets(script))
    /\ LET md == metadata[current + 1]
       IN  IF Startable(md)
           THEN /\ current' = current + 1
                /\ stack' = md.roots
                /\ UNCHANGED <<script, metadata, visited, packageMap, edgeMap, outcome>>
           ELSE Fail
StartTarget ==
    /\ outcome = "running" /\ stack = {} /\ current < Len(Targets(script))
    /\ LET md == metadata[current + 1]
       IN  IF Startable(md)
           THEN /\ current' = current + 1
                /\ stack' = md.roots /\ visited' = {}
                /\ UNCHANGED <<script, metadata, packageMap, edgeMap, outcome>>
           ELSE Fail

(***************************************************************************)
(* One turn of the walk: pop a package, pass over it when it was visited,  *)
(* else enter it with its edges and push its dependencies.                 *)
(***************************************************************************)
Skip(id) ==
    /\ id \in visited
    /\ stack' = stack \ {id}
    /\ UNCHANGED <<script, metadata, current, visited, packageMap, edgeMap, outcome>>

Visit(id) ==
    /\ id \notin visited
    /\ LET md == metadata[current]
           deps == normalRuntimeDependency(md, id)
           entered == IF script = "npm" THEN {id} \cup deps ELSE {id}
       IN  IF /\ id \in md.packages \cap md.nodes /\ deps \subseteq md.packages
              /\ Sourced(md, {id} \cup deps)
           THEN /\ visited' = visited \cup {id}
                /\ stack' = (stack \ {id}) \cup deps
                /\ packageMap' = addCargoPackage(packageMap, entered, Targets(script)[current])
                /\ edgeMap' = edgeMap \cup {<<id, d>> : d \in deps}
                /\ UNCHANGED <<script, metadata, current, outcome>>
           ELSE Fail

Walk == outcome = "running" /\ \E id \in stack : Skip(id) \/ Visit(id)

Finish ==
    /\ outcome = "running" /\ stack = {} /\ current = Len(Targets(script))
    /\ outcome' = "collected"
    /\ UNCHANGED <<script, metadata, current, stack, visited, packageMap, edgeMap>>

Next == StartTarget \/ Walk \/ Finish

Spec == Init /\ [][Next]_vars

(***************************************************************************)
(* Properties.                                                             *)
(***************************************************************************)
(* What a target ships: the least set with the binding's crate that has the
   normal dependencies of its members.                                      *)
Needs(md, a, b) == \E d \in md.deps : d.normal /\ d.from = a /\ d.pkg = b
Closed(md, S) == \A a \in S, b \in Ids : Needs(md, a, b) => b \in S
Shipped(md, id) == \A S \in SUBSET Ids : md.roots \subseteq S /\ Closed(md, S) => id \in S

(* The packages listed with a role are exactly those shipped by some target
   with that role: the walk misses none behind a cycle, a package reached
   twice or one an earlier target has visited, and lists no build or
   development dependency (collectCargoGraph, collectRuntimeGraph).         *)
RolesAreWhatIsShipped ==
    outcome = "collected" =>
        \A id \in Ids, r \in Roles :
            (r \in packageMap[id]) <=>
                \E i \in Indices(script) : Targets(script)[i] = r /\ Shipped(metadata[i], id)

(* The relationships are the normal dependencies between shipped packages,
   of every target together.                                                *)
EdgesAreShippedDependencies ==
    outcome = "collected" =>
        \A a \in Ids, b \in Ids :
            (<<a, b>> \in edgeMap) <=>
                \E i \in Indices(script) :
                    Shipped(metadata[i], a) /\ Needs(metadata[i], a, b)

(* Together: the collected graph is what the binaries are made of. *)
CollectedIsWhatIsShipped == RolesAreWhatIsShipped /\ EdgesAreShippedDependencies

(* A document will do for a script when it has the supported shape, the
   crate occurs once with a node, and all it ships is known and has a place
   in the checkout or a registry.  For the npm script every package that the
   document lists must have one, shipped or not.                            *)
Complete(md) ==
    /\ md.supported
    /\ \E root \in md.nodes : md.roots = {root}
    /\ \A id \in Ids : Shipped(md, id) => id \in (md.packages \cap md.nodes) \ md.outside
    /\ script = "npm" => md.outside = {}

(* Generation fails exactly when a document will not do: a package that is
   shipped and unknown, or from outside the checkout, is never left out
   silently.  What no target ships stops a release in one case only, the npm
   script's pass over the package list (collectCargoGraph); the C ABI walk
   never meets it (collectRuntimeGraph).                                    *)
CollectedIffComplete ==
    /\ outcome = "collected" => \A i \in Indices(script) : Complete(metadata[i])
    /\ outcome = "failed" => \E i \in Indices(script) : ~Complete(metadata[i])
=============================================================================
