--------------------------- MODULE MCRnLifecycle ----------------------------
(***************************************************************************)
(* Model-checking instances of RnLifecycle.                                *)
(***************************************************************************)
EXTENDS RnLifecycle

CONSTANTS registry, context1, context2, provider1, provider2

Identity(context, provider) ==
  [moduleRegistry |-> registry, logicalContext |-> context, provider |-> provider]

\* Two hosts that share a module registry.
MCTwoHosts == {Identity(context1, provider1), Identity(context2, provider2)}
=============================================================================
