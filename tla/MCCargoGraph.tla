----------------------------- MODULE MCCargoGraph -----------------------------
(* Three packages and one identity no document lists.  The edges that may
   exist include a cycle, two ways to the same package, and an unlisted
   dependency; each is absent, normal or for development only.  A package
   may be a path package outside the checkout, shipped or not.  Each document
   has at most one defect.                                                  *)
EXTENDS CargoGraph

MCNative == <<"native", "native">>
MCCAbi == <<"linux-x64", "macos-arm64">>

Arcs == {<<"root", "a">>, <<"a", "b">>, <<"b", "a">>, <<"b", "gone">>, <<"root", "b">>}

Sound == [supported |-> TRUE, packages |-> {"root", "a", "b"}, outside |-> {},
          nodes |-> {"root", "a", "b"}, roots |-> {"root"}, deps |-> {}]

Defects ==
    {Sound, [Sound EXCEPT !.supported = FALSE], [Sound EXCEPT !.outside = {"b"}],
     [Sound EXCEPT !.nodes = {"root", "a"}], [Sound EXCEPT !.roots = {"root", "b"}]}

MCObserved ==
    {[md EXCEPT !.deps =
        {[from |-> e[1], pkg |-> e[2], normal |-> TRUE] : e \in normal}
        \cup {[from |-> e[1], pkg |-> e[2], normal |-> FALSE] : e \in dev}] :
        md \in Defects, normal \in SUBSET Arcs, dev \in {{}, {<<"a", "b">>}}}
=============================================================================
