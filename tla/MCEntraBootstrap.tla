-------------------------- MODULE MCEntraBootstrap --------------------------
(* Two runs, on one ref or on two, over a directory that holds a BFF        *)
(* application somebody made by hand, with a scope id of its own and a     *)
(* client pre-authorised for it.                                           *)
EXTENDS EntraBootstrap, TLC

CONSTANTS r1, r2, main, branch

MCRuns == {r1, r2}
MCRefs == {main, branch}

Empty == [a \in AppIds |-> Missing]
Handmade ==
  [Empty EXCEPT ![<<"bff", 1>>] =
     [NewApp EXCEPT !.scopes = {<<"mcp.access", HandmadeId("mcp.access")>>},
                    !.pre = {<<Guest, HandmadeId("mcp.access")>>}]]

MCInitial == {Handmade}

\* Runs are alike, and so are refs.
Symmetry == Permutations(MCRuns) \union Permutations(MCRefs)

==============================================================================
