----------------------------- MODULE MCAxioms -----------------------------
(***************************************************************************)
(* Axioms for TLC.                                                         *)
(***************************************************************************)
EXTENDS AxiomInvariant

Rule(v, x, body) == [var |-> v, val |-> x, body |-> body]

Binary == {0, 1}
MCPrimary == {"p", "q"}

\* a and b derive each other; c and e use what is false in a lower layer; d of layer 2 can
\* be derived while layer 0 is evaluated.  Axioms 8 to 12 are those of the translator for
\* negations: empty bodies for the cycle, exact ones for c and e.
LayeredDerived == {"a", "b", "c", "d", "e"}
LayeredDefault == [v \in LayeredDerived |-> IF v \in {"b", "d"} THEN 1 ELSE 0]
LayeredLayer ==
    [v \in LayeredDerived |-> IF v \in {"a", "b"} THEN 0 ELSE IF v \in {"c", "e"} THEN 1 ELSE 2]
LayeredRules ==
    << Rule("a", 1, {<<"p", 1>>, <<"q", 1>>}), Rule("a", 1, {<<"b", 0>>}),
       Rule("b", 0, {<<"a", 1>>}),
       Rule("c", 1, {<<"a", 0>>, <<"p", 1>>}), Rule("e", 1, {<<"b", 1>>, <<"q", 1>>, <<"c", 1>>}),
       Rule("d", 0, {<<"c", 0>>, <<"e", 0>>}), Rule("d", 0, {<<"a", 1>>, <<"b", 0>>}),
       Rule("a", 0, {}), Rule("b", 1, {}),
       Rule("c", 0, {<<"a", 1>>}), Rule("c", 0, {<<"p", 0>>}),
       Rule("e", 0, {<<"c", 0>>}) >>

\* v is always true, so its negation, added because of the cycle of v and w, is wrong.
ClashDerived == {"v", "w", "z"}
ClashDefault == [v \in ClashDerived |-> 0]
ClashLayer == [v \in ClashDerived |-> IF v = "z" THEN 1 ELSE 0]
ClashRules ==
    << Rule("v", 1, {}), Rule("v", 0, {}), Rule("w", 1, {<<"v", 1>>}), Rule("w", 0, {}),
       Rule("z", 1, {<<"v", 0>>, <<"p", 1>>}) >>

\* The tasks of the translator that the theorem is about.
ASSUME HarmlessTask == Rules = LayeredRules => NegatedRulesHarmless

=============================================================================
