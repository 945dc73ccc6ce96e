----------------------------- MODULE MCSymbolic -----------------------------
(***************************************************************************)
(* Tasks with axioms for TLC: sets of derivation rules, the axioms and     *)
(* layers that the translator makes of them, and operators that use        *)
(* derived variables in preconditions and effect conditions.               *)
(***************************************************************************)
EXTENDS SymbolicAxioms

Binary == {0, 1}
MCPrimary == {"p", "q"}
MCDerived == {"a", "b", "c", "d"}
MCDefault == [v \in MCDerived |-> IF v = "b" THEN 1 ELSE 0]
MCInitial == [v \in MCPrimary |-> 0]
MCGoal == {<<"c", 1>>, <<"b", 0>>}

Effect(cond, v, x) == [cond |-> cond, var |-> v, val |-> x]

\* The effects on q of the first operator may fire both, and the last one counts.
MCOperators ==
    { [pre |-> {}, effs |-> << Effect({<<"d", 0>>}, "q", 1), Effect({<<"p", 1>>}, "q", 0) >>],
      [pre |-> {<<"a", 0>>}, effs |-> << Effect({}, "p", 1) >>],
      [pre |-> {<<"b", 0>>, <<"q", 1>>},
       effs |-> << Effect({<<"c", 1>>}, "p", 0), Effect({}, "q", 0) >>] }

\* Effect conditions are needed with both values.
MCNeeded ==
    {<<"d", 0>>, <<"d", 1>>, <<"a", 0>>, <<"b", 0>>, <<"c", 1>>, <<"c", 0>>}

Translator == INSTANCE TranslatorAxioms WITH
    Primary <- MCPrimary, Derived <- MCDerived, Values <- Binary, Default <- MCDefault,
    Needed <- MCNeeded

a == <<"a", 1>>
b == <<"b", 0>>
c == <<"c", 1>>
d == <<"d", 1>>
p == <<"p", 1>>
q == <<"q", 1>>
Not(l) == Translator!Negate(l)
Bodies(ofA, ofB, ofC, ofD) ==
    [v \in MCDerived |-> IF v = "a" THEN ofA ELSE IF v = "b" THEN ofB ELSE IF v = "c" THEN ofC ELSE ofD]

\* a and b, or a, b and c, derive each other; negations below and above of a cycle; a
\* variable that is always true, one that depends on itself, a body that dominates another.
MCBodies ==
    { Bodies({{p}}, {{Not(a), q}}, {{Not(b)}, {a, q}}, {{c, Not(b)}}),
      Bodies({{p, q}, {b}}, {{a}}, {{Not(a), p}}, {{c}, {Not(b), q}}),
      Bodies({{p, c}}, {{a}, {q}}, {{b}}, {{Not(a)}}),
      Bodies({{q}}, {{c}, {Not(a), p}}, {{b, q}, {b}}, {{a, Not(c)}}),
      Bodies({{p}, {a, q}}, {{}}, {{d, Not(a)}}, {{c}, {Not(p), b}}) }

AllPrograms == UNION {Translator!HandleAxioms(x) : x \in MCBodies}

\* TLC evaluates a definition without parameters once, but what a .cfg substitutes each time.
MCPrograms == AllPrograms

ASSUME StratifiableBodies == \A x \in MCBodies : Translator!Stratifiable(x)

=============================================================================
