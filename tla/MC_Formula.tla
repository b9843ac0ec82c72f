------------------------------ MODULE MC_Formula ------------------------------
(***************************************************************************)
(* Formulas of the wff grammar of set.mm: wi (implication) and wn          *)
(* (negation) over the wff variables wph and wps, as the parser builds    *)
(* them; the patterns are formulas of the same grammar.                    *)
(***************************************************************************)
EXTENDS FormulaCheck

V(l)        == [label |-> l, var |-> TRUE, args |-> <<>>]
Wn(a)       == [label |-> "wn", var |-> FALSE, args |-> <<a>>]
Wi(a, b)    == [label |-> "wi", var |-> FALSE, args |-> <<a, b>>]

\* ( ph -> ps ), ( ph -> ph ), ( -. ph -> ps ), ph
WellFormed == << Wi(V("wph"), V("wps")), Wi(V("wph"), V("wph")),
                 Wi(Wn(V("wph")), V("wps")), V("wph") >>

\* ( ph -> ps ) beside a wi node with one child, ( ph ), which the grammar
\* never builds but reduce accepts.
IllFormed == << Wi(V("wph"), V("wps")),
                [label |-> "wi", var |-> FALSE, args |-> <<V("wph")>>] >>

MCWorkVars == <<"&W1", "&W2">>
=============================================================================
