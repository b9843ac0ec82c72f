-------------------------------- MODULE MC_Iter --------------------------------
(***************************************************************************)
(* The wff grammar of set.mm: wph, wps declare the variables ph, ps; wi is *)
(* wff ( ph -> ps ), wn is wff -. ph; vx declares the setvar x and wal is  *)
(* wff A. x ph, whose frame lists wph before vx while x comes first in    *)
(* the axiom, and so first among the node's children.                     *)
(***************************************************************************)
EXTENDS IterCheck

C(s) == [sym |-> s, var |-> FALSE]
Vr(s) == [sym |-> s, var |-> TRUE]

MCMath == [wph |-> <<C("wff"), Vr("ph")>>,
           wps |-> <<C("wff"), Vr("ps")>>,
           wi  |-> <<C("wff"), C("("), Vr("ph"), C("->"), Vr("ps"), C(")")>>,
           wn  |-> <<C("wff"), C("-."), Vr("ph")>>,
           vx  |-> <<C("setvar"), Vr("x")>>,
           wal |-> <<C("wff"), C("A."), Vr("x"), Vr("ph")>>]

Fh(v, i, t) == [floating |-> TRUE, var |-> v, index |-> i, typecode |-> t]

\* The frames as the scope analyzer builds them: hypotheses in database
\* order, variables numbered in order of appearance in the axiom.
MCHyps == [wph |-> <<>>, wps |-> <<>>, vx |-> <<>>,
           wi  |-> <<Fh("ph", 0, "wff"), Fh("ps", 1, "wff")>>,
           wn  |-> <<Fh("ph", 0, "wff")>>,
           wal |-> <<Fh("ph", 1, "wff"), Fh("x", 0, "setvar")>>]

MCName == [s \in {"wff", "setvar", "(", ")", "->", "-.", "A.", "ph", "ps", "x"} |->
             CASE s = "wff" -> <<"w", "f", "f">>
               [] s = "->"  -> <<"-", ">">>
               [] s = "-."  -> <<"-", ".">>
               [] s = "ph"  -> <<"p", "h">>
               [] s = "ps"  -> <<"p", "s">>
               [] s = "setvar" -> <<"s", "v">>
               [] s = "A."  -> <<"A", ".">>
               [] OTHER     -> <<s>>]

MCLabelName == [wph |-> <<"w", "p", "h">>, wps |-> <<"w", "p", "s">>, wi |-> <<"w", "i">>,
                wn |-> <<"w", "n">>, vx |-> <<"v", "x">>, wal |-> <<"w", "a", "l">>]

V(l)     == [label |-> l, var |-> TRUE, args |-> <<>>]
Wn(a)    == [label |-> "wn", var |-> FALSE, args |-> <<a>>]
Wi(a, b) == [label |-> "wi", var |-> FALSE, args |-> <<a, b>>]
Wal(x, a) == [label |-> "wal", var |-> FALSE, args |-> <<x, a>>]

\* ( -. ph -> ( ph -> ps ) ), A. x -. ps, ph
MCPool == << Wi(Wn(V("wph")), Wi(V("wph"), V("wps"))), Wal(V("vx"), Wn(V("wps"))), V("wph") >>
=============================================================================
