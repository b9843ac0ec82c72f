------------------------------ MODULE MC_Verify ------------------------------
(***************************************************************************)
(* A small database for checking Verify, in prefix notation:               *)
(*   1 wph $f wff ph          2 wps $f wff ps                              *)
(*   3 wi   $a wff -> ph ps   4 ax-1 $a |- -> ph -> ps ph                  *)
(*   ${ 5 min $e |- ph   6 maj $e |- -> ph ps   7 ax-mp $a |- ps $}        *)
(*   ${ $d ph ps   8 ax-dv $a |- -> ph ps $}                               *)
(*   ${ $d ph ps   9 th.1 $e |- ph   10 th.2 $e |- -> ph ps                *)
(*      11 th $p |- ps $}                                                  *)
(*   12 later $a |- ph                                                     *)
(* th is the statement checked: "wph wps th.1 th.2 ax-mp" proves it, and  *)
(* "( ax-mp ) ABCDE" is the same proof compressed.  ax-dv has a mandatory  *)
(* DV pair, th declares ph and ps distinct.  min and maj are out of scope  *)
(* at th, later and th itself are not yet defined there, bogus is missing. *)
(***************************************************************************)
EXTENDS Verify

V(ix) == <<"Var", ix>>
C(t)  == <<"Constant", t>>

FloatHyp(label, ix) ==
  [is_float |-> TRUE, label |-> label, variable_index |-> ix,
   expr |-> [typecode |-> "wff", tail |-> <<V(ix)>>]]

EssenHyp(label, tail) ==
  [is_float |-> FALSE, label |-> label, variable_index |-> 0,
   expr |-> [typecode |-> "|-", tail |-> tail]]

HypFrame(stype, code, toks, mvars, idx, end) ==
  [stype |-> stype, hypotheses |-> <<>>, mandatory_vars |-> mvars,
   mandatory_dv |-> {}, optional_dv |-> <<>>,
   target |-> [typecode |-> code, tail |-> <<>>], stub_expr |-> toks,
   valid |-> [start |-> <<1, idx>>, end |-> end]]

Assertion(stype, code, hyps, tail, mdv, odv, idx) ==
  [stype |-> stype, hypotheses |-> hyps, mandatory_vars |-> <<"ph", "ps">>,
   mandatory_dv |-> mdv, optional_dv |-> odv,
   target |-> [typecode |-> code, tail |-> tail],
   stub_expr |-> <<>>, valid |-> [start |-> <<1, idx>>, end |-> NoStatement]]

F2 == <<FloatHyp("wph", 0), FloatHyp("wps", 1)>>

MCFrames ==
  ("wph"   :> HypFrame("floating", "wff", <<"ph">>, <<"ph">>, 1, NoStatement)) @@
  ("wps"   :> HypFrame("floating", "wff", <<"ps">>, <<"ps">>, 2, NoStatement)) @@
  ("wi"    :> Assertion("axiom", "wff", F2, <<C("->"), V(0), V(1)>>, {}, <<>>, 3)) @@
  ("ax-1"  :> Assertion("axiom", "|-", F2, <<C("->"), V(0), C("->"), V(1), V(0)>>, {}, <<>>, 4)) @@
  ("min"   :> HypFrame("essential", "|-", <<"ph">>, <<"ph">>, 5, 8)) @@
  ("maj"   :> HypFrame("essential", "|-", <<"->", "ph", "ps">>, <<"ph", "ps">>, 6, 8)) @@
  ("ax-mp" :> Assertion("axiom", "|-",
                F2 \o <<EssenHyp("min", <<V(0)>>), EssenHyp("maj", <<C("->"), V(0), V(1)>>)>>,
                <<V(1)>>, {}, <<>>, 7)) @@
  ("ax-dv" :> Assertion("axiom", "|-", F2, <<C("->"), V(0), V(1)>>, {<<0, 1>>}, <<>>, 8)) @@
  ("th.1"  :> HypFrame("essential", "|-", <<"ph">>, <<"ph">>, 9, 12)) @@
  ("th.2"  :> HypFrame("essential", "|-", <<"->", "ph", "ps">>, <<"ph", "ps">>, 10, 12)) @@
  ("th"    :> Assertion("provable", "|-",
                F2 \o <<EssenHyp("th.1", <<V(0)>>), EssenHyp("th.2", <<C("->"), V(0), V(1)>>)>>,
                <<V(1)>>, {}, << <<"ph", "ps">> >>, 11)) @@
  ("later" :> Assertion("axiom", "|-", F2, <<V(0)>>, {}, <<>>, 12))

MCProofTokens ==
  {"wph", "wps", "wi", "ax-1", "ax-mp", "ax-dv", "min", "th.1", "th.2",
   "th", "later", "bogus", "?"}

=============================================================================
