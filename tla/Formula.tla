------------------------------- MODULE Formula -------------------------------
(***************************************************************************)
(* Formula and Substitutions of formula.rs.  A formula is the record       *)
(* FormulaBuilder!Build yields: [typecode, tid, tree, root, vars], tid     *)
(* naming the Arc that shares the tree, vars the variables Bitset as a set *)
(* of NodeIds.  Substitutions is a function from labels to formulas.       *)
(* Operations return records: unify [ok, subs]; substitute [ok, f], ok     *)
(* FALSE when a builder call panics; complete_substitutions               *)
(* [ok, subs, wvp].                                                        *)
(*                                                                         *)
(* A WorkVariableProvider is [issued, budget]: new_work_variable fails     *)
(* once budget work variables are issued, and otherwise returns work       *)
(* variable WorkVar(issued).                                               *)
(***************************************************************************)
LOCAL INSTANCE Integers
LOCAL INSTANCE Sequences
LOCAL INSTANCE SequencesExt
LOCAL INSTANCE TLC

CONSTANTS ByteMod, OverflowChecks, WorkVar(_), WorkTypecode

FB == INSTANCE FormulaBuilder

Label(f, n) == FB!Node(f.tree, n).label
Kids(f, n)  == FB!Node(f.tree, n).kids

\* is_variable (241-245)
IsVariable(f, n) == n \in f.vars

\* sub_formula (247-255): the same tree, Arc and variables, another root.
SubFormula(f, n) == [f EXCEPT !.root = n]

\* Tree::has_children
HasChildren(f, n) == Kids(f, n) # <<>>

\* is_singleton (222-226)
IsSingleton(f) == ~HasChildren(f, f.root)

\* from_float (208-220): a new tree, so a new Arc, tid.
FromFloat(label, typecode, tid) ==
  [typecode |-> typecode, tid |-> tid, tree |-> FB!AddNode(<<>>, label, <<>>),
   root |-> 0, vars |-> {0}]

\* Mutant: Arc::ptr_eq alone, without comparing the NodeIds.
RECURSIVE SubEqPtrOnly(_, _, _, _)
SubEqPtrOnly(f, n, g, m) ==
  \/ f.tid = g.tid
  \/ /\ Label(f, n) = Label(g, m)
     /\ HasChildren(f, n) = HasChildren(g, m)
     /\ \A i \in 1..Min({Len(Kids(f, n)), Len(Kids(g, m))}) :
          SubEqPtrOnly(f, Kids(f, n)[i], g, Kids(g, m)[i])

(***************************************************************************)
(* sub_eq (258-267): the same Arc and node, or the same label, the same    *)
(* has_children, and every pair of the zipped children equal; zip stops at *)
(* the shorter list.                                                       *)
(***************************************************************************)
RECURSIVE SubEq(_, _, _, _)
SubEq(f, n, g, m) ==
  \/ f.tid = g.tid /\ n = m
  \/ /\ Label(f, n) = Label(g, m)
     /\ HasChildren(f, n) = HasChildren(g, m)
     /\ \A i \in 1..Min({Len(Kids(f, n)), Len(Kids(g, m))}) :
          SubEq(f, Kids(f, n)[i], g, Kids(g, m)[i])

\* PartialEq::eq (429-433)
Eq(f, g) == SubEq(f, f.root, g, g.root)

\* Substitutions::insert (84-87): HashMap::insert overwrites.
Insert(subs, label, f) == (label :> f) @@ subs

\* Mutant: a bound variable is accepted without comparing its binding.
RECURSIVE SubUnifyNoCheck(_, _, _, _, _), UnifyKidsNoCheck(_, _, _, _, _)
SubUnifyNoCheck(f, n, p, m, subs) ==
  IF IsVariable(p, m)
    THEN IF Label(p, m) \in DOMAIN subs THEN [ok |-> TRUE, subs |-> subs]
         ELSE [ok |-> TRUE, subs |-> Insert(subs, Label(p, m), SubFormula(f, n))]
  ELSE IF Label(f, n) = Label(p, m) /\ HasChildren(f, n) = HasChildren(p, m)
    THEN UnifyKidsNoCheck(f, Kids(f, n), p, Kids(p, m), subs)
  ELSE [ok |-> FALSE, subs |-> subs]
UnifyKidsNoCheck(f, ks, p, kp, subs) ==
  IF ks = <<>> \/ kp = <<>> THEN [ok |-> TRUE, subs |-> subs]
  ELSE LET r == SubUnifyNoCheck(f, Head(ks), p, Head(kp), subs)
       IN  IF r.ok THEN UnifyKidsNoCheck(f, Tail(ks), p, Tail(kp), r.subs) ELSE r

(***************************************************************************)
(* sub_unify (282-321) against the pattern node m of p: a pattern variable *)
(* already bound must be sub_eq to its binding, an unbound one is bound to *)
(* the sub_formula of f at n; otherwise labels and has_children must agree *)
(* and the zipped children are unified in order, the first failure        *)
(* returning at once (?) with the bindings made so far left in place.      *)
(***************************************************************************)
RECURSIVE SubUnify(_, _, _, _, _), UnifyKids(_, _, _, _, _)
SubUnify(f, n, p, m, subs) ==
  IF IsVariable(p, m)
    THEN IF Label(p, m) \in DOMAIN subs
           THEN [ok |-> SubEq(f, n, subs[Label(p, m)], subs[Label(p, m)].root), subs |-> subs]
         ELSE [ok |-> TRUE, subs |-> Insert(subs, Label(p, m), SubFormula(f, n))]
  ELSE IF Label(f, n) = Label(p, m) /\ HasChildren(f, n) = HasChildren(p, m)
    THEN UnifyKids(f, Kids(f, n), p, Kids(p, m), subs)
  ELSE [ok |-> FALSE, subs |-> subs]
\* The for loop over the zipped children (307-314).
UnifyKids(f, ks, p, kp, subs) ==
  IF ks = <<>> \/ kp = <<>> THEN [ok |-> TRUE, subs |-> subs]
  ELSE LET r == SubUnify(f, Head(ks), p, Head(kp), subs)
       IN  IF r.ok THEN UnifyKids(f, Tail(ks), p, Tail(kp), r.subs) ELSE r

\* unify (272-279)
Unify(f, p, subs) == SubUnify(f, f.root, p, p.root, subs)

(***************************************************************************)
(* The builder calls of substitute.  A call is [label, count, var] for     *)
(* reduce(label, count, 0, var); the calls are made in the order the       *)
(* recursion makes them, so a sequence of them stands for the recursion.  *)
(* children_count is a u8 like var_count: its overflow is Reduce's.        *)
(***************************************************************************)
ReduceCall(f, n) == [label |-> Label(f, n), count |-> Len(Kids(f, n)), var |-> IsVariable(f, n)]

\* copy_sub_formula (399-412)
RECURSIVE CopyCalls(_, _)
CopyCalls(f, n) ==
  FlattenSeq([i \in 1..Len(Kids(f, n)) |-> CopyCalls(f, Kids(f, n)[i])]) \o <<ReduceCall(f, n)>>

\* Mutant: a substituted variable is copied and then also reduced itself.
RECURSIVE SubstituteCallsNoReturn(_, _, _)
SubstituteCallsNoReturn(f, n, subs) ==
  LET own == FlattenSeq([i \in 1..Len(Kids(f, n)) |-> SubstituteCallsNoReturn(f, Kids(f, n)[i], subs)])
             \o <<ReduceCall(f, n)>>
  IN  IF IsVariable(f, n) /\ Label(f, n) \in DOMAIN subs
        THEN CopyCalls(subs[Label(f, n)], subs[Label(f, n)].root) \o own
      ELSE own

\* sub_substitute (336-366)
RECURSIVE SubstituteCalls(_, _, _)
SubstituteCalls(f, n, subs) ==
  IF IsVariable(f, n) /\ Label(f, n) \in DOMAIN subs
    THEN CopyCalls(subs[Label(f, n)], subs[Label(f, n)].root)
  ELSE FlattenSeq([i \in 1..Len(Kids(f, n)) |-> SubstituteCalls(f, Kids(f, n)[i], subs)])
       \o <<ReduceCall(f, n)>>

\* The reduce calls made one after the other; a panic ends the run.
RunCalls(calls) ==
  LET step(r, c) == IF r.ok THEN FB!Reduce(r.b, c.label, c.count, 0, c.var) ELSE r
  IN  FoldLeft(step, [ok |-> TRUE, b |-> FB!NewBuilder], calls)

\* substitute (328-334): a new builder, the recursion, build.
Substitute(f, subs, tid) ==
  LET r == RunCalls(SubstituteCalls(f, f.root, subs))
  IN  IF r.ok THEN FB!Build(r.b, f.typecode, tid) ELSE [ok |-> FALSE]

\* Mutant: the provider's budget is not checked.
NewWorkVariableNoBudget(wvp) ==
  [ok |-> TRUE, label |-> WorkVar(wvp.issued), wvp |-> [wvp EXCEPT !.issued = @ + 1]]

\* WorkVariableProvider::new_work_variable, [ok, label, wvp].
NewWorkVariable(wvp) ==
  IF wvp.issued = wvp.budget THEN [ok |-> FALSE, wvp |-> wvp]
  ELSE [ok |-> TRUE, label |-> WorkVar(wvp.issued), wvp |-> [wvp EXCEPT !.issued = @ + 1]]

\* Mutant: a work variable is requested and bound whether or not the
\* variable is already bound.
RECURSIVE SubCompleteAlways(_, _, _, _), CompleteKidsAlways(_, _, _, _)
SubCompleteAlways(f, n, subs, wvp) ==
  IF IsVariable(f, n)
    THEN LET w == NewWorkVariable(wvp)
         IN  IF ~w.ok THEN [ok |-> FALSE, subs |-> subs, wvp |-> wvp]
             ELSE [ok |-> TRUE, wvp |-> w.wvp,
                   subs |-> Insert(subs, Label(f, n), FromFloat(w.label, WorkTypecode, -1 - wvp.issued))]
  ELSE CompleteKidsAlways(f, Kids(f, n), subs, wvp)
CompleteKidsAlways(f, ks, subs, wvp) ==
  IF ks = <<>> THEN [ok |-> TRUE, subs |-> subs, wvp |-> wvp]
  ELSE LET r == SubCompleteAlways(f, Head(ks), subs, wvp)
       IN  IF r.ok THEN CompleteKidsAlways(f, Tail(ks), r.subs, r.wvp) ELSE r

(***************************************************************************)
(* sub_complete_substitutions (378-397): an unbound variable gets a new    *)
(* work variable, from_float(work_var, typecode) (its Arc named by the    *)
(* provider's count); the children are walked in order and the first      *)
(* provider error returns at once (?), the bindings made so far kept.      *)
(***************************************************************************)
RECURSIVE SubComplete(_, _, _, _), CompleteKids(_, _, _, _)
SubComplete(f, n, subs, wvp) ==
  IF IsVariable(f, n)
    THEN IF Label(f, n) \in DOMAIN subs THEN [ok |-> TRUE, subs |-> subs, wvp |-> wvp]
         ELSE LET w == NewWorkVariable(wvp)
              IN  IF ~w.ok THEN [ok |-> FALSE, subs |-> subs, wvp |-> wvp]
                  ELSE [ok |-> TRUE, wvp |-> w.wvp,
                        subs |-> Insert(subs, Label(f, n), FromFloat(w.label, WorkTypecode, -1 - wvp.issued))]
  ELSE CompleteKids(f, Kids(f, n), subs, wvp)
CompleteKids(f, ks, subs, wvp) ==
  IF ks = <<>> THEN [ok |-> TRUE, subs |-> subs, wvp |-> wvp]
  ELSE LET r == SubComplete(f, Head(ks), subs, wvp)
       IN  IF r.ok THEN CompleteKids(f, Tail(ks), r.subs, r.wvp) ELSE r

-----------------------------------------------------------------------------
(***************************************************************************)
(* The formula the external parser builds for a term [label, var, args]:  *)
(* reduce calls bottom-up, the arguments before the node (spec.md 4.3.1). *)
(***************************************************************************)
RECURSIVE TermCalls(_)
TermCalls(t) ==
  FlattenSeq([i \in 1..Len(t.args) |-> TermCalls(t.args[i])])
  \o <<[label |-> t.label, count |-> Len(t.args), var |-> t.var]>>

Parse(t, tid) == FB!Build(RunCalls(TermCalls(t)).b, "wff", tid).f

-----------------------------------------------------------------------------
\* complete_substitutions (368-376)
CompleteSubstitutions(f, subs, wvp) == SubComplete(f, f.root, subs, wvp)

=============================================================================
