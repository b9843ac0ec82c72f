----------------------------- MODULE FormulaCheck -----------------------------
(***************************************************************************)
(* A client of the formula API, as the tactics of the higher layers use it *)
(* (spec.md 2): formulas parsed by a FormulaBuilder, one Substitutions the *)
(* calls share, one WorkVariableProvider, and in any order unify, new      *)
(* substitutions, complete_substitutions and substitute, whose result may  *)
(* be unified in turn.  Every call is checked against a reference          *)
(* definition on terms.                                                    *)
(***************************************************************************)
EXTENDS Integers, Sequences, FiniteSets, SequencesExt

CONSTANTS
  PoolTerms,     \* the parsed formulas, as terms [label, var, args]
  WorkVars,      \* the work variables a provider can issue, in order
  MaxCalls       \* bound on the number of calls

ByteMod == 256
WorkVarOf(i) == WorkVars[i + 1]

F == INSTANCE Formula WITH OverflowChecks <- TRUE, WorkVar <- WorkVarOf,
                           WorkTypecode <- "wff"

\* The parsed formulas; formula i is shared by Arc i.
Pool == [i \in 1..Len(PoolTerms) |-> F!Parse(PoolTerms[i], i)]

EmptySubs == [v \in {} |-> 0]

VARIABLES
  subs,    \* the Substitutions
  wvp,     \* the WorkVariableProvider: [issued, budget]
  out,     \* <<the last result of substitute>>, or <<>>
  last,    \* the last call: [op, a, p, ok], a history variable
  ncalls   \* calls made

vars == <<subs, wvp, out, last, ncalls>>

\* The formulas a call may take: the parsed ones and the last result.
Formulas == Range(Pool) \cup Range(out)

Init ==
  /\ subs = EmptySubs
  /\ wvp \in {[issued |-> 0, budget |-> k] : k \in 0..Len(WorkVars)}
  /\ out = <<>>
  /\ last = [op |-> "none", a |-> Pool[1], p |-> Pool[1], ok |-> TRUE]
  /\ ncalls = 0

Call(op, a, p, ok) ==
  /\ last' = [op |-> op, a |-> a, p |-> p, ok |-> ok]
  /\ ncalls' = ncalls + 1

\* Substitutions::new (79-82)
NewSubs ==
  /\ ncalls < MaxCalls
  /\ subs' = EmptySubs
  /\ Call("new", Pool[1], Pool[1], TRUE)
  /\ UNCHANGED <<wvp, out>>

\* a.unify(p, &mut subs)
UnifyCall(a, p) ==
  LET r == F!Unify(a, p, subs)
  IN  /\ ncalls < MaxCalls
      /\ subs' = r.subs
      /\ Call("unify", a, p, r.ok)
      /\ UNCHANGED <<wvp, out>>

\* f.complete_substitutions(&mut subs, &mut wvp)
CompleteCall(f) ==
  LET r == F!CompleteSubstitutions(f, subs, wvp)
  IN  /\ ncalls < MaxCalls
      /\ subs' = r.subs
      /\ wvp' = r.wvp
      /\ Call("complete", f, f, r.ok)
      /\ UNCHANGED out

\* f.substitute(&subs); the new Arc is named by the call's number.
SubstituteCall(f) ==
  LET r == F!Substitute(f, subs, Len(PoolTerms) + 1 + ncalls)
  IN  /\ ncalls < MaxCalls
      /\ out' = IF r.ok THEN <<r.f>> ELSE <<>>
      /\ Call("substitute", f, f, r.ok)
      /\ UNCHANGED <<subs, wvp>>

Next ==
  \/ NewSubs
  \/ \E a, p \in Formulas : UnifyCall(a, p)
  \/ \E f \in Formulas : CompleteCall(f)
  \/ \E f \in Formulas : SubstituteCall(f)

Spec == Init /\ [][Next]_vars

-----------------------------------------------------------------------------
(***************************************************************************)
(* Reference definitions on terms.                                         *)
(***************************************************************************)
\* The term node n of f stands for.
RECURSIVE Term(_, _)
Term(f, n) ==
  [label |-> F!Label(f, n), var |-> F!IsVariable(f, n),
   args  |-> [i \in 1..Len(F!Kids(f, n)) |-> Term(f, F!Kids(f, n)[i])]]

TermOf(f) == Term(f, f.root)

\* The nodes below n, n included.
RECURSIVE Below(_, _)
Below(f, n) == {n} \cup UNION {Below(f, k) : k \in Range(F!Kids(f, n))}

\* The labels of the variables of f.
VarLabels(f) == {F!Label(f, n) : n \in {k \in Below(f, f.root) : F!IsVariable(f, k)}}

\* The terms of a substitution.
Terms(s) == [v \in DOMAIN s |-> TermOf(s[v])]

\* Substitution of terms ts for the variables of f.
RECURSIVE Apply(_, _, _)
Apply(f, n, ts) ==
  IF F!IsVariable(f, n) /\ F!Label(f, n) \in DOMAIN ts THEN ts[F!Label(f, n)]
  ELSE [label |-> F!Label(f, n), var |-> F!IsVariable(f, n),
        args  |-> [i \in 1..Len(F!Kids(f, n)) |-> Apply(f, F!Kids(f, n)[i], ts)]]

\* Some binding of p's unbound variables to subterms of a extends s so
\* that p becomes a.
Matches(a, p, s) ==
  \E ext \in [VarLabels(p) \ DOMAIN s -> {Term(a, k) : k \in Below(a, a.root)}] :
    Apply(p, p.root, Terms(s) @@ ext) = TermOf(a)

\* s2 keeps every binding of s1.
Keeps(s1, s2) == \A v \in DOMAIN s1 : v \in DOMAIN s2 /\ s2[v] = s1[v]

-----------------------------------------------------------------------------
TypeOK ==
  /\ DOMAIN subs \subseteq UNION {VarLabels(f) : f \in Range(Pool)} \cup Range(WorkVars)
  /\ wvp.issued \in 0..wvp.budget /\ wvp.budget \in 0..Len(WorkVars)
  /\ Len(out) <= 1
  /\ ncalls \in 0..MaxCalls

(***************************************************************************)
(* unify succeeds exactly when some extension of the substitutions makes  *)
(* the pattern the formula (a matcher that is sound and complete); when   *)
(* it succeeds the substitutions bind exactly the pattern's variables     *)
(* besides the old ones and make the pattern the formula; whatever the    *)
(* outcome no old binding changes, though a failure may leave new ones.   *)
(***************************************************************************)
UnifyCorrect ==
  [][last'.op = "unify" =>
       LET a == last'.a
           p == last'.p
       IN  /\ last'.ok = Matches(a, p, subs)
           /\ Keeps(subs, subs')
           /\ last'.ok => /\ DOMAIN subs' = DOMAIN subs \cup VarLabels(p)
                          /\ Apply(p, p.root, Terms(subs')) = TermOf(a)]_vars

(***************************************************************************)
(* substitute, through copy_sub_formula, the builder's reduce calls and   *)
(* build, never panics and yields the formula with every bound variable   *)
(* replaced by its binding, variable flags included.                      *)
(***************************************************************************)
SubstituteCorrect ==
  [][last'.op = "substitute" =>
       /\ last'.ok
       /\ TermOf(out'[1]) = Apply(last'.a, last'.a.root, Terms(subs))]_vars

(***************************************************************************)
(* complete_substitutions never replaces a binding, requests one work     *)
(* variable per variable it binds (once even for a variable that occurs   *)
(* twice), binds each to a singleton variable formula of its own work     *)
(* variable, and succeeds exactly when every variable of the formula ends *)
(* up bound; a provider error leaves the bindings made before it.         *)
(***************************************************************************)
CompleteCorrect ==
  [][last'.op = "complete" =>
       LET new == DOMAIN subs' \ DOMAIN subs
       IN  /\ Keeps(subs, subs')
           /\ new \subseteq VarLabels(last'.a)
           /\ wvp'.issued - wvp.issued = Cardinality(new)
           /\ \A v \in new : /\ F!IsSingleton(subs'[v])
                             /\ F!IsVariable(subs'[v], subs'[v].root)
           /\ \A v, w \in new : v # w => TermOf(subs'[v]) # TermOf(subs'[w])
           /\ last'.ok = (VarLabels(last'.a) \subseteq DOMAIN subs')]_vars

(***************************************************************************)
(* sub_eq, with its Arc::ptr_eq short cut, is structural equality on every *)
(* formula the client holds, the bindings (sub-formulas sharing the tree  *)
(* of the formula unified) included.                                       *)
(***************************************************************************)
EqIsStructural ==
  \A f, g \in Formulas \cup Range(subs) : F!Eq(f, g) = (TermOf(f) = TermOf(g))

=============================================================================
