----------------------------- MODULE FormulaIter -----------------------------
(***************************************************************************)
(* The iterators over a formula of formula.rs: LabelIter (labels_iter,    *)
(* 439-476) and Flatten (iter, 492-722), and append_to_stack_buffer        *)
(* (559-574), which drains a Flatten.  An item is <<>> for None and        *)
(* <<x>> for Some(x).                                                       *)
(*                                                                         *)
(* The database is given by Math(label), the math tokens of the statement *)
(* that declares label, typecode first, each [sym, var] with var TRUE for *)
(* a variable symbol; by Hyps(label), the hypotheses of its frame, each   *)
(* [floating, var, index, typecode] with index the variable's place in    *)
(* the frame's variable list; by Name(sym), the bytes of a symbol, and by *)
(* LabelName(label), the characters of a label.                           *)
(* A byte is <<c, hi>> as in Database: the character and its high bit.    *)
(***************************************************************************)
LOCAL INSTANCE Integers
LOCAL INSTANCE Sequences
LOCAL INSTANCE SequencesExt

CONSTANTS Math(_), Hyps(_), Name(_), LabelName(_)

Nd(f, n)    == f.tree[n + 1]
Label(f, n) == Nd(f, n).label
Kids(f, n)  == Nd(f, n).kids

(***************************************************************************)
(* LabelIter: [root, stack], root <<id>> until the first next, stack the  *)
(* SiblingIters still to run, each the sequence of NodeIds it has left.   *)
(***************************************************************************)
\* labels_iter (188-197)
NewLabelIter(f) == [root |-> <<f.root>>, stack |-> <<>>]

\* visit_children (446-454): push the node's children, yield the node.
VisitChildren(f, it, n) ==
  [it |-> [it EXCEPT !.stack = Append(@, Kids(f, n))],
   item |-> << <<Label(f, n), n \in f.vars>> >>]

\* Mutant: an exhausted SiblingIter ends the iteration instead of being
\* popped.
LabelNextNoPop(f, it) ==
  IF it.root # <<>> THEN VisitChildren(f, [it EXCEPT !.root = <<>>], it.root[1])
  ELSE IF it.stack = <<>> \/ Last(it.stack) = <<>> THEN [it |-> it, item |-> <<>>]
  ELSE VisitChildren(f, [it EXCEPT !.stack[Len(it.stack)] = Tail(@)], Head(Last(it.stack)))

\* Mutant: the root is read but not taken, and is yielded again and again.
LabelNextKeepRoot(f, it) ==
  IF it.root # <<>> THEN VisitChildren(f, it, it.root[1])
  ELSE LabelNextNoPop(f, it)

\* LabelIter::next (460-475): the root first, then the loop that pops
\* exhausted SiblingIters until one yields a node or none is left.
RECURSIVE LabelNext(_, _)
LabelNext(f, it) ==
  IF it.root # <<>> THEN VisitChildren(f, [it EXCEPT !.root = <<>>], it.root[1])
  ELSE IF it.stack = <<>> THEN [it |-> it, item |-> <<>>]
  ELSE IF Last(it.stack) # <<>>
         THEN VisitChildren(f, [it EXCEPT !.stack[Len(it.stack)] = Tail(@)], Head(Last(it.stack)))
  ELSE LabelNext(f, [it EXCEPT !.stack = Front(@)])

(***************************************************************************)
(* Flatten: a stack of [toks, kids, some]: the math tokens of the node's  *)
(* statement still to go, the children still to go, and whether the       *)
(* SiblingIter is Some (the node has children) or None.                    *)
(***************************************************************************)
\* Mutant: the typecode token is not skipped.
StepIntoWithTypecode(f, st, n) ==
  Append(st, [toks |-> Math(Label(f, n)), kids |-> Kids(f, n), some |-> Kids(f, n) # <<>>])

\* step_into (670-688)
StepInto(f, st, n) ==
  Append(st, [toks |-> Tail(Math(Label(f, n))), kids |-> Kids(f, n), some |-> Kids(f, n) # <<>>])

\* FormulaRef::iter (495-505)
NewFlatten(f) == StepInto(f, <<>>, f.root)

(***************************************************************************)
(* Flatten::next (692-721), [st, item, panic]: a constant, or a variable  *)
(* of a node without children, is yielded; a variable of a node with     *)
(* children steps into the next child, or panics ("Empty formula!") when  *)
(* none is left; an exhausted node is popped.                              *)
(***************************************************************************)
RECURSIVE FlatNext(_, _)
FlatNext(f, st) ==
  IF st = <<>> THEN [st |-> st, item |-> <<>>, panic |-> FALSE]
  ELSE LET top == Last(st)
           tok == Head(top.toks)
           st1 == [st EXCEPT ![Len(st)].toks = Tail(@)]
       IN  IF top.toks = <<>> THEN FlatNext(f, Front(st))
           ELSE IF ~tok.var \/ ~top.some THEN [st |-> st1, item |-> <<tok.sym>>, panic |-> FALSE]
           ELSE IF top.kids # <<>>
                  THEN FlatNext(f, StepInto(f, [st1 EXCEPT ![Len(st)].kids = Tail(@)], Head(top.kids)))
           ELSE [st |-> st1, item |-> <<>>, panic |-> TRUE]

\* Every symbol of the formula, as a for loop over a Flatten takes them:
\* [syms, panic].
RECURSIVE Drain(_, _, _)
Drain(f, st, acc) ==
  LET r == FlatNext(f, st)
  IN  IF r.panic THEN [syms |-> acc, panic |-> TRUE]
      ELSE IF r.item = <<>> THEN [syms |-> acc, panic |-> FALSE]
      ELSE Drain(f, r.st, acc \o r.item)

\* Mutant: the high bit is set on the first byte of each token.
SentinelFirst(sym) == [j \in 1..Len(Name(sym)) |-> <<Name(sym)[j], j = 1>>]

\* fast_extend of the name, then last_mut() |= 0x80 (562-565).
Sentinel(sym) == [j \in 1..Len(Name(sym)) |-> <<Name(sym)[j], j = Len(Name(sym))>>]

(***************************************************************************)
(* append_to_stack_buffer (559-574): [ok, buf, range]; ok FALSE when the   *)
(* Flatten panics.                                                         *)
(***************************************************************************)
AppendToStackBuffer(f, buf) ==
  LET d   == Drain(f, NewFlatten(f), <<>>)
      new == buf \o FlattenSeq([i \in 1..Len(d.syms) |-> Sentinel(d.syms[i])])
  IN  [ok |-> ~d.panic, buf |-> new, range |-> [start |-> Len(buf), end |-> Len(new)]]

(***************************************************************************)
(* build_syntax_proof (570-624).  The ProofBuilder is outside the source: *)
(* its build appends [label, hyps, range] to an arena and returns the     *)
(* index, as a ProofTreeArray does.  Results are [ok, buf, arr, item].    *)
(***************************************************************************)
\* ProofBuilder::build
ProofBuild(arr, label, hyps, range) ==
  Append(arr, [label |-> label, hyps |-> hyps, range |-> range])

\* to_rerooted (508-515) and compute_typecode_at (519-521).
ReRooted(f, n) == [f EXCEPT !.root = n, !.typecode = Math(Label(f, n))[1].sym]

\* Mutant: the children's proofs are taken in tree order.
SelectHypsInTreeOrder(label, items) ==
  LET fl == SelectSeq(Hyps(label), LAMBDA h : h.floating)
  IN  [j \in 1..Len(fl) |-> items[j]]

\* The filter_map over the frame's hypotheses (607-617): for each floating
\* one, children_hyps[index].
SelectHyps(label, items) ==
  LET fl == SelectSeq(Hyps(label), LAMBDA h : h.floating)
  IN  [j \in 1..Len(fl) |-> items[fl[j].index + 1]]

\* sub_build_syntax_proof (591-623): the children first, in tree order
\* (BuildKids, the map of 601-604), then the node itself.
RECURSIVE SubBuildSyntaxProof(_, _, _, _), BuildKids(_, _, _, _, _)
SubBuildSyntaxProof(f, n, buf, arr) ==
  LET ks == BuildKids(f, Kids(f, n), buf, arr, <<>>)
      a  == AppendToStackBuffer(ReRooted(f, n), ks.buf)
  IN  IF ~ks.ok \/ ~a.ok THEN [ok |-> FALSE, buf |-> buf, arr |-> arr, item |-> 0]
      ELSE [ok |-> TRUE, buf |-> a.buf,
            arr |-> ProofBuild(ks.arr, Label(f, n), SelectHyps(Label(f, n), ks.items), a.range),
            item |-> Len(ks.arr) + 1]
BuildKids(f, ks, buf, arr, items) ==
  IF ks = <<>> THEN [ok |-> TRUE, buf |-> buf, arr |-> arr, items |-> items]
  ELSE LET r == SubBuildSyntaxProof(f, Head(ks), buf, arr)
       IN  IF ~r.ok THEN [ok |-> FALSE, buf |-> buf, arr |-> arr, items |-> items]
           ELSE BuildKids(f, Tail(ks), r.buf, r.arr, Append(items, r.item))

\* build_syntax_proof (576-581)
BuildSyntaxProof(f, buf, arr) == SubBuildSyntaxProof(f, f.root, buf, arr)

\* Mutant: no space is written before a child.
RECURSIVE SubSexprNoSpace(_, _)
SubSexprNoSpace(f, n) ==
  IF Kids(f, n) = <<>> THEN LabelName(Label(f, n))
  ELSE <<"(">> \o LabelName(Label(f, n))
       \o FlattenSeq([i \in 1..Len(Kids(f, n)) |-> SubSexprNoSpace(f, Kids(f, n)[i])]) \o <<")">>

\* write_sub_sexpr (535-549): "(name child ...)" for a node with
\* children, "name" for a leaf; the characters written.
RECURSIVE SubSexpr(_, _)
SubSexpr(f, n) ==
  IF Kids(f, n) = <<>> THEN LabelName(Label(f, n))
  ELSE <<"(">> \o LabelName(Label(f, n))
       \o FlattenSeq([i \in 1..Len(Kids(f, n)) |-> <<" ">> \o SubSexpr(f, Kids(f, n)[i])]) \o <<")">>

\* as_sexpr and write_sexpr (523-533)
WriteSexpr(f) == SubSexpr(f, f.root)

=============================================================================
