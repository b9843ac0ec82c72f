----------------------------- MODULE BuilderCheck -----------------------------
(***************************************************************************)
(* A FormulaBuilder driven by an arbitrary caller, as the parser drives it *)
(* (spec.md 4.3.1): any sequence of reduce calls with u8 arguments, then   *)
(* build.  The builder's life ends with build or with a panic.             *)
(***************************************************************************)
EXTENDS Integers, Sequences

CONSTANTS
  Labels,          \* node labels
  ByteMod,         \* the range of u8, scaled down so that sums overflow
  OverflowChecks,  \* the build profile
  MaxReduces       \* bound on the number of reduce calls

ASSUME MaxReduces < ByteMod   \* the stack never holds ByteMod items

FB == INSTANCE FormulaBuilder

Counts == 0..(ByteMod - 1)    \* every u8 value

VARIABLES
  b,        \* the FormulaBuilder
  status,   \* building, built or panicked
  nred,     \* reduce calls made
  last      \* the last call and its arguments, a history variable

vars == <<b, status, nred, last>>

Init ==
  /\ b = FB!NewBuilder
  /\ status = "building"
  /\ nred = 0
  /\ last = <<>>

ReduceCall(label, var_count, offset, is_variable) ==
  LET r == FB!Reduce(b, label, var_count, offset, is_variable)
  IN  /\ status = "building"
      /\ nred < MaxReduces
      /\ b' = r.b
      /\ status' = IF r.ok THEN "building" ELSE "panicked"
      /\ nred' = nred + 1
      /\ last' = <<label, var_count, offset, is_variable>>

BuildCall ==
  /\ status = "building"
  /\ status' = IF FB!Build(b, "tc", 0).ok THEN "built" ELSE "panicked"
  /\ last' = <<"build">>
  /\ UNCHANGED <<b, nred>>

Next ==
  \/ \E l \in Labels, c, o \in Counts, v \in BOOLEAN : ReduceCall(l, c, o, v)
  \/ BuildCall

Spec == Init /\ [][Next]_vars

-----------------------------------------------------------------------------
TypeOK ==
  /\ b.stack \in Seq(0..(Len(b.tree) - 1))
  /\ b.vars \subseteq 0..(Len(b.tree) - 1)
  /\ status \in {"building", "built", "panicked"}
  /\ nred \in 0..MaxReduces

\* The term NodeId id denotes in a builder's tree.
RECURSIVE TermOf(_, _)
TermOf(bb, id) ==
  LET nd == FB!Node(bb.tree, id)
  IN  [label |-> nd.label, var |-> id \in bb.vars,
       args  |-> [i \in 1..Len(nd.kids) |-> TermOf(bb, nd.kids[i])]]

(***************************************************************************)
(* reduce and build, with their u8 sum, saturating subtractions, drain and *)
(* insert, implement the stack of terms: read through the tree, the NodeIds *)
(* on the stack are the terms the caller reduced, in order, and a call     *)
(* aborts exactly when its requirement on the stack length fails.          *)
(***************************************************************************)
Abs == INSTANCE TermStack WITH
         terms <- [i \in 1..Len(b.stack) |-> TermOf(b, b.stack[i])],
         Counts <- Counts

ImplementsTermStack == Abs!Spec

=============================================================================
