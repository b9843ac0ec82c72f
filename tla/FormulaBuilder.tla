---------------------------- MODULE FormulaBuilder ----------------------------
(***************************************************************************)
(* FormulaBuilder of formula.rs:744-785 and the arena Tree it fills.       *)
(* A builder is [stack, vars, tree]: the stack of NodeIds, the variables  *)
(* Bitset (a set of NodeIds: Bitset is shown to implement a set by the    *)
(* bitset run) and the tree, a sequence of nodes [label, kids] in which   *)
(* NodeId i is element i+1.  A call that panics yields [ok |-> FALSE].    *)
(*                                                                         *)
(* var_count and offset are u8 and so is their sum: ByteMod is 2^8 on the *)
(* target.  With overflow checks (debug builds) an overflowing sum         *)
(* panics; without them (release builds) it wraps.                         *)
(***************************************************************************)
LOCAL INSTANCE Integers
LOCAL INSTANCE Sequences

CONSTANTS
  ByteMod,          \* 2^8: the range of u8
  OverflowChecks    \* TRUE when the build panics on integer overflow

ASSUME ByteMod \in Nat \ {0} /\ OverflowChecks \in BOOLEAN

\* Tree::add_node (tree.rs): appends a node, its NodeId is its index.
AddNode(tree, label, kids) == Append(tree, [label |-> label, kids |-> kids])

\* tree[id]
Node(tree, id) == tree[id + 1]

\* FormulaBuilder::default
NewBuilder == [stack |-> <<>>, vars |-> {}, tree |-> <<>>]

\* usize::saturating_sub
SatSub(a, b) == IF a >= b THEN a - b ELSE 0

\* Mutant: the new node is pushed on top instead of inserted at reduce_start.
ReducePushed(b, label, var_count, offset, is_variable) ==
  LET sum   == var_count + offset
      s     == sum % ByteMod
      start == SatSub(Len(b.stack), s)
      end   == SatSub(Len(b.stack), offset)
      id    == Len(b.tree)
  IN  IF (OverflowChecks /\ sum >= ByteMod) \/ Len(b.stack) < s \/ start > end
        THEN [ok |-> FALSE, b |-> b]
        ELSE [ok |-> TRUE,
              b  |-> [stack |-> SubSeq(b.stack, 1, start) \o SubSeq(b.stack, end + 1, Len(b.stack))
                                \o <<id>>,
                      vars  |-> IF is_variable THEN b.vars \cup {id} ELSE b.vars,
                      tree  |-> AddNode(b.tree, label, SubSeq(b.stack, start + 1, end))]]

\* Mutant: the new node's NodeId is taken one past the tree's length.
ReduceIdFromOne(b, label, var_count, offset, is_variable) ==
  LET r == ReducePushed(b, label, var_count, offset, is_variable)
      n == Len(b.stack) - ((var_count + offset) % ByteMod)
  IN  IF ~r.ok THEN r
      ELSE [r EXCEPT !.b.stack = SubSeq(b.stack, 1, n) \o <<Len(b.tree) + 1>>
                                 \o SubSeq(b.stack, Len(b.stack) - offset + 1, Len(b.stack))]

(***************************************************************************)
(* reduce (754-768): the u8 sum var_count + offset (an overflow panics or  *)
(* wraps), the assert on the stack length, drain(reduce_start..reduce_end) *)
(* (which panics when start > end), add_node with the drained NodeIds as   *)
(* children, the variable bit, and the insertion at reduce_start.          *)
(***************************************************************************)
Reduce(b, label, var_count, offset, is_variable) ==
  LET sum   == var_count + offset
      s     == sum % ByteMod
      start == SatSub(Len(b.stack), s)
      end   == SatSub(Len(b.stack), offset)
      id    == Len(b.tree)
  IN  IF (OverflowChecks /\ sum >= ByteMod) \/ Len(b.stack) < s \/ start > end
        THEN [ok |-> FALSE, b |-> b]
        ELSE [ok |-> TRUE,
              b  |-> [stack |-> SubSeq(b.stack, 1, start) \o <<id>>
                                \o SubSeq(b.stack, end + 1, Len(b.stack)),
                      vars  |-> IF is_variable THEN b.vars \cup {id} ELSE b.vars,
                      tree  |-> AddNode(b.tree, label, SubSeq(b.stack, start + 1, end))]]

(***************************************************************************)
(* build (770-784): exactly one NodeId must remain, the root.  The tree   *)
(* becomes shared (Arc::new): tid names that Arc, for Arc::ptr_eq.          *)
(***************************************************************************)
Build(b, typecode, tid) ==
  IF Len(b.stack) # 1 THEN [ok |-> FALSE]
  ELSE [ok |-> TRUE,
        f  |-> [typecode |-> typecode, tid |-> tid, tree |-> b.tree,
                root |-> b.stack[1], vars |-> b.vars]]

=============================================================================
