------------------------------- MODULE IntSet -------------------------------
(***************************************************************************)
(* What Bitset promises (spec.md 4.1): a set of naturals per name that     *)
(* only grows, by inserting one number or by taking the union with        *)
(* another set.  last records the call just made, so that a call which    *)
(* loses its effect is not mistaken for a stuttering step.                 *)
(***************************************************************************)
EXTENDS Integers

CONSTANTS
  Names,   \* the sets
  Bits     \* the numbers that may be inserted

VARIABLES sets, last

Init ==
  /\ sets = [n \in Names |-> {}]
  /\ last = [op |-> "none", n |-> "", bit |-> -1, from |-> ""]

Insert(n, i) ==
  /\ sets' = [sets EXCEPT ![n] = @ \cup {i}]
  /\ last' = [op |-> "set_bit", n |-> n, bit |-> i, from |-> ""]

UnionWith(n, m) ==
  /\ sets' = [sets EXCEPT ![n] = @ \cup sets[m]]
  /\ last' = [op |-> "bitor_assign", n |-> n, bit |-> -1, from |-> m]

Next ==
  \/ \E n \in Names, i \in Bits : Insert(n, i)
  \/ \E n, m \in Names : n # m /\ UnionWith(n, m)

Spec == Init /\ [][Next]_<<sets, last>>

=============================================================================
