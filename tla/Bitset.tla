------------------------------- MODULE Bitset -------------------------------
(***************************************************************************)
(* Bitset of verify.rs:28-138: a head word for bits 0..W-1 and a tail of *)
(* words for the rest, tail[k] holding bits (k+1)*W .. (k+2)*W-1.  The    *)
(* model has named bitsets, the calls that change them (set_bit,          *)
(* bitor_assign) and a for loop over one of them (into_iter, then next    *)
(* until None), as the DV check of execute_step runs it (337-345).        *)
(* While the loop runs no set changes: the loop borrows the set.          *)
(*                                                                         *)
(* tail: None and Some(empty) are both the empty sequence; tail() returns *)
(* an empty slice for None and no caller tells them apart.                *)
(***************************************************************************)
EXTENDS Integers, Sequences, Bitwise, SequencesExt

CONSTANTS
  Names,   \* the bitsets
  W,       \* bits_per_word(), a power of two (64 on the target)
  Bits     \* the bits set_bit is called with

ASSUME W \in {2, 4, 8, 16, 32, 64} /\ Bits \subseteq Nat

VARIABLES
  bs,     \* name -> [head, tail]
  it,     \* the loop: [active, name, cur |-> BitsetIter, out]
  last    \* the last set_bit / bitor_assign call, a history variable

vars == <<bs, it, last>>

NoItem == -1                      \* next() returned None

Shl(bit) == 2^bit                 \* 1 << bit

Zeros(n) == [i \in 1..n |-> 0]

\* Bitset::new (39-44)
NewBitset == [head |-> 0, tail |-> <<>>]

\* Mutant: the bit is not masked to its word.
SetBitNoMask(b, bit) ==
  IF bit < W THEN [b EXCEPT !.head = @ | Shl(bit)]
  ELSE LET word == bit \div W - 1
           t    == IF word >= Len(b.tail) THEN b.tail \o Zeros(word + 1 - Len(b.tail))
                   ELSE b.tail
       IN  [b EXCEPT !.tail = [t EXCEPT ![word + 1] = @ | Shl(bit)]]

\* set_bit (60-71)
SetBit(b, bit) ==
  IF bit < W THEN [b EXCEPT !.head = @ | Shl(bit)]
  ELSE LET word == bit \div W - 1
           t    == IF word >= Len(b.tail) THEN b.tail \o Zeros(word + 1 - Len(b.tail))
                   ELSE b.tail
       IN  [b EXCEPT !.tail = [t EXCEPT ![word + 1] = @ | Shl(bit & (W - 1))]]

\* x & (1 << k) != 0
Bit(x, k) == (x \div Shl(k)) % 2 = 1

\* has_bit (73-85)
HasBit(b, bit) ==
  IF bit < W THEN Bit(b.head, bit)
  ELSE LET word == bit \div W - 1
       IN  IF word >= Len(b.tail) THEN FALSE
           ELSE Bit(b.tail[word + 1], bit & (W - 1))

\* Mutant: self's tail is not grown to the length of rhs's.
BitOrAssignNoResize(b, r) ==
  IF r.tail = <<>> THEN [b EXCEPT !.head = @ | r.head]
  ELSE [head |-> b.head | r.head,
        tail |-> [i \in 1..Len(b.tail) |-> IF i <= Len(r.tail) THEN b.tail[i] | r.tail[i]
                                          ELSE b.tail[i]]]

\* bitor_assign (88-102)
BitOrAssign(b, r) ==
  LET h  == b.head | r.head
      st == IF Len(r.tail) > Len(b.tail) THEN b.tail \o Zeros(Len(r.tail) - Len(b.tail))
            ELSE b.tail
  IN  IF r.tail = <<>> THEN [b EXCEPT !.head = h]
      ELSE [head |-> h,
            tail |-> [i \in 1..Len(st) |-> IF i <= Len(r.tail) THEN st[i] | r.tail[i]
                                           ELSE st[i]]]

\* into_iter (108-114)
IntoIter(b) == [bits |-> b.head, offset |-> 0, buffer |-> b.tail]

\* u64::trailing_zeros of a non-zero word
TrailingZeros(x) == CHOOSE i \in 0..(W - 1) : x % Shl(i + 1) = Shl(i)

\* Mutant: the offset advances only when the words run out.
RECURSIVE IterNextLateOffset(_)
IterNextLateOffset(c) ==
  IF c.bits = 0
    THEN IF c.buffer = <<>> THEN [cur |-> [c EXCEPT !.offset = @ + W], item |-> NoItem]
         ELSE IterNextLateOffset([c EXCEPT !.bits = Head(c.buffer), !.buffer = Tail(@)])
    ELSE [cur |-> [c EXCEPT !.bits = @ & (@ - 1)],
          item |-> TrailingZeros(c.bits) + c.offset]

\* BitsetIter::next (126-137): [cur, item], item NoItem for None.
RECURSIVE IterNext(_)
IterNext(c) ==
  IF c.bits = 0
    THEN LET c1 == [c EXCEPT !.offset = @ + W]
         IN  IF c1.buffer = <<>> THEN [cur |-> c1, item |-> NoItem]
             ELSE IterNext([c1 EXCEPT !.bits = Head(c.buffer), !.buffer = Tail(@)])
    ELSE [cur |-> [c EXCEPT !.bits = @ & (@ - 1)],
          item |-> TrailingZeros(c.bits) + c.offset]

-----------------------------------------------------------------------------
Init ==
  /\ bs = [n \in Names |-> NewBitset]
  /\ it = [active |-> FALSE, name |-> CHOOSE n \in Names : TRUE,
           cur |-> IntoIter(NewBitset), out |-> <<>>]
  /\ last = [op |-> "none", n |-> "", bit |-> -1, from |-> ""]

SetBitCall(n, bit) ==
  /\ ~it.active
  /\ bs' = [bs EXCEPT ![n] = SetBit(@, bit)]
  /\ last' = [op |-> "set_bit", n |-> n, bit |-> bit, from |-> ""]
  /\ UNCHANGED it

\* self |= &rhs; the borrow rules keep rhs distinct from self.
BitOrAssignCall(n, m) ==
  /\ ~it.active
  /\ n # m
  /\ bs' = [bs EXCEPT ![n] = BitOrAssign(@, bs[m])]
  /\ last' = [op |-> "bitor_assign", n |-> n, bit |-> -1, from |-> m]
  /\ UNCHANGED it

\* for x in &bs[n]
StartLoop(n) ==
  /\ ~it.active
  /\ it' = [active |-> TRUE, name |-> n, cur |-> IntoIter(bs[n]), out |-> <<>>]
  /\ UNCHANGED <<bs, last>>

\* One call of next(); None ends the loop.
LoopNext ==
  LET r == IterNext(it.cur)
  IN  /\ it.active
      /\ it' = IF r.item = NoItem THEN [it EXCEPT !.active = FALSE, !.cur = r.cur]
               ELSE [it EXCEPT !.cur = r.cur, !.out = Append(@, r.item)]
      /\ UNCHANGED <<bs, last>>

Next ==
  \/ \E n \in Names, bit \in Bits : SetBitCall(n, bit)
  \/ \E n, m \in Names : BitOrAssignCall(n, m)
  \/ \E n \in Names : StartLoop(n)
  \/ LoopNext

Spec == Init /\ [][Next]_vars

-----------------------------------------------------------------------------
(***************************************************************************)
(* Properties.                                                             *)
(***************************************************************************)
Word == 0..(Shl(W) - 1)

TypeOK ==
  /\ \A n \in Names : bs[n].head \in Word /\ bs[n].tail \in Seq(Word)
  /\ it.active \in BOOLEAN /\ it.name \in Names
  /\ it.cur.bits \in Word /\ it.cur.buffer \in Seq(Word)
  /\ it.out \in Seq(Nat)

\* The bits has_bit reports set.
Members(b) == {i \in 0..(W * (Len(b.tail) + 1) - 1) : HasBit(b, i)}

(***************************************************************************)
(* set_bit, bitor_assign and has_bit agree on where bit i lives: read     *)
(* back through has_bit, the words implement a growing set in which every *)
(* call has exactly its effect (IntSet).                                  *)
(***************************************************************************)
Abs == INSTANCE IntSet WITH sets <- [n \in Names |-> Members(bs[n])]

ImplementsIntSet == Abs!Spec

(***************************************************************************)
(* A for loop over a bitset (next() from into_iter) yields the members    *)
(* has_bit reports, in increasing order, each once: every call of next    *)
(* returns the least member above those already yielded, and None exactly *)
(* when none is left.  The DV check relies on this to test every pair of  *)
(* variables.                                                              *)
(***************************************************************************)
LoopEnumeratesMembers ==
  [][LoopNext =>
       LET rest == {m \in Members(bs[it.name]) : \A i \in 1..Len(it.out) : m > it.out[i]}
       IN  IF rest = {} THEN ~it'.active
           ELSE it'.active /\ it'.out = Append(it.out, Min(rest))]_vars

=============================================================================
