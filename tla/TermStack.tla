------------------------------ MODULE TermStack ------------------------------
(***************************************************************************)
(* What FormulaBuilder promises (spec.md 4.3.1): a stack of terms.  reduce *)
(* replaces the var_count terms that lie offset terms below the top by one *)
(* term with them as arguments, and needs at least var_count + offset      *)
(* terms; build needs exactly one.  A call whose requirement fails aborts  *)
(* the program (spec.md 7, fatal conditions).  last records the call, so  *)
(* that a call is matched only by a step with its own arguments.          *)
(***************************************************************************)
EXTENDS Integers, Sequences

CONSTANTS Labels, Counts

VARIABLES terms, status, last

Init ==
  /\ terms = <<>>
  /\ status = "building"
  /\ last = <<>>

Reduce(label, var_count, offset, is_variable) ==
  LET n     == Len(terms)
      first == n - var_count - offset
  IN  /\ status = "building"
      /\ last' = <<label, var_count, offset, is_variable>>
      /\ IF n >= var_count + offset
           THEN /\ terms' = SubSeq(terms, 1, first)
                            \o <<[label |-> label, var |-> is_variable,
                                  args |-> SubSeq(terms, first + 1, n - offset)]>>
                            \o SubSeq(terms, n - offset + 1, n)
                /\ UNCHANGED status
           ELSE /\ status' = "panicked"
                /\ UNCHANGED terms

Build ==
  /\ status = "building"
  /\ status' = IF Len(terms) = 1 THEN "built" ELSE "panicked"
  /\ last' = <<"build">>
  /\ UNCHANGED terms

Next ==
  \/ \E l \in Labels, c, o \in Counts, v \in BOOLEAN : Reduce(l, c, o, v)
  \/ Build

Spec == Init /\ [][Next]_<<terms, status, last>>

=============================================================================
