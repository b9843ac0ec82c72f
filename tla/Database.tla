------------------------------ MODULE Database ------------------------------
(***************************************************************************)
(* What the verifier reads from its collaborators (spec.md 1 and 6): the   *)
(* frames the scope analyzer built, keyed by label; the statement whose    *)
(* proof is checked; the segment order; and the byte encoding the scope    *)
(* analyzer used for constants and hypothesis stubs.  None of this code    *)
(* is in the repository's src/, so it is modelled from the spec, except    *)
(* the scope checks of prepare_step, which are verify.rs code.             *)
(*                                                                         *)
(* A frame is a record                                                     *)
(*   [stype, hypotheses, mandatory_vars, mandatory_dv, optional_dv,        *)
(*    target |-> [typecode, tail], stub_expr, valid |-> [start, end]]     *)
(* A hypothesis is [is_float, label, variable_index, expr].  A tail is a  *)
(* sequence of fragments <<"Var", ix>> (ix 0-based into mandatory_vars)   *)
(* and <<"Constant", token>>.  Positions are <<segment, index>>.          *)
(* Every math token is one byte: the byte-level effect of the two token   *)
(* encodings is what the model keeps.                                      *)
(***************************************************************************)
EXTENDS Integers, Sequences, SequencesExt

CONSTANTS
  Frames,     \* label -> frame, the scope analyzer's result
  CurLabel,   \* label of the $p statement being verified
  Variables,  \* the math tokens that are variables
  Encoding    \* "space": token bytes then " "; "sentinel": high bit on last byte

ASSUME Encoding \in {"space", "sentinel"}
ASSUME CurLabel \in DOMAIN Frames /\ Frames[CurLabel].stype = "provable"

NoStatement == -1          \* parser::NO_STATEMENT: a frame valid to the end

Cur == Frames[CurLabel]
CurPos == Cur.valid.start

\* SegmentOrder::cmp(a, b) = Greater; segments are ordered by their id.
After(a, b) == a[1] > b[1] \/ (a[1] = b[1] /\ a[2] > b[2])

IsAssertion(f) == f.stype \in {"axiom", "provable"}

(***************************************************************************)
(* The diagnostics prepare_step returns before it touches any state        *)
(* (verify.rs:176-191), or "none".                                         *)
(***************************************************************************)
ScopeError(label) ==
  IF label \notin DOMAIN Frames THEN "StepMissing"
  ELSE LET valid == Frames[label].valid
       IN  IF ~After(CurPos, valid.start) THEN "StepUsedBeforeDefinition"
           ELSE IF valid.end # NoStatement
                   /\ (CurPos[1] # valid.start[1] \/ CurPos[2] >= valid.end)
                THEN "StepUsedAfterScope"
           ELSE "none"

-----------------------------------------------------------------------------
(***************************************************************************)
(* Bytes.  A byte is <<b, hi>>: the token it carries (or " ") and whether *)
(* its high bit is set.                                                    *)
(***************************************************************************)
Space == <<" ", FALSE>>

\* A token as the scope analyzer encodes it in constants and stubs.
EncodeToken(t) ==
  IF Encoding = "sentinel" THEN << <<t, TRUE>> >> ELSE << <<t, FALSE>>, Space >>

EncodeTokens(ts) == FlattenSeq([i \in 1..Len(ts) |-> EncodeToken(ts[i])])

\* A token's bytes as they stand in the source text (mandatory_vars).
RawToken(t) == << <<t, FALSE>> >>

\* Re-tokenizing a byte string of the encoding; "#malformed" otherwise.
WellEncoded(bs) ==
  IF Encoding = "sentinel"
    THEN \A i \in 1..Len(bs) : bs[i][2]
    ELSE /\ Len(bs) % 2 = 0
         /\ \A i \in 1..Len(bs) : (bs[i] = Space) <=> (i % 2 = 0)

DecodeBytes(bs) ==
  IF ~WellEncoded(bs) THEN <<"#malformed">>
  ELSE IF Encoding = "sentinel"
         THEN [i \in 1..Len(bs) |-> bs[i][1]]
         ELSE [i \in 1..(Len(bs) \div 2) |-> bs[2 * i - 1][1]]

\* The expression the current statement asserts, as tokens.
CurTargetTokens ==
  LET t == Cur.target.tail
  IN  [i \in 1..Len(t) |-> IF t[i][1] = "Var" THEN Cur.mandatory_vars[t[i][2] + 1]
                           ELSE t[i][2]]

VarsIn(ts) == {ts[i] : i \in 1..Len(ts)} \cap Variables

=============================================================================
