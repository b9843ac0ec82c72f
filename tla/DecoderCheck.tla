---------------------------- MODULE DecoderCheck ----------------------------
(***************************************************************************)
(* The compressed-proof step decoder (Decoder) run on every character      *)
(* stream up to MaxChars, against a stand-in verifier that has NPrepared   *)
(* prepared steps and records each executed step number and each save.     *)
(* The accumulator limit is computed for a Width-bit word the way the      *)
(* code computes it for u32, so the overflow question of a 32-bit target   *)
(* is asked at a width TLC can enumerate.                                  *)
(***************************************************************************)
EXTENDS Integers, Sequences, SequencesExt

CONSTANTS
  Width,      \* width of the word the step number must fit in (32 in the code)
  NPrepared,  \* prepared steps before the stream starts (hypotheses + roster)
  Chars,      \* characters the stream is drawn from
  MaxChars    \* bound on the length of the stream

ASSUME Width \in Nat \ {0} /\ NPrepared \in Nat /\ MaxChars \in Nat

\* u32::max_value() / 20 - 1, at width Width (verify.rs:458).
Limit == (2^Width - 1) \div 20 - 1

VARIABLES
  dec,     \* the decoder record [k, can_save, st, err] of Decoder
  input,   \* the characters read so far
  result   \* "running", "ok" or the diagnostic that ended the stream

vars == <<dec, input, result>>

(***************************************************************************)
(* Stand-in for execute_step and save_step: the step number must name a   *)
(* prepared step (verify.rs:254-256); a save adds one (verify.rs:381).     *)
(***************************************************************************)
StandInExecute(st, n) ==
  IF n >= st.nprep
    THEN [st |-> st, err |-> "StepOutOfRange"]
    ELSE [st |-> [st EXCEPT !.trace = Append(@, <<"exec", n>>)], err |-> "none"]

StandInSave(st) == [nprep |-> st.nprep + 1, trace |-> Append(st.trace, <<"save", 0>>)]

D == INSTANCE Decoder WITH VarintLimit <- Limit, Execute <- StandInExecute,
                           Save <- StandInSave

Init ==
  /\ dec = D!InitDecoder([nprep |-> NPrepared, trace |-> <<>>])
  /\ input = <<>>
  /\ result = "running"

ReadChar(ch) ==
  LET d == D!DecodeChar(dec, ch)
  IN  /\ result = "running"
      /\ Len(input) < MaxChars
      /\ dec' = d
      /\ input' = Append(input, ch)
      /\ result' = IF d.err # "none" THEN d.err ELSE "running"

EndStream ==
  LET d == D!EndOfStream(dec)
  IN  /\ result = "running"
      /\ dec' = d
      /\ result' = IF d.err # "none" THEN d.err ELSE "ok"
      /\ UNCHANGED input

Next == EndStream \/ \E ch \in Chars : ReadChar(ch)

Spec == Init /\ [][Next]_vars

(***************************************************************************)
(* Reference encoding of a step number (the Metamath book, appendix B):    *)
(* the quotient by 20 in bijective base 5 over U..Y, then the remainder    *)
(* as one of A..T.                                                         *)
(***************************************************************************)
RECURSIVE Base5Prefix(_)
Base5Prefix(m) ==
  IF m = 0 THEN <<>>
  ELSE Base5Prefix((m - 1) \div 5) \o << D!ContDigits[((m - 1) % 5) + 1] >>

EncodeStep(n) == Base5Prefix(n \div 20) \o << D!FinalDigits[(n % 20) + 1] >>

EncodeTrace(t) ==
  FlattenSeq([i \in 1..Len(t) |-> IF t[i][1] = "save" THEN <<"Z">> ELSE EncodeStep(t[i][2])])

Significant(s) ==
  SelectSeq(s, LAMBDA c : D!IsIn(D!FinalDigits, c) \/ D!IsIn(D!ContDigits, c)
                          \/ c \in {"Z", "?"})

-----------------------------------------------------------------------------
TypeOK ==
  /\ dec.k \in Nat
  /\ dec.can_save \in BOOLEAN
  /\ dec.st.nprep \in Nat
  /\ \A i \in 1..Len(dec.st.trace) : dec.st.trace[i] \in {"exec", "save"} \X Nat
  /\ result \in {"running", "ok", "StepOutOfRange", "ProofMalformedVarint",
                 "ProofInvalidSave", "ProofIncomplete"}

(***************************************************************************)
(* The decoder inverts the reference encoding: while the stream is being   *)
(* read, and once it ended well, the significant characters read are       *)
(* exactly the encodings of the executed steps and saves, in order,        *)
(* followed by the pending leading digits held in k.                       *)
(***************************************************************************)
DecodesReference ==
  result \in {"running", "ok"} =>
    Significant(input) = EncodeTrace(dec.st.trace) \o Base5Prefix(dec.k)

(***************************************************************************)
(* The varint limit keeps every step number in the word: while decoding,   *)
(* the next final digit cannot carry k * 20 + 19 past 2^Width - 1, the     *)
(* overflow a 32-bit usize would meet (verify.rs:450 and 458).             *)
(***************************************************************************)
StepNumberFitsWord ==
  result = "running" => dec.k * 20 + 19 < 2^Width

=============================================================================
