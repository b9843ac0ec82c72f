------------------------------ MODULE Decoder ------------------------------
(***************************************************************************)
(* The step-number decoder of compressed proofs (verify.rs, verify_proof,  *)
(* the loop after the label roster).  The characters after ")" form a      *)
(* stream of numbers: U..Y are leading digits of a bijective base-5        *)
(* prefix, A..T the final base-20 digit that ends a number and executes    *)
(* the step it names, Z saves the step just executed, ? marks an          *)
(* unfinished proof and every other character is skipped.                  *)
(*                                                                         *)
(* The decoder is written as pure operators over a record                  *)
(*   [k, can_save, st, err]                                                *)
(* where st is the verifier state it drives: the instantiating module      *)
(* supplies the execute_step and save_step it uses.  Verify gives the real *)
(* ones, DecoderCheck a stand-in that only records the calls.              *)
(***************************************************************************)
LOCAL INSTANCE Integers
LOCAL INSTANCE Sequences

CONSTANTS
  VarintLimit,   \* u32::max_value() / 20 - 1 (verify.rs:458)
  Execute(_, _), \* execute_step(st, n): [st, err]
  Save(_)        \* save_step(st): the new st

ASSUME VarintLimit \in Nat

FinalDigits == <<"A", "B", "C", "D", "E", "F", "G", "H", "I", "J",
                 "K", "L", "M", "N", "O", "P", "Q", "R", "S", "T">>
ContDigits  == <<"U", "V", "W", "X", "Y">>

\* Mutant: the digit value is 0-based, ch - b'A' - 1.
DigitOfZeroBased(digits, ch) == (CHOOSE i \in 1..Len(digits) : digits[i] = ch) - 1

\* The value of ch as an index into digits, 1-based: ch - b'A' + 1.
DigitOf(digits, ch) == CHOOSE i \in 1..Len(digits) : digits[i] = ch

IsIn(digits, ch) == \E i \in 1..Len(digits) : digits[i] = ch

(***************************************************************************)
(* One character of the stream (verify.rs:448-473), one operator per      *)
(* branch.  An error is recorded in err; the caller stops at the first.   *)
(***************************************************************************)
\* A..T: the number is complete; execute the step it names (449-455).
FinalDigit(d, ch) ==
  LET r == Execute(d.st, d.k * 20 + DigitOf(FinalDigits, ch) - 1)
  IN  [k |-> 0, can_save |-> TRUE, st |-> r.st, err |-> r.err]

\* Mutant: the digit is taken without the + 1 of bijective base 5.
ContDigitNoOne(d, ch) ==
  LET nk == d.k * 5 + DigitOf(ContDigits, ch) - 1
  IN  IF nk >= VarintLimit
        THEN [d EXCEPT !.k = nk, !.err = "ProofMalformedVarint"]
        ELSE [d EXCEPT !.k = nk, !.can_save = FALSE]

\* Mutant: no bound on the accumulated prefix.
ContDigitUnbounded(d, ch) ==
  [d EXCEPT !.k = d.k * 5 + DigitOf(ContDigits, ch), !.can_save = FALSE]

\* U..Y: one more leading digit, bounded by the varint limit (456-461).
ContDigit(d, ch) ==
  LET nk == d.k * 5 + DigitOf(ContDigits, ch)
  IN  IF nk >= VarintLimit
        THEN [d EXCEPT !.k = nk, !.err = "ProofMalformedVarint"]
        ELSE [d EXCEPT !.k = nk, !.can_save = FALSE]

\* Z: save the step just executed, once (462-467).
SaveChar(d) ==
  IF ~d.can_save THEN [d EXCEPT !.err = "ProofInvalidSave"]
  ELSE [d EXCEPT !.st = Save(d.st), !.can_save = FALSE]

\* ?: an incomplete proof, or a malformed one inside a number (468-473).
QuestionMark(d) ==
  [d EXCEPT !.err = IF d.k > 0 THEN "ProofMalformedVarint" ELSE "ProofIncomplete"]

\* Every other character is skipped.
DecodeChar(d, ch) ==
  CASE IsIn(FinalDigits, ch) -> FinalDigit(d, ch)
    [] IsIn(ContDigits, ch)  -> ContDigit(d, ch)
    [] ch = "Z"              -> SaveChar(d)
    [] ch = "?"              -> QuestionMark(d)
    [] OTHER                 -> d

\* The check after the last character (verify.rs:478-480).
EndOfStream(d) ==
  IF d.k > 0 THEN [d EXCEPT !.err = "ProofMalformedVarint"] ELSE d

\* The decoder's state before the first character (verify.rs:444-445).
InitDecoder(st) == [k |-> 0, can_save |-> FALSE, st |-> st, err |-> "none"]

=============================================================================
