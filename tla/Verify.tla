------------------------------- MODULE Verify -------------------------------
(***************************************************************************)
(* verify_proof of verify.rs: the proof of one $p statement replayed on   *)
(* the verifier's own state (VerifyState, verify.rs:151-164).            *)
(*                                                                         *)
(*  - Expressions live as byte strings in prep_buffer and stack_buffer;   *)
(*    prepared steps and stack slots hold half-open ranges [s, e) into    *)
(*    them.  Executing an assertion truncates stack_buffer to the end of  *)
(*    the slot below the popped hypotheses and appends the conclusion.    *)
(*  - Variables are numbered on first sight (var2bit) and each slot keeps *)
(*    the set of numbers of its variables; dv_map[i] holds the numbers    *)
(*    declared distinct from i.  Sets of numbers stand for the Bitset     *)
(*    type, which the Bitset module shows implements a set.               *)
(*  - temp_buffer, subst_vars and subst_exprs are cleared at every use;   *)
(*    they are the LET-bound values of the operators below.              *)
(*                                                                         *)
(* The operations are pure functions of the state record, as the Rust     *)
(* functions are of &mut VerifyState; each action of the driver is one    *)
(* proof token (or character, in the compressed step stream) and runs     *)
(* everything verify_proof does with it.                                  *)
(***************************************************************************)
EXTENDS Database, FiniteSetsExt

CONSTANTS
  Formats,        \* proof formats explored: "compressed", "uncompressed"
  ProofTokens,    \* tokens an uncompressed proof is drawn from ("?" included)
  RosterLabels,   \* labels a compressed proof's roster is drawn from
  StepChars,      \* characters its step stream is drawn from
  MaxTokens,      \* bound on the tokens and characters read
  MaxStepIndex    \* bound on step numbers, for the abstract specification

VARIABLES
  state,   \* [prepared, prep_buffer, stack, stack_buffer, var2bit, dv_map]
  phase,   \* "start", "roster", "steps" (compressed) or "uncompressed"
  dec,     \* [k, can_save] of the compressed step decoder
  count,   \* tokens (and step characters) read so far
  result   \* "running", "ok" or the first diagnostic

vars == <<state, phase, dec, count, result>>


NoRange == [s |-> 0, e |-> 0]

Bytes(buf, r) == SubSeq(buf, r.s + 1, r.e)

(***************************************************************************)
(* map_var (verify.rs:166-173): the number of a variable, allocating the  *)
(* next one and an empty dv_map row on first sight.                        *)
(***************************************************************************)
\* Mutant: no dv_map row is allocated for a new variable.
MapVarNoRow(st, tok) ==
  IF tok \in DOMAIN st.var2bit THEN st
  ELSE [st EXCEPT !.var2bit = @ @@ (tok :> Cardinality(DOMAIN st.var2bit))]

MapVar(st, tok) ==
  IF tok \in DOMAIN st.var2bit THEN st
  ELSE [st EXCEPT !.var2bit = @ @@ (tok :> Cardinality(DOMAIN st.var2bit)),
                  !.dv_map  = Append(@, {})]

RECURSIVE MapVars(_, _)
MapVars(st, toks) ==
  IF toks = <<>> THEN st ELSE MapVars(MapVar(st, Head(toks)), Tail(toks))

\* Mutant: the pair is registered one way only.
RegisterDvOneWay(st, pair) ==
  LET s1 == MapVar(MapVar(st, pair[1]), pair[2])
  IN  [s1 EXCEPT !.dv_map[s1.var2bit[pair[1]] + 1] = @ \cup {s1.var2bit[pair[2]]}]

\* The optional DV pairs of the statement, registered both ways (412-417).
RegisterDv(st, pair) ==
  LET s1 == MapVar(MapVar(st, pair[1]), pair[2])
      i1 == s1.var2bit[pair[1]]
      i2 == s1.var2bit[pair[2]]
  IN  [s1 EXCEPT !.dv_map[i1 + 1] = @ \cup {i2}, !.dv_map[i2 + 1] = @ \cup {i1}]

RegisterOptionalDv(st) == FoldLeft(RegisterDv, st, Cur.optional_dv)

(***************************************************************************)
(* prepare_step (verify.rs:175-210).                                       *)
(***************************************************************************)
PrepareStep(st, label) ==
  IF ScopeError(label) # "none" THEN [st |-> st, err |-> ScopeError(label)]
  ELSE
    LET f == Frames[label]
    IN  IF IsAssertion(f)
          THEN [st |-> [st EXCEPT !.prepared = Append(@, [kind |-> "assert",
                          frame |-> label, code |-> "", vars |-> {}, expr |-> NoRange])],
                err |-> "none"]
          ELSE LET s1    == MapVars(st, f.mandatory_vars)
                   bits  == {s1.var2bit[f.mandatory_vars[i]] : i \in 1..Len(f.mandatory_vars)}
                   tos   == Len(s1.prep_buffer)
                   bytes == EncodeTokens(f.stub_expr)
               IN  [st |-> [s1 EXCEPT
                       !.prep_buffer = @ \o bytes,
                       !.prepared = Append(@, [kind |-> "hyp", frame |-> "",
                                    code |-> f.target.typecode, vars |-> bits,
                                    expr |-> [s |-> tos, e |-> tos + Len(bytes)]])],
                    err |-> "none"]

\* do_substitute (212-226): exprs maps each variable index to a range of buf.
DoSubstitute(tail, exprs, buf) ==
  FlattenSeq([i \in 1..Len(tail) |->
    IF tail[i][1] = "Var" THEN Bytes(buf, exprs[tail[i][2]]) ELSE EncodeToken(tail[i][2])])

\* Mutant: out = vars[ix] instead of out |= &vars[ix]; the last variable wins.
DoSubstituteVarsLast(tail, varsets) ==
  LET vs == {i \in 1..Len(tail) : tail[i][1] = "Var"}
  IN  IF vs = {} THEN {} ELSE varsets[tail[Max(vs)][2]]

\* do_substitute_vars (242-251): the union of the variables' sets.
DoSubstituteVars(tail, varsets) ==
  UNION {varsets[tail[i][2]] : i \in {j \in 1..Len(tail) : tail[j][1] = "Var"}}

\* Mutant: stack_buffer is not truncated; the conclusion goes on top.
TruncationPointTop(st, sbase) == Len(st.stack_buffer)

\* Where stack_buffer is cut when the hypotheses are popped (319-325).
TruncationPoint(st, sbase) == IF sbase = 0 THEN 0 ELSE st.stack[sbase].expr.e

(***************************************************************************)
(* execute_step for an assertion (verify.rs:273-347).  subst_exprs and    *)
(* subst_vars are resized to the frame's variables with empty entries and *)
(* the last floating hypothesis for a variable wins.                      *)
(***************************************************************************)
ExecuteAssert(st, f) ==
  LET h     == Len(f.hypotheses)
      sbase == Len(st.stack) - h
      slot(ix) == st.stack[sbase + ix]
      hyp(ix)  == f.hypotheses[ix]
      floats   == {ix \in 1..h : hyp(ix).is_float}
      essens   == (1..h) \ floats
      floatFor(v) == {ix \in floats : hyp(ix).variable_index = v}
      mvars       == 0..(Len(f.mandatory_vars) - 1)
      substExprs  == [v \in mvars |-> IF floatFor(v) = {} THEN NoRange
                                      ELSE slot(Max(floatFor(v))).expr]
      substVars   == [v \in mvars |-> IF floatFor(v) = {} THEN {}
                                      ELSE slot(Max(floatFor(v))).vars]
      badEssen == {ix \in essens :
                     \/ slot(ix).code # hyp(ix).expr.typecode
                     \/ Bytes(st.stack_buffer, slot(ix).expr)
                          # DoSubstitute(hyp(ix).expr.tail, substExprs, st.stack_buffer)}
      temp  == DoSubstitute(f.target.tail, substExprs, st.stack_buffer)
      keep  == TruncationPoint(st, sbase)
      s2    == [st EXCEPT
                 !.stack = SubSeq(st.stack, 1, sbase)
                             \o << [code |-> f.target.typecode,
                                    vars |-> DoSubstituteVars(f.target.tail, substVars),
                                    expr |-> [s |-> keep, e |-> keep + Len(temp)]] >>,
                 !.stack_buffer = SubSeq(st.stack_buffer, 1, keep) \o temp]
      dvBroken == \E p \in f.mandatory_dv :
                    \E v1 \in substVars[p[1]], v2 \in substVars[p[2]] :
                      v2 \notin st.dv_map[v1 + 1]
  IN  IF sbase < 0 THEN [st |-> st, err |-> "ProofUnderflow"]
      ELSE IF \E ix \in floats : slot(ix).code # hyp(ix).expr.typecode
        THEN [st |-> st, err |-> "StepFloatWrongType"]
      ELSE IF badEssen # {}
        THEN [st |-> st, err |-> IF slot(Min(badEssen)).code # hyp(Min(badEssen)).expr.typecode
                                THEN "StepEssenWrongType" ELSE "StepEssenWrong"]
      ELSE [st |-> s2, err |-> IF dvBroken THEN "ProofDvViolation" ELSE "none"]

(***************************************************************************)
(* execute_step (verify.rs:253-271): a hypothesis step copies its bytes   *)
(* to the top of stack_buffer.                                             *)
(***************************************************************************)
ExecuteStep(st, index) ==
  IF index >= Len(st.prepared) THEN [st |-> st, err |-> "StepOutOfRange"]
  ELSE LET p == st.prepared[index + 1]
       IN  IF p.kind = "assert" THEN ExecuteAssert(st, Frames[p.frame])
           ELSE LET tos   == Len(st.stack_buffer)
                    bytes == Bytes(st.prep_buffer, p.expr)
                IN  [st |-> [st EXCEPT
                        !.stack_buffer = @ \o bytes,
                        !.stack = Append(@, [vars |-> p.vars, code |-> p.code,
                                             expr |-> [s |-> tos, e |-> tos + Len(bytes)]])],
                     err |-> "none"]

(***************************************************************************)
(* save_step (verify.rs:375-382): the top slot's bytes become a prepared  *)
(* hypothesis step.                                                        *)
(***************************************************************************)
\* Mutant: the saved step does not carry the slot's variables.
SaveStepNoVars(st) ==
  LET top   == Last(st.stack)
      tos   == Len(st.prep_buffer)
      bytes == Bytes(st.stack_buffer, top.expr)
  IN  [st EXCEPT !.prep_buffer = @ \o bytes,
                 !.prepared = Append(@, [kind |-> "hyp", frame |-> "", code |-> top.code,
                                         vars |-> {},
                                         expr |-> [s |-> tos, e |-> tos + Len(bytes)]])]

SaveStep(st) ==
  LET top   == Last(st.stack)
      tos   == Len(st.prep_buffer)
      bytes == Bytes(st.stack_buffer, top.expr)
  IN  [st EXCEPT !.prep_buffer = @ \o bytes,
                 !.prepared = Append(@, [kind |-> "hyp", frame |-> "", code |-> top.code,
                                         vars |-> top.vars,
                                         expr |-> [s |-> tos, e |-> tos + Len(bytes)]])]

(***************************************************************************)
(* finalize_step (verify.rs:350-373) with do_substitute_raw (228-240):    *)
(* the statement's own variables are written as source tokens followed    *)
(* by a space.                                                             *)
(***************************************************************************)
DoSubstituteRaw(tail, mvars) ==
  FlattenSeq([i \in 1..Len(tail) |->
    IF tail[i][1] = "Var" THEN RawToken(mvars[tail[i][2] + 1]) \o <<Space>>
    ELSE EncodeToken(tail[i][2])])

FinalizeStep(st) ==
  IF st.stack = <<>> THEN "ProofNoSteps"
  ELSE IF Len(st.stack) > 1 THEN "ProofExcessEnd"
  ELSE IF st.stack[1].code # Cur.target.typecode THEN "ProofWrongTypeEnd"
  ELSE IF Bytes(st.stack_buffer, st.stack[1].expr)
            # DoSubstituteRaw(Cur.target.tail, Cur.mandatory_vars)
       THEN "ProofWrongExprEnd"
  ELSE "ok"

RECURSIVE PrepareHyps(_, _)
PrepareHyps(st, hyps) ==
  IF hyps = <<>> THEN [st |-> st, err |-> "none"]
  ELSE LET r == PrepareStep(st, Head(hyps).label)
       IN  IF r.err # "none" THEN r ELSE PrepareHyps(r.st, Tail(hyps))

\* The step decoder driving execute_step and save_step; the limit is
\* u32::max_value() / 20 - 1 = 4294967295 \div 20 - 1 (verify.rs:458).
D == INSTANCE Decoder WITH VarintLimit <- 214748363, Execute <- ExecuteStep,
                           Save <- SaveStep

-----------------------------------------------------------------------------
(***************************************************************************)
(* The driver: verify_proof (verify.rs:385-504), one action per token.    *)
(***************************************************************************)
Outcome(err) == IF err = "none" THEN "running" ELSE err

Init ==
  /\ state = [prepared |-> <<>>, prep_buffer |-> <<>>, stack |-> <<>>,
              stack_buffer |-> <<>>, var2bit |-> <<>>, dv_map |-> <<>>]
  /\ phase = "start"
  /\ dec = [k |-> 0, can_save |-> FALSE]
  /\ count = 0
  /\ result = "running"

\* Register the optional DV pairs, then look at the first token (412-426).
Begin(format) ==
  LET st == RegisterOptionalDv(state)
      r  == PrepareHyps(st, Cur.hypotheses)
  IN  /\ phase = "start"
      /\ IF format = "compressed"
           THEN /\ state' = r.st
                /\ phase' = "roster"
                /\ result' = Outcome(r.err)
           ELSE /\ state' = st
                /\ phase' = "uncompressed"
                /\ UNCHANGED result
      /\ UNCHANGED <<dec, count>>

\* A roster label (428-442).
RosterLabel(label) ==
  LET r == PrepareStep(state, label)
  IN  /\ phase = "roster"
      /\ count < MaxTokens
      /\ state' = r.st
      /\ result' = Outcome(r.err)
      /\ count' = count + 1
      /\ UNCHANGED <<phase, dec>>

RosterEnd ==
  /\ phase = "roster"
  /\ count < MaxTokens
  /\ phase' = "steps"
  /\ count' = count + 1
  /\ UNCHANGED <<state, dec, result>>

\* The proof ends inside the roster (429-431).
RosterUnterminated ==
  /\ phase = "roster"
  /\ result' = "ProofUnterminatedRoster"
  /\ UNCHANGED <<state, phase, dec, count>>

\* One character of the step stream (446-476).
StepChar(ch) ==
  LET d == D!DecodeChar([k |-> dec.k, can_save |-> dec.can_save, st |-> state, err |-> "none"], ch)
  IN  /\ phase = "steps"
      /\ count < MaxTokens
      /\ state' = d.st
      /\ dec' = [k |-> d.k, can_save |-> d.can_save]
      /\ result' = Outcome(d.err)
      /\ count' = count + 1
      /\ UNCHANGED phase

\* The end of the step stream, then finalize_step (478-503).
StepsEnd ==
  LET d == D!EndOfStream([k |-> dec.k, can_save |-> dec.can_save, st |-> state, err |-> "none"])
  IN  /\ phase = "steps"
      /\ result' = IF d.err # "none" THEN d.err ELSE FinalizeStep(state)
      /\ UNCHANGED <<state, phase, dec, count>>

\* One token of an uncompressed proof (482-496).
UncompressedToken(tok) ==
  LET p == PrepareStep(state, tok)
      x == ExecuteStep(p.st, count)
  IN  /\ phase = "uncompressed"
      /\ count < MaxTokens
      /\ IF tok = "?"
           THEN /\ result' = "ProofIncomplete"
                /\ UNCHANGED state
           ELSE IF p.err # "none"
             THEN /\ result' = p.err
                  /\ state' = p.st
             ELSE /\ result' = Outcome(x.err)
                  /\ state' = x.st
      /\ count' = count + 1
      /\ UNCHANGED <<phase, dec>>

UncompressedEnd ==
  /\ phase = "uncompressed"
  /\ result' = FinalizeStep(state)
  /\ UNCHANGED <<state, phase, dec, count>>

Next ==
  /\ result = "running"
  /\ \/ \E f \in Formats : Begin(f)
     \/ \E l \in RosterLabels : RosterLabel(l)
     \/ RosterEnd
     \/ RosterUnterminated
     \/ \E ch \in StepChars : StepChar(ch)
     \/ StepsEnd
     \/ \E t \in ProofTokens : UncompressedToken(t)
     \/ UncompressedEnd

Spec == Init /\ [][Next]_vars

-----------------------------------------------------------------------------
(***************************************************************************)
(* Properties.                                                             *)
(***************************************************************************)
Diagnostics ==
  {"StepMissing", "StepUsedBeforeDefinition", "StepUsedAfterScope",
   "StepOutOfRange", "ProofUnderflow", "StepFloatWrongType",
   "StepEssenWrongType", "StepEssenWrong", "ProofDvViolation", "ProofNoSteps",
   "ProofExcessEnd", "ProofWrongTypeEnd", "ProofWrongExprEnd",
   "ProofUnterminatedRoster", "ProofMalformedVarint", "ProofInvalidSave",
   "ProofIncomplete"}

RangeIn(r, buf) == 0 <= r.s /\ r.s <= r.e /\ r.e <= Len(buf)

NBits == Len(state.dv_map)

TypeOK ==
  /\ phase \in {"start", "roster", "steps", "uncompressed"}
  /\ result \in {"running", "ok"} \cup Diagnostics
  /\ dec.k \in Nat /\ dec.can_save \in BOOLEAN
  /\ count \in 0..MaxTokens
  /\ \A i \in 1..Len(state.prepared) :
       LET p == state.prepared[i]
       IN  \/ p.kind = "assert" /\ p.frame \in DOMAIN Frames
           \/ p.kind = "hyp" /\ RangeIn(p.expr, state.prep_buffer)
              /\ p.vars \subseteq 0..(NBits - 1)
  /\ \A i \in 1..Len(state.stack) :
       RangeIn(state.stack[i].expr, state.stack_buffer)
       /\ state.stack[i].vars \subseteq 0..(NBits - 1)
  \* var2bit numbers the variables seen 0..n-1, one dv_map row each
  /\ state.var2bit \in [DOMAIN state.var2bit -> 0..(NBits - 1)]
  /\ Cardinality(DOMAIN state.var2bit) = NBits
  /\ \A i \in 1..NBits : state.dv_map[i] \subseteq 0..(NBits - 1)

(***************************************************************************)
(* The stack slots tile stack_buffer: each slot's bytes start where the   *)
(* slot below ends and the buffer ends with the top slot, so truncating   *)
(* to the end of the slot below the popped hypotheses (verify.rs:319-325) *)
(* reclaims exactly their bytes and no live slot's.                        *)
(***************************************************************************)
StackBufferTiling ==
  /\ \A i \in 1..Len(state.stack) :
       state.stack[i].expr.s = IF i = 1 THEN 0 ELSE state.stack[i - 1].expr.e
  /\ Len(state.stack_buffer) = IF state.stack = <<>> THEN 0 ELSE Last(state.stack).expr.e

(***************************************************************************)
(* The variable numbers a slot or a prepared hypothesis carries are those *)
(* of exactly the variables that occur in its bytes.  The DV check        *)
(* (verify.rs:337-345) reads only these sets, so a variable missing from  *)
(* one would escape it.                                                    *)
(***************************************************************************)
BitsOf(ts) == {state.var2bit[t] : t \in VarsIn(ts) \cap DOMAIN state.var2bit}

VarsTrackExpr ==
  /\ \A i \in 1..Len(state.stack) :
       LET sl == state.stack[i]
           ts == DecodeBytes(Bytes(state.stack_buffer, sl.expr))
       IN  VarsIn(ts) \subseteq DOMAIN state.var2bit /\ sl.vars = BitsOf(ts)
  /\ \A i \in 1..Len(state.prepared) :
       LET p  == state.prepared[i]
           ts == DecodeBytes(Bytes(state.prep_buffer, p.expr))
       IN  p.kind = "hyp" => VarsIn(ts) \subseteq DOMAIN state.var2bit /\ p.vars = BitsOf(ts)

(***************************************************************************)
(* Refinement: the byte-buffer verifier implements ProofStack.  Ranges    *)
(* are read back as token sequences, so every prepared step, every stack  *)
(* slot and every diagnostic must be what the token-level semantics says, *)
(* including the DV decisions made through var2bit and dv_map.           *)
(***************************************************************************)
AbsPrepared ==
  [i \in 1..Len(state.prepared) |->
     LET p == state.prepared[i]
     IN  IF p.kind = "assert"
           THEN [kind |-> "assert", frame |-> p.frame, code |-> "", expr |-> <<>>]
           ELSE [kind |-> "hyp", frame |-> "", code |-> p.code,
                 expr |-> DecodeBytes(Bytes(state.prep_buffer, p.expr))]]

AbsStack ==
  [i \in 1..Len(state.stack) |->
     [code |-> state.stack[i].code,
      expr |-> DecodeBytes(Bytes(state.stack_buffer, state.stack[i].expr))]]

Abs == INSTANCE ProofStack WITH
         aprepared <- AbsPrepared, astack <- AbsStack, aresult <- result,
         Labels <- (ProofTokens \ {"?"}) \cup RosterLabels

AbsSpec == Abs!Spec

(***************************************************************************)
(* A proof is rejected as proving the wrong expression only when the      *)
(* expression it leaves differs, token for token, from the statement's    *)
(* assertion (spec.md 8, scenarios S1 and S3).                             *)
(***************************************************************************)
WrongExprEndOnlyIfWrong ==
  result = "ProofWrongExprEnd" =>
    DecodeBytes(Bytes(state.stack_buffer, state.stack[1].expr)) # CurTargetTokens

=============================================================================
