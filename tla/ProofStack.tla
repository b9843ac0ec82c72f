----------------------------- MODULE ProofStack -----------------------------
(***************************************************************************)
(* What proof checking promises (spec.md 4.4), stated over expressions as  *)
(* token sequences: a list of prepared steps, each a hypothesis expression *)
(* or a cited assertion, and a stack of proved expressions.  Executing an  *)
(* assertion pops its hypotheses, checks the floating ones fix a           *)
(* substitution, checks the essential ones under it, pushes the            *)
(* substituted conclusion, and checks every mandatory DV pair against the  *)
(* variables OCCURRING in the substituted expressions.                     *)
(*                                                                         *)
(* Nothing here is about bytes, ranges, variable numbering or bitsets:     *)
(* Verify keeps those and is shown to implement this module.  The         *)
(* diagnostics and the order they are raised in are the verifier's.       *)
(***************************************************************************)
EXTENDS Database, FiniteSetsExt

CONSTANTS
  Labels,        \* labels a proof may cite (cited labels may be missing)
  MaxStepIndex   \* bound on the step numbers a proof may name

VARIABLES aprepared, astack, aresult

avars == <<aprepared, astack, aresult>>

DecoderDiagnostics ==
  {"ProofIncomplete", "ProofMalformedVarint", "ProofInvalidSave",
   "ProofUnterminatedRoster"}

\* The prepared step a citation of label yields.
StepFor(label) ==
  LET f == Frames[label]
  IN  IF IsAssertion(f)
        THEN [kind |-> "assert", frame |-> label, code |-> "", expr |-> <<>>]
        ELSE [kind |-> "hyp", frame |-> "", code |-> f.target.typecode,
              expr |-> f.stub_expr]

\* Operations on s = [prepared, stack]; each yields [st, err].
Prepare(s, label) ==
  IF ScopeError(label) # "none" THEN [st |-> s, err |-> ScopeError(label)]
  ELSE [st |-> [s EXCEPT !.prepared = Append(@, StepFor(label))], err |-> "none"]

Apply(s, f) ==
  LET h     == Len(f.hypotheses)
      sbase == Len(s.stack) - h
      slot(ix) == s.stack[sbase + ix]
      hyp(ix)  == f.hypotheses[ix]
      floats   == {ix \in 1..h : hyp(ix).is_float}
      essens   == (1..h) \ floats
      \* the expression substituted for mandatory variable v
      sigma(v) == LET fs == {ix \in floats : hyp(ix).variable_index = v}
                  IN  IF fs = {} THEN <<>> ELSE slot(Max(fs)).expr
      subst(tail) == FlattenSeq([i \in 1..Len(tail) |->
                       IF tail[i][1] = "Var" THEN sigma(tail[i][2]) ELSE <<tail[i][2]>>])
      badEssen == {ix \in essens : \/ slot(ix).code # hyp(ix).expr.typecode
                                   \/ slot(ix).expr # subst(hyp(ix).expr.tail)}
      concl    == [code |-> f.target.typecode, expr |-> subst(f.target.tail)]
      s2       == [s EXCEPT !.stack = SubSeq(s.stack, 1, sbase) \o <<concl>>]
      dvPairs  == {<<p[1], p[2]>> : p \in Range(Cur.optional_dv)}
                    \cup {<<p[2], p[1]>> : p \in Range(Cur.optional_dv)}
      dvOk     == \A p \in f.mandatory_dv :
                    \A v1 \in VarsIn(sigma(p[1])), v2 \in VarsIn(sigma(p[2])) :
                      <<v1, v2>> \in dvPairs
  IN  IF sbase < 0 THEN [st |-> s, err |-> "ProofUnderflow"]
      ELSE IF \E ix \in floats : slot(ix).code # hyp(ix).expr.typecode
        THEN [st |-> s, err |-> "StepFloatWrongType"]
      ELSE IF badEssen # {}
        THEN [st |-> s, err |-> IF slot(Min(badEssen)).code # hyp(Min(badEssen)).expr.typecode
                               THEN "StepEssenWrongType" ELSE "StepEssenWrong"]
      ELSE [st |-> s2, err |-> IF dvOk THEN "none" ELSE "ProofDvViolation"]

Execute(s, n) ==
  IF n >= Len(s.prepared) THEN [st |-> s, err |-> "StepOutOfRange"]
  ELSE LET p == s.prepared[n + 1]
       IN  IF p.kind = "hyp"
             THEN [st |-> [s EXCEPT !.stack = Append(@, [code |-> p.code, expr |-> p.expr])],
                   err |-> "none"]
             ELSE Apply(s, Frames[p.frame])

\* Citing a label in an uncompressed proof: prepare it, then execute it.
Cite(s, label) ==
  LET r == Prepare(s, label)
  IN  IF r.err # "none" THEN r ELSE Execute(r.st, Len(r.st.prepared) - 1)

RECURSIVE PrepareAll(_, _)
PrepareAll(s, labels) ==
  IF labels = <<>> THEN [st |-> s, err |-> "none"]
  ELSE LET r == Prepare(s, Head(labels))
       IN  IF r.err # "none" THEN r ELSE PrepareAll(r.st, Tail(labels))

FinalCheck(s) ==
  IF s.stack = <<>> THEN "ProofNoSteps"
  ELSE IF Len(s.stack) > 1 THEN "ProofExcessEnd"
  ELSE IF s.stack[1].code # Cur.target.typecode THEN "ProofWrongTypeEnd"
  ELSE IF s.stack[1].expr # CurTargetTokens THEN "ProofWrongExprEnd"
  ELSE "ok"

-----------------------------------------------------------------------------
S == [prepared |-> aprepared, stack |-> astack]

Take(r) ==
  /\ aprepared' = r.st.prepared
  /\ astack' = r.st.stack
  /\ aresult' = IF r.err = "none" THEN "running" ELSE r.err

Init ==
  /\ aprepared = <<>>
  /\ astack = <<>>
  /\ aresult = "running"

\* A compressed proof first prepares the statement's own hypotheses.
StartCompressed ==
  /\ aprepared = <<>>
  /\ Take(PrepareAll(S, [i \in 1..Len(Cur.hypotheses) |-> Cur.hypotheses[i].label]))

PrepareLabel(label) == Take(Prepare(S, label))

ExecuteStep(n) == Take(Execute(S, n))

CiteLabel(label) == Take(Cite(S, label))

\* Z: the top of the stack becomes a prepared hypothesis step.
SaveTop ==
  /\ astack # <<>>
  /\ aprepared' = Append(aprepared, [kind |-> "hyp", frame |-> "",
                                     code |-> Last(astack).code,
                                     expr |-> Last(astack).expr])
  /\ UNCHANGED <<astack, aresult>>

Finish ==
  /\ aresult' = FinalCheck(S)
  /\ UNCHANGED <<aprepared, astack>>

Reject(d) ==
  /\ aresult' = d
  /\ UNCHANGED <<aprepared, astack>>

Next ==
  /\ aresult = "running"
  /\ \/ StartCompressed
     \/ \E l \in Labels : PrepareLabel(l) \/ CiteLabel(l)
     \/ \E n \in 0..MaxStepIndex : ExecuteStep(n)
     \/ SaveTop
     \/ Finish
     \/ \E d \in DecoderDiagnostics : Reject(d)

Spec == Init /\ [][Next]_avars

=============================================================================
