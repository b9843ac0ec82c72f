------------------------------ MODULE IterCheck ------------------------------
(***************************************************************************)
(* A parsed formula read three ways: a LabelIter and a Flatten stepped by *)
(* their callers one next() at a time, and append_to_stack_buffer onto a   *)
(* stack buffer that may already hold a formula, as build_syntax_proof     *)
(* uses it, and build_syntax_proof onto the same buffer.  The four are     *)
(* independent: their steps interleave freely.                             *)
(***************************************************************************)
EXTENDS Integers, Sequences, FiniteSets, SequencesExt

CONSTANTS
  PoolTerms,   \* the parsed formulas, as terms
  MathOf,      \* label -> the math tokens of its statement, typecode first
  HypsOf,      \* label -> the hypotheses of its frame
  NameOf,      \* symbol -> its characters
  LabelNameOf  \* label -> its characters

F  == INSTANCE Formula WITH ByteMod <- 256, OverflowChecks <- TRUE,
                            WorkVar <- LAMBDA i : i, WorkTypecode <- "wff"
FI == INSTANCE FormulaIter WITH Math <- LAMBDA l : MathOf[l],
                                Hyps <- LAMBDA l : HypsOf[l], Name <- LAMBDA s : NameOf[s],
                                LabelName <- LAMBDA l : LabelNameOf[l]

Pool == {F!Parse(PoolTerms[i], i) : i \in 1..Len(PoolTerms)}

VARIABLES
  f,       \* the formula
  lit,     \* the LabelIter, or <<>> once it returned None
  lout,    \* the labels it yielded
  fl,      \* the Flatten's stack, or <<>> once it returned None
  fout,    \* the symbols it yielded
  fpanic,  \* whether a Flatten next() panicked
  buf,     \* the stack buffer
  range,   \* <<the range append_to_stack_buffer returned>>, or <<>>
  arr,     \* the ProofBuilder's arena
  proof,   \* <<the item build_syntax_proof returned>>, or <<>>
  sexpr    \* <<the string as_sexpr returned>>, or <<>>

vars == <<f, lit, lout, fl, fout, fpanic, buf, range, arr, proof, sexpr>>

Init ==
  /\ f \in Pool
  /\ lit = <<FI!NewLabelIter(f)>> /\ lout = <<>>
  /\ fl = FI!NewFlatten(f) /\ fout = <<>> /\ fpanic = FALSE
  /\ buf \in {<<>>} \cup {FI!AppendToStackBuffer(g, <<>>).buf : g \in Pool}
  /\ range = <<>>
  /\ arr = <<>> /\ proof = <<>> /\ sexpr = <<>>

LabelNextCall ==
  LET r == FI!LabelNext(f, lit[1])
  IN  /\ lit # <<>>
      /\ lit' = IF r.item = <<>> THEN <<>> ELSE <<r.it>>
      /\ lout' = lout \o r.item
      /\ UNCHANGED <<f, fl, fout, fpanic, buf, range, arr, proof, sexpr>>

FlattenNextCall ==
  LET r == FI!FlatNext(f, fl)
  IN  /\ fl # <<>> /\ ~fpanic
      /\ fl' = r.st
      /\ fout' = fout \o r.item
      /\ fpanic' = r.panic
      /\ UNCHANGED <<f, lit, lout, buf, range, arr, proof, sexpr>>

AppendCall ==
  LET r == FI!AppendToStackBuffer(f, buf)
  IN  /\ range = <<>>
      /\ buf' = r.buf
      /\ range' = <<r.range>>
      /\ UNCHANGED <<f, lit, lout, fl, fout, fpanic, arr, proof, sexpr>>

BuildProofCall ==
  LET r == FI!BuildSyntaxProof(f, buf, arr)
  IN  /\ proof = <<>> /\ r.ok
      /\ buf' = r.buf /\ arr' = r.arr /\ proof' = <<r.item>>
      /\ UNCHANGED <<f, lit, lout, fl, fout, fpanic, range, sexpr>>

SexprCall ==
  /\ sexpr = <<>>
  /\ sexpr' = <<FI!WriteSexpr(f)>>
  /\ UNCHANGED <<f, lit, lout, fl, fout, fpanic, buf, range, arr, proof>>

Next == LabelNextCall \/ FlattenNextCall \/ AppendCall \/ BuildProofCall \/ SexprCall

Spec == Init /\ [][Next]_vars

-----------------------------------------------------------------------------
\* The labels of the formula depth-first, node before children.
RECURSIVE PreOrder(_, _)
PreOrder(g, n) ==
  << <<F!Label(g, n), F!IsVariable(g, n)>> >>
  \o FlattenSeq([i \in 1..Len(F!Kids(g, n)) |-> PreOrder(g, F!Kids(g, n)[i])])

\* The symbols a human writes for node n: the statement's math after the
\* typecode, its k-th variable replaced by the symbols of the k-th child.
RECURSIVE Symbols(_, _)
Symbols(g, n) ==
  LET toks == Tail(MathOf[F!Label(g, n)])
      k(i) == Cardinality({j \in 1..i : toks[j].var})
  IN  FlattenSeq([i \in 1..Len(toks) |->
        IF toks[i].var /\ F!Kids(g, n) # <<>> THEN Symbols(g, F!Kids(g, n)[k(i)])
        ELSE <<toks[i].sym>>])

\* Cutting bytes after every byte with its high bit set; bytes after the
\* last such byte form a last, unterminated token.
RECURSIVE Tokens(_)
Tokens(bs) ==
  LET his == {i \in 1..Len(bs) : bs[i][2]}
      e   == IF his = {} THEN Len(bs) ELSE Min(his)
  IN  IF bs = <<>> THEN <<>>
      ELSE <<[j \in 1..e |-> bs[j][1]]>> \o Tokens(SubSeq(bs, e + 1, Len(bs)))

TypeOK ==
  /\ f \in Pool
  /\ Len(lit) <= 1 /\ Len(range) <= 1
  /\ Len(lout) <= Len(f.tree)
  /\ fpanic \in BOOLEAN

(***************************************************************************)
(* labels_iter promises its items "depth-first, pre-order": each next()   *)
(* returns the label after those already returned in pre-order, with its *)
(* variable flag, and None exactly when all have been returned.           *)
(***************************************************************************)
LabelIterPreOrder ==
  [][LabelNextCall =>
       LET all == PreOrder(f, f.root)
       IN  IF Len(lout) = Len(all) THEN lit' = <<>>
           ELSE lout' = Append(lout, all[Len(lout) + 1])]_vars

(***************************************************************************)
(* Flatten never panics on a formula the grammar builds, and each next()  *)
(* returns the next symbol of the formula as written, None at the end.    *)
(***************************************************************************)
FlattenYieldsSymbols ==
  [][FlattenNextCall =>
       LET all == Symbols(f, f.root)
       IN  /\ ~fpanic'
           /\ IF Len(fout) = Len(all) THEN fl' = <<>>
              ELSE fout' = Append(fout, all[Len(fout) + 1])]_vars

(***************************************************************************)
(* append_to_stack_buffer leaves the bytes below the returned range alone *)
(* and writes there the formula's symbols so that exactly the last byte   *)
(* of each has its high bit set (spec.md 8, sentinel correctness): cut at *)
(* those bytes, the range gives the names of the symbols back.            *)
(***************************************************************************)
AppendSentinels ==
  [][AppendCall =>
       LET r  == range'[1]
           ss == Symbols(f, f.root)
       IN  /\ r.start = Len(buf) /\ SubSeq(buf', 1, Len(buf)) = buf
           /\ r.end = Len(buf')
           /\ Tokens(SubSeq(buf', r.start + 1, r.end)) = [i \in 1..Len(ss) |-> NameOf[ss[i]]]]_vars

(***************************************************************************)
(* build_syntax_proof emits a syntax proof of the formula (spec.md 4.3.8): *)
(* every node it registers cites its syntax axiom with, for each floating *)
(* hypothesis in the frame's order, an earlier node whose typecode is the *)
(* hypothesis's; the range of the node holds the axiom's symbols with     *)
(* each hypothesis's variable replaced by the symbols of the node cited   *)
(* for it (a $f node holds its variable), which                           *)
(* is what the verifier's substitution concludes; and the root, returned, *)
(* holds the formula.                                                      *)
(***************************************************************************)
SyntaxProofValid ==
  [][BuildProofCall =>
       LET Text(k) == Tokens(SubSeq(buf', arr'[k].range.start + 1, arr'[k].range.end))
           ss      == Symbols(f, f.root)
       IN  /\ proof'[1] = Len(arr')
           /\ Text(Len(arr')) = [i \in 1..Len(ss) |-> NameOf[ss[i]]]
           /\ \A k \in DOMAIN arr' :
                LET toks == Tail(MathOf[arr'[k].label])
                    fh   == SelectSeq(HypsOf[arr'[k].label], LAMBDA h : h.floating)
                    Cited(v) == arr'[k].hyps[CHOOSE j \in DOMAIN fh : fh[j].var = v]
                IN  /\ Len(arr'[k].hyps) = Len(fh)
                    /\ \A j \in DOMAIN fh : /\ arr'[k].hyps[j] < k
                                           /\ MathOf[arr'[arr'[k].hyps[j]].label][1].sym = fh[j].typecode
                    /\ Text(k) = FlattenSeq([i \in 1..Len(toks) |->
                                   IF \E j \in DOMAIN fh : fh[j].var = toks[i].sym
                                     THEN Text(Cited(toks[i].sym))
                                   ELSE <<NameOf[toks[i].sym]>>])]_vars

-----------------------------------------------------------------------------
(***************************************************************************)
(* A reader of S-expressions, written from the grammar of spec.md 4.3.7:  *)
(* a term is a name, or "(" name then " " term for each argument, then    *)
(* ")".  A name runs to the next space or parenthesis.  A result whose    *)
(* rest is not empty did not read one whole term.                          *)
(***************************************************************************)
ReadName(cs) ==
  LET stops == {i \in DOMAIN cs : cs[i] \in {" ", "(", ")"}}
      e     == IF stops = {} THEN Len(cs) ELSE Min(stops) - 1
  IN  [name |-> SubSeq(cs, 1, e), rest |-> SubSeq(cs, e + 1, Len(cs))]

RECURSIVE ReadTerm(_), ReadArgs(_, _)
ReadTerm(cs) ==
  IF cs # <<>> /\ cs[1] = "("
    THEN LET n == ReadName(Tail(cs))
             a == ReadArgs(n.rest, <<>>)
         IN  [t |-> [name |-> n.name, args |-> a.args], rest |-> a.rest]
  ELSE LET n == ReadName(cs) IN [t |-> [name |-> n.name, args |-> <<>>], rest |-> n.rest]
ReadArgs(cs, args) ==
  IF cs # <<>> /\ cs[1] = " "
    THEN LET r == ReadTerm(Tail(cs)) IN ReadArgs(r.rest, Append(args, r.t))
  ELSE IF cs # <<>> /\ cs[1] = ")" /\ args # <<>> THEN [args |-> args, rest |-> Tail(cs)]
  ELSE [args |-> args, rest |-> <<"?">>]

\* The tree of label names below node n.
RECURSIVE Named(_, _)
Named(g, n) == [name |-> LabelNameOf[F!Label(g, n)],
                args |-> [i \in 1..Len(F!Kids(g, n)) |-> Named(g, F!Kids(g, n)[i])]]

(***************************************************************************)
(* as_sexpr writes the formula so that it reads back as its tree: every   *)
(* node its label's name, with its children in order, a leaf bare.        *)
(***************************************************************************)
SexprReadsBack ==
  [][SexprCall => LET r == ReadTerm(sexpr'[1]) IN r.rest = <<>> /\ r.t = Named(f, f.root)]_vars

=============================================================================
