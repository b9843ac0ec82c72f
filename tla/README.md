# TLA+ models of the metamath-knife proof verifier

This directory holds TLA+ models of the three source files:
- `src/src/verify.rs`, the Metamath proof verifier;
- `src/src/formula.rs`, formulas with their builder, equality, unifier,
  substitution, iterators, syntax proofs and S-expressions;
- `src/metamath-knife/src/spell_check.rs`, the comment spell checker.

Each module is translated from the Rust source. `PROJECT.json` maps every
modelled definition to the lines of code it stands for, and it lists the
runs, the mutants, the findings and the hazards.

## The system

`verify(segments, scope)` walks the segments. For each segment,
`verify_segment` calls `verify_proof` on every statement and keeps one
diagnostic per statement. `verify_proof` checks one `$p` statement against
the frames built by the scope analyzer. A frame holds the hypotheses,
mandatory variables, DV pairs, target expression and validity range. The
check runs on a per-statement `VerifyState`, which has these parts:

- **prepared**: the steps a proof can refer to.
  - A `Hyp` step holds a byte range in `prep_buffer`, a typecode and a
    `Bitset` of variable numbers.
  - An `Assert` step holds a frame.
- **stack**: the proof stack. Each slot holds a byte range in
  `stack_buffer`, a typecode and a `Bitset`.
- **var2bit / dv_map**: `var2bit` numbers each variable the first time it
  is seen. `dv_map[i]` is the set of variables declared distinct from
  variable `i`.
- **temp_buffer, subst_vars, subst_exprs**: scratch space for one step.

The operations are `prepare_step`, `execute_step`, `save_step` and
`finalize_step`. The `verify_proof` driver calls them in one of two
formats:

- **Uncompressed**: each label is prepared and then executed as step
  `count`.
- **Compressed**: `( roster ) digits`. The driver prepares the
  statement's hypotheses, then the roster labels, then decodes a stream of
  base-20/base-5 step numbers, where `Z` saves a step and `?` marks an
  incomplete proof.

Everything is sequential. One call has no callbacks and no shared state.
Statements are independent, and the code runs them in a plain loop.

`formula.rs` holds `Formula`: an `Arc`-shared arena tree, a root `NodeId`
and a `Bitset` of the nodes that are variables. Its operations are:
- `FormulaBuilder::reduce`/`build`, which the parser uses to build trees
  bottom-up from a stack of node ids;
- `sub_eq` (equality, with an `Arc::ptr_eq` short cut) and `unify`, which
  matches a pattern against a formula and extends a `Substitutions` map;
- `substitute`, which rebuilds a formula through a new `FormulaBuilder`;
- `complete_substitutions`, which binds every unbound variable to a fresh
  work variable from a `WorkVariableProvider` that may run out;
- `LabelIter`, `Flatten` and `append_to_stack_buffer`, which write a
  formula as the token bytes that `verify.rs` works on;
- `build_syntax_proof`, which registers a proof that the formula is
  well-formed with an external `ProofBuilder`, one node per tree node;
- `as_sexpr`/`write_sexpr`, which write the tree as an S-expression.

Higher layers call these in any order on shared `Substitutions`.
`verify.rs` does not call them.

`spell_check.rs` walks the statements in order. It checks each heading
comment, and each assertion's comment up to its parentheticals. Words in
italics are skipped, and so are words that the `ignore_words` regex
matches. The dictionary is built from one text: the bundled `index.dic`
(a count line, then a word per line) with the words of the `add_word`
`$j` commands appended, newline-joined, with no separator before them.

## Modules

| Module | Models | State and actions |
|---|---|---|
| `Database` | What the verifier reads from its collaborators: frames keyed by label, the current statement, the segment order, and the two token encodings (spec.md, spec-modelled) | Constants and the scope checks of `prepare_step` (`ScopeError`, verify.rs:175-191) |
| `Decoder` | The step-stream decoder of compressed proofs (verify.rs:444-480) | Pure operators over `[k, can_save, st, err]`, one per character class. `execute_step` and `save_step` are constant operators that the instantiating module supplies. |
| `DecoderCheck` | `Decoder` against a stand-in verifier | `ReadChar(ch)`, `EndStream` |
| `Bitset` | `Bitset` and `BitsetIter` (verify.rs:28-138), at word width `W` | `SetBitCall`, `BitOrAssignCall`, `StartLoop`, `LoopNext` (one `next()` call) |
| `IntSet` | Abstract spec for Bitset: a growing set per name | `Insert`, `UnionWith` |
| `ProofStack` | Abstract spec for proof checking (spec.md 4.4) over token sequences, with no bytes, ranges or variable numbers | `StartCompressed`, `PrepareLabel`, `ExecuteStep`, `CiteLabel`, `SaveTop`, `Finish`, `Reject` |
| `Verify` | `verify_proof` with `VerifyState` at byte level | `Begin`, `RosterLabel`, `RosterEnd`, `RosterUnterminated`, `StepChar`, `StepsEnd`, `UncompressedToken`, `UncompressedEnd` |
| `MC_Verify` | A 12-statement database for `Verify` (below) | none |
| `FormulaBuilder` | `FormulaBuilder::reduce`/`build` and the arena (formula.rs:744-785); u8 arithmetic scaled to `ByteMod`, with `OverflowChecks` for debug (panic) or release (wrap) builds | Pure operators over `[stack, vars, tree]`; a result `[ok, b]` with `ok = FALSE` is a panic |
| `TermStack` | Abstract spec of the builder (spec.md 4.3.1): a stack of terms | `Reduce`, `Build` |
| `BuilderCheck` | Any sequence of builder calls | `ReduceCall`, `BuildCall` |
| `Formula` | `sub_eq`, `unify`, `substitute`, `copy_sub_formula`, `complete_substitutions`, `from_float`, `WorkVariableProvider` | RECURSIVE operators. A formula is `[typecode, tid, tree, root, vars]`, where `tid` names its `Arc`: equal `tid`s mean `Arc::ptr_eq`. `Substitutions` is a function from labels to formulas. |
| `FormulaCheck`, `MC_Formula` | A client sharing one `Substitutions` and one provider over parsed formulas and `substitute` results | `NewSubs`, `UnifyCall`, `CompleteCall`, `SubstituteCall` |
| `FormulaIter` | `LabelIter::next`, `Flatten::next`/`step_into`, `append_to_stack_buffer`, `build_syntax_proof` with `to_rerooted`, `write_sexpr` | Pure operators; one `next()` per application. `ProofBuilder::build` (outside the source) appends `[label, hyps, range]` to an arena and returns its index. |
| `IterCheck`, `MC_Iter` | Both iterators, `append_to_stack_buffer`, `build_syntax_proof` onto the same buffer, and `as_sexpr`, on one formula, interleaved | `LabelNextCall`, `FlattenNextCall`, `AppendCall`, `BuildProofCall`, `SexprCall` |
| `SpellCheck`, `MC_SpellCheck` | `spell_check`, `check_statement`, `personal_dict`, `ignore_words` | `NextStatement` (one iteration of the statement loop), `ItemStep` (one comment item), `EndCheck` |

**How the Verify state maps to the code.**

- `state` is `VerifyState` minus the scratch fields.
  - `temp_buffer`, `subst_vars` and `subst_exprs` are cleared at every use
    in the code, so they are LET-bound values inside `ExecuteAssert` and
    `FinalizeStep`.
  - A `Bitset` is a set of numbers. The `Bitset` module shows that the
    word representation implements such a set.
- `phase`, `dec` and `count` are the driver's local variables: the roster
  loop, `k`/`can_save`, and `count`.
- `result` is the returned `Option<Diagnostic>`. `"ok"` stands for `None`
  after `finalize_step`.

**How the Verify actions map to the code.** Each action is one iteration
of a driver loop, and it includes every call that iteration makes:

- `UncompressedToken` is `prepare_step` then `execute_step(count)`.
- `StepChar` is one character. With a final digit it executes a step; with
  `Z` it saves.
- `StepsEnd` and `UncompressedEnd` run the end-of-stream check and
  `finalize_step`.
- `Begin` registers the optional DV pairs. In the compressed format it also
  prepares the hypotheses.

**Bytes.** Each math token is one byte `<<token, hiBit>>`, and `Space` is
the separator byte. The `Encoding` constant selects what the scope analyzer
produces:

- `"space"`: every token is followed by a space.
- `"sentinel"`: the last byte of each token has its high bit set, as
  spec.md describes.

`finalize_step`'s `do_substitute_raw` writes raw token bytes plus a space
(`RawToken`, `DoSubstituteRaw`).

**Refinement.**
- `Verify` implements `ProofStack` under `AbsSpec`. The mapping reads every
  prepared range and slot range back as tokens (`DecodeBytes`), and
  `aresult` is `result`. The byte-level verifier must therefore match the
  token-level semantics step for step: the same prepared steps, the same
  stack and the same diagnostic. That includes every DV decision made
  through `var2bit` and `dv_map`.
- `Bitset` implements `IntSet` under `ImplementsIntSet`. The mapping reads
  the words back through `has_bit`. Both specs record the last call (`last`,
  a history variable), so a call that loses its effect is a violation and
  not a stuttering step.

**How the formula models map to the code.**

- The parser is outside `src/`. `Formula!Parse` stands for it
  (spec-modelled): it turns a term into the `reduce` calls a bottom-up
  parser makes, and runs them through the modelled builder.
- Trees are sequences of `[label, kids]`. `NodeId` `i` is element `i+1`,
  and `Tree::add_node` is `Append`.
- `substitute` is modelled whole: the `reduce` calls that
  `sub_substitute`/`copy_sub_formula` emit, in their order, are folded
  through `FormulaBuilder!Reduce`, and then `build` runs.
- The result gets a fresh `tid`, the number of the call. The work
  variables of `from_float` get negative `tid`s.
- `Unify` and `CompleteSubstitutions` return the `Substitutions` as they
  stand when the code returns, on failure too. The code's `?` leaves the
  bindings made so far in the map, and so does the model.

**How the spell-check model maps to the code.** The comment parser and
zspell are outside the repository. A comment is given as the items the
parser yields, each with its byte span. The words that
`check_indices` finds in a text item come with their offsets. A word is
misspelled when it is not in the dictionary; affix rules are left out.
The dictionary text is modelled as characters: `PersonalDict` joins each
command's words, then the commands, with newlines; `DicSource` is
`index.dic` followed by it, and `Dict` is its lines after the count line.
The state variable `dict` is that dictionary, built in `Init` as
`spell_check` builds it before its loop. The reference definitions judge
words against `RefDict`, the bundled words plus the `add_word` words.
`ignore_words` is the regex, written out over character classes.

## The database of MC_Verify

| # | Label | Kind | Statement | Role in the runs |
|---|---|---|---|---|
| 1 | `wph` | `$f` | `wff ph` | floating hypothesis |
| 2 | `wps` | `$f` | `wff ps` | floating hypothesis |
| 3 | `wi` | `$a` | `wff -> ph ps` | syntax axiom |
| 4 | `ax-1` | `$a` | `\|- -> ph -> ps ph` | axiom with a repeated variable |
| 5 | `min` | `$e` | `\|- ph` | out of scope at `th` |
| 6 | `maj` | `$e` | `\|- -> ph ps` | out of scope at `th` |
| 7 | `ax-mp` | `$a` | `\|- ps` | modus ponens; uses `min` and `maj` |
| 8 | `ax-dv` | `$a` | `\|- -> ph ps` | has the mandatory DV pair `ph ps` |
| 9 | `th.1` | `$e` | `\|- ph` | hypothesis of `th` |
| 10 | `th.2` | `$e` | `\|- -> ph ps` | hypothesis of `th` |
| 11 | `th` | `$p` | `\|- ps` | the statement checked; declares `$d ph ps` |
| 12 | `later` | `$a` | `\|- ph` | defined after `th` |

A citation of `bogus` is missing. `wph wps th.1 th.2 ax-mp` is a correct
proof of `th`, and `( ax-mp ) ABCDE` is the same proof compressed. The
database reaches every diagnostic of `verify_proof`:
- every scope error;
- underflow;
- each wrong-type and wrong-expression error;
- DV violations, from both satisfied and unsatisfied pairs, e.g.
  `wps wph ax-dv`;
- every end-of-proof error, and `ok`.

## Runs

| Run | Cfg | Bounds | Checks | Result |
|---|---|---|---|---|
| `decoder` | `DecoderCheck.cfg` | streams of ≤5 characters over `A B T U Y Z ? x`, 21 prepared steps, 12-bit word | `TypeOK`, `DecodesReference`, `StepNumberFitsWord` | pass, 15421 states |
| `bitset` | `Bitset.cfg` | two bitsets, `W = 4`, bits `{0, 5, 13}` | `TypeOK`, `ImplementsIntSet`, `LoopEnumeratesMembers` | pass, 3467 states |
| `verify_uncompressed` | `MC_Verify_unc.cfg` | all proofs of ≤6 tokens over the 12 labels, `bogus` and `?` | `TypeOK`, `StackBufferTiling`, `VarsTrackExpr`, `AbsSpec` | pass, 32690 states |
| `verify_compressed` | `MC_Verify_cmp.cfg` | roster from `ax-mp ax-dv`, step characters `A-F U Z ?`, ≤7 tokens | the same | pass, 67750 states, about 1.5 min |
| `finalize_sentinel` | `MC_Verify_sentinel.cfg` | uncompressed, sentinel encoding, ≤5 tokens | `WrongExprEndOnlyIfWrong` | violation (finding 1) |
| `builder` | `BuilderCheck.cfg` | labels `a b`, counts `0..3` (`ByteMod = 4`), ≤3 reduces then build, overflow checks on | `TypeOK`, `ImplementsTermStack` | pass, 4406 states |
| `builder_wrap` | `BuilderCheck_wrap.cfg` | the same, overflow checks off | `ImplementsTermStack` | violation (finding 2) |
| `formula` | `MC_Formula.cfg` | pool `(ph -> ps)`, `(ph -> ph)`, `(-. ph -> ps)`, `ph`; 2 work variables with budget 0-2; ≤3 calls | `TypeOK`, `EqIsStructural`, `UnifyCorrect`, `SubstituteCorrect`, `CompleteCorrect` | pass, 13467 states, about 15 s |
| `formula_arity` | `MC_Formula_arity.cfg` | pool `(ph -> ps)` and a `wi` node with the one child `ph`; ≤2 calls | `UnifyCorrect` | violation (finding 3) |
| `iterators` | `MC_Iter.cfg` | `( -. ph -> ( ph -> ps ) )`, `A. x -. ps`, `ph`; buffer empty or holding one formula | `TypeOK`, `LabelIterPreOrder`, `FlattenYieldsSymbols`, `AppendSentinels`, `SyntaxProofValid`, `SexprReadsBack` | pass, 5640 states, about 25 s |
| `spell_check` | `MC_SpellCheck.cfg` | all 343 databases of 3 statements drawn from 7 | `TypeOK`, `ReportsSound`, `ReportsComplete`, `DictHasPersonalWords` | pass, 4018 states |
| `spell_check_parens` | `MC_SpellCheck_parens.cfg` | the same | `ReportsBeforeParentheticals` | violation (finding 4) |

### What each property says

- **`DecodesReference`**: the significant characters read so far are the
  reference encoding (Metamath book, appendix B) of the steps executed and
  saved so far, followed by the prefix pending in `k`. This holds while
  decoding and after a good end. The reference encoder is written
  independently as `Base5Prefix`/`EncodeStep`.
- **`StepNumberFitsWord`**: while decoding, `k*20+19` stays below `2^Width`.
  The limit is computed by the code's formula, but at 12 bits. TLC cannot
  enumerate 32-bit prefixes. The argument does not depend on the width:
  `k ≤ L-1` gives `20k+19 ≤ 20·((2^w-1) div 20) - 1 < 2^w`.
- **`ImplementsIntSet`**: `set_bit`, `bitor_assign` and `has_bit` agree on
  where every bit lives. Each call has exactly its set effect.
- **`LoopEnumeratesMembers`**: the `for` loop over a bitset yields its
  members in strictly increasing order. At every point it has yielded
  exactly the members up to the last one, and it has yielded all of them
  when `next()` returns `None`. The DV check needs this.
- **`StackBufferTiling`**: the slots tile `stack_buffer` exactly. That makes
  the truncation in `execute_step` reclaim exactly the popped hypotheses'
  bytes.
- **`VarsTrackExpr`**: each slot's and each prepared hypothesis's variable
  set is exactly the set of numbers of the variables in its bytes. The DV
  check reads only these sets.
- **`AbsSpec`**: the refinement described above.
- **`ImplementsTermStack`**: with overflow checks, the builder implements
  `TermStack` under a mapping that reads every stack id back as a term.
  Each `reduce` builds exactly the term the abstract stack builds, in the
  same place, and it panics exactly when the abstract call aborts.
  `build` succeeds exactly when one term is left. Both specs record the
  last call, so a call matched by a different abstract call fails.
- **`EqIsStructural`**: `sub_eq`, with its `ptr_eq` short cut, is equality
  of terms on every formula the client holds. That includes the bindings,
  which are sub-formulas sharing the tree of the formula unified.
- **`UnifyCorrect`**: `unify` succeeds exactly when some binding of the
  pattern's unbound variables to subterms makes the pattern the formula.
  On success it binds exactly those variables. Old bindings never change,
  and a failure may leave new ones.
- **`SubstituteCorrect`**: `substitute` never panics, and its result is
  the reference substitution of the bindings' terms, with variable flags.
- **`CompleteCorrect`**: `complete_substitutions` never replaces a
  binding. It takes one work variable per variable it binds, even for a
  variable that occurs twice, and binds each to a distinct singleton
  variable. It succeeds exactly when every variable ends up bound.
- **`LabelIterPreOrder`**: each `next()` returns the next label (with its
  variable flag) of the pre-order, and `None` exactly at the end.
- **`FlattenYieldsSymbols`**: on grammar-built formulas `Flatten` never
  panics, and yields the symbols as written, with the typecode dropped and
  each variable token replaced by its child.
- **`AppendSentinels`**: `append_to_stack_buffer` keeps the bytes already
  in the buffer. Cut at high-bit bytes, the new bytes are exactly the
  formula's symbols, and the returned range covers exactly them.
- **`SyntaxProofValid`**: `build_syntax_proof` registers a syntax proof
  that the verifier's substitution would accept. Every node cites its
  syntax axiom with one earlier node per floating hypothesis, in the
  frame's order and of the hypothesis's typecode. Its range holds the
  axiom's symbols, with each hypothesis's variable replaced by the symbols
  of the node cited for it. The returned root holds the formula.
- **`SexprReadsBack`**: read by a reader written from the grammar of
  spec.md 4.3.7, `as_sexpr` gives back the tree of label names.
- **`ReportsSound`**: every spelling diagnostic is a misspelled,
  non-ignored word of a text item, outside italics and before `stop_at`.
- **`ReportsComplete`**: when `spell_check` returns, every such word of a
  text item that ends by `stop_at` has been reported. An unclosed italic
  in one comment does not silence the next.
- **`DictHasPersonalWords`**: the dictionary holds every bundled word
  and every `add_word` word, and no two of them run together on a line.
  It covers the join at `spell_check.rs:28`. The bundled `index.dic` is
  not in the repository, so the model takes it to end with a newline, as
  a `.dic` file does. With the final newline removed from `MCDicText`,
  TLC reports this property violated in the initial state: `the` and
  `wff` merge into one word.
- **`TypeOK`**: one per module. For `Verify` it also says that `var2bit`
  numbers the variables `0..n-1` with one `dv_map` row each.

Each property of a passing run has a mutant in `PROJECT.json`: a plausible
bug in a mapped definition, defined next to it. TLC finds the property
violated when that mutant replaces the definition. The mutants include:
- a one-way DV registration;
- a `do_substitute_vars` that assigns instead of OR-ing;
- no truncation of `stack_buffer`;
- a `save_step` that drops the variables;
- a missing `+1` of bijective base 5;
- a dropped varint limit;
- a missing tail resize in `bitor_assign`;
- a late offset in `BitsetIter`.

### Findings

**1. `finalize_sentinel`** (spec/code divergence, verify.rs:364).

- spec.md 4.4.2 says stubs, and so everything on the stack, carry the
  high-bit sentinel encoding.
- `finalize_step` compares the top slot with `do_substitute_raw`'s output,
  in which each mandatory variable is its source bytes followed by a space.
- Under the sentinel encoding, the correct proof `wph wps th.1 th.2 ax-mp`
  leaves `<ps|0x80>` and is rejected with `ProofWrongExprEnd`.
- The code is consistent only with the space-separated encoding, which is
  the encoding the two passing Verify runs use.

A smaller divergence was not made a run. spec.md 4.4.4 says `Z` may only
follow the execution of an Assert. The code (verify.rs:455, 462) allows it
after any executed step, a hypothesis step included, and `ProofStack`
follows the code.

**2. `builder_wrap`** (code bug, formula.rs:757). `reduce` adds
`var_count + offset` as `u8`. In a build without overflow checks (release)
the sum wraps. `reduce(l, 255, 1, _)` on an empty stack then passes the
length assert, drains the empty range and pushes a leaf. spec.md 4.3.1
requires at least 256 entries, and so an abort. TLC shows it with `u8`
scaled to 2 bits: `reduce(a, 3, 1)` on an empty stack yields `<<a>>`.
Debug builds panic instead (the `builder` run).

**3. `formula_arity`** (spec/code divergence, formula.rs:307-314, 262-266).
`sub_unify` and `sub_eq` compare only `has_children`, then `zip` the
children, and `zip` stops at the shorter list. spec.md 4.3.3 says a length
mismatch fails. Yet `(ph -> ps)` unifies with a `wi` pattern node that has
the one child `ph`. The `formula` run shows that formulas of a
fixed-arity grammar never meet this. `reduce` accepts any `var_count`,
so a caller can build such a pattern.

**4. `spell_check_parens`** (spec/code divergence, spell_check.rs:82). The
module doc says comments are checked "stopping at the parentheticals".
`check_statement` breaks at the first text item whose end lies past the
parentheticals' start. A text item that runs on into them is therefore
skipped whole, with the misspelled word before them.

The `LabelIter` struct's doc (formula.rs:436) says post-order. The code,
and the doc of `labels_iter` (189), are pre-order, which the `iterators`
run checks.

### Bounds

- **Uncompressed run:** 6 tokens are enough for the correct 5-step proof
  plus one more step. They also allow every two- or three-token misuse of
  scope, types, underflow and DV.
- **Compressed run:** 7 tokens and characters cover `( ax-mp ) ABCDE`
  (roster end included) and a save followed by a reuse (`…Z F`). The only
  continuation digit is `U`, which names steps 20 and up; these are out of
  range in the model, as they are in a real short proof.
- **Decoder run:** 21 prepared steps make `UA` (step 20) executable and
  `UB` out of range. Five characters reach the 12-bit limit
  (`L = 203`) through `UUUU`/`YYYY`.
- **Bitset run:** 4-bit words with bits 0, 5 and 13 cover the head word,
  the first tail word and a tail that skips a zero word.

- **Builder run:** `ByteMod = 4` keeps the `u8` wrap-around within reach:
  `var_count + offset` ranges over `0..6`, so both the overflow and the
  short-stack cases occur. Three reduces build every tree of up to three
  nodes, in every stack position.
- **Formula run:** the pool has a shared variable, a repeated variable, a
  negation under an implication and a bare variable. Three calls reach
  unify-then-substitute and complete-then-substitute, as well as a failed
  unify that leaves bindings before a complete. The provider budget of 0,
  1 or 2 reaches exhaustion part-way through. Four calls take over two
  minutes, so the run keeps three.
- **Iterator run:** a three-level formula, with the pops of exhausted
  sibling iterators at two depths. `A. x -. ps` uses `wal`, whose frame
  lists `wph` before `vx`, while `x` is its first child. So this is the
  one formula where the frame's hypothesis order and the tree order
  differ. The frames are given as the scope analyzer builds them
  (outside `src/`): variables are numbered in the order they appear in
  the axiom, and that numbering is what makes `children_hyps[index]`
  right.
- **Spell-check run:** the seven statements cover:
  - a heading, whose parentheticals are ignored;
  - italics;
  - an unclosed italic followed by another comment;
  - a text item straddling the parentheticals, and one ending at them;
  - ignored words (`Teh`, `42`) and `add_word` words: two commands,
    `wff` and `ph ph`, with a `usage` command between them;
  - assertions without a comment, and other statements.

### Fairness and deadlock

No liveness property is stated and no fairness is assumed. Every loop in
these files is a `for` loop over a finite iterator or a `while` bounded by
its input, in one thread with nothing to wait on. So "it returns" holds
by the shape of the code and no plausible change to it could break it.
What must hold when a loop ends is stated instead as an invariant guarded
by the end state: `ReportsComplete` is `Done => ...`. The Verify and Decoder runs use `CHECK_DEADLOCK FALSE` because a
verification ends: once `result` is no longer `"running"`, or the token
bound is reached, no step is enabled. The Bitset run checks for deadlock,
because a new loop can always start. The builder, formula, iterator and
spell-check runs also use `CHECK_DEADLOCK FALSE`, because their calls
stop at their bounds or the program returns.

## Not modelled, and the plan

- **`verify` / `verify_segment` / `VerifyResult`** (verify.rs:506-542):
  sequential loops that collect per-statement results. No state is shared
  between statements, so one `verify_proof` is the unit that matters. The
  spec calls verification parallel, but the code is not.
- **Tree, scope analyzer, parser, name resolver:** these are not under
  `src/`. `Database` gives their outputs as constants (spec-modelled).
- **`formula.rs`, not modelled:**
  - `Display`/`Debug` and `dump` are text for people.
  - `get_by_path` and `get_typecode` read the tree; nothing else uses
    what they return.
  - `try_convert` is a `todo!()`.
  - `Substitutions::extend` has no caller in this source.
- **`formula.rs`, bounds:** the `u8` `children_count` of `sub_substitute`
  and `copy_sub_formula` would need nodes with 256 children. Its wrap
  reaches `reduce` exactly as `builder_wrap` shows.
- **`spell_check.rs`:** the zspell tokenizer and affix rules, and the
  comment parser, are external.
