------------------------------ MODULE SpellCheck ------------------------------
(***************************************************************************)
(* The comment spell checker of spell_check.rs: spell_check goes through   *)
(* the statements in order and checks every heading comment, and the       *)
(* associated comment of every assertion up to its parentheticals;         *)
(* check_statement walks the items of the comment parser, skipping italic  *)
(* text and stopping at the first text item that ends past stop_at.       *)
(*                                                                         *)
(* A database is a sequence of statements [type, target]: target is        *)
(* <<the comment checked>> (the heading itself, or the assertion's         *)
(* associated comment) or <<>>.  A comment is [addr, items, end, paren],   *)
(* paren <<the start of its parentheticals>> or <<>>.  An item is          *)
(* [kind, start, end, words], kind one of "text", "start" (StartItalic),   *)
(* "end" (EndItalic) and "other"; words are the [w, pos] that the          *)
(* dictionary's tokenizer (check_indices) finds in a text item, a word w  *)
(* a sequence of characters and pos its byte offset in the item.           *)
(***************************************************************************)
EXTENDS Integers, Sequences, FiniteSets, SequencesExt

CONSTANTS
  Databases,   \* the databases to check
  DicText,     \* the bundled index.dic: a count line, then a word per line
  JCommands    \* the $j commands: sequences of tokens [kind, value]

\* The strings of ss joined by newlines: Vec<String>::join("\n").
JoinLines(ss) ==
  FlattenSeq([i \in 1..Len(ss) |-> IF i = 1 THEN ss[i] ELSE <<"\n">> \o ss[i]])

\* The lines of a text: the pieces between its newlines.
Lines(t) ==
  LET cuts == <<0>> \o SetToSortSeq({i \in DOMAIN t : t[i] = "\n"}, <) \o <<Len(t) + 1>>
  IN  [k \in 1..Len(cuts) - 1 |-> SubSeq(t, cuts[k] + 1, cuts[k + 1] - 1)]

\* The $j commands personal_dict keeps: a keyword add_word first.
AddWordCommands ==
  SelectSeq(JCommands, LAMBDA c : c # <<>> /\ c[1].kind = "keyword"
                                 /\ c[1].value = "add_word")

\* Mutant: the commands' word lists are concatenated with no separator.
PersonalDictConcat ==
  FlattenSeq([k \in 1..Len(AddWordCommands) |->
                JoinLines([i \in 1..Len(AddWordCommands[k]) - 1 |->
                             AddWordCommands[k][i + 1].value])])

\* personal_dict (50-69): the words of each add_word command joined by
\* newlines, and the commands' lists joined by newlines.
PersonalDict ==
  JoinLines([k \in 1..Len(AddWordCommands) |->
               JoinLines([i \in 1..Len(AddWordCommands[k]) - 1 |->
                            AddWordCommands[k][i + 1].value])])

\* spell_check (27-28): dic_content.to_string() + &personal_dict(db)
DicSource == DicText \o PersonalDict

\* spell_check (30-34): the dictionary zspell builds from dic, a word per
\* line after the count line (no affix flags are used here).
Dict == {Lines(DicSource)[i] : i \in 2..Len(Lines(DicSource))}

Digits    == {"0", "1", "2", "3", "4", "5", "6", "7", "8", "9"}
Upper     == {"A", "B", "C", "D", "E", "F", "G", "H", "I", "J", "K", "L", "M",
              "N", "O", "P", "Q", "R", "S", "T", "U", "V", "W", "X", "Y", "Z"}
Lower     == {"a", "b", "c", "d", "e", "f", "g", "h", "i", "j", "k", "l", "m",
              "n", "o", "p", "q", "r", "s", "t", "u", "v", "w", "x", "y", "z"}
WordChars == Digits \cup Upper \cup Lower \cup {"_"}

\* ignore_words (20-23): ^(\d+|[A-Z]\w+|-)$
IgnoreWord(w) ==
  \/ Len(w) >= 1 /\ Range(w) \subseteq Digits
  \/ Len(w) >= 2 /\ w[1] \in Upper /\ \A i \in 2..Len(w) : w[i] \in WordChars
  \/ w = <<"-">>

VARIABLES
  db,       \* the database, fixed
  dict,     \* the dictionary spell_check builds before its loop
  si,       \* the next statement of the loop in spell_check
  cur,      \* <<the comment check_statement is on>>, or <<>>
  items,    \* the comment parser's items still to come
  stop,     \* stop_at
  italics,  \* the italics flag of check_statement
  diags     \* the SpellingMistake diagnostics: [addr, start, end]

vars == <<db, dict, si, cur, items, stop, italics, diags>>

Init ==
  /\ db \in Databases
  /\ dict = Dict
  /\ si = 1 /\ cur = <<>> /\ items = <<>> /\ stop = 0 /\ italics = FALSE
  /\ diags = <<>>

\* Statements that spell_check checks (38-45).
Checked(s) == s.type = "heading" \/ (s.type = "assertion" /\ s.target # <<>>)

\* stop_at (42, 77): a heading is checked to its end (None is passed), an
\* assertion's comment to the start of its parentheticals if it has any.
StopAt(s) ==
  IF s.type = "assertion" /\ s.target[1].paren # <<>>
    THEN s.target[1].paren[1] ELSE s.target[1].end

\* Mutant: the flag of the previous check is kept.
ItalicsAtStartKept == italics

\* let mut italics = false (78)
ItalicsAtStart == FALSE

(***************************************************************************)
(* One iteration of the loop of spell_check (37-46) and the start of       *)
(* check_statement (77-78).                                                *)
(***************************************************************************)
NextStatement ==
  LET s == db[si]
  IN  /\ cur = <<>> /\ si <= Len(db)
      /\ si' = si + 1
      /\ IF Checked(s)
           THEN /\ cur' = s.target /\ items' = s.target[1].items
                /\ stop' = StopAt(s) /\ italics' = ItalicsAtStart
           ELSE UNCHANGED <<cur, items, stop, italics>>
      /\ UNCHANGED <<db, dict, diags>>

\* Mutant: the end of a reported span is computed from the item's start.
ReportsEndFromSpan(addr, it) ==
  LET bad == SelectSeq(it.words, LAMBDA x : x.w \notin dict /\ ~IgnoreWord(x.w))
  IN  [i \in 1..Len(bad) |-> [addr |-> addr, start |-> it.start + bad[i].pos,
                              end  |-> it.start + Len(bad[i].w)]]

\* The words of a text item that check_indices reports and ignore_words
\* lets through, as SpellingMistake spans (88-99).
Reports(addr, it) ==
  LET bad == SelectSeq(it.words, LAMBDA x : x.w \notin dict /\ ~IgnoreWord(x.w))
  IN  [i \in 1..Len(bad) |-> [addr |-> addr, start |-> it.start + bad[i].pos,
                              end  |-> it.start + bad[i].pos + Len(bad[i].w)]]

\* Mutant: italic text is checked too.
SkipTextNever == FALSE

\* if italics { continue; } (85-87)
SkipText == italics

(***************************************************************************)
(* One iteration of the for loop of check_statement (79-108): a text item  *)
(* ending past stop_at breaks the loop; italic text is skipped; other text *)
(* is checked; StartItalic and EndItalic set and clear the flag.           *)
(***************************************************************************)
ItemStep ==
  LET it == Head(items)
  IN  /\ cur # <<>> /\ items # <<>>
      /\ \/ it.kind = "text" /\ it.end > stop /\ items' = <<>> /\ UNCHANGED <<diags, italics>>
         \/ it.kind = "text" /\ it.end <= stop /\ SkipText
            /\ items' = Tail(items) /\ UNCHANGED <<diags, italics>>
         \/ it.kind = "text" /\ it.end <= stop /\ ~SkipText
            /\ items' = Tail(items) /\ diags' = diags \o Reports(cur[1].addr, it)
            /\ UNCHANGED italics
         \/ it.kind = "start" /\ italics' = TRUE /\ items' = Tail(items) /\ UNCHANGED diags
         \/ it.kind = "end" /\ italics' = FALSE /\ items' = Tail(items) /\ UNCHANGED diags
         \/ it.kind = "other" /\ items' = Tail(items) /\ UNCHANGED <<diags, italics>>
      /\ UNCHANGED <<db, dict, si, cur, stop>>

\* check_statement returns (109-110).
EndCheck ==
  /\ cur # <<>> /\ items = <<>>
  /\ cur' = <<>>
  /\ UNCHANGED <<db, dict, si, items, stop, italics, diags>>

Next == NextStatement \/ ItemStep \/ EndCheck

Spec == Init /\ [][Next]_vars

Done == si > Len(db) /\ cur = <<>>

-----------------------------------------------------------------------------
(***************************************************************************)
(* Reference definitions, over the whole database.                        *)
(***************************************************************************)
\* The words of the bundled dictionary, and of the add_word commands.
BaseWords == {Lines(DicText)[i] : i \in 2..Len(Lines(DicText))}

PersonalWords ==
  UNION {Range([i \in 1..Len(c) - 1 |-> c[i + 1].value]) : c \in Range(AddWordCommands)}

\* The dictionary the module doc describes: index.dic and the add_word words.
RefDict == BaseWords \cup PersonalWords

\* Item i of its is inside italics: a StartItalic before it and no
\* EndItalic between.
InItalics(its, i) ==
  \E j \in 1..i - 1 : its[j].kind = "start" /\ \A k \in j + 1..i - 1 : its[k].kind # "end"

\* The misspelled words of the comment s checks, with where they lie:
\* [span, kind, item_end, stop, italic].
MisspellingsOf(s) ==
  LET c == s.target[1]
      At(i) ==
        {[span |-> [addr |-> c.addr, start |-> c.items[i].start + x.pos,
                    end  |-> c.items[i].start + x.pos + Len(x.w)],
          kind |-> c.items[i].kind, item_end |-> c.items[i].end, stop |-> StopAt(s),
          italic |-> InItalics(c.items, i)] :
           x \in {x \in Range(c.items[i].words) : x.w \notin RefDict /\ ~IgnoreWord(x.w)}}
  IN  UNION {At(i) : i \in DOMAIN c.items}

Misspellings == UNION {MisspellingsOf(s) : s \in {s \in Range(db) : Checked(s)}}

Reported == Range(diags)


-----------------------------------------------------------------------------
TypeOK ==
  /\ si \in 1..Len(db) + 1
  /\ \A d \in Reported : d.start < d.end
  /\ italics \in BOOLEAN

(***************************************************************************)
(* spell_check reports only misspelled words of text items outside italics *)
(* that lie before the parentheticals of an assertion's comment: never a   *)
(* word in italics, past stop_at, or one ignore_words matches.            *)
(***************************************************************************)
ReportsSound ==
  \A d \in Reported : \E m \in Misspellings :
     m.span = d /\ m.kind = "text" /\ ~m.italic /\ d.end <= m.stop

(***************************************************************************)
(* When spell_check returns, every misspelled word outside italics of a    *)
(* text item that ends by stop_at has been reported, whatever the          *)
(* comments checked before (an unclosed italic of one does not reach the   *)
(* next).                                                                  *)
(***************************************************************************)
ReportsComplete ==
  Done => \A m \in Misspellings :
            m.kind = "text" /\ ~m.italic /\ m.item_end <= m.stop => m.span \in Reported

(***************************************************************************)
(* The module doc (1-3): comments are checked "stopping at the             *)
(* parentheticals": every misspelled word outside italics that ends before *)
(* the parentheticals is reported, even in the text item they begin in.    *)
(***************************************************************************)
ReportsBeforeParentheticals ==
  Done => \A m \in Misspellings :
            m.kind = "text" /\ ~m.italic /\ m.span.end <= m.stop => m.span \in Reported

(***************************************************************************)
(* The module doc (5): the add_word $j command appends custom words to    *)
(* the dictionary.  The dictionary spell_check builds from index.dic and  *)
(* personal_dict holds every bundled word and every add_word word, and no *)
(* word made of two of them run together (empty lines aside).             *)
(***************************************************************************)
DictHasPersonalWords ==
  dict \ {<<>>} = RefDict \ {<<>>}

=============================================================================
