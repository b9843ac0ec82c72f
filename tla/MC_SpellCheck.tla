---------------------------- MODULE MC_SpellCheck ----------------------------
(***************************************************************************)
(* Databases of up to three statements drawn from seven: a heading, and   *)
(* assertions whose comments have italics, an unclosed italic, a text     *)
(* item that straddles the parentheticals and one that ends at them, or   *)
(* no comment, and a statement of another type.                           *)
(***************************************************************************)
EXTENDS SpellCheck

the == <<"t", "h", "e">>
teh == <<"t", "e", "h">>
Teh == <<"T", "e", "h">>
n42 == <<"4", "2">>
wff == <<"w", "f", "f">>

W(w, p) == [w |-> w, pos |-> p]
T(s, e, ws) == [kind |-> "text", start |-> s, end |-> e, words |-> ws]
SI(p) == [kind |-> "start", start |-> p, end |-> p + 1, words |-> <<>>]
EI(p) == [kind |-> "end", start |-> p, end |-> p + 1, words |-> <<>>]
O(p)  == [kind |-> "other", start |-> p, end |-> p + 1, words |-> <<>>]

\* A heading: checked to its end whatever its parentheticals.
CH == [addr |-> "h", end |-> 16, paren |-> <<3>>,
       items |-> <<T(0, 10, <<W(the, 0), W(teh, 4)>>), O(10), T(11, 16, <<W(n42, 0), W(wff, 3)>>)>>]
\* Plain, italic, plain text.
CI == [addr |-> "i", end |-> 14, paren |-> <<>>,
       items |-> <<T(0, 4, <<W(teh, 0)>>), SI(4), T(5, 9, <<W(teh, 0)>>), EI(9), T(10, 14, <<W(teh, 0)>>)>>]
\* One text item across the parentheticals, which start at 12.
CP == [addr |-> "p", end |-> 30, paren |-> <<12>>,
       items |-> <<T(0, 30, <<W(teh, 0), W(Teh, 4), W(teh, 20)>>)>>]
\* A text item ending where the parentheticals start, then one past them.
CQ == [addr |-> "q", end |-> 20, paren |-> <<8>>,
       items |-> <<T(0, 8, <<W(teh, 0)>>), T(8, 20, <<W(teh, 4)>>)>>]
\* An italic that is never closed.
CU == [addr |-> "u", end |-> 5, paren |-> <<>>,
       items |-> <<SI(0), T(1, 5, <<W(teh, 0)>>)>>]

Stmts ==
  {[type |-> "heading", target |-> <<CH>>],
   [type |-> "assertion", target |-> <<CI>>],
   [type |-> "assertion", target |-> <<CP>>],
   [type |-> "assertion", target |-> <<CQ>>],
   [type |-> "assertion", target |-> <<CU>>],
   [type |-> "assertion", target |-> <<>>],
   [type |-> "other", target |-> <<>>]}

MCDatabases == [1..3 -> Stmts]

\* index.dic: its count line, one word, and the newline that ends the file.
MCDicText == <<"1", "\n">> \o the \o <<"\n">>

ph == <<"p", "h">>

\* $( $j add_word wff; usage teh; add_word ph ph; $): two add_word
\* commands, one of two words, and a command of another keyword.
MCJCommands ==
  << <<[kind |-> "keyword", value |-> "add_word"], [kind |-> "string", value |-> wff]>>,
     <<[kind |-> "keyword", value |-> "usage"], [kind |-> "string", value |-> teh]>>,
     <<[kind |-> "keyword", value |-> "add_word"], [kind |-> "string", value |-> ph],
       [kind |-> "string", value |-> ph]>> >>

=============================================================================
