---------------------------- MODULE MCCJsonText ----------------------------
(* CJsonText on every short text, on texts one byte away from a valid one, on   *)
(* strings of every kind of escape and on numbers at the limits.                *)
EXTENDS CJsonText

CONSTANT MaxTokens   \* bound: the length of the texts that are all tried

Seqs(S, max) == UNION {[1..n -> S] : n \in 0..max}
Joined(words, max) == {FlattenSeq(s) : s \in Seqs(words, max)}

Tokens == {Bytes(w) : w \in {"[", "]", "{", "}", ",", ":", " ", "1", "\"a\""}}

Seeds == {Bytes(w) : w \in {
  "[\"b\",{\"a\" : null}]", "{\"a\":[], \"A\":{}}", "[ [ ] , [[1]] ]", "{\"a\":true,\"b\":\"c\\n\"}",
  "[1,/*,*/2]//", "{\"//\":\"/* \"}", "/*[1]"}}

\* The texts one byte from another: without it, or with another instead or before.
Some == {Code[c] : c \in {"[", "}", ",", "\"", "\\", "/", " "}}
Edits(t) ==
  {RemoveAt(t, i) : i \in DOMAIN t} \cup {InsertAt(t, i, c) : i \in DOMAIN t, c \in Some}
  \cup {SubSeq(t, 1, n) : n \in 0..Len(t)}

Units == {<<1>>, <<233>>} \cup {Bytes(w) : w \in {
  "a", "/", "\\/", "\\n", "\\\"", "\\\\", "\\x", "\\u", "\\u0000", "\\u001f", "\\u007F", "\\u07ff", "\\u20AC",
  "\\u00g0", "\\uD83d", "\\ude00"}}
Strings2 == {<<Quote>> \o s \o end : s \in Joined(Units, 2), end \in {<<Quote>>, <<>>}}

Numbers == {Bytes(w) : w \in {
  "0", "-0", "-", "--1", "+1", ".5", "1.", "1.50", "-12.5e1", "1e", "1e+", "1e-4", "1.25E-5", "12e14", "100000e9", "9e307",
  "1e309", "-2e400", "1e-400", "01", "1e1e1", "1.2.3", "00000000000000000001", "000000000000000000012", "0x1", "nan"}}

Marked == {Mark \o Bytes(w) : w \in {"", "1", "[]", " 1"}}

MCTight == Seeds
MCTexts == Joined(Tokens, MaxTokens) \cup UNION {Edits(t) : t \in Seeds} \cup Strings2 \cup Numbers \cup Marked

\* Items only the create functions make.
WithName(name, v) == [v EXCEPT !.name = name]
A == Bytes("a")
MCMade == {Item("object", NULL, <<WithName(NULL, Item("string", NULL, <<>>)), WithName(A, Item("raw", Bytes(" [1]"), <<>>))>>),
           Item("array", NULL, <<WithName(A, Item("raw", NULL, <<>>))>>),
           Item("array", NULL, <<WithName(A, Item("number", Infinity(-1), <<>>)), Blank>>)}

Trees == UNION {TextValues(t) : t \in Seeds \cup
            {Bytes(w) : w \in {"{}", "{\"a\":1,\"A\":2}", "{\"A\":1,\"a\":1}", "{\"a\":1}", "{\"a\":1,\"b\":{\"a\":1}}",
                               "{\"b\":{\"a\":1},\"a\":1}", "[1,1]", "[1]", "0"}}}
MCCompared == Trees \cup MCMade
MCItems == MCMade \cup Trees
MCSizes == {0, 1, 2, 4, 5, 6, 8, 9, 12, 16, 20, 24}
=============================================================================
