---------------------------- MODULE CJsonPrinter ----------------------------
(***************************************************************************)
(* cJSON_Print, PrintBuffered and PrintPreallocated: the descent through a *)
(* tree, the buffer that ensure() grows ahead of every write, and an       *)
(* allocation that fails; and cJSON_Minify.                                *)
(***************************************************************************)
EXTENDS CJsonParser

CONSTANTS
  IntMax,        \* INT_MAX
  DefaultSize    \* default_buffer_size of print()

ASSUME SizesAssumption == IntMax \in Nat /\ DefaultSize \in 1..IntMax

\* A printbuffer p: what has been written to it, its size and the offset, depth
\* and flags; further whether realloc is there (it is not once InitHooks has been
\* given functions), the allocations that will still succeed, the blocks that are
\* live, whether a byte outside the buffer was touched, and whether printing is
\* still going well.
Stop(p) == [p EXCEPT !.ok = FALSE]

\* The buffer is freed when it cannot be made larger.
Grown(p, size) ==
  IF p.left = 0 THEN [p EXCEPT !.ok = FALSE, !.buffer = NULL, !.length = 0, !.live = @ - 1]
  ELSE [p EXCEPT !.length = size, !.left = @ - 1,
                 !.over = @ \/ (~p.realloc /\ p.offset + 1 > p.length)]

Room(p, total) ==
  IF total <= p.length THEN p
  ELSE IF p.noalloc \/ total > IntMax THEN Stop(p)
  ELSE Grown(p, IF total > IntMax \div 2 THEN IntMax ELSE total * 2)

Ensure(p, needed) ==
  IF p.buffer = NULL \/ (p.length > 0 /\ p.offset >= p.length) \/ needed > IntMax THEN Stop(p)
  ELSE Room(p, needed + p.offset + 1)

\* Room is made for a number of bytes, some are written at the offset, and the
\* offset is moved.
Written(p, bytes, moved) ==
  IF ~p.ok THEN p
  ELSE [p EXCEPT !.buffer = SubSeq(@, 1, p.offset) \o bytes,
                 !.over = @ \/ p.offset + Len(bytes) > p.length,
                 !.offset = @ + moved]
Put(p, needed, bytes, moved) == IF ~p.ok THEN p ELSE Written(Ensure(p, needed), bytes, moved)

\* strlen from the offset; without a NUL there it would run out of the buffer.
UpdateOffset(p) ==
  LET nuls == {n \in 0..(Len(p.buffer) - p.offset - 1) : p.buffer[p.offset + n + 1] = 0}
  IN IF ~p.ok THEN p
     ELSE IF nuls = {} THEN [p EXCEPT !.over = TRUE]
     ELSE [p EXCEPT !.offset = @ + Min(nuls)]

\* A text and its NUL, which the offset is left in front of or moved to.
Terminated(bytes) == Append(bytes, 0)
Text(p, string) == Put(p, Len(string) + 1, Terminated(Bytes(string)), 0)
PutText(p, bytes) == Put(p, Len(bytes) + 1, Terminated(bytes), Len(bytes))

\* External: sprintf of a double with %1.15g, for mantissas of up to 15 digits,
\* which all come back from it.
Zeros(n) == [i \in 1..n |-> Code["0"]]
Sprintf(double) ==
  LET digits == Figures(double[2])
      power == Len(digits) - 1 + double[3]
      fraction(n) == IF n >= Len(digits) THEN <<>>
                     ELSE Bytes(".") \o SubSeq(digits, n + 1, Len(digits))
      size == IF power < 0 THEN -power ELSE power
  IN (IF double[1] < 0 THEN Bytes("-") ELSE <<>>)
     \o IF power \notin -4..14
        THEN SubSeq(digits, 1, 1) \o fraction(1)
             \o Bytes(IF power < 0 THEN "e-" ELSE "e+") \o Zeros(2 - Len(Figures(size))) \o Figures(size)
        ELSE IF power < 0 THEN Bytes("0.") \o Zeros(-power - 1) \o digits
        ELSE SubSeq(digits, 1, Min({power + 1, Len(digits)})) \o Zeros(double[3]) \o fraction(power + 1)

\* print_number moves the offset itself, unlike the other values.
PrintNumber(p, double) ==
  PutText(p, IF double = Infinity(double[1]) THEN Bytes("null") ELSE Sprintf(double))

ShortEscapes == DOMAIN Escapes \ {Code["/"]}

\* Mutant: the backslash itself is not escaped.
EscapeOfNoBackslash(c) ==
  LET short == {e \in ShortEscapes \ {Backslash} : Escapes[e] = c}
      hex(n) == Char("0123456789abcdef", n + 1)
  IN IF short # {} THEN <<Backslash, CHOOSE e \in short : TRUE>>
     ELSE IF c < 32 THEN Bytes("\\u00" \o hex(c \div 16) \o hex(c % 16)) ELSE <<c>>

\* The escape of a character, and the characters escapes add to a string.
EscapeOf(c) ==
  LET short == {e \in ShortEscapes : Escapes[e] = c}
      hex(n) == Char("0123456789abcdef", n + 1)
  IN IF short # {} THEN <<Backslash, CHOOSE e \in short : TRUE>>
     ELSE IF c < 32 THEN Bytes("\\u00" \o hex(c \div 16) \o hex(c % 16)) ELSE <<c>>
EscapeCharacters(input) ==
  FoldLeft(LAMBDA n, c : n + Len(EscapeOf(c)) - 1, 0, input)

PrintStringPtr(p, input) ==
  IF input = NULL THEN Text(p, "\"\"")
  ELSE Put(p, Len(input) + EscapeCharacters(input) + 3,
           <<Quote>> \o FlattenSeq([i \in DOMAIN input |-> EscapeOf(input[i])]) \o <<Quote, 0>>, 0)

Tabs(n) == [i \in 1..n |-> 9]
Deeper(p, n) == [p EXCEPT !.depth = @ + n]

RECURSIVE PrintValue(_, _), PrintElements(_, _), PrintMembers(_, _)

\* The loops of print_array and print_object, from one of the children on.
Comma(p, kids) == IF Len(kids) = 1 THEN p ELSE PutText(p, Bytes(IF p.format THEN ", " ELSE ","))
PrintElements(p, kids) ==
  IF kids = <<>> THEN p
  ELSE PrintElements(Comma(UpdateOffset(PrintValue(p, Head(kids))), kids), Tail(kids))

Indented(p) == IF p.format THEN Put(p, p.depth, Tabs(p.depth), p.depth) ELSE p
PrintColon(p) == IF p.format THEN Put(p, 2, <<Code[":"], 9>>, 2) ELSE Put(p, 1, <<Code[":"]>>, 1)
PrintKey(p, name) == PrintColon(UpdateOffset(PrintStringPtr(Indented(p), name)))
Newline(p) == IF p.format THEN <<10>> ELSE <<>>
MemberEnd(p, kids) == PutText(p, (IF Len(kids) = 1 THEN <<>> ELSE Bytes(",")) \o Newline(p))
PrintMembers(p, kids) ==
  IF kids = <<>> THEN p
  ELSE PrintMembers(MemberEnd(UpdateOffset(PrintValue(PrintKey(p, Head(kids).name), Head(kids))), kids), Tail(kids))

PrintArray(p, kids) ==
  Deeper(Put(PrintElements(Deeper(Put(p, 1, Bytes("["), 1), 1), kids), 2, Terminated(Bytes("]")), 0), -1)

Open(p, bytes) == Put(p, Len(bytes) + 1, bytes, Len(bytes))
Close(p) == IF p.format THEN Put(p, p.depth + 1, Tabs(p.depth - 1) \o Terminated(Bytes("}")), 0)
            ELSE Put(p, 2, Terminated(Bytes("}")), 0)
PrintObject(p, kids) ==
  Deeper(Close(PrintMembers(Deeper(Open(p, Bytes("{") \o Newline(p)), 1), kids)), -1)

PrintValue(p, item) ==
  IF ~p.ok THEN p
  ELSE CASE item.type \in {"null", "false", "true"} -> Text(p, item.type)
         [] item.type = "number" -> PrintNumber(p, item.value)
         [] item.type = "raw"    -> IF item.value = NULL THEN Stop(p)
                                    ELSE Put(p, Len(item.value) + 1, Terminated(item.value), 0)
         [] item.type = "string" -> PrintStringPtr(p, item.value)
         [] item.type = "array"  -> PrintArray(p, item.kids)
         [] item.type = "object" -> PrintObject(p, item.kids)
         [] OTHER                -> Stop(p)

PrintBuffer(length, noalloc, format, realloc, left) ==
  [buffer |-> <<>>, length |-> length, offset |-> 0, depth |-> 0, noalloc |-> noalloc,
   format |-> format, realloc |-> realloc, left |-> left, live |-> 0, over |-> FALSE, ok |-> TRUE]

\* The text a print function returns, or NULL, and what became of the blocks.
Printed(text, p) == [text |-> text, live |-> p.live, over |-> p.over]
Freed(p) == IF p.buffer = NULL THEN p ELSE [p EXCEPT !.live = @ - 1]

\* print(): the buffer is cut to the length of the text.  A realloc that fails
\* leaves the old buffer behind, which is freed only where there is no realloc.
Cut(p) ==
  IF ~p.ok THEN Printed(NULL, Freed(p))
  ELSE IF p.left = 0 THEN Printed(NULL, IF p.realloc THEN p ELSE Freed(p))
  ELSE Printed(SubSeq(p.buffer, 1, p.offset), p)
PrintFrom(p, item) == IF p.left = 0 THEN Printed(NULL, p) ELSE Cut(UpdateOffset(PrintValue(Allocated(p), item)))
PrintText(item, format, realloc, left) ==
  PrintFrom(PrintBuffer(DefaultSize, FALSE, format, realloc, left), item)

Kept(p) == IF p.ok THEN Printed(CString(p.buffer), p) ELSE Printed(NULL, Freed(p))
PrintBuffered(item, prebuffer, format, realloc, left) ==
  LET p == PrintBuffer(prebuffer, FALSE, format, realloc, left)
  IN IF left = 0 THEN Printed(NULL, p) ELSE Kept(PrintValue(Allocated(p), item))

Given(p) == Printed(IF p.ok THEN CString(p.buffer) ELSE NULL, p)
PrintPreallocated(item, len, format) ==
  Given(PrintValue(PrintBuffer(len, TRUE, format, TRUE, 0), item))

-----------------------------------------------------------------------------
(* cJSON_Minify: the text it leaves, and whether it reads past the NUL *)

RECURSIVE Minified(_, _, _)
Minified(text, json, into) ==
  LET Pair(i, two) == i < Len(text) /\ SubSeq(text, i, i + 1) = Bytes(two)
      Behind(S) == Min(S \cup {Len(text) + 1})
      comment == Behind({i \in json..Len(text) : text[i] = 10})
      block == Behind({i \in json..Len(text) : Pair(i, "*/")})
      string == StringEnd(text, json + 1, 0)
  IN IF json > Len(text) THEN [text |-> into, over |-> json > Len(text) + 1]
     ELSE IF text[json] \in {32, 9, 13, 10} THEN Minified(text, json + 1, into)
     ELSE IF Pair(json, "//") THEN Minified(text, comment, into)
     ELSE IF Pair(json, "/*") THEN Minified(text, block + 2, into)
     ELSE IF text[json] # Quote THEN Minified(text, json + 1, Append(into, text[json]))
     ELSE IF string.at = 0 THEN [text |-> into \o SubSeq(text, json, Len(text)), over |-> TRUE]
     ELSE Minified(text, string.at + 1, into \o SubSeq(text, json, string.at))
Minify(text) == Minified(text, 1, <<>>)
=============================================================================
