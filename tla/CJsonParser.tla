---------------------------- MODULE CJsonParser ----------------------------
(***************************************************************************)
(* cJSON_ParseWithOpts: the recursive descent over a text that ends in a   *)
(* NUL, with the offset and depth of its parse_buffer, the items and       *)
(* strings it allocates, and an allocation that fails.                     *)
(***************************************************************************)
EXTENDS JsonText

\* A parse_buffer b also counts the allocations that will still succeed (left),
\* the blocks it has allocated and not freed (live), and notes a byte written
\* behind a block (over).
Allocated(b) == [b EXCEPT !.left = @ - 1, !.live = @ + 1]
Release(b, blocks) == [b EXCEPT !.live = @ - blocks]

RECURSIVE BlocksOf(_)
BlocksOf(items) ==
  IF items = <<>> THEN 0
  ELSE LET item == Head(items)
       IN 1 + (IF item.name = NULL THEN 0 ELSE 1) + (IF item.type = "string" THEN 1 ELSE 0)
            + BlocksOf(item.kids) + BlocksOf(Tail(items))

\* What a parse function returns: whether it succeeded, the buffer, and what it
\* has put into the item it was given.
Fail(b) == [ok |-> FALSE, b |-> b, item |-> Blank]
Done(b, item) == [ok |-> TRUE, b |-> b, item |-> item]

\* length counts the NUL.
CanAccess(b, index) == b.offset + index < b.length
Byte(b, index) == b.content[b.offset + index + 1]
Sees(b, c) == CanAccess(b, 0) /\ Byte(b, 0) = Code[c]
Advance(b, n) == [b EXCEPT !.offset = @ + n]
Reads(b, string) == /\ b.offset + Len(string) <= b.length
                    /\ SubSeq(b.content, b.offset + 1, b.offset + Len(string)) = Bytes(string)

\* The NUL is skipped like white space, and stepped back to.
SkipWhitespace(b) ==
  LET ends == {o \in b.offset..b.length : \A i \in b.offset..(o - 1) : b.content[i + 1] <= 32}
  IN [b EXCEPT !.offset = IF Max(ends) = b.length THEN b.length - 1 ELSE Max(ends)]

SkipUtf8Bom(b) ==
  IF CanAccess(b, 4) /\ SubSeq(b.content, b.offset + 1, b.offset + 3) = Mark THEN Advance(b, 3) ELSE b

\* What of a number fits is copied, up to the first character that is none of a
\* number's, and strtod reads as much of that as it can.
NumberCharacters == Digits \cup {Code[c] : c \in {"+", "-", "e", "E", "."}}
ParseNumber(b) ==
  LET fits == {n \in 0..Min({NumberMax, b.length - b.offset}) :
                 \A i \in 0..(n - 1) : Byte(b, i) \in NumberCharacters}
      copy == SubSeq(b.content, b.offset + 1, b.offset + Max(fits))
      after == Max({0} \cup {n \in 1..Len(copy) : IsNumeral(SubSeq(copy, 1, n))})
  IN IF after = 0 THEN Fail(b)
     ELSE Done(Advance(b, after), Item("number", Double(SubSeq(copy, 1, after)), <<>>))

\* From the lowest byte up: six bits each below a mark of 10, the rest below the
\* mark of the first byte.
Utf8(codepoint) ==
  LET n == IF codepoint < 128 THEN 1 ELSE IF codepoint < 2048 THEN 2
           ELSE IF codepoint < 65536 THEN 3 ELSE 4
      firstByteMark == <<0, 192, 224, 240>>
      Shifted(position) == codepoint \div (64 ^ (n - position))
  IN [position \in 1..n |-> IF position > 1 THEN 128 + (Shifted(position) % 64)
                            ELSE IF n = 1 THEN codepoint % 128
                            ELSE Shifted(1) + firstByteMark[n]]

\* utf16_literal_to_utf8: the characters used, 0 for an invalid literal, and the
\* bytes they make.
Utf16Literal(content, first, end) ==
  LET invalid == [length |-> 0, bytes |-> <<>>]
      firstCode == Hex4(SubSeq(content, first + 2, first + 5))
      second == first + 6
      secondCode == Hex4(SubSeq(content, second + 2, second + 5))
  IN IF end - first < 6 \/ firstCode \in 56320..57343 THEN invalid
     ELSE IF firstCode \notin 55296..56319 THEN [length |-> 6, bytes |-> Utf8(firstCode)]
     ELSE IF \/ end - second < 6
             \/ SubSeq(content, second, second + 1) # Bytes("\\u")
             \/ secondCode \notin 56320..57343
          THEN invalid
     ELSE [length |-> 12,
           bytes |-> Utf8(65536 + (((firstCode % 1024) * 1024) + (secondCode % 1024)))]

\* The position of the closing quote and the escapes before it; position 0 if
\* there is none.
RECURSIVE StringEnd(_, _, _)
StringEnd(content, end, skipped) ==
  IF end > Len(content) THEN [at |-> 0, skipped |-> skipped]
  ELSE IF content[end] = Quote THEN [at |-> end, skipped |-> skipped]
  ELSE IF content[end] # Backslash THEN StringEnd(content, end + 1, skipped)
  ELSE IF end + 1 > Len(content) THEN [at |-> 0, skipped |-> skipped]
  ELSE StringEnd(content, end + 2, skipped + 1)

\* The loop through the literal: where it stopped and what it has written.
RECURSIVE Literal(_, _, _, _)
Literal(content, input, end, output) ==
  IF input >= end THEN [ok |-> TRUE, at |-> input, output |-> output]
  ELSE IF content[input] # Backslash
       THEN Literal(content, input + 1, end, Append(output, content[input]))
  ELSE LET c == content[input + 1]
           utf16 == Utf16Literal(content, input, end)
       IN IF c \in DOMAIN Escapes THEN Literal(content, input + 2, end, Append(output, Escapes[c]))
          ELSE IF c = Code["u"] /\ utf16.length > 0
               THEN Literal(content, input + utf16.length, end, output \o utf16.bytes)
          ELSE [ok |-> FALSE, at |-> input, output |-> output]

\* The block is as long as the literal, counting an escape as one character less.
StringRoom(b, end) == end.at - (b.offset + 1) - end.skipped

\* Mutant: the block is not freed when an escape turns out to be invalid.
StringOfLeak(b, end, literal) ==
  IF ~literal.ok THEN Fail([Allocated(b) EXCEPT !.offset = literal.at - 1])
  ELSE Done([Allocated(b) EXCEPT !.offset = end.at, !.over = @ \/ Len(literal.output) > StringRoom(b, end)],
            Item("string", CString(literal.output), <<>>))

StringOf(b, end, literal) ==
  IF ~literal.ok THEN Fail([Release(Allocated(b), 1) EXCEPT !.offset = literal.at - 1])
  ELSE Done([Allocated(b) EXCEPT !.offset = end.at, !.over = @ \/ Len(literal.output) > StringRoom(b, end)],
            Item("string", CString(literal.output), <<>>))

StringTo(b, end) ==
  IF Byte(b, 0) # Quote \/ end.at = 0 \/ b.left = 0 THEN Fail(Advance(b, 1))
  ELSE StringOf(b, end, Literal(b.content, b.offset + 2, end.at, <<>>))
ParseString(b) == StringTo(b, StringEnd(b.content, b.offset + 2, 0))

RECURSIVE ParseValue(_), Elements(_, _, _, _)

\* An element, or a member, of which the name, the colon and the value follow each
\* other, and the white space behind it.  A failure releases what it owns: its
\* item, and its name.
Valued(value, name, owned) ==
  IF ~value.ok THEN Fail(Release(value.b, owned))
  ELSE Done(SkipWhitespace(value.b), [value.item EXCEPT !.name = name])
Named(b, name) ==
  IF ~Sees(b, ":") THEN Fail(Release(b, 2))
  ELSE Valued(ParseValue(SkipWhitespace(Advance(b, 1))), name, 2)
Member(name) ==
  IF ~name.ok THEN Fail(Release(name.b, 1)) ELSE Named(SkipWhitespace(name.b), name.item.value)
Element(b, type) ==
  IF b.left = 0 THEN Fail(b)
  ELSE IF type = "object" THEN Member(ParseString(SkipWhitespace(Advance(Allocated(b), 1))))
  ELSE Valued(ParseValue(SkipWhitespace(Advance(Allocated(b), 1))), NULL, 1)

\* The loop of parse_array and parse_object, from in front of the first element.
\* A failure deletes the elements there are.
AfterElement(element, kids, type, close) ==
  IF ~element.ok THEN Fail(Release(element.b, BlocksOf(kids)))
  ELSE IF Sees(element.b, ",") THEN Elements(element.b, Append(kids, element.item), type, close)
  ELSE IF ~Sees(element.b, close) THEN Fail(Release(element.b, BlocksOf(Append(kids, element.item))))
  ELSE Done(Advance([element.b EXCEPT !.depth = @ - 1], 1), Item(type, NULL, Append(kids, element.item)))
Elements(b, kids, type, close) == AfterElement(Element(b, type), kids, type, close)

\* Mutant: the depth is not given back behind an empty array or object.
InsideDepthKept(b, type, close) ==
  IF Sees(b, close) THEN Done(Advance(b, 1), Item(type, NULL, <<>>))
  ELSE Elements(Advance(b, -1), <<>>, type, close)

Inside(b, type, close) ==
  IF Sees(b, close) THEN Done(Advance([b EXCEPT !.depth = @ - 1], 1), Item(type, NULL, <<>>))
  ELSE Elements(Advance(b, -1), <<>>, type, close)

Collection(b, type, close) ==
  IF b.depth >= NestingLimit THEN Fail(b)
  ELSE Inside(SkipWhitespace(Advance([b EXCEPT !.depth = @ + 1], 1)), type, close)

ParseArray(b) == Collection(b, "array", "]")
ParseObject(b) == Collection(b, "object", "}")

ParseValue(b) ==
  IF \E l \in {"null", "false", "true"} : Reads(b, l)
  THEN LET l == CHOOSE l \in {"null", "false", "true"} : Reads(b, l)
       IN Done(Advance(b, Len(l)), Item(l, NULL, <<>>))
  ELSE IF Sees(b, "\"") THEN ParseString(b)
  ELSE IF CanAccess(b, 0) /\ Byte(b, 0) \in Digits \cup {Code["-"]} THEN ParseNumber(b)
  ELSE IF Sees(b, "[") THEN ParseArray(b)
  ELSE IF Sees(b, "{") THEN ParseObject(b)
  ELSE Fail(b)

\* The item, or NULL with the offset of the error; cJSON_GetErrorPtr returns the
\* same.  Without require_null_terminated the end may be followed by anything.
Parsed(item, end, b) == [item |-> item, end |-> end, live |-> b.live, over |-> b.over]
Failed(b) == Parsed(NULL, Min({b.offset, b.length - 1}), b)
Ended(b, item, require) ==
  IF require /\ (b.offset >= b.length \/ Byte(b, 0) # 0) THEN Failed(Release(b, BlocksOf(<<item>>)))
  ELSE Parsed(item, b.offset, b)
Rooted(root, require) ==
  IF ~root.ok THEN Failed(Release(root.b, 1))
  ELSE Ended(IF require THEN SkipWhitespace(root.b) ELSE root.b, root.item, require)
ParseBuffer(text, left) ==
  [content |-> Append(text, 0), length |-> Len(text) + 1, offset |-> 0, depth |-> 0,
   left |-> left, live |-> 0, over |-> FALSE]
ParseWithOpts(text, require, left) ==
  IF left = 0 THEN Failed(ParseBuffer(text, left))
  ELSE Rooted(ParseValue(SkipWhitespace(SkipUtf8Bom(Allocated(ParseBuffer(text, left))))), require)
=============================================================================
