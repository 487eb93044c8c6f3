------------------------------ MODULE JsonText ------------------------------
(***************************************************************************)
(* Texts as sequences of bytes, the values cJSON makes of them, and the    *)
(* texts it should take for a value, as a grammar: without an offset, a    *)
(* depth counter or memory.                                                *)
(***************************************************************************)
EXTENDS Integers, SequencesExt

CONSTANTS
  NULL,
  NestingLimit,   \* CJSON_NESTING_LIMIT
  NumberMax       \* the characters parse_number has room for

ASSUME LimitsAssumption == NestingLimit \in Nat /\ NumberMax \in Nat \ {0}

\* The printable characters from the space on, and from the letter a on.
Char(chars, i) == SubSeq(chars, i, i)
CodesFrom(chars, first) ==
  [c \in {Char(chars, i) : i \in 1..Len(chars)} |->
     first - 1 + CHOOSE i \in 1..Len(chars) : Char(chars, i) = c]
Code == CodesFrom(" !\"#$%&'()*+,-./0123456789:;<=>?@ABCDEFGHIJKLMNOPQRSTUVWXYZ[\\]^_", 32)
        @@ CodesFrom("abcdefghijklmnopqrstuvwxyz{|}~", 97)
Bytes(string) == [i \in 1..Len(string) |-> Code[Char(string, i)]]

Quote == Code["\""]
Backslash == Code["\\"]
Digits == Code["0"]..Code["9"]

\* A value is named for what cJSON keeps of it: the bytes of a string or a raw
\* text, the double of a number; and below it an array or object.
Blank == [type |-> "invalid", name |-> NULL, value |-> NULL, kids |-> <<>>]
Item(type, value, kids) == [Blank EXCEPT !.type = type, !.value = value, !.kids = kids]
Literals == Bytes("null") :> "null" @@ Bytes("false") :> "false" @@ Bytes("true") :> "true"

\* The numerals strtod takes, but for the hexadecimal ones and the words, which
\* parse_number never gives it.
Unsigned(s) == IF s # <<>> /\ Head(s) \in {Code["+"], Code["-"]} THEN Tail(s) ELSE s
IsNumeral(s) ==
  \E k \in 1..Len(s) :
    LET mantissa == Unsigned(SubSeq(s, 1, k))
        exponent == SubSeq(s, k + 1, Len(s))
    IN /\ ToSet(mantissa) \subseteq Digits \cup {Code["."]}
       /\ ToSet(mantissa) \cap Digits # {}
       /\ Cardinality({i \in DOMAIN mantissa : mantissa[i] = Code["."]}) <= 1
       /\ exponent # <<>> => /\ Head(exponent) \in {Code["e"], Code["E"]}
                             /\ Unsigned(Tail(exponent)) # <<>>
                             /\ ToSet(Unsigned(Tail(exponent))) \subseteq Digits

\* strtod: the double of a numeral, as its sign, a mantissa without zeros at its
\* end and a power of ten.  A double holds powers from MinPower to MaxPower.
MaxPower == 308
MinPower == -323
Zero(sign) == <<sign, 0, 0>>
Infinity(sign) == <<sign, 0, 1>>
Signed(s) == IF s # <<>> /\ Head(s) = Code["-"] THEN -1 ELSE 1
Natural(s) == FoldLeft(LAMBDA n, c : (10 * n) + c - Code["0"], 0, s)
Figures(n) == Bytes(ToString(n))

Double(s) ==
  LET exponents == {i \in DOMAIN s : s[i] \in {Code["e"], Code["E"]}}
      mantissa == Unsigned(IF exponents = {} THEN s ELSE SubSeq(s, 1, Min(exponents) - 1))
      exponent == IF exponents = {} THEN <<>> ELSE SubSeq(s, Min(exponents) + 1, Len(s))
      places == UNION {{Len(mantissa) - i} : i \in {i \in DOMAIN mantissa : mantissa[i] = Code["."]}}
      digits == SelectSeq(mantissa, LAMBDA c : c \in Digits)
      solid == Max({0} \cup {i \in DOMAIN digits : digits[i] # Code["0"]})
      m == Natural(SubSeq(digits, 1, solid))
      e == (Signed(exponent) * Natural(Unsigned(exponent))) - Max({0} \cup places) + (Len(digits) - solid)
      power == e + Len(Figures(m)) - 1
  IN IF m = 0 \/ power < MinPower THEN Zero(Signed(s))
     ELSE IF power > MaxPower THEN Infinity(Signed(s))
     ELSE <<Signed(s), m, e>>

\* What the four characters of a \u escape stand for: NUL if they are no number.
HexDigit(c) == IF c \in Digits THEN c - Code["0"]
               ELSE IF c \in Code["A"]..Code["F"] THEN 10 + c - Code["A"]
               ELSE IF c \in Code["a"]..Code["f"] THEN 10 + c - Code["a"] ELSE 16
Hex4(s) == IF \E i \in 1..4 : HexDigit(s[i]) = 16 THEN 0
           ELSE 4096 * HexDigit(s[1]) + 256 * HexDigit(s[2]) + 16 * HexDigit(s[3]) + HexDigit(s[4])

Encoded(c) ==
  LET Lead(mark, unit) == mark + c \div unit
      More(unit) == 128 + ((c \div unit) % 64)
  IN IF c < 128 THEN <<c>>
     ELSE IF c < 2048 THEN <<Lead(192, 64), More(1)>>
     ELSE IF c < 65536 THEN <<Lead(224, 4096), More(64), More(1)>>
     ELSE <<Lead(240, 262144), More(4096), More(64), More(1)>>

Escapes == Code["b"] :> 8 @@ Code["f"] :> 12 @@ Code["n"] :> 10 @@ Code["r"] :> 13 @@ Code["t"] :> 9
           @@ Quote :> Quote @@ Backslash :> Backslash @@ Code["/"] :> Code["/"]

\* The escape a text begins with: its length and what it stands for, if any.
Escape(s) ==
  LET Unit(at) == IF Len(s) < at + 5 \/ SubSeq(s, at, at + 1) # Bytes("\\u") THEN {}
                  ELSE {Hex4(SubSeq(s, at + 2, at + 5))}
      Plain == {u \in Unit(1) : u \notin 55296..57343}
      High == Unit(1) \cap 55296..56319
      Low == Unit(7) \cap 56320..57343
  IN IF Len(s) < 2 THEN {}
     ELSE {[length |-> 2, bytes |-> <<Escapes[c]>>] : c \in {s[2]} \cap DOMAIN Escapes}
          \cup {[length |-> 6, bytes |-> Encoded(u)] : u \in Plain}
          \cup {[length |-> 12, bytes |-> Encoded(65536 + 1024 * (u - 55296) + v - 56320)] :
                  u \in High, v \in Low}

RECURSIVE Unescaped(_)
Unescaped(s) ==
  IF s = <<>> THEN {<<>>}
  ELSE IF Head(s) # Backslash THEN {<<Head(s)>> \o rest : rest \in Unescaped(Tail(s))}
  ELSE UNION { {e.bytes \o rest : rest \in Unescaped(SubSeq(s, e.length + 1, Len(s)))} : e \in Escape(s) }

\* A string ends at its first NUL, whatever lies behind it.
CString(s) ==
  LET nuls == {i \in DOMAIN s : s[i] = 0}
  IN IF nuls = {} THEN s ELSE SubSeq(s, 1, Min(nuls) - 1)

\* Is the character there behind an odd number of backslashes?
IsEscaped(s, i) ==
  \E k \in 0..(i - 1) : /\ (i - k) % 2 = 0
                        /\ \A j \in (k + 1)..(i - 1) : s[j] = Backslash
                        /\ k > 0 => s[k] # Backslash

Strings(t) ==
  LET inner == SubSeq(t, 2, Len(t) - 1)
      quotes == {i \in DOMAIN inner : inner[i] = Quote}
  IN IF Len(t) >= 2 /\ Head(t) = Quote /\ Last(t) = Quote
        /\ (\A i \in quotes : IsEscaped(inner, i)) /\ ~IsEscaped(inner, Len(inner) + 1)
     THEN {CString(s) : s \in Unescaped(inner)} ELSE {}

Trim(t) ==
  LET solid == {i \in DOMAIN t : t[i] > 32}
  IN IF solid = {} THEN <<>> ELSE SubSeq(t, Min(solid), Max(solid))

Where(t, c) == {i \in DOMAIN t : t[i] = Code[c]}

\* The parts of a text between some of its characters.
Parts(t, cuts) ==
  LET edges == <<0>> \o SetToSortSeq(cuts, <) \o <<Len(t) + 1>>
  IN [k \in 1..(Len(edges) - 1) |-> Trim(SubSeq(t, edges[k] + 1, edges[k + 1] - 1))]

\* One of each of several sets, none of which may be empty.
OneOfEach(sets) ==
  IF \E k \in DOMAIN sets : sets[k] = {} THEN {}
  ELSE {[k \in DOMAIN sets |-> CHOOSE v \in sets[k] : TRUE]}

\* The values a text derives, at most one, nested no deeper than depth.
RECURSIVE Values(_, _), Lists(_, _, _)
Values(t, depth) ==
  LET Enclosed(open, close) == Len(t) >= 2 /\ Head(t) = Code[open] /\ Last(t) = Code[close]
      inner == Trim(SubSeq(t, 2, Len(t) - 1))
  IN {Item(Literals[l], NULL, <<>>) : l \in {t} \cap DOMAIN Literals}
     \cup {Item("string", s, <<>>) : s \in Strings(t)}
     \cup {Item("number", Double(n), <<>>) : n \in {s \in {t} : /\ s # <<>> /\ Head(s) # Code["+"]
                                                       /\ Head(s) # Code["."]
                                                       /\ Len(s) <= NumberMax /\ IsNumeral(s)}}
     \cup IF depth = 0 THEN {}
          ELSE {Item("array", NULL, k) : k \in IF Enclosed("[", "]") THEN Lists(inner, FALSE, depth - 1) ELSE {}}
               \cup {Item("object", NULL, k) : k \in IF Enclosed("{", "}") THEN Lists(inner, TRUE, depth - 1) ELSE {}}

\* A list of values, or of members: each a name, a colon and a value.
Lists(t, named, depth) ==
  LET Members(part) ==
        IF ~named THEN Values(part, depth)
        ELSE UNION { {[v EXCEPT !.name = n] : n \in Strings(Trim(SubSeq(part, 1, i - 1))),
                                              v \in Values(Trim(SubSeq(part, i + 1, Len(part))), depth)} :
                     i \in Where(part, ":") }
      Found(parts) == [k \in DOMAIN parts |-> Members(parts[k])]
  IN IF t = <<>> THEN {<<>>} ELSE UNION {OneOfEach(Found(Parts(t, cuts))) : cuts \in SUBSET Where(t, ",")}

\* The values of a whole text, blank before and behind, and marked as UTF-8 if
\* there is anything behind the mark.
Mark == <<239, 187, 191>>
TextValues(t) ==
  Values(Trim(IF Len(t) > 3 /\ SubSeq(t, 1, 3) = Mark THEN SubSeq(t, 4, Len(t)) ELSE t), NestingLimit)
=============================================================================
