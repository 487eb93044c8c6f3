----------------------------- MODULE CJsonText -----------------------------
(***************************************************************************)
(* A client of cJSON that holds a text and perhaps an item, and parses,    *)
(* prints, minifies and compares in any order, in a memory that may run    *)
(* out in any call.                                                        *)
(***************************************************************************)
EXTENDS CJsonPrinter, CJsonCompare

CONSTANTS
  Texts,      \* the texts the client may start with
  Made,       \* items it may have made with the create functions instead
  Tight,      \* the texts memory may run out over, as it may over the items made
  Enough,     \* bound: more allocations than a call here makes
  Sizes,      \* the sizes of buffers the client gives to print into
  Compared    \* the items it compares others with

ASSUME ClientAssumption == Enough \in Nat /\ Sizes \subseteq 0..IntMax

VARIABLES
  text,   \* the text the client holds
  item,   \* the item it holds, or NULL
  call    \* history: what the last call was given and what it did

vars == <<text, item, call>>

Lefts(tight) == IF tight THEN 0..Enough ELSE {Enough}

None == [op |-> "none"]
Idle == call = None

Init == /\ \/ text \in Texts /\ item = NULL
           \/ text = <<>> /\ item \in Made
        /\ call = None

Parse ==
  /\ Idle /\ item = NULL
  /\ \E require \in BOOLEAN, left \in Lefts(text \in Tight) :
       \E result \in {ParseWithOpts(text, require, left)} :
         /\ item' = result.item
         /\ call' = [op |-> "parse", require |-> require, left |-> left, end |-> result.end,
                     live |-> result.live, over |-> result.over]
  /\ UNCHANGED text

\* The text printed is the one the client goes on with, if there is one.
Return(op, format, realloc, left, size, result) ==
  /\ text' = IF result.text = NULL THEN text ELSE result.text
  /\ call' = [op |-> op, format |-> format, realloc |-> realloc, left |-> left, size |-> size,
              ok |-> result.text # NULL, live |-> result.live, over |-> result.over]
  /\ UNCHANGED item

\* cJSON_InitHooks: realloc is used only where malloc and free are the library's.
InitHooks == {mallocFn = "malloc" /\ freeFn = "free" : mallocFn \in {"malloc", "own"}, freeFn \in {"free", "own"}}

PrintIt ==
  /\ Idle /\ item # NULL
  /\ \E format \in BOOLEAN, realloc \in InitHooks, left \in Lefts(item \in Made) :
       \/ Return("print", format, realloc, left, DefaultSize,
                 PrintText(item, format, realloc, left))
       \/ \E size \in Sizes : Return("buffered", format, realloc, left, size,
                                     PrintBuffered(item, size, format, realloc, left))

PrintInto ==
  /\ Idle /\ item # NULL
  /\ \E format \in BOOLEAN, size \in Sizes :
       Return("preallocated", format, TRUE, 0, size, PrintPreallocated(item, size, format))

MinifyIt ==
  /\ Idle
  /\ \E result \in {Minify(text)} :
       /\ text' = result.text
       /\ call' = [op |-> "minify", from |-> text, over |-> result.over]
  /\ UNCHANGED item

\* strcmp must not be given the name of a member that has none.
RECURSIVE AllNamed(_)
AllNamed(v) == \A i \in DOMAIN v.kids :
                 (v.type = "object" => v.kids[i].name # NULL) /\ AllNamed(v.kids[i])

CompareIt ==
  /\ Idle /\ item # NULL
  /\ \E other \in Compared, caseSensitive \in BOOLEAN :
       /\ caseSensitive => AllNamed(item) /\ AllNamed(other)
       /\ call' = [op |-> "compare", other |-> other, caseSensitive |-> caseSensitive,
                   equal |-> Compare(item, other, caseSensitive)]
  /\ UNCHANGED <<text, item>>

Drop == /\ Idle /\ item # NULL
        /\ item' = NULL
        /\ UNCHANGED <<text, call>>

GoOn == ~Idle /\ call' = None /\ UNCHANGED <<text, item>>

Next == Parse \/ PrintIt \/ PrintInto \/ MinifyIt \/ CompareIt \/ Drop \/ GoOn

Spec == Init /\ [][Next]_vars

-----------------------------------------------------------------------------
(* Properties *)

\* cJSON_ParseWithOpts takes exactly the texts of the grammar for a value, up to
\* the last byte if it must be followed by the NUL, and else any text that begins
\* with one; it returns that value and where it stopped.
Accepted ==
  call.op = "parse" /\ call.left = Enough =>
    /\ item # NULL <=> \E t \in IF call.require THEN {text} ELSE Prefixes(text) : TextValues(t) # {}
    /\ item # NULL => TextValues(SubSeq(text, 1, call.end)) = {item}
    /\ item # NULL /\ call.require => call.end = Len(text)
    /\ call.end \in 0..Len(text)

\* A tree takes one block for each item, name and string, a printed text takes
\* one.  Whatever fails, nothing else stays allocated, except the buffer of
\* print() when only its last realloc fails; parsing fails for want of memory
\* only without enough for the tree itself; and no byte outside a block is
\* touched, unless ensure() has to copy a buffer of no bytes.
NothingLeft ==
  /\ call.op = "parse" =>
       LET tree == ParseWithOpts(text, call.require, Enough).item
       IN /\ call.live = IF item = NULL THEN 0 ELSE BlocksOf(<<item>>)
          /\ item = IF tree # NULL /\ call.left >= BlocksOf(<<tree>>) THEN tree ELSE NULL
          /\ ~call.over
  /\ call.op \in {"print", "buffered", "preallocated"} =>
       LET lastFailed == /\ call.op = "print" /\ call.realloc
                         /\ PrintText(item, call.format, TRUE, call.left + 1).text # NULL
       IN /\ call.live = IF call.op # "preallocated" /\ (call.ok \/ lastFailed) THEN 1 ELSE 0
          /\ call.over => call.op = "buffered" /\ call.size = 0 /\ ~call.realloc

\* An item as a parser should find it again: a number that is no finite double
\* becomes null, a raw text what it says, and a missing name or string an empty
\* one.  An item without a type, or a raw text that is none, is nothing.
RECURSIVE AsRead(_, _)
AsRead(v, name) ==
  LET NameIn(kid) == IF v.type = "array" THEN NULL ELSE IF kid.name = NULL THEN <<>> ELSE kid.name
      With(kids) == {[v EXCEPT !.kids = k] : k \in OneOfEach(kids)}
      plain == CASE v.type = "invalid" -> {}
                 [] v.type = "raw"    -> IF v.value = NULL THEN {} ELSE TextValues(v.value)
                 [] v.type = "string" -> {Item("string", IF v.value = NULL THEN <<>> ELSE v.value, <<>>)}
                 [] v.type = "number" -> {IF v.value = Infinity(v.value[1])
                                          THEN Item("null", NULL, <<>>) ELSE v}
                 [] OTHER             -> With([i \in DOMAIN v.kids |-> AsRead(v.kids[i], NameIn(v.kids[i]))])
  IN {[w EXCEPT !.name = name] : w \in plain}

\* The text of the item in a buffer that is never too small.
Roomy(format) == PrintPreallocated(item, 4 * IntMax, format).text

\* Printing gives a text of the same value, whichever function prints and however
\* its buffer grows; it fails only for an item without a text, without memory, or
\* where the text and its NUL leave no byte free of the longest buffer there can
\* be.  Minifying a text never changes its value, nor what is printed by more
\* than its layout.
PrintsAs(full) ==
  IF full = NULL THEN ~call.ok /\ AsRead(item, NULL) = {}
  ELSE IF call.ok
  THEN /\ text = full
       /\ TextValues(text) = AsRead(item, NULL)
       /\ Minify(text) = Minify(Roomy(FALSE))
  ELSE \/ Len(full) + 2 > IF call.op = "preallocated" THEN call.size ELSE IntMax
       \/ call.op # "preallocated" /\ call.left < Enough
MinifiesAs(values) == values # {} => TextValues(text) = values /\ ~call.over

RoundTrip ==
  /\ call.op \in {"print", "buffered", "preallocated"} => PrintsAs(Roomy(call.format))
  /\ call.op = "minify" => MinifiesAs(TextValues(call.from))

\* A value without the order of members: each name has the value it has first.
RECURSIVE Meaning(_, _)
Meaning(v, caseSensitive) ==
  LET Key(kid) == IF caseSensitive \/ kid.name = NULL THEN kid.name ELSE ToLower(kid.name)
      keys == [i \in DOMAIN v.kids |-> Key(v.kids[i])]
      first(k) == v.kids[SelectInSeq(keys, LAMBDA key : key = k)]
  IN CASE v.type = "object" -> <<"object", [k \in ToSet(keys) |-> Meaning(first(k), caseSensitive)]>>
       [] v.type = "array"  -> <<"array", [i \in DOMAIN v.kids |-> Meaning(v.kids[i], caseSensitive)]>>
       [] v.type = "number" -> <<"number", IF v.value = Zero(-1) THEN Zero(1) ELSE v.value>>
       [] OTHER             -> <<v.type, v.value>>

\* What equals its copies: where every member has a name, and the value of the
\* first one of that name, and every string is there.
RECURSIVE Comparable(_, _)
Comparable(v, caseSensitive) ==
  /\ v.type # "invalid"
  /\ v.type \in {"string", "raw"} => v.value # NULL
  /\ \A i \in DOMAIN v.kids : Comparable(v.kids[i], caseSensitive)
  /\ v.type = "object" =>
       \A i, j \in DOMAIN v.kids :
         /\ v.kids[i].name # NULL
         /\ SameName(v.kids[i].name, v.kids[j].name, caseSensitive) =>
              Meaning(v.kids[i], caseSensitive) = Meaning(v.kids[j], caseSensitive)

\* cJSON_Compare compares values whatever the order of members, as long as no
\* name stands for two values in one object: an item where one does it
\* finds none equal, not even to its copy.
ComparesValues ==
  call.op = "compare" =>
    call.equal <=> /\ Comparable(item, call.caseSensitive)
                   /\ Comparable(call.other, call.caseSensitive)
                   /\ Meaning(item, call.caseSensitive) = Meaning(call.other, call.caseSensitive)
=============================================================================
