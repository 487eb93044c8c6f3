----------------------------- MODULE CeleryLoad -----------------------------
(***************************************************************************)
(* A CeleryScript from its text to out.json: buffer_to_celery_script reads *)
(* each text, slice() lays the script out in the heap, and                 *)
(* celery_heap_encode_json writes the heap.                                *)
(***************************************************************************)
EXTENDS CeleryScript, HeapEncoder, CelerySlicer

CONSTANTS
  Buffers,   \* the texts that may be loaded first
  Later,     \* the texts that may be loaded after another
  Enough     \* more allocations than any call here makes

ASSUME EnoughAssumption == Enough \in Nat

VARIABLES
  trees,      \* the trees of the scripts read, but for their roots still allocated
  ready,      \* the script read and not yet sliced, or NULL
  freed,      \* the places of the strings freed
  file,       \* the text of out.json, or NULL
  undefined   \* a name was looked up that is NULL, a freed string read, or a text
              \* with a percent sign taken for a format: anything can happen

slicer == <<heap, stack, returned, slices, origin>>
loader == <<trees, ready, freed, file>>

\* Bound: the heap is written once, after the last script.
Loading == ~undefined /\ stack = <<>> /\ file = NULL

LoadInit == /\ Init
            /\ trees = <<>>
            /\ ready = NULL
            /\ freed = {}
            /\ file = NULL
            /\ undefined = FALSE

\* buffer_to_celery_script
Read ==
  /\ Loading /\ ready = NULL /\ Len(trees) < MaxSlices
  /\ \E buffer \in IF trees = <<>> THEN Buffers ELSE Later :
       /\ trees' = Append(trees, ParseWithOpts(buffer, FALSE, Enough).item)
       /\ IF Readable(trees', <<Len(trees')>>)
          THEN /\ ready' = json_to_celery_script(trees', <<Len(trees')>>)
               /\ freed' = freed \cup StringsFreed(ready')
               /\ UNCHANGED undefined
          ELSE /\ undefined' = TRUE
               /\ UNCHANGED <<ready, freed>>
  /\ UNCHANGED <<slicer, file>>

\* slice() of the script read, and the steps of the slicer.
SliceRead == /\ Loading /\ ready # NULL
             /\ Slice /\ Last(slices') = ready
             /\ ready' = NULL
             /\ UNCHANGED <<trees, freed, file, undefined>>

SlicerStep == /\ \/ Allocate
                 \/ BodyFirst \/ BodyOther \/ BodyReturned \/ BodyDone
                 \/ ArgNode \/ ArgReturned \/ ArgLeaf \/ ArgSkipped \/ Return
              /\ UNCHANGED <<loader, undefined>>

\* celery_heap_encode_json
StringsOf(kvs) == {kvs[j].value : j \in {j \in DOMAIN kvs : kvs[j].type = "CSH_STRING"}}
HeapStrings == UNION {StringsOf(heap.entries[a].kvs) : a \in Address}
Encode ==
  /\ Loading /\ ready = NULL
  /\ \E json \in {HeapJson(heap, [p \in HeapStrings |-> ItemAt(trees, p).value])} :
     \E text \in {PrintText(json, TRUE, TRUE, Enough).text} :
       IF HeapStrings \cap freed = {} /\ Plain(text)
       THEN file' = text /\ UNCHANGED undefined
       ELSE undefined' = TRUE /\ UNCHANGED file
  /\ UNCHANGED <<slicer, trees, ready, freed>>

LoadNext == Read \/ SliceRead \/ SlicerStep \/ Encode

LoadSpec == LoadInit /\ [][LoadNext]_<<slicer, loader, undefined>>

-----------------------------------------------------------------------------
(* Properties *)

\* What a text says of a node: its first member of a name, whatever the case.
Say(v, member) ==
  LET named == {i \in DOMAIN v.kids : v.kids[i].name # NULL /\ ToLower(v.kids[i].name) = Bytes(member)}
  IN {v.kids[i] : i \in {i \in named : \A j \in named : i <= j}}

Kids(v, member) == UNION {ToSet(w.kids) : w \in Say(v, member)}
RECURSIVE NodesOf(_)
NodesOf(v) ==
  {v} \cup UNION {NodesOf(w) : w \in Kids(v, "body") \cup {w \in Kids(v, "args") : w.type = "object"}}

\* A text that can be loaded: every node says its kind, and names its arguments.
Loadable(v) ==
  v # NULL /\ \A w \in NodesOf(v) :
    /\ \E k \in Say(w, "kind") : k.type = "string"
    /\ \A arg \in Kids(w, "args") : arg.name # NULL

\* What out.json should say of an argument: a value of its type, and the number
\* of the entry for a node.
TypeOf(v) == CASE v.type \in {"true", "false"} -> "BOOL" [] v.type = "number" -> "NUMBER"
               [] v.type = "string" -> "STRING" [] v.type = "object" -> "ADDRESS"
Said(v, address) ==
  CASE v.type = "object" -> Item("number", Double(Figures(address)), <<>>)
    [] v.type = "number" /\ v.value = Infinity(v.value[1]) -> Item("null", NULL, <<>>)
    [] OTHER -> [v EXCEPT !.name = NULL]

\* A name that is known stays; all others become none, which they share.  A node
\* argument called else, then or locals is taken for a link.
Known(table, name) == \E i \in DOMAIN table : Bytes(table[i]) = name
KeyOf(v) == IF Known(arg_name_lookup_table, v.name) THEN v.name ELSE NULL
LinkOf == Bytes("else") :> Bytes("HEAP_BODY") @@ Bytes("then") :> Bytes("HEAP_NEXT")
          @@ Bytes("locals") :> Bytes("HEAP_PARENT")
Label(v) == IF v.type = "object" /\ v.name \in DOMAIN LinkOf THEN LinkOf[v.name] ELSE KeyOf(v)

\* A member of an object that was written, NULL if it has none.
Field(object, name) ==
  LET named == {v \in ToSet(object.kids) : v.name = Bytes(name)}
  IN IF named = {} THEN NULL ELSE [(CHOOSE v \in named : TRUE) EXCEPT !.name = NULL]
ValueOf(v) == IF v = NULL THEN NULL ELSE v.value

\* The entries made for the nodes at a place that say what an argument does.
Children(place, v) == {a \in Address \ {0} : ItemAt(trees, origin[a].node) = v
                                             /\ Front(Front(origin[a].node)) = place}
SaysArg(kv, v, addresses) ==
  /\ ValueOf(Field(kv, "key")) = Label(v)
  /\ ValueOf(Field(kv, "type")) = Bytes(TypeOf(v))
  /\ \E address \in addresses : Field(kv, "value") = Said(v, address)

SaysArgs(kvs, place, args, links) ==
  LET put == {i \in DOMAIN args : args[i].type \notin {"null", "array"}}
      last == {i \in put : \A j \in put : KeyOf(args[j]) = KeyOf(args[i]) => j <= i}
  IN /\ \A i \in last : \E kv \in ToSet(kvs) :
          SaysArg(kv, args[i], IF args[i].type = "object" THEN Children(place, args[i]) ELSE {0})
     /\ Len(kvs) = Cardinality(last) + Cardinality(links \ {KeyOf(args[i]) : i \in put})

LinksOf(v) == {Bytes("locals")} \cup IF Kids(v, "body") = {} THEN {} ELSE {Bytes("else"), Bytes("then")}
ArgsOf(v) == IF Say(v, "args") = {} THEN <<>> ELSE (CHOOSE args \in Say(v, "args") : TRUE).kids
SaysKind(written, kind) == written = IF Known(node_name_lookup_table, kind) THEN kind ELSE NULL

EntrySays(entry, place, v) ==
  /\ \A kind \in Say(v, "kind") : SaysKind(ValueOf(Field(entry, "kind")), kind.value)
  /\ SaysArgs(Field(entry, "kvs").kids, place, ArgsOf(v), LinksOf(v))

HasPercent(v) ==
  \E arg \in UNION {Kids(w, "args") : w \in NodesOf(v)} : arg.type = "string" /\ Code["%"] \in ToSet(arg.value)

\* What the file should say of the heap.
FileSays(written) ==
  /\ written # NULL
  /\ \A entries \in {Field(written, "entries").kids} :
       /\ Len(entries) = heap.here + 1
       /\ \A a \in Address \ {0} :
            EntrySays(entries[a + 1], origin[a].node, ItemAt(trees, origin[a].node))

\* A text is loaded if and only if it says what a script must; and out.json is a
\* text that cJSON reads back, with an entry for every node that says its kind and
\* the last argument of each known name as the text did, and the links beside
\* them; what happens is only undefined after a text that must not be loaded, or
\* with a percent sign in some string.
LoadsAsWritten ==
  /\ file # NULL => FileSays(ParseWithOpts(file, TRUE, Enough).item)
  /\ undefined => \E k \in DOMAIN trees : ~Loadable(trees[k]) \/ HasPercent(trees[k])
  /\ ~undefined => \A k \in DOMAIN trees : Loadable(trees[k])
=============================================================================
