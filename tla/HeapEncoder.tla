----------------------------- MODULE HeapEncoder -----------------------------
(***************************************************************************)
(* celery_heap_encoder.c: the heap as a cJSON tree, and the file it prints *)
(* the tree to.                                                            *)
(***************************************************************************)
EXTENDS CeleryHeap, Corpus, CJsonPrinter

\* cJSON_CreateString copies a string; without one there is no item, and
\* cJSON_AddItemToObject then adds nothing.
StringItem(bytes) == IF bytes = NULL THEN NULL ELSE Item("string", bytes, <<>>)
AddressItem(n) == Item("number", Double(Figures(n)), <<>>)
Adding(object, name, item) ==
  IF item = NULL THEN object
  ELSE [object EXCEPT !.kids = Append(@, [item EXCEPT !.name = Bytes(name)])]
NewObject == Item("object", NULL, <<>>)

LinkNames == HEAP_BODY :> "HEAP_BODY" @@ HEAP_NEXT :> "HEAP_NEXT" @@ HEAP_PARENT :> "HEAP_PARENT"
KeyName(kv) ==
  IF kv.type = "CSH_ADDRESS" /\ kv.key \in DOMAIN LinkNames THEN Bytes(LinkNames[kv.key])
  ELSE string_from_arg_name(kv.key)

TypeNames == "CSH_STRING" :> "STRING" @@ "CSH_BOOL" :> "BOOL" @@ "CSH_NUMBER" :> "NUMBER"
             @@ "CSH_ADDRESS" :> "ADDRESS"

\* A string is read through its pointer, from the strings there are.
ValueItem(kv, strings) ==
  CASE kv.type = "CSH_STRING"  -> StringItem(strings[kv.value])
    [] kv.type = "CSH_BOOL"    -> Item(IF kv.value = <<1>> THEN "true" ELSE "false", NULL, <<>>)
    [] kv.type = "CSH_NUMBER"  -> Item("number", kv.value, <<>>)
    [] kv.type = "CSH_ADDRESS" -> AddressItem(kv.value)

EncodeKv(kv, strings) ==
  Adding(Adding(Adding(NewObject, "key", StringItem(KeyName(kv))),
                "value", ValueItem(kv, strings)),
         "type", StringItem(Bytes(TypeNames[kv.type])))

EncodeEntry(entry, strings) ==
  LET kvs == [j \in DOMAIN entry.kvs |-> EncodeKv(entry.kvs[j], strings)]
  IN Adding(Adding(NewObject, "kind", StringItem(string_from_node_name(entry.kind))),
            "kvs", Item("array", NULL, kvs))

HeapJson(heap, strings) ==
  LET entries == [i \in 1..heap.heap_size |-> EncodeEntry(heap.entries[i - 1], strings)]
  IN Adding(NewObject, "entries", Item("array", NULL, entries))

\* The text is the format of an fprintf without arguments: a percent sign in it
\* would stand for one.
Plain(text) == Code["%"] \notin ToSet(text)
=============================================================================
