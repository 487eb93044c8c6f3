----------------------------- MODULE CeleryHeap -----------------------------
(***************************************************************************)
(* The heap a CeleryScript is sliced into (c_src/celery_heap.c): a growing *)
(* array of entries, each with a kind and a list of key-value pairs that   *)
(* heap_put searches from the front.  Keys and kinds are the numbers of    *)
(* celery_heap.h and corpus.h; the two enumerations number from 0, so a    *)
(* heap key and an argument name can be the same number.                   *)
(***************************************************************************)
EXTENDS Integers, SequencesExt

\* celery_heap_constant_t
HEAP_BODY == 0
HEAP_NEXT == 1
HEAP_PARENT == 2

\* The kind of entry 0, by its number in corpus.h.
NOTHING == 1

EntryType == {"CSH_STRING", "CSH_BOOL", "CSH_NUMBER", "CSH_ADDRESS"}

EmptyEntry(kind) == [kind |-> kind, kvs |-> <<>>]

\* The first pair with a key, 0 if there is none.
IndexOf(kvs, key) == SelectInSeq(kvs, LAMBDA kv : kv.key = key)

\* Mutants: a key is not searched for; the last pair is never found.
UpdatedAppending(kvs, kv) == Append(kvs, kv)

UpdatedLastMissed(kvs, kv) ==
  LET i == IndexOf(kvs, kv.key)
  IN IF i \notin {0, Len(kvs)} THEN [kvs EXCEPT ![i] = kv] ELSE Append(kvs, kv)

\* The pair with that key is replaced, or the pair is added at the end.
Updated(kvs, kv) ==
  LET i == IndexOf(kvs, kv.key)
  IN IF i # 0 THEN [kvs EXCEPT ![i] = kv] ELSE Append(kvs, kv)

HeapPut(heap, adr, type, key, value) ==
  [heap EXCEPT !.entries[adr].kvs = Updated(@, [key |-> key, type |-> type, value |-> value])]

\* Mutant: the size of the heap is left as it was.
HeapAlotSizeKept(heap, kind) ==
  [here      |-> heap.here + 1,
   heap_size |-> heap.heap_size,
   entries   |-> [a \in 0..heap.heap_size |->
                    IF a = heap.heap_size THEN EmptyEntry(kind) ELSE heap.entries[a]]]

\* heap_alot: one more entry, of that kind; "here" is its address.
HeapAlot(heap, kind) ==
  [here      |-> heap.here + 1,
   heap_size |-> heap.heap_size + 1,
   entries   |-> [a \in 0..heap.heap_size |->
                    IF a = heap.heap_size THEN EmptyEntry(kind) ELSE heap.entries[a]]]

\* heap_init: entry 0 is a NOTHING whose three links are 0.
HeapInit ==
  LET bare   == [here |-> 0, heap_size |-> 1, entries |-> [a \in {0} |-> EmptyEntry(NOTHING)]]
      parent == HeapPut(bare, 0, "CSH_ADDRESS", HEAP_PARENT, 0)
      body   == HeapPut(parent, 0, "CSH_ADDRESS", HEAP_BODY, 0)
  IN HeapPut(body, 0, "CSH_ADDRESS", HEAP_NEXT, 0)

\* The pairs of an entry, and the values they give a key: none if it is absent.
Pairs(heap, adr) == ToSet(heap.entries[adr].kvs)
ValuesOf(heap, adr, key) == { kv.value : kv \in { k \in Pairs(heap, adr) : k.key = key } }

=============================================================================
