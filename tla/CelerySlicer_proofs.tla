------------------------- MODULE CelerySlicer_proofs -------------------------
(***************************************************************************)
(* Proofs, for every set of scripts and every number of slices, that the   *)
(* heap celery_slicer.c builds is well formed at every step: addresses     *)
(* are those of entries, keys are unique, and the address of a first child *)
(* stored ahead of its allocation comes true.  The second part proves that *)
(* the links of a sliced script lead where the script says, the third that *)
(* scripts lie in the heap in depth-first order, the fourth what a reader  *)
(* reaches from a root.                                                    *)
(***************************************************************************)
EXTENDS CelerySlicer, FiniteSetTheorems, SequenceTheorems, WellFoundedInduction, TLAPS

\* A heap whose entries lie at 0..here.
IsHeap(h) ==
  /\ h \in [here : Nat, heap_size : Nat, entries : [0..h.here -> Entry]]
  /\ h.heap_size = h.here + 1

UniqueIn(kvs) == \A i, j \in DOMAIN kvs : kvs[i].key = kvs[j].key => i = j

-----------------------------------------------------------------------------
(* The operators of the heap *)

LEMMA MinOfNats ==
  ASSUME NEW S, S \subseteq Nat, S # {}
  PROVE  /\ Min(S) \in S
         /\ \A x \in S : Min(S) <= x
<1>1. \E x \in S : \A y \in S : ~(<<y, x>> \in OpToRel(<, Nat))
  BY WFMin, NatLessThanWellFounded
<1>2. PICK x \in S : \A y \in S : ~(<<y, x>> \in OpToRel(<, Nat))
  BY <1>1
<1>3. \A y \in S : x <= y
  <2> TAKE y \in S
  <2>1. ~(y < x)
    BY <1>2 DEF OpToRel
  <2>2. QED
    BY <2>1
<1>4. QED
  BY <1>3 DEF Min

\* The linear search of heap_put finds a pair with the key if there is one.
LEMMA SearchFinds ==
  ASSUME NEW kvs \in Seq(KeyValue), NEW key
  PROVE  /\ IndexOf(kvs, key) \in 0..Len(kvs)
         /\ IndexOf(kvs, key) # 0 => kvs[IndexOf(kvs, key)].key = key
         /\ IndexOf(kvs, key) = 0 => \A i \in 1..Len(kvs) : kvs[i].key # key
<1> DEFINE Found == { i \in 1..Len(kvs) : kvs[i].key = key }
<1>1. IndexOf(kvs, key) = IF Found # {} THEN Min(Found) ELSE 0
  BY DEF IndexOf, SelectInSeq
<1>2. CASE Found = {}
  BY <1>1, <1>2
<1>3. CASE Found # {}
  <2>0. Found \subseteq Nat
    OBVIOUS
  <2>1. Min(Found) \in Found
    BY <1>3, <2>0, MinOfNats
  <2>2. QED
    BY <1>1, <1>3, <2>1
<1>4. QED
  BY <1>2, <1>3

\* What heap_put does to the list of pairs of an entry.
LEMMA UpdatedPairs ==
  ASSUME NEW kvs \in Seq(KeyValue), NEW kv \in KeyValue
  PROVE  /\ Updated(kvs, kv) \in Seq(KeyValue)
         /\ UniqueIn(kvs) => UniqueIn(Updated(kvs, kv))
         /\ kv \in ToSet(Updated(kvs, kv))
         /\ UniqueIn(kvs) => \A p \in ToSet(Updated(kvs, kv)) :
                               p = kv \/ (p \in ToSet(kvs) /\ p.key # kv.key)
         /\ \A p \in ToSet(kvs) : \E q \in ToSet(Updated(kvs, kv)) : q.key = p.key
<1> DEFINE n   == IndexOf(kvs, kv.key)
           new == Updated(kvs, kv)
           key == kv.key
<1> DEFINE m == Len(kvs)
<1>1. /\ n \in 0..m
      /\ n # 0 => kvs[n].key = key
      /\ n = 0 => \A i \in 1..m : kvs[i].key # key
  BY SearchFinds
<1>0. new = IF n # 0 THEN [kvs EXCEPT ![n] = kv] ELSE Append(kvs, kv)
  BY DEF Updated
<1> HIDE DEF n, new
<1>2. m \in Nat /\ DOMAIN kvs = 1..m
  OBVIOUS
<1>3. CASE n # 0
  <2>1. /\ DOMAIN new = 1..m
        /\ \A i \in 1..m : new[i] = IF i = n THEN kv ELSE kvs[i]
        /\ new \in Seq(KeyValue)
    BY <1>0, <1>3, <1>1
  <2> HIDE DEF m
  <2>2. UniqueIn(kvs) => UniqueIn(new)
    BY <1>3, <1>1, <1>2, <2>1 DEF UniqueIn
  <2>3. new[n] = kv /\ n \in 1..m
    BY <1>3, <1>1, <1>2, <2>1
  <2>4. \A i \in 1..m : new[i].key = kvs[i].key
    BY <1>3, <1>1, <2>1
  <2>5. UniqueIn(kvs) => \A i \in 1..m : i # n => kvs[i].key # key
    BY <1>1, <1>2, <2>3 DEF UniqueIn
  <2>6. QED
    BY <1>2, <2>1, <2>2, <2>3, <2>4, <2>5 DEF ToSet, new
<1>4. CASE n = 0
  <2>1. /\ DOMAIN new = 1..(m + 1)
        /\ \A i \in 1..m : new[i] = kvs[i]
        /\ new[m + 1] = kv
        /\ new \in Seq(KeyValue)
    BY <1>0, <1>4
  <2> HIDE DEF m
  <2>2. \A i \in 1..(m + 1) : i \in 1..m \/ i = m + 1
    BY <1>2
  <2>3. \A i \in 1..m : i \in 1..(m + 1) /\ i # m + 1
    BY <1>2
  <2>4. m + 1 \in 1..(m + 1)
    BY <1>2
  <2>5. UniqueIn(kvs) => UniqueIn(new)
    BY <1>4, <1>1, <1>2, <2>1, <2>2 DEF UniqueIn
  <2>6. QED
    BY <1>4, <1>1, <1>2, <2>1, <2>2, <2>3, <2>4, <2>5 DEF ToSet, new
<1>5. QED
  BY <1>3, <1>4

\* How heap_put changes a heap: the other entries stay, the pair is there, any
\* other pair was there before under another key, and no key is lost.
PutDoes(h, put, adr, kv) ==
  /\ IsHeap(put)
  /\ put.here = h.here
  /\ \A a \in 0..h.here : a # adr => put.entries[a] = h.entries[a]
  /\ UniqueIn(h.entries[adr].kvs) => UniqueIn(put.entries[adr].kvs)
  /\ kv \in Pairs(put, adr)
  /\ UniqueIn(h.entries[adr].kvs) =>
       \A p \in Pairs(put, adr) : p = kv \/ (p \in Pairs(h, adr) /\ p.key # kv.key)
  /\ \A p \in Pairs(h, adr) : \E q \in Pairs(put, adr) : q.key = p.key

LEMMA PutPairs ==
  ASSUME NEW h, IsHeap(h), NEW adr \in 0..h.here,
         NEW type \in EntryType, NEW key \in Nat, NEW value \in Value
  PROVE  PutDoes(h, HeapPut(h, adr, type, key, value), adr,
                 [key |-> key, type |-> type, value |-> value])
<1> DEFINE put == HeapPut(h, adr, type, key, value)
           kv  == [key |-> key, type |-> type, value |-> value]
<1> DEFINE kvs == h.entries[adr].kvs
           new == Updated(kvs, kv)
<1>1. /\ h.here \in Nat
      /\ h.entries \in [0..h.here -> Entry]
      /\ h = [here |-> h.here, heap_size |-> h.heap_size, entries |-> h.entries]
  BY DEF IsHeap
<1>2. /\ h.entries[adr] \in Entry
      /\ kvs \in Seq(KeyValue)
  BY <1>1 DEF Entry
<1>3. kv \in KeyValue /\ kv.key = key
  BY DEF KeyValue
<1>4. put = [h EXCEPT !.entries[adr].kvs = new]
  BY DEF HeapPut
<1> HIDE DEF new, put, kv
<1>5. /\ put.here = h.here
      /\ put.heap_size = h.heap_size
      /\ put.entries = [h.entries EXCEPT ![adr] = [h.entries[adr] EXCEPT !.kvs = new]]
      /\ put = [here |-> put.here, heap_size |-> put.heap_size, entries |-> put.entries]
  BY <1>1, <1>4
<1>6. /\ new \in Seq(KeyValue)
      /\ UniqueIn(kvs) => UniqueIn(new)
      /\ kv \in ToSet(new)
      /\ UniqueIn(kvs) => \A p \in ToSet(new) : p = kv \/ (p \in ToSet(kvs) /\ p.key # key)
      /\ \A p \in ToSet(kvs) : \E q \in ToSet(new) : q.key = p.key
  BY <1>2, <1>3, UpdatedPairs DEF new
<1>7. put.entries[adr] \in Entry /\ put.entries[adr].kvs = new
  BY <1>1, <1>2, <1>5, <1>6 DEF Entry
<1>8. /\ \A a \in 0..h.here : a # adr => put.entries[a] = h.entries[a]
      /\ put.entries \in [0..put.here -> Entry]
  BY <1>1, <1>5, <1>7
<1>9. IsHeap(put)
  BY <1>5, <1>8 DEF IsHeap
<1>10. PutDoes(h, put, adr, kv)
  BY <1>3, <1>5, <1>6, <1>7, <1>8, <1>9 DEF Pairs, PutDoes
<1>11. QED
  BY <1>10 DEF put, kv

\* heap_alot adds one entry without pairs and leaves the others alone.
LEMMA AlotAppends ==
  ASSUME NEW h, IsHeap(h), NEW kind \in Nat
  PROVE  LET alot == HeapAlot(h, kind)
         IN /\ IsHeap(alot)
            /\ alot.here = h.here + 1
            /\ \A a \in 0..h.here : alot.entries[a] = h.entries[a]
            /\ alot.entries[alot.here].kvs = <<>>
<1>1. EmptyEntry(kind) \in Entry /\ EmptyEntry(kind).kvs = <<>>
  BY DEF EmptyEntry, Entry
<1>2. QED
  BY <1>1 DEF HeapAlot, IsHeap

-----------------------------------------------------------------------------
(* The inductive invariant *)

\* What the position of a call says about its entry and its loops.
FrameOK(f) ==
  /\ f.at = "enter" => f.i = 0
  /\ f.at # "enter" => /\ f.addr \in 1..heap.here
                       /\ origin[f.addr] = [slice |-> Len(slices), node |-> f.node]
  /\ f.at = "body" => /\ f.i <= Len(script.body[f.node])
                      /\ f.i = 0 => f.addr = heap.here
  /\ f.at = "bodyReturn" => f.i < Len(script.body[f.node])
  /\ f.at = "args" => f.i <= Len(script.args[f.node])
  /\ f.at = "argReturn" => /\ f.i < Len(script.args[f.node])
                           /\ script.args[f.node][f.i + 1].type = "CS_CELERYSCRIPT"

\* Only the innermost call runs, the others wait for one they made.
Frames ==
  \A j \in 1..Len(stack) :
    /\ FrameOK(stack[j])
    /\ j < Len(stack) => stack[j].at \in {"bodyReturn", "argReturn"}

BodyOf(a) == ScriptAt(a).body[NodeAt(a)]

\* HEAP_BODY of an entry is the address after it, which is or will be that of
\* the first item of the body.
Predicted ==
  \A a \in 1..heap.here : ~Displaced(a, HEAP_BODY) =>
    \A kv \in Pairs(heap, a) : kv.key = HEAP_BODY =>
      /\ BodyOf(a) # <<>>
      /\ kv.value = a + 1
      /\ a < heap.here => origin[a + 1] = [slice |-> origin[a].slice, node |-> Head(BodyOf(a))]
      /\ a = heap.here => /\ AboutToAllocate(a)
                          /\ origin[a].slice = Len(slices)
                          /\ Top.node = Head(BodyOf(a))

\* Only a call that has not looked at the body yet leaves HEAP_BODY out.
Present ==
  \A a \in 1..heap.here : BodyOf(a) # <<>> =>
    \/ \E kv \in Pairs(heap, a) : kv.key = HEAP_BODY
    \/ Running("body") /\ Top.i = 0 /\ Top.addr = a

\* TypeOK leaves open that the scripts sliced come from Scripts.
History == slices \in Seq(Scripts)

IInv == TypeOK /\ History /\ Frames /\ KeysUnique /\ NoDangling /\ Predicted /\ Present

FrameSet(here) == [node : Node, parent : 0..here, addr : 0..here, at : At, i : Nat]

LEMMA StackOps ==
  ASSUME NEW F, NEW s \in Seq(F), NEW f \in F
  PROVE  /\ Append(s, f) \in Seq(F)
         /\ Len(Append(s, f)) = Len(s) + 1
         /\ Append(s, f)[Len(s) + 1] = f
         /\ \A j \in 1..Len(s) : Append(s, f)[j] = s[j]
         /\ s # <<>> =>
              /\ Len(s) \in Nat \ {0}
              /\ s[Len(s)] \in F
              /\ [s EXCEPT ![Len(s)] = f] \in Seq(F)
              /\ Len([s EXCEPT ![Len(s)] = f]) = Len(s)
              /\ [s EXCEPT ![Len(s)] = f][Len(s)] = f
              /\ \A j \in 1..(Len(s) - 1) : [s EXCEPT ![Len(s)] = f][j] = s[j]
              /\ Front(s) \in Seq(F)
              /\ Len(Front(s)) = Len(s) - 1
              /\ \A j \in 1..(Len(s) - 1) : Front(s)[j] = s[j]
<1>1. /\ Append(s, f) \in Seq(F)
      /\ Len(Append(s, f)) = Len(s) + 1
      /\ Append(s, f)[Len(s) + 1] = f
      /\ \A j \in 1..Len(s) : Append(s, f)[j] = s[j]
  OBVIOUS
<1>2. ASSUME s # <<>>
      PROVE  Len(s) \in Nat \ {0} /\ s[Len(s)] \in F
  BY <1>2
<1>3. ASSUME s # <<>>
      PROVE  /\ [s EXCEPT ![Len(s)] = f] \in Seq(F)
             /\ Len([s EXCEPT ![Len(s)] = f]) = Len(s)
             /\ [s EXCEPT ![Len(s)] = f][Len(s)] = f
             /\ \A j \in 1..(Len(s) - 1) : [s EXCEPT ![Len(s)] = f][j] = s[j]
  BY <1>2, <1>3
<1>4. ASSUME s # <<>>
      PROVE  /\ Front(s) \in Seq(F)
             /\ Len(Front(s)) = Len(s) - 1
             /\ \A j \in 1..(Len(s) - 1) : Front(s)[j] = s[j]
  <2>1. /\ 1 \in Int
        /\ Len(s) - 1 \in Int
        /\ \A i \in 1..(Len(s) - 1) : s[i] \in F
    BY <1>2, <1>4
  <2>2. /\ SubSeq(s, 1, Len(s) - 1) \in Seq(F)
        /\ Len(SubSeq(s, 1, Len(s) - 1)) = IF 1 <= Len(s) - 1 THEN Len(s) - 1 - 1 + 1 ELSE 0
        /\ \A i \in 1..(Len(s) - 1 - 1 + 1) : SubSeq(s, 1, Len(s) - 1)[i] = s[1 + i - 1]
    BY <2>1, SubSeqProperties
  <2>3. /\ (IF 1 <= Len(s) - 1 THEN Len(s) - 1 - 1 + 1 ELSE 0) = Len(s) - 1
        /\ Len(s) - 1 - 1 + 1 = Len(s) - 1
        /\ \A i \in 1..(Len(s) - 1) : 1 + i - 1 = i
    BY <1>2, <1>4
  <2>4. Front(s) = SubSeq(s, 1, Len(s) - 1)
    BY DEF Front
  <2>5. Front(s) \in Seq(F) /\ Len(Front(s)) = Len(s) - 1
    BY <2>2, <2>3, <2>4
  <2>6. \A j \in 1..(Len(s) - 1) : Front(s)[j] = s[j]
    BY <2>2, <2>3, <2>4
  <2>7. QED
    BY <2>5, <2>6
<1>5. QED
  BY <1>1, <1>2, <1>3, <1>4

LEMMA InitIInv == Init => IInv
<1> SUFFICES ASSUME Init PROVE IInv
  OBVIOUS
<1> DEFINE bare   == [here |-> 0, heap_size |-> 1, entries |-> [a \in {0} |-> EmptyEntry(NOTHING)]]
           parent == HeapPut(bare, 0, "CSH_ADDRESS", HEAP_PARENT, 0)
           body   == HeapPut(parent, 0, "CSH_ADDRESS", HEAP_BODY, 0)
           next   == HeapPut(body, 0, "CSH_ADDRESS", HEAP_NEXT, 0)
<1>1. heap = next /\ stack = <<>> /\ returned = 0 /\ slices = <<>> /\ origin = <<>>
  BY DEF Init, HeapInit
<1>2. /\ "CSH_ADDRESS" \in EntryType
      /\ 0 \in Value
      /\ HEAP_BODY \in Nat /\ HEAP_NEXT \in Nat /\ HEAP_PARENT \in Nat
  BY DEF EntryType, Value, HEAP_BODY, HEAP_NEXT, HEAP_PARENT
<1>3. /\ IsHeap(bare)
      /\ bare.here = 0
      /\ UniqueIn(bare.entries[0].kvs)
      /\ Pairs(bare, 0) = {}
  BY DEF IsHeap, Entry, EmptyEntry, NOTHING, UniqueIn, Pairs, ToSet
<1> HIDE DEF bare
<1>4. /\ IsHeap(parent)
      /\ parent.here = 0
      /\ UniqueIn(parent.entries[0].kvs)
      /\ \A kv \in Pairs(parent, 0) : kv.value = 0
  <2>1. 0 \in 0..bare.here
    BY <1>3
  <2>2. PutDoes(bare, parent, 0, [key |-> HEAP_PARENT, type |-> "CSH_ADDRESS", value |-> 0])
    BY <1>2, <1>3, <2>1, PutPairs
  <2>3. QED
    BY <1>3, <2>2 DEF PutDoes
<1> HIDE DEF parent
<1>5. /\ IsHeap(body)
      /\ body.here = 0
      /\ UniqueIn(body.entries[0].kvs)
      /\ \A kv \in Pairs(body, 0) : kv.value = 0
  <2>1. 0 \in 0..parent.here
    BY <1>4
  <2>2. PutDoes(parent, body, 0, [key |-> HEAP_BODY, type |-> "CSH_ADDRESS", value |-> 0])
    BY <1>2, <1>4, <2>1, PutPairs
  <2>3. QED
    BY <1>4, <2>2 DEF PutDoes
<1> HIDE DEF body
<1>6. /\ IsHeap(next)
      /\ next.here = 0
      /\ UniqueIn(next.entries[0].kvs)
      /\ \A kv \in Pairs(next, 0) : kv.value = 0
  <2>1. 0 \in 0..body.here
    BY <1>5
  <2>2. PutDoes(body, next, 0, [key |-> HEAP_NEXT, type |-> "CSH_ADDRESS", value |-> 0])
    BY <1>2, <1>5, <2>1, PutPairs
  <2>3. QED
    BY <1>5, <2>2 DEF PutDoes
<1> HIDE DEF next
<1>7. Address = {0}
  BY <1>1, <1>6 DEF Address
<1>8. TypeOK
  <2>1. /\ heap \in [here : Nat, heap_size : Nat, entries : [Address -> Entry]]
        /\ heap.heap_size = heap.here + 1
    BY <1>1, <1>6 DEF IsHeap, Address
  <2>2. /\ \A k \in 1..Len(slices) : WellFormed(slices[k])
        /\ Len(slices) <= MaxSlices
    BY <1>1, MaxSlicesAssumption
  <2>3. QED
    BY <1>1, <1>6, <1>7, <2>1, <2>2 DEF TypeOK
<1>9. KeysUnique /\ NoDangling
  BY <1>1, <1>6, <1>7 DEF KeysUnique, NoDangling, UniqueIn
<1>10. Frames /\ Predicted /\ Present
  BY <1>1, <1>6 DEF Frames, Predicted, Present
<1>11. QED
  BY <1>1, <1>8, <1>9, <1>10 DEF IInv, History

-----------------------------------------------------------------------------
(* What a step finds, and what it keeps *)

LEMMA TypeFacts ==
  ASSUME TypeOK
  PROVE  /\ IsHeap(heap)
         /\ heap.here \in Nat
         /\ Address = 0..heap.here
         /\ Address \subseteq Value
         /\ DOMAIN origin = 1..heap.here
         /\ \A a \in 1..heap.here : /\ origin[a].slice \in 1..Len(slices)
                                    /\ origin[a].node \in Node
<1>1. IsHeap(heap) /\ heap.here \in Nat
  BY DEF TypeOK, IsHeap, Address
<1> DEFINE Made == [slice : 1..Len(slices), node : Node]
<1>2. origin \in Seq(Made) /\ Len(origin) = heap.here
  BY DEF TypeOK
<1>3. /\ DOMAIN origin = 1..heap.here
      /\ \A a \in 1..heap.here : origin[a] \in Made
  <2> HIDE DEF Made
  <2> QED
    BY <1>2
<1>4. QED
  BY <1>1, <1>3 DEF Address, Value

LEMMA TopFacts ==
  ASSUME TypeOK, History, Frames, stack # <<>>
  PROVE  /\ stack \in Seq(FrameSet(heap.here))
         /\ Len(stack) \in Nat \ {0}
         /\ Top \in FrameSet(heap.here)
         /\ FrameOK(Top)
         /\ slices # <<>>
         /\ WellFormed(script)
         /\ Top.node \in Nodes(script)
         /\ Body \in Seq(Nodes(script))
         /\ Args \in Seq([kind : Nat, type : ArgType, value : Node \cup LeafValue])
         /\ \A i \in 1..Len(Args) :
              Args[i].type = "CS_CELERYSCRIPT" => Args[i].value \in Nodes(script)
         /\ script.kind[Top.node] \in Nat
<1>1. stack \in Seq(FrameSet(heap.here))
  BY DEF TypeOK, FrameSet, Address
<1>2. Len(stack) \in Nat \ {0} /\ Top \in FrameSet(heap.here)
  BY <1>1, StackOps DEF Top
<1>3. FrameOK(Top)
  BY <1>2 DEF Frames, Top
<1>4. slices # <<>> /\ Top.node \in Nodes(script)
  BY <1>2 DEF TypeOK, Top
<1>5. WellFormed(script)
  <2>1. slices[Len(slices)] \in Scripts
    BY <1>4 DEF History
  <2>2. QED
    BY <2>1, ScriptsAssumption DEF script
<1>6. QED
  BY <1>1, <1>2, <1>3, <1>4, <1>5 DEF WellFormed, Body, Args, Nodes

\* heap_put in a step.
PutsPair(adr, kv) ==
  /\ IsHeap(heap')
  /\ heap'.here = heap.here
  /\ KeysUnique'
  /\ \A a \in Address : a # adr => Pairs(heap', a) = Pairs(heap, a)
  /\ kv \in Pairs(heap', adr)
  /\ \A p \in Pairs(heap', adr) : p = kv \/ (p \in Pairs(heap, adr) /\ p.key # kv.key)
  /\ \A p \in Pairs(heap, adr) : \E q \in Pairs(heap', adr) : q.key = p.key

LEMMA PutStep ==
  ASSUME TypeOK, KeysUnique, NEW adr \in Address,
         NEW type \in EntryType, NEW key \in Nat, NEW value \in Value,
         heap' = HeapPut(heap, adr, type, key, value)
  PROVE  PutsPair(adr, [key |-> key, type |-> type, value |-> value])
<1> DEFINE kv == [key |-> key, type |-> type, value |-> value]
<1>1. IsHeap(heap) /\ Address = 0..heap.here
  BY TypeFacts
<1>2. PutDoes(heap, heap', adr, kv)
  BY <1>1, PutPairs
<1> HIDE DEF kv
<1>4. \A a \in Address : UniqueIn(heap.entries[a].kvs)
  BY DEF KeysUnique, UniqueIn
<1>5. /\ IsHeap(heap')
      /\ heap'.here = heap.here
      /\ \A a \in Address : a # adr => heap'.entries[a] = heap.entries[a]
      /\ UniqueIn(heap'.entries[adr].kvs)
      /\ kv \in Pairs(heap', adr)
      /\ \A p \in Pairs(heap', adr) : p = kv \/ (p \in Pairs(heap, adr) /\ p.key # kv.key)
      /\ \A p \in Pairs(heap, adr) : \E q \in Pairs(heap', adr) : q.key = p.key
  BY <1>1, <1>2, <1>4 DEF PutDoes
<1>6. Address' = Address
  BY <1>5 DEF Address
<1>7. KeysUnique'
  BY <1>4, <1>5, <1>6 DEF KeysUnique, UniqueIn
<1>8. \A a \in Address : a # adr => Pairs(heap', a) = Pairs(heap, a)
  BY <1>5 DEF Pairs
<1>9. PutsPair(adr, kv)
  BY <1>5, <1>7, <1>8 DEF PutsPair
<1>10. QED
  BY <1>9 DEF kv

\* A step that keeps the size of the heap and the histories.
Keeps ==
  /\ IsHeap(heap')
  /\ heap'.here = heap.here
  /\ UNCHANGED <<slices, origin>>

LEMMA TypeKept ==
  ASSUME TypeOK, History, Keeps, returned' \in Address,
         stack' \in Seq(FrameSet(heap.here)),
         stack # <<>> \/ stack' = <<>>,
         \A j \in 1..Len(stack') : stack'[j].node \in Nodes(script)
  PROVE  TypeOK' /\ History'
<1>1. Address' = Address /\ Address = 0..heap.here
  BY DEF Keeps, Address
<1>2. heap' \in [here : Nat, heap_size : Nat, entries : [Address' -> Entry]]
  BY <1>1 DEF Keeps, IsHeap
<1>3. heap'.heap_size = heap'.here + 1
  BY DEF Keeps, IsHeap
<1>4. /\ \A k \in 1..Len(slices') : WellFormed(slices'[k])
      /\ Len(slices') <= MaxSlices
      /\ stack' # <<>> => slices' # <<>>
  BY DEF TypeOK, Keeps
<1>5. stack' \in Seq([node : Node, parent : Address', addr : Address', at : At, i : Nat])
  BY <1>1 DEF FrameSet
<1>6. \A j \in 1..Len(stack') : stack'[j].node \in Nodes(script)'
  BY DEF Keeps, script, Nodes
<1>7. /\ origin' \in Seq([slice : 1..Len(slices'), node : Node])
      /\ Len(origin') = heap'.here
  BY DEF TypeOK, Keeps
<1>8. TypeOK'
  BY <1>1, <1>2, <1>3, <1>4, <1>5, <1>6, <1>7 DEF TypeOK
<1>9. QED
  BY <1>8 DEF History, Keeps

\* The calls in progress when the innermost one goes on.
LEMMA FramesResume ==
  ASSUME TypeOK, History, Frames, stack # <<>>, Keeps,
         NEW f \in FrameSet(heap.here), f.node = Top.node, FrameOK(f),
         stack' = Resume(f), returned' \in Address
  PROVE  /\ TypeOK' /\ History' /\ Frames'
         /\ stack' # <<>> /\ Top' = f
<1>1. /\ stack \in Seq(FrameSet(heap.here))
      /\ Len(stack) \in Nat \ {0}
      /\ Top.node \in Nodes(script)
  BY TopFacts
<1>2. /\ stack' \in Seq(FrameSet(heap.here))
      /\ Len(stack') = Len(stack)
      /\ stack'[Len(stack)] = f
      /\ \A j \in 1..(Len(stack) - 1) : stack'[j] = stack[j]
  BY <1>1, StackOps DEF Resume
<1>3. stack' # <<>> /\ Top' = f
  BY <1>1, <1>2 DEF Top
<1>4. \A j \in 1..Len(stack') : j = Len(stack) \/ j \in 1..(Len(stack) - 1)
  BY <1>1, <1>2
<1>5. \A j \in 1..(Len(stack) - 1) : j \in 1..Len(stack) /\ j < Len(stack)
  BY <1>1
<1>6. \A j \in 1..Len(stack') : stack'[j].node \in Nodes(script)
  BY <1>1, <1>2, <1>4, <1>5 DEF TypeOK
<1>7. \A j \in 1..Len(stack') :
        /\ FrameOK(stack'[j])
        /\ j < Len(stack') => stack'[j].at \in {"bodyReturn", "argReturn"}
  BY <1>1, <1>2, <1>4, <1>5 DEF Frames
<1>8. \A g : FrameOK(g) => FrameOK(g)'
  BY DEF FrameOK, Keeps, script
<1>9. Frames'
  BY <1>7, <1>8 DEF Frames
<1>10. TypeOK' /\ History'
  BY <1>2, <1>6, TypeKept
<1>11. QED
  BY <1>3, <1>9, <1>10

\* The calls in progress when the innermost one makes another.
LEMMA FramesCall ==
  ASSUME TypeOK, History, Frames, stack # <<>>, Keeps, UNCHANGED returned,
         NEW f \in FrameSet(heap.here), f.node = Top.node, FrameOK(f),
         f.at \in {"bodyReturn", "argReturn"},
         NEW node \in Nodes(script), NEW parent \in Address,
         stack' = Call(Resume(f), node, parent)
  PROVE  /\ TypeOK' /\ History' /\ Frames'
         /\ stack' # <<>>
         /\ Top' = [node |-> node, parent |-> parent, addr |-> 0, at |-> "enter", i |-> 0]
<1> DEFINE g == [node |-> node, parent |-> parent, addr |-> 0, at |-> "enter", i |-> 0]
           waiting == Resume(f)
           n == Len(stack)
<1>1. /\ stack \in Seq(FrameSet(heap.here))
      /\ n \in Nat \ {0}
      /\ Top.node \in Nodes(script)
      /\ WellFormed(script)
  BY TopFacts
<1>2. /\ waiting \in Seq(FrameSet(heap.here))
      /\ Len(waiting) = n
      /\ waiting[n] = f
      /\ \A j \in 1..(n - 1) : waiting[j] = stack[j]
  BY <1>1, StackOps DEF Resume
<1>3. g \in FrameSet(heap.here)
  BY <1>1, TypeFacts DEF FrameSet, At, WellFormed
<1>4. g.at = "enter" /\ g.node = node /\ g.i = 0
  OBVIOUS
<1>5. stack' = Append(waiting, g)
  BY DEF Call
<1> HIDE DEF g, waiting
<1>6. /\ stack' \in Seq(FrameSet(heap.here))
      /\ Len(stack') = n + 1
      /\ stack'[n + 1] = g
      /\ \A j \in 1..n : stack'[j] = waiting[j]
  BY <1>2, <1>3, <1>5, StackOps
<1>7. stack' # <<>> /\ Top' = g
  BY <1>1, <1>6 DEF Top
<1> HIDE DEF n
<1>8. \A j \in 1..(n + 1) : j = n + 1 \/ (j = n /\ j < n + 1) \/ j \in 1..(n - 1)
  BY <1>1
<1>9. \A j \in 1..(n - 1) : j \in 1..n /\ j < n
  BY <1>1
<1>10. n \in 1..n
  BY <1>1
<1>11. /\ stack'[n + 1] = g
       /\ stack'[n] = f
       /\ \A j \in 1..(n - 1) : stack'[j] = stack[j]
  BY <1>2, <1>6, <1>9, <1>10
<1>12. \A j \in 1..(n - 1) : /\ stack[j].node \in Nodes(script)
                             /\ FrameOK(stack[j])
                             /\ stack[j].at \in {"bodyReturn", "argReturn"}
  BY <1>9 DEF TypeOK, Frames, n
<1>13. \A j \in 1..Len(stack') : stack'[j].node \in Nodes(script)
  BY <1>1, <1>4, <1>6, <1>8, <1>11, <1>12
<1>14. FrameOK(g)
  BY <1>4 DEF FrameOK
<1>15. \A j \in 1..Len(stack') :
         /\ FrameOK(stack'[j])
         /\ j < Len(stack') => stack'[j].at \in {"bodyReturn", "argReturn"}
  BY <1>1, <1>6, <1>8, <1>11, <1>12, <1>14
<1>16. \A h : FrameOK(h) => FrameOK(h)'
  BY DEF FrameOK, Keeps, script
<1>17. Frames'
  BY <1>15, <1>16 DEF Frames
<1>18. returned' \in Address
  BY DEF TypeOK
<1>19. TypeOK' /\ History'
  BY <1>6, <1>13, <1>18, TypeKept
<1>20. QED
  BY <1>7, <1>17, <1>19 DEF g

\* While no call is about to allocate, every address is that of an entry, and
\* the newest entry has no HEAP_BODY of its own.
LEMMA Settled ==
  ASSUME IInv, ~Running("enter")
  PROVE  /\ \A a \in Address : \A kv \in Pairs(heap, a) :
              kv.type = "CSH_ADDRESS" => kv.value \in Address
         /\ \A a \in 1..heap.here : ~Displaced(a, HEAP_BODY) =>
              \A kv \in Pairs(heap, a) : kv.key = HEAP_BODY => a < heap.here
<1>1. \A a \in Address : ~AboutToAllocate(a)
  BY DEF AboutToAllocate
<1>2. 1..heap.here \subseteq Address /\ heap.here \in Nat
  BY TypeFacts DEF IInv
<1>3. \A a \in 1..heap.here : a < heap.here \/ a = heap.here
  BY <1>2
<1>4. QED
  BY <1>1, <1>2, <1>3 DEF IInv, NoDangling, Predicted

AllPresent ==
  \A a \in 1..heap.here : BodyOf(a) # <<>> =>
    \E kv \in Pairs(heap, a) : kv.key = HEAP_BODY

LEMMA PresentPast ==
  ASSUME IInv, Running("body") /\ Top.i = 0 => Body = <<>>
  PROVE  AllPresent
<1>1. CASE Running("body") /\ Top.i = 0
  <2>1. FrameOK(Top) /\ Top.at = "body"
    BY <1>1, TopFacts DEF IInv, Running
  <2>2. BodyOf(Top.addr) = Body
    BY <2>1 DEF FrameOK, BodyOf, ScriptAt, NodeAt, Body, script
  <2>3. QED
    BY <1>1, <2>2 DEF IInv, Present, AllPresent
<1>2. CASE ~(Running("body") /\ Top.i = 0)
  BY <1>2 DEF IInv, Present, AllPresent
<1>3. QED
  BY <1>1, <1>2

HeapInv == KeysUnique /\ NoDangling /\ Predicted /\ Present

\* A step that leaves the heap alone.
LEMMA HeapQuiet ==
  ASSUME IInv, ~Running("enter"), AllPresent, UNCHANGED <<heap, slices, origin>>
  PROVE  HeapInv'
<1>1. Address' = Address /\ \A a : Pairs(heap, a)' = Pairs(heap, a)
  BY DEF Address, Pairs
<1>2. \A a : /\ ScriptAt(a)' = ScriptAt(a)
             /\ NodeAt(a)' = NodeAt(a)
             /\ BodyOf(a)' = BodyOf(a)
             /\ Displaced(a, HEAP_BODY)' = Displaced(a, HEAP_BODY)
  BY DEF ScriptAt, NodeAt, BodyOf, Displaced, PutArgs
<1>3. KeysUnique'
  BY <1>1 DEF IInv, KeysUnique
<1>4. NoDangling'
  BY <1>1, Settled DEF NoDangling
<1>5. Predicted'
  <2>1. \A a \in 1..heap.here : a < heap.here => a # heap.here
    BY TypeFacts DEF IInv
  <2>2. QED
    BY <1>1, <1>2, <2>1, Settled DEF IInv, Predicted
<1>6. Present'
  BY <1>1, <1>2 DEF AllPresent, Present
<1>7. QED
  BY <1>3, <1>4, <1>5, <1>6 DEF HeapInv

\* A step that puts a pair into the entry of the innermost call, after the call
\* has put HEAP_BODY there itself or without any body.
LEMMA HeapPutTop ==
  ASSUME IInv, stack # <<>>, ~Running("enter"), AllPresent,
         UNCHANGED <<slices, origin>>,
         NEW type \in EntryType, NEW key \in Nat, NEW value \in Value,
         heap' = HeapPut(heap, Top.addr, type, key, value),
         type = "CSH_ADDRESS" => value \in Address,
         key = HEAP_BODY => Displaced(Top.addr, HEAP_BODY)
  PROVE  HeapInv' /\ Keeps
<1> DEFINE adr == Top.addr
           kv == [key |-> key, type |-> type, value |-> value]
<1>1. /\ adr \in 1..heap.here
      /\ adr \in Address
      /\ heap.here \in Nat
  BY TopFacts, TypeFacts DEF IInv, FrameOK, Running
<1>2. PutsPair(adr, kv)
  BY <1>1, PutStep DEF IInv
<1>3. kv.key = key /\ kv.type = type /\ kv.value = value
  OBVIOUS
<1> HIDE DEF kv, adr
<1>4. Address' = Address /\ \A a : Pairs(heap, a)' = Pairs(heap', a)
  BY <1>2 DEF PutsPair, Address, Pairs
<1>5. \A a : /\ ScriptAt(a)' = ScriptAt(a)
             /\ NodeAt(a)' = NodeAt(a)
             /\ BodyOf(a)' = BodyOf(a)
             /\ Displaced(a, HEAP_BODY)' = Displaced(a, HEAP_BODY)
  BY DEF ScriptAt, NodeAt, BodyOf, Displaced, PutArgs
<1>6. NoDangling'
  <2>1. \A a \in Address : \A p \in Pairs(heap', a) :
          p.type = "CSH_ADDRESS" => p.value \in Address
    BY <1>2, <1>3, Settled DEF PutsPair
  <2>2. QED
    BY <1>4, <2>1 DEF PutsPair, NoDangling
<1>7. Predicted'
  <2>1. \A a \in 1..heap.here : a < heap.here => a # heap.here /\ a \in Address
    BY <1>1, TypeFacts DEF IInv
  <2>2. \A a \in 1..heap.here : ~Displaced(a, HEAP_BODY) =>
          \A p \in Pairs(heap', a) : p.key = HEAP_BODY => p \in Pairs(heap, a)
    BY <1>1, <1>2, <1>3, TypeFacts DEF PutsPair, IInv, adr
  <2>3. \A a \in 1..heap.here : ~Displaced(a, HEAP_BODY) =>
          \A p \in Pairs(heap', a) : p.key = HEAP_BODY =>
            /\ BodyOf(a) # <<>>
            /\ p.value = a + 1
            /\ a < heap.here
            /\ origin[a + 1] = [slice |-> origin[a].slice, node |-> Head(BodyOf(a))]
    BY <2>1, <2>2, Settled DEF IInv, Predicted
  <2>4. QED
    BY <1>2, <1>4, <1>5, <2>1, <2>3 DEF PutsPair, Predicted
<1>8. Present'
  <2>1. \A a \in 1..heap.here : BodyOf(a) # <<>> =>
          \E q \in Pairs(heap', a) : q.key = HEAP_BODY
    BY <1>1, <1>2, TypeFacts DEF PutsPair, AllPresent, IInv
  <2>2. QED
    BY <1>2, <1>4, <1>5, <2>1 DEF PutsPair, Present
<1>9. QED
  BY <1>2, <1>6, <1>7, <1>8 DEF HeapInv, Keeps, PutsPair

-----------------------------------------------------------------------------
(* One lemma per action *)

LEMMA TopFields ==
  ASSUME TypeOK, History, Frames, stack # <<>>
  PROVE  /\ Top.i \in Nat
         /\ Top.addr \in Address
         /\ Top.node \in Node
         /\ Top.i < Len(Body) => Body[Top.i + 1] \in Nodes(script)
         /\ Top.i < Len(Args) => /\ Top.i + 1 \in DOMAIN Args
                                 /\ Arg.kind \in Nat
                                 /\ Arg.value \in Value
                                 /\ Arg.type = "CS_CELERYSCRIPT" => Arg.value \in Nodes(script)
<1>1. Top \in FrameSet(heap.here)
  BY TopFacts
<1>2. Top.i \in Nat /\ Top.addr \in Address /\ Top.node \in Node
  BY <1>1 DEF FrameSet, Address
<1>3. ASSUME NEW n \in Nat, Top.i < n
      PROVE  Top.i + 1 \in 1..n
  BY <1>2, <1>3
<1>4. ASSUME Top.i < Len(Body)
      PROVE  Body[Top.i + 1] \in Nodes(script)
  <2>1. Body \in Seq(Nodes(script))
    BY TopFacts
  <2>2. Top.i + 1 \in 1..Len(Body)
    BY <1>3, <1>4, <2>1
  <2>3. QED
    BY <2>1, <2>2
<1>5. ASSUME Top.i < Len(Args)
      PROVE  /\ Top.i + 1 \in DOMAIN Args
             /\ Arg.kind \in Nat
             /\ Arg.value \in Value
             /\ Arg.type = "CS_CELERYSCRIPT" => Arg.value \in Nodes(script)
  <2> DEFINE Argument == [kind : Nat, type : ArgType, value : Node \cup LeafValue]
  <2>1. Args \in Seq(Argument)
    BY TopFacts
  <2>2. \A i \in 1..Len(Args) :
          Args[i].type = "CS_CELERYSCRIPT" => Args[i].value \in Nodes(script)
    BY TopFacts
  <2>3. \A g \in Argument : g.kind \in Nat /\ g.value \in Value
    BY DEF Value
  <2> HIDE DEF Argument
  <2>4. Len(Args) \in Nat /\ DOMAIN Args = 1..Len(Args)
    BY <2>1
  <2>5. Top.i + 1 \in 1..Len(Args)
    BY <1>3, <1>5, <2>4
  <2>6. Arg \in Argument
    BY <2>1, <2>5 DEF Arg
  <2>7. QED
    BY <2>2, <2>3, <2>4, <2>5, <2>6 DEF Arg
<1>6. QED
  BY <1>2, <1>4, <1>5

\* The innermost frame with its position replaced.
Moved(at, i) == [Top EXCEPT !.at = at, !.i = i]

LEMMA FrameMoves ==
  ASSUME TypeOK, History, Frames, stack # <<>>, NEW at \in At, NEW i \in Nat
  PROVE  /\ Moved(at, i) \in FrameSet(heap.here)
         /\ Moved(at, i).node = Top.node
         /\ Moved(at, i).addr = Top.addr
         /\ Moved(at, i).at = at
         /\ Moved(at, i).i = i
         /\ Top.at = at => Moved(at, i) = [Top EXCEPT !.i = i]
         /\ Top.i = i => Moved(at, i) = [Top EXCEPT !.at = at]
<1>1. Top \in FrameSet(heap.here)
  BY TopFacts
<1>2. QED
  BY <1>1 DEF FrameSet, Moved

LEMMA QuietKeeps ==
  ASSUME IInv, UNCHANGED <<heap, slices, origin>>
  PROVE  Keeps
BY TypeFacts DEF IInv, Keeps

LEMMA StepBodyReturned == IInv /\ BodyReturned => IInv'
<1> SUFFICES ASSUME IInv, BodyReturned PROVE IInv'
  OBVIOUS
<1> DEFINE f == Moved("body", Top.i + 1)
           value == IF Top.i = 0 THEN 0 ELSE returned
<1>1. /\ stack # <<>> /\ Top.at = "bodyReturn"
      /\ heap' = HeapPut(heap, Top.addr, "CSH_ADDRESS", HEAP_NEXT, value)
      /\ stack' = Resume(f)
      /\ UNCHANGED <<returned, slices, origin>>
  BY DEF BodyReturned, Running, Moved
<1>2. ~Running("enter") /\ ~Running("body") /\ AllPresent
  BY <1>1, PresentPast DEF Running
<1>3. /\ value \in Address /\ value \in Value
      /\ HEAP_NEXT \in Nat /\ HEAP_NEXT # HEAP_BODY
      /\ "CSH_ADDRESS" \in EntryType
  BY TypeFacts DEF IInv, TypeOK, EntryType, HEAP_NEXT, HEAP_BODY
<1> HIDE DEF value
<1>4. HeapInv' /\ Keeps
  BY <1>1, <1>2, <1>3, HeapPutTop
<1>5. Top.i \in Nat /\ Top.i + 1 \in Nat /\ Top.i + 1 # 0 /\ "body" \in At
  BY <1>1, TopFields DEF IInv, At
<1>6. /\ f \in FrameSet(heap.here)
      /\ f.node = Top.node /\ f.addr = Top.addr /\ f.at = "body" /\ f.i = Top.i + 1
  BY <1>1, <1>5, FrameMoves DEF IInv
<1> HIDE DEF f
<1>7. FrameOK(f)
  <2>1. FrameOK(Top) /\ Len(Body) \in Nat
    BY <1>1, TopFacts DEF IInv
  <2>2. QED
    BY <1>1, <1>5, <1>6, <2>1 DEF FrameOK, Body
<1>8. returned' \in Address
  BY <1>1 DEF IInv, TypeOK
<1>9. TypeOK' /\ History' /\ Frames'
  BY <1>1, <1>4, <1>6, <1>7, <1>8, FramesResume DEF IInv
<1>10. QED
  BY <1>4, <1>9 DEF IInv, HeapInv

LEMMA StepBodyDone == IInv /\ BodyDone => IInv'
<1> SUFFICES ASSUME IInv, BodyDone PROVE IInv'
  OBVIOUS
<1> DEFINE f == Moved("args", 0)
<1>1. /\ stack # <<>> /\ Top.at = "body" /\ Top.i = Len(Body)
      /\ stack' = Resume(f)
      /\ UNCHANGED <<heap, returned, slices, origin>>
  BY DEF BodyDone, Running, Moved
<1>2. /\ f \in FrameSet(heap.here)
      /\ f.node = Top.node /\ f.addr = Top.addr /\ f.at = "args" /\ f.i = 0
  BY <1>1, FrameMoves DEF IInv, At
<1> HIDE DEF f
<1>3. FrameOK(f)
  <2>1. FrameOK(Top) /\ Len(Args) \in Nat
    BY <1>1, TopFacts DEF IInv
  <2>2. QED
    BY <1>1, <1>2, <2>1 DEF FrameOK, Args
<1>4. Top.i = 0 => Body = <<>>
  <2>1. Body \in Seq(Nodes(script))
    BY <1>1, TopFacts DEF IInv
  <2>2. Top.i = Len(Body)
    BY <1>1
  <2>3. QED
    BY <2>1, <2>2, EmptySeq
<1>5. ~Running("enter") /\ AllPresent
  BY <1>1, <1>4, PresentPast DEF Running
<1>6. HeapInv' /\ Keeps
  BY <1>1, <1>5, HeapQuiet, QuietKeeps
<1>7. returned' \in Address
  BY <1>1 DEF IInv, TypeOK
<1>8. TypeOK' /\ History' /\ Frames'
  BY <1>1, <1>2, <1>3, <1>6, <1>7, FramesResume DEF IInv
<1>9. QED
  BY <1>6, <1>8 DEF IInv, HeapInv

\* The calls of slicer_allocate that put nothing first.
LEMMA StepCall ==
  ASSUME IInv, stack # <<>>, UNCHANGED <<heap, returned, slices, origin>>,
         \/ Top.at = "body" /\ Top.i # 0 /\ Top.i < Len(Body)
         \/ Top.at = "args" /\ Top.i < Len(Args) /\ Arg.type = "CS_CELERYSCRIPT",
         NEW child \in Nodes(script),
         stack' = Call(Resume(Moved(IF Top.at = "body" THEN "bodyReturn" ELSE "argReturn", Top.i)),
                       child, Top.addr)
  PROVE  IInv'
<1> DEFINE at == IF Top.at = "body" THEN "bodyReturn" ELSE "argReturn"
           f  == Moved(at, Top.i)
<1>1. Top.i \in Nat /\ Top.addr \in Address /\ at \in At
  BY TopFields DEF IInv, At
<1>2. /\ f \in FrameSet(heap.here)
      /\ f.node = Top.node /\ f.addr = Top.addr /\ f.at = at /\ f.i = Top.i
  BY <1>1, FrameMoves DEF IInv
<1>3. stack' = Call(Resume(f), child, Top.addr)
  OBVIOUS
<1> HIDE DEF f
<1>4. FrameOK(f)
  <2>1. FrameOK(Top)
    BY TopFacts DEF IInv
  <2>2. QED
    BY <1>2, <2>1 DEF FrameOK, Body, Args, Arg
<1>5. ~Running("enter") /\ AllPresent
  BY PresentPast DEF Running
<1>6. HeapInv' /\ Keeps
  BY <1>5, HeapQuiet, QuietKeeps
<1>7. TypeOK' /\ History' /\ Frames'
  BY <1>1, <1>2, <1>3, <1>4, <1>6, FramesCall DEF IInv
<1>8. QED
  BY <1>6, <1>7 DEF IInv, HeapInv

LEMMA StepBodyOther == IInv /\ BodyOther => IInv'
<1> SUFFICES ASSUME IInv, BodyOther PROVE IInv'
  OBVIOUS
<1>1. /\ stack # <<>> /\ Top.at = "body" /\ Top.i > 0 /\ Top.i < Len(Body)
      /\ stack' = Call(Resume([Top EXCEPT !.at = "bodyReturn"]), Body[Top.i + 1], Top.addr)
      /\ UNCHANGED <<heap, returned, slices, origin>>
  BY DEF BodyOther, Running
<1>2. /\ Top.i \in Nat /\ "bodyReturn" \in At
      /\ Body[Top.i + 1] \in Nodes(script)
  BY <1>1, TopFields DEF IInv, At
<1>3. Moved("bodyReturn", Top.i) = [Top EXCEPT !.at = "bodyReturn"]
  BY <1>1, <1>2, FrameMoves DEF IInv
<1>4. Top.i # 0
  BY <1>1, <1>2
<1>5. QED
  BY <1>1, <1>2, <1>3, <1>4, StepCall

LEMMA StepArgNode == IInv /\ ArgNode => IInv'
<1> SUFFICES ASSUME IInv, ArgNode PROVE IInv'
  OBVIOUS
<1>1. /\ stack # <<>> /\ Top.at = "args" /\ Top.i < Len(Args)
      /\ Arg.type = "CS_CELERYSCRIPT"
      /\ stack' = Call(Resume([Top EXCEPT !.at = "argReturn"]), Arg.value, Top.addr)
      /\ UNCHANGED <<heap, returned, slices, origin>>
  BY DEF ArgNode, Running
<1>2. /\ Top.i \in Nat /\ "argReturn" \in At
      /\ Arg.value \in Nodes(script)
  <2>1. TypeOK /\ History /\ Frames
    BY DEF IInv
  <2>2. Top.i \in Nat /\ Arg.value \in Nodes(script)
    BY <1>1, <2>1, TopFields
  <2>3. QED
    BY <2>2 DEF At
<1>3. Moved("argReturn", Top.i) = [Top EXCEPT !.at = "argReturn"]
  BY <1>1, <1>2, FrameMoves DEF IInv
<1>4. QED
  BY <1>1, <1>2, <1>3, StepCall

\* An argument displaces the link of its number.
LEMMA ArgDisplaces ==
  ASSUME IInv, stack # <<>>, Top.at \in {"args", "argReturn"}, Top.i < Len(Args),
         Arg.type # "unset"
  PROVE  Displaced(Top.addr, Arg.kind)
<1>1. Top.i + 1 \in DOMAIN Args
  BY TopFields DEF IInv
<1>2. ScriptAt(Top.addr).args[NodeAt(Top.addr)] = Args
  <2>1. FrameOK(Top)
    BY TopFacts DEF IInv
  <2>2. origin[Top.addr] = [slice |-> Len(slices), node |-> Top.node]
    BY <2>1 DEF FrameOK
  <2>3. QED
    BY <2>2 DEF ScriptAt, NodeAt, Args, script
<1>3. QED
  BY <1>1, <1>2 DEF Displaced, PutArgs, Arg

\* Going on to the next argument, from either position.
LEMMA NextArg ==
  ASSUME IInv, stack # <<>>, Keeps, UNCHANGED returned,
         Top.at \in {"args", "argReturn"}, Top.i < Len(Args),
         stack' = Resume(Moved("args", Top.i + 1))
  PROVE  TypeOK' /\ History' /\ Frames'
<1> DEFINE f == Moved("args", Top.i + 1)
<1>1. Top.i \in Nat /\ Top.i + 1 \in Nat /\ "args" \in At
  BY TopFields DEF IInv, At
<1>2. /\ f \in FrameSet(heap.here)
      /\ f.node = Top.node /\ f.addr = Top.addr /\ f.at = "args" /\ f.i = Top.i + 1
  BY <1>1, FrameMoves DEF IInv
<1>3. stack' = Resume(f)
  OBVIOUS
<1> HIDE DEF f
<1>4. FrameOK(f)
  <2>1. FrameOK(Top) /\ Len(Args) \in Nat
    BY TopFacts DEF IInv
  <2>2. QED
    BY <1>1, <1>2, <2>1 DEF FrameOK, Args
<1>5. returned' \in Address
  BY DEF IInv, TypeOK
<1>6. QED
  BY <1>2, <1>3, <1>4, <1>5, FramesResume DEF IInv

LEMMA StepArgSkipped == IInv /\ ArgSkipped => IInv'
<1> SUFFICES ASSUME IInv, ArgSkipped PROVE IInv'
  OBVIOUS
<1>1. /\ stack # <<>> /\ Top.at = "args" /\ Top.i < Len(Args)
      /\ stack' = Resume([Top EXCEPT !.i = Top.i + 1])
      /\ UNCHANGED <<heap, returned, slices, origin>>
  BY DEF ArgSkipped, Running
<1>2. stack' = Resume(Moved("args", Top.i + 1))
  <2>1. Top.i + 1 \in Nat /\ "args" \in At
    BY <1>1, TopFields DEF IInv, At
  <2>2. QED
    BY <1>1, <2>1, FrameMoves DEF IInv
<1>3. ~Running("enter") /\ ~Running("body") /\ AllPresent
  BY <1>1, PresentPast DEF Running
<1>4. HeapInv' /\ Keeps
  BY <1>1, <1>3, HeapQuiet, QuietKeeps
<1>5. TypeOK' /\ History' /\ Frames'
  BY <1>1, <1>2, <1>4, NextArg
<1>6. QED
  BY <1>4, <1>5 DEF IInv, HeapInv

LEMMA StepArgLeaf == IInv /\ ArgLeaf => IInv'
<1> SUFFICES ASSUME IInv, ArgLeaf PROVE IInv'
  OBVIOUS
<1> DEFINE type == HeapType(Arg.type)
<1>1. /\ stack # <<>> /\ Top.at = "args" /\ Top.i < Len(Args)
      /\ Arg.type \in {"CS_STRING", "CS_BOOL", "CS_NUMBER"}
      /\ heap' = HeapPut(heap, Top.addr, type, Arg.kind, Arg.value)
      /\ stack' = Resume([Top EXCEPT !.i = Top.i + 1])
      /\ UNCHANGED <<returned, slices, origin>>
  BY DEF ArgLeaf, Running
<1>2. stack' = Resume(Moved("args", Top.i + 1))
  <2>1. Top.i + 1 \in Nat /\ "args" \in At
    BY <1>1, TopFields DEF IInv, At
  <2>2. QED
    BY <1>1, <2>1, FrameMoves DEF IInv
<1>3. Arg.kind \in Nat /\ Arg.value \in Value
  <2>1. TypeOK /\ History /\ Frames
    BY DEF IInv
  <2>2. QED
    BY <1>1, <2>1, TopFields
<1>4. type \in EntryType /\ type # "CSH_ADDRESS"
  BY <1>1 DEF HeapType, EntryType
<1>5. ~Running("enter") /\ ~Running("body") /\ AllPresent
  BY <1>1, PresentPast DEF Running
<1>6. Displaced(Top.addr, Arg.kind)
  BY <1>1, ArgDisplaces
<1> HIDE DEF type
<1>7. HeapInv' /\ Keeps
  BY <1>1, <1>3, <1>4, <1>5, <1>6, HeapPutTop
<1>8. TypeOK' /\ History' /\ Frames'
  BY <1>1, <1>2, <1>7, NextArg
<1>9. QED
  BY <1>7, <1>8 DEF IInv, HeapInv

LEMMA StepArgReturned == IInv /\ ArgReturned => IInv'
<1> SUFFICES ASSUME IInv, ArgReturned PROVE IInv'
  OBVIOUS
<1>1. /\ stack # <<>> /\ Top.at = "argReturn"
      /\ heap' = HeapPut(heap, Top.addr, "CSH_ADDRESS", Arg.kind, returned)
      /\ stack' = Resume(Moved("args", Top.i + 1))
      /\ UNCHANGED <<returned, slices, origin>>
  BY DEF ArgReturned, Running, Moved
<1>2. Top.i < Len(Args) /\ Arg.type = "CS_CELERYSCRIPT"
  BY <1>1, TopFacts DEF IInv, FrameOK, Args, Arg
<1>3. Arg.kind \in Nat
  <2>1. TypeOK /\ History /\ Frames
    BY DEF IInv
  <2>2. QED
    BY <1>1, <1>2, <2>1, TopFields
<1>4. /\ returned \in Address /\ returned \in Value
      /\ "CSH_ADDRESS" \in EntryType
  BY TypeFacts DEF IInv, TypeOK, EntryType
<1>5. ~Running("enter") /\ ~Running("body") /\ AllPresent
  BY <1>1, PresentPast DEF Running
<1>6. Displaced(Top.addr, Arg.kind)
  BY <1>1, <1>2, ArgDisplaces
<1>7. HeapInv' /\ Keeps
  BY <1>1, <1>3, <1>4, <1>5, <1>6, HeapPutTop
<1>8. TypeOK' /\ History' /\ Frames'
  BY <1>1, <1>2, <1>7, NextArg
<1>9. QED
  BY <1>7, <1>8 DEF IInv, HeapInv

\* The address stored for the first child is the one after the newest entry.
LEMMA StepBodyFirst == IInv /\ BodyFirst => IInv'
<1> SUFFICES ASSUME IInv, BodyFirst PROVE IInv'
  OBVIOUS
<1> DEFINE adr   == Top.addr
           kv    == [key |-> HEAP_BODY, type |-> "CSH_ADDRESS", value |-> adr + 1]
           f     == Moved("bodyReturn", Top.i)
           child == Body[Top.i + 1]
<1>1. /\ stack # <<>> /\ Top.at = "body" /\ Top.i = 0 /\ Top.i < Len(Body)
      /\ heap' = HeapPut(heap, adr, "CSH_ADDRESS", HEAP_BODY, adr + 1)
      /\ stack' = Call(Resume([Top EXCEPT !.at = "bodyReturn"]), child, adr)
      /\ UNCHANGED <<returned, slices, origin>>
  BY DEF BodyFirst, Running
<1>2. TypeOK /\ History /\ Frames /\ KeysUnique
  BY DEF IInv
<1>3. /\ Top.i \in Nat /\ adr \in Address
      /\ child \in Nodes(script)
  BY <1>1, <1>2, TopFields
<1>4. /\ f \in FrameSet(heap.here)
      /\ f.node = Top.node /\ f.addr = adr /\ f.at = "bodyReturn" /\ f.i = Top.i
      /\ f = [Top EXCEPT !.at = "bodyReturn"]
  <2>1. "bodyReturn" \in At
    BY DEF At
  <2>2. QED
    BY <1>1, <1>2, <1>3, <2>1, FrameMoves
<1>5. /\ adr \in 1..heap.here
      /\ adr = heap.here
      /\ origin[adr] = [slice |-> Len(slices), node |-> Top.node]
      /\ heap.here \in Nat
      /\ Body \in Seq(Nodes(script))
  BY <1>1, <1>2, TopFacts, TypeFacts DEF FrameOK
<1>6. child = Head(Body) /\ Body # <<>> /\ BodyOf(adr) = Body
  BY <1>1, <1>5 DEF BodyOf, ScriptAt, NodeAt, Body, script
<1>7. /\ "CSH_ADDRESS" \in EntryType
      /\ HEAP_BODY \in Nat
      /\ adr + 1 \in Value
  BY <1>5 DEF EntryType, HEAP_BODY, Value
<1>8. PutsPair(adr, kv)
  BY <1>1, <1>2, <1>3, <1>7, PutStep
<1>9. kv.key = HEAP_BODY /\ kv.type = "CSH_ADDRESS" /\ kv.value = heap.here + 1
  BY <1>5
<1>10. FrameOK(f)
  BY <1>1, <1>4, <1>5 DEF FrameOK, Body
<1>11. Keeps
  BY <1>1, <1>8 DEF Keeps, PutsPair
<1>12. stack' = Call(Resume(f), child, adr)
  BY <1>1, <1>4
<1> HIDE DEF f
<1>13. /\ TypeOK' /\ History' /\ Frames'
       /\ stack' # <<>>
       /\ Top' = [node |-> child, parent |-> adr, addr |-> 0, at |-> "enter", i |-> 0]
  BY <1>1, <1>2, <1>3, <1>4, <1>10, <1>11, <1>12, FramesCall
<1> HIDE DEF kv, child, adr
<1>14. /\ Top'.node = child
       /\ \A a : a = adr => AboutToAllocate(a)'
  <2>1. Top'.node = child /\ Top'.parent = adr /\ Top'.at = "enter"
    BY <1>13
  <2>2. heap'.here = adr
    BY <1>5, <1>11 DEF Keeps
  <2>3. QED
    BY <1>13, <2>1, <2>2 DEF AboutToAllocate, Running
<1>15. Address' = Address /\ \A a : Pairs(heap, a)' = Pairs(heap', a)
  BY <1>8 DEF PutsPair, Address, Pairs
<1>16. \A a : /\ ScriptAt(a)' = ScriptAt(a)
              /\ NodeAt(a)' = NodeAt(a)
              /\ BodyOf(a)' = BodyOf(a)
              /\ Displaced(a, HEAP_BODY)' = Displaced(a, HEAP_BODY)
  BY <1>1 DEF ScriptAt, NodeAt, BodyOf, Displaced, PutArgs
<1>17. ~Running("enter")
  BY <1>1 DEF Running
<1>18. NoDangling'
  <2>1. \A a \in Address : \A p \in Pairs(heap', a) :
          p.type = "CSH_ADDRESS" => p.value \in Address \/ (a = adr /\ p = kv)
    BY <1>8, <1>17, Settled DEF PutsPair
  <2>2. heap'.here = heap.here
    BY <1>8 DEF PutsPair
  <2>3. \A a \in Address : \A p \in Pairs(heap', a) :
          p.type = "CSH_ADDRESS" =>
            \/ p.value \in Address
            \/ AboutToAllocate(a)' /\ p.key = HEAP_BODY /\ p.value = heap'.here + 1
    BY <1>9, <1>14, <2>1, <2>2
  <2>4. QED
    BY <1>15, <2>3 DEF NoDangling
<1>19. Predicted'
  <2>1. \A a \in 1..heap.here : (a < heap.here => a # heap.here) /\ a \in Address
    BY <1>5, TypeFacts, <1>2
  <2>2. \A a \in 1..heap.here : ~Displaced(a, HEAP_BODY) =>
          \A p \in Pairs(heap', a) : p.key = HEAP_BODY =>
            \/ a = adr /\ p = kv
            \/ p \in Pairs(heap, a) /\ a < heap.here
    BY <1>8, <1>9, <1>17, <2>1, Settled DEF PutsPair
  <2>3. \A a \in 1..heap.here : ~Displaced(a, HEAP_BODY) =>
          \A p \in Pairs(heap, a) : p.key = HEAP_BODY /\ a < heap.here =>
            /\ BodyOf(a) # <<>>
            /\ p.value = a + 1
            /\ origin[a + 1] = [slice |-> origin[a].slice, node |-> Head(BodyOf(a))]
    BY DEF IInv, Predicted
  <2>4. origin[adr].slice = Len(slices)
    BY <1>5
  <2>5. heap'.here = heap.here /\ origin' = origin /\ Len(slices)' = Len(slices)
    BY <1>11 DEF Keeps
  <2>6. /\ adr = heap.here /\ ~(adr < heap.here)
        /\ \A a \in 1..heap.here : a < heap.here => a # heap.here
    BY <1>5
  <2>7. ASSUME NEW a \in 1..heap.here, ~Displaced(a, HEAP_BODY),
               NEW p \in Pairs(heap', a), p.key = HEAP_BODY
        PROVE  /\ BodyOf(a) # <<>>
               /\ p.value = a + 1
               /\ a < heap.here =>
                    origin[a + 1] = [slice |-> origin[a].slice, node |-> Head(BodyOf(a))]
               /\ a = heap.here => /\ AboutToAllocate(a)'
                                   /\ origin[a].slice = Len(slices)
                                   /\ Top'.node = Head(BodyOf(a))
    <3>1. CASE a = adr /\ p = kv
      BY <1>6, <1>9, <1>14, <2>4, <2>6, <3>1
    <3>2. CASE p \in Pairs(heap, a) /\ a < heap.here
      BY <2>3, <2>6, <2>7, <3>2
    <3>3. QED
      BY <2>2, <2>7, <3>1, <3>2
  <2>8. QED
    BY <1>15, <1>16, <2>5, <2>7 DEF Predicted
<1>20. Present'
  <2>1. \A a \in 1..heap.here : BodyOf(a) # <<>> /\ a # adr =>
          \E q \in Pairs(heap, a) : q.key = HEAP_BODY
    BY DEF IInv, Present, adr
  <2>2. \A a \in 1..heap.here : a \in Address
    BY <1>2, TypeFacts, <1>5
  <2>3. \A a \in 1..heap.here : BodyOf(a) # <<>> =>
          \E q \in Pairs(heap', a) : q.key = HEAP_BODY
    BY <1>8, <1>9, <2>1, <2>2 DEF PutsPair
  <2>4. QED
    BY <1>11, <1>15, <1>16, <2>3 DEF Keeps, Present
<1>21. KeysUnique'
  BY <1>8 DEF PutsPair
<1>22. QED
  BY <1>13, <1>18, <1>19, <1>20, <1>21 DEF IInv

LEMMA StepReturn == IInv /\ Return => IInv'
<1> SUFFICES ASSUME IInv, Return PROVE IInv'
  OBVIOUS
<1>1. /\ stack # <<>> /\ Top.at = "args"
      /\ returned' = Top.addr
      /\ stack' = Front(stack)
      /\ UNCHANGED <<heap, slices, origin>>
  BY DEF Return, Running
<1>2. TypeOK /\ History /\ Frames
  BY DEF IInv
<1>3. ~Running("enter") /\ ~Running("body") /\ AllPresent
  BY <1>1, PresentPast DEF Running
<1>4. HeapInv' /\ Keeps
  BY <1>1, <1>3, HeapQuiet, QuietKeeps
<1>5. returned' \in Address
  BY <1>1, <1>2, TopFields
<1> DEFINE n == Len(stack)
<1>6. n \in Nat \ {0} /\ stack \in Seq(FrameSet(heap.here))
  BY <1>1, <1>2, TopFacts
<1>7. /\ stack' \in Seq(FrameSet(heap.here))
      /\ Len(stack') = n - 1
      /\ \A j \in 1..(n - 1) : stack'[j] = stack[j]
  <2>1. Top \in FrameSet(heap.here)
    BY <1>1, <1>2, TopFacts
  <2>2. QED
    BY <1>1, <1>6, <2>1, StackOps
<1> HIDE DEF n
<1>8. \A j \in 1..(n - 1) : j \in 1..n /\ j < n
  BY <1>6
<1>9. \A j \in 1..(n - 1) : /\ stack[j].node \in Nodes(script)
                            /\ FrameOK(stack[j])
                            /\ stack[j].at \in {"bodyReturn", "argReturn"}
  BY <1>2, <1>8 DEF TypeOK, Frames, n
<1>10. TypeOK' /\ History'
  <2>1. \A j \in 1..Len(stack') : stack'[j].node \in Nodes(script)
    BY <1>7, <1>9
  <2>2. QED
    BY <1>1, <1>2, <1>4, <1>5, <1>7, <2>1, TypeKept
<1>11. \A h : FrameOK(h) => FrameOK(h)'
  BY <1>1 DEF FrameOK, script
<1>12. Frames'
  BY <1>7, <1>9, <1>11 DEF Frames
<1>13. QED
  BY <1>4, <1>10, <1>12 DEF IInv, HeapInv

\* A new script says nothing about the entries of the earlier ones.
LEMMA StepSlice == IInv /\ Slice => IInv'
<1> SUFFICES ASSUME IInv, Slice PROVE IInv'
  OBVIOUS
<1>1. PICK celery \in Scripts : /\ slices' = Append(slices, celery)
                                /\ stack' = Call(<<>>, celery.root, 0)
  BY DEF Slice
<1>2. /\ stack = <<>> /\ Len(slices) < MaxSlices
      /\ UNCHANGED <<heap, returned, origin>>
  BY DEF Slice
<1>3. TypeOK /\ History
  BY DEF IInv
<1> DEFINE n == Len(slices)
           g == [node |-> celery.root, parent |-> 0, addr |-> 0, at |-> "enter", i |-> 0]
<1>4. /\ n \in Nat
      /\ slices' \in Seq(Scripts)
      /\ Len(slices') = n + 1
      /\ slices'[n + 1] = celery
      /\ \A k \in 1..n : slices'[k] = slices[k]
  BY <1>1, <1>3 DEF History
<1>5. WellFormed(celery)
  BY ScriptsAssumption
<1>6. celery.root \in Nodes(celery) /\ celery.root \in Node
  BY <1>5 DEF WellFormed
<1>7. script' = celery
  BY <1>4 DEF script
<1>8. g \in FrameSet(heap.here) /\ g.node = celery.root /\ g.at = "enter" /\ g.i = 0
  BY <1>3, <1>6, TypeFacts DEF FrameSet, At
<1>9. stack' = Append(<<>>, g)
  BY <1>1 DEF Call
<1> HIDE DEF g, n
<1>10. stack' \in Seq(FrameSet(heap.here)) /\ Len(stack') = 1 /\ stack'[1] = g
  BY <1>8, <1>9
<1>11. TypeOK'
  <2>1. Address' = Address /\ Address = 0..heap.here
    BY <1>2 DEF Address
  <2>2. \A k \in 1..Len(slices') : WellFormed(slices'[k])
    BY <1>4, ScriptsAssumption
  <2>3. Len(slices') <= MaxSlices /\ slices' # <<>>
    BY <1>2, <1>4, MaxSlicesAssumption DEF n
  <2>4. stack' \in Seq([node : Node, parent : Address', addr : Address', at : At, i : Nat])
    BY <1>10, <2>1 DEF FrameSet
  <2>5. \A j \in 1..Len(stack') : stack'[j].node \in Nodes(script')
    BY <1>6, <1>7, <1>8, <1>10
  <2>6. Nodes(script)' = Nodes(script')
    BY DEF Nodes
  <2>7. origin' \in Seq([slice : 1..Len(slices'), node : Node]) /\ Len(origin') = heap'.here
    <3>1. 1..n \subseteq 1..Len(slices')
      BY <1>4
    <3>2. [slice : 1..n, node : Node] \subseteq [slice : 1..Len(slices'), node : Node]
      BY <3>1
    <3>3. origin \in Seq([slice : 1..n, node : Node]) /\ Len(origin) = heap.here
      BY <1>3 DEF TypeOK, n
    <3> DEFINE A == [slice : 1..n, node : Node]
               B == [slice : 1..Len(slices'), node : Node]
    <3>4. \A s \in Seq(A) : A \subseteq B => s \in Seq(B)
      <4> HIDE DEF A, B
      <4> QED
        OBVIOUS
    <3>5. QED
      BY <1>2, <3>2, <3>3, <3>4
  <2>8. /\ heap' \in [here : Nat, heap_size : Nat, entries : [Address' -> Entry]]
        /\ heap'.heap_size = heap'.here + 1
        /\ returned' \in Address'
    BY <1>2, <1>3, <2>1 DEF TypeOK
  <2>9. QED
    BY <2>2, <2>3, <2>4, <2>5, <2>6, <2>7, <2>8 DEF TypeOK
<1>12. Frames'
  <2>1. FrameOK(g)'
    BY <1>8 DEF FrameOK
  <2>2. \A j \in 1..Len(stack') : j = 1 /\ ~(j < Len(stack'))
    BY <1>10
  <2>3. QED
    BY <1>8, <1>10, <2>2 DEF Frames, FrameOK
<1>13. Address' = Address /\ \A a : Pairs(heap, a)' = Pairs(heap, a)
  BY <1>2 DEF Address, Pairs
<1>14. \A a \in 1..heap.here : /\ ScriptAt(a)' = ScriptAt(a)
                               /\ NodeAt(a)' = NodeAt(a)
                               /\ BodyOf(a)' = BodyOf(a)
                               /\ Displaced(a, HEAP_BODY)' = Displaced(a, HEAP_BODY)
  <2>1. \A a \in 1..heap.here : ScriptAt(a)' = ScriptAt(a) /\ NodeAt(a)' = NodeAt(a)
    BY <1>2, <1>3, <1>4, TypeFacts DEF ScriptAt, NodeAt, n
  <2>2. QED
    BY <2>1 DEF BodyOf, Displaced, PutArgs
<1>15. ~Running("enter") /\ AllPresent
  BY <1>2, PresentPast DEF Running
<1>16. KeysUnique'
  BY <1>2, <1>13 DEF IInv, KeysUnique
<1>17. NoDangling'
  BY <1>13, <1>15, Settled DEF NoDangling
<1>18. Predicted'
  <2>1. \A a \in 1..heap.here : a < heap.here => a # heap.here
    BY <1>3, TypeFacts
  <2>2. QED
    BY <1>2, <1>13, <1>14, <1>15, <2>1, Settled DEF IInv, Predicted
<1>19. Present'
  BY <1>2, <1>13, <1>14, <1>15 DEF AllPresent, Present
<1>20. QED
  BY <1>4, <1>11, <1>12, <1>16, <1>17, <1>18, <1>19 DEF IInv, History

\* The entry a call makes has only the link to its parent.
AllotsEntry(kv) ==
  /\ IsHeap(heap')
  /\ heap'.here = heap.here + 1
  /\ \A a \in Address : heap'.entries[a] = heap.entries[a]
  /\ UniqueIn(heap'.entries[heap.here + 1].kvs)
  /\ Pairs(heap', heap.here + 1) = {kv}

LEMMA AllotStep ==
  ASSUME TypeOK, NEW kind \in Nat, NEW parent \in Address,
         heap' = LET allotted == HeapAlot(heap, kind)
                 IN HeapPut(allotted, allotted.here, "CSH_ADDRESS", HEAP_PARENT, parent)
  PROVE  AllotsEntry([key |-> HEAP_PARENT, type |-> "CSH_ADDRESS", value |-> parent])
<1> DEFINE alot == HeapAlot(heap, kind)
           kv   == [key |-> HEAP_PARENT, type |-> "CSH_ADDRESS", value |-> parent]
<1>1. IsHeap(heap) /\ heap.here \in Nat /\ Address = 0..heap.here /\ Address \subseteq Value
  BY TypeFacts
<1>2. /\ IsHeap(alot)
      /\ alot.here = heap.here + 1
      /\ \A a \in 0..heap.here : alot.entries[a] = heap.entries[a]
      /\ alot.entries[alot.here].kvs = <<>>
  BY <1>1, AlotAppends
<1>3. heap' = HeapPut(alot, alot.here, "CSH_ADDRESS", HEAP_PARENT, parent)
  OBVIOUS
<1> HIDE DEF alot
<1>4. /\ "CSH_ADDRESS" \in EntryType /\ HEAP_PARENT \in Nat /\ parent \in Value
      /\ alot.here \in 0..alot.here
  BY <1>1, <1>2 DEF EntryType, HEAP_PARENT
<1>5. PutDoes(alot, heap', alot.here, kv)
  BY <1>2, <1>3, <1>4, PutPairs
<1> HIDE DEF kv
<1>6. UniqueIn(alot.entries[alot.here].kvs) /\ Pairs(alot, alot.here) = {}
  BY <1>2 DEF UniqueIn, Pairs, ToSet
<1>7. \A a \in 0..heap.here : a \in 0..alot.here /\ a # alot.here
  BY <1>1, <1>2
<1>8. AllotsEntry(kv)
  BY <1>1, <1>2, <1>5, <1>6, <1>7 DEF PutDoes, AllotsEntry
<1>9. QED
  BY <1>8 DEF kv

\* The type of the state after an allocation: one more entry, recorded as made
\* for the node of the innermost call, which goes on to its body.
LEMMA AllotTypes ==
  ASSUME TypeOK, History, Frames, stack # <<>>, Top.at = "enter",
         NEW kv, AllotsEntry(kv),
         stack' = Resume([Top EXCEPT !.addr = heap.here + 1, !.at = "body"]),
         origin' = Append(origin, [slice |-> Len(slices), node |-> Top.node]),
         UNCHANGED <<returned, slices>>
  PROVE  /\ TypeOK' /\ History' /\ Frames'
         /\ origin'[heap.here + 1] = [slice |-> Len(slices), node |-> Top.node]
         /\ \A a \in 1..heap.here : origin'[a] = origin[a]
         /\ stack' # <<>>
         /\ Top'.at = "body" /\ Top'.i = 0 /\ Top'.addr = heap.here + 1
         /\ Top'.node = Top.node /\ Top'.parent = Top.parent
         /\ Len(stack') = Len(stack)
         /\ \A j \in 1..(Len(stack) - 1) : stack'[j] = stack[j]
<1> DEFINE n == Len(stack)
           new == heap.here + 1
           f == [Top EXCEPT !.addr = new, !.at = "body"]
           Made == [slice : 1..Len(slices), node : Node]
           made == [slice |-> Len(slices), node |-> Top.node]
<1>1. /\ stack \in Seq(FrameSet(heap.here))
      /\ n \in Nat \ {0}
      /\ Top \in FrameSet(heap.here)
      /\ FrameOK(Top)
      /\ Top.node \in Nodes(script)
      /\ Body \in Seq(Nodes(script))
      /\ slices # <<>>
  BY TopFacts
<1>2. heap.here \in Nat /\ new \in Nat /\ heap'.here = new
  BY TypeFacts DEF AllotsEntry
<1>3. FrameSet(heap.here) \subseteq FrameSet(new)
  <2>1. 0..heap.here \subseteq 0..new
    BY <1>2
  <2> HIDE DEF new
  <2>2. QED
    BY <2>1 DEF FrameSet
<1>4. /\ f \in FrameSet(new)
      /\ f.node = Top.node /\ f.parent = Top.parent
      /\ f.addr = new /\ f.at = "body" /\ f.i = 0
  <2>1. Top.i = 0
    BY <1>1 DEF FrameOK
  <2>2. new \in 0..new /\ "body" \in At /\ Top \in FrameSet(new)
    BY <1>1, <1>2, <1>3 DEF At
  <2> HIDE DEF new
  <2>3. QED
    BY <2>1, <2>2 DEF FrameSet
<1>5. stack \in Seq(FrameSet(new))
  BY <1>1, <1>3
<1> HIDE DEF f, n
<1>6. /\ stack' \in Seq(FrameSet(new))
      /\ Len(stack') = n
      /\ stack'[n] = f
      /\ \A j \in 1..(n - 1) : stack'[j] = stack[j]
  BY <1>4, <1>5, StackOps DEF Resume, n, f
<1>7. stack' # <<>> /\ Top' = f
  BY <1>1, <1>6 DEF Top
<1>8. /\ \A j \in 1..n : j = n \/ j \in 1..(n - 1)
      /\ \A j \in 1..(n - 1) : j \in 1..n /\ j < n
  BY <1>1
<1>9. \A j \in 1..n : stack'[j].node \in Nodes(script)
  BY <1>1, <1>4, <1>6, <1>8 DEF TypeOK, n
<1>10. /\ origin \in Seq(Made)
       /\ Len(origin) = heap.here
       /\ Len(slices) \in 1..Len(slices)
       /\ Top.node \in Node
  BY <1>1, TopFields DEF TypeOK, History
<1>11. made \in Made /\ made.slice = Len(slices) /\ made.node = Top.node
  BY <1>10
<1> HIDE DEF Made, made
<1>12. /\ origin' \in Seq(Made)
       /\ Len(origin') = new
       /\ origin'[new] = made
       /\ \A a \in 1..heap.here : origin'[a] = origin[a]
  BY <1>10, <1>11 DEF made
<1>13. Frames'
  <2>1. script' = script /\ slices' = slices
    BY DEF script
  <2>2. \A g : g = f => FrameOK(g)'
    <3>1. /\ new \in 1..heap'.here
          /\ origin'[new] = [slice |-> Len(slices), node |-> Top.node]
      BY <1>2, <1>12 DEF made
    <3>2. 0 <= Len(script.body[Top.node])
      BY <1>1 DEF Body
    <3>3. QED
      BY <1>2, <1>4, <2>1, <3>1, <3>2 DEF FrameOK
  <2>3. \A g : FrameOK(g) /\ g.at \in {"bodyReturn", "argReturn"} => FrameOK(g)'
    <3>1. \A a \in 1..heap.here : a \in 1..heap'.here
      BY <1>2
    <3>2. QED
      BY <1>12, <2>1, <3>1 DEF FrameOK
  <2>4. \A j \in 1..(n - 1) : /\ FrameOK(stack[j])
                              /\ stack[j].at \in {"bodyReturn", "argReturn"}
                              /\ stack'[j] = stack[j]
    BY <1>6, <1>8 DEF Frames, n
  <2>5. \A j \in 1..Len(stack') : \A g : g = stack'[j] =>
          /\ FrameOK(g)'
          /\ j < Len(stack') => g.at \in {"bodyReturn", "argReturn"}
    BY <1>6, <1>8, <2>2, <2>3, <2>4
  <2>6. QED
    BY <2>5 DEF Frames
<1>14. TypeOK'
  <2>1. Address' = 0..new /\ Address \subseteq Address'
    BY <1>2 DEF Address
  <2>2. /\ heap' \in [here : Nat, heap_size : Nat, entries : [Address' -> Entry]]
        /\ heap'.heap_size = heap'.here + 1
    BY <1>2, <2>1 DEF AllotsEntry, IsHeap
  <2>3. stack' \in Seq([node : Node, parent : Address', addr : Address', at : At, i : Nat])
    BY <1>6, <2>1 DEF FrameSet
  <2>4. \A j \in 1..Len(stack') : stack'[j].node \in Nodes(script)'
    BY <1>6, <1>9 DEF Nodes, script
  <2>5. /\ origin' \in Seq([slice : 1..Len(slices'), node : Node])
        /\ Len(origin') = heap'.here
    BY <1>2, <1>12 DEF Made
  <2>6. /\ \A k \in 1..Len(slices') : WellFormed(slices'[k])
        /\ Len(slices') <= MaxSlices
        /\ slices' # <<>>
    BY <1>1 DEF TypeOK
  <2>7. returned' \in Address'
    BY <2>1 DEF TypeOK
  <2>8. QED
    BY <2>2, <2>3, <2>4, <2>5, <2>6, <2>7 DEF TypeOK
<1>15. QED
  BY <1>4, <1>6, <1>7, <1>12, <1>13, <1>14 DEF History, made, n

\* The allocation that makes a stored HEAP_BODY come true.
LEMMA StepAllocate == IInv /\ Allocate => IInv'
<1> SUFFICES ASSUME IInv, Allocate PROVE IInv'
  OBVIOUS
<1> DEFINE parent == Top.parent
           new == heap.here + 1
           kv  == [key |-> HEAP_PARENT, type |-> "CSH_ADDRESS", value |-> parent]
<1>1. TypeOK /\ History /\ Frames /\ KeysUnique /\ NoDangling /\ Predicted /\ Present
  BY DEF IInv
<1>2. /\ stack # <<>> /\ Top.at = "enter"
      /\ heap' = LET allotted == HeapAlot(heap, script.kind[Top.node])
                 IN HeapPut(allotted, allotted.here, "CSH_ADDRESS", HEAP_PARENT, parent)
      /\ origin' = Append(origin, [slice |-> Len(slices), node |-> Top.node])
      /\ UNCHANGED <<returned, slices>>
  BY DEF Allocate, Running
<1>3. script.kind[Top.node] \in Nat /\ Top \in FrameSet(heap.here)
  BY <1>1, <1>2, TopFacts
<1>4. /\ parent \in Address
      /\ heap.here \in Nat
      /\ Address = 0..heap.here
  BY <1>1, <1>3, TypeFacts DEF FrameSet
<1>5. AllotsEntry(kv)
  BY <1>1, <1>2, <1>3, <1>4, AllotStep
<1>6. stack' = Resume([Top EXCEPT !.addr = new, !.at = "body"])
  BY <1>4 DEF Allocate, HeapAlot
<1>7. /\ TypeOK' /\ History' /\ Frames'
      /\ origin'[new] = [slice |-> Len(slices), node |-> Top.node]
      /\ \A a \in 1..heap.here : origin'[a] = origin[a]
      /\ stack' # <<>>
      /\ Top'.at = "body" /\ Top'.i = 0 /\ Top'.addr = new
  BY <1>1, <1>2, <1>5, <1>6, AllotTypes
<1>8. /\ kv.key = HEAP_PARENT /\ kv.key # HEAP_BODY /\ kv.value = parent
  BY DEF HEAP_PARENT, HEAP_BODY
<1> HIDE DEF kv, parent
<1>9. /\ Address' = 0..new
      /\ heap'.here = new
      /\ new \in Nat
      /\ \A a \in Address : a \in Address'
      /\ new \in Address'
      /\ \A a \in Address' : a \in Address \/ a = new
      /\ \A a \in 1..new : a \in 1..heap.here \/ a = new
      /\ \A a \in 1..heap.here : a \in Address /\ a # new /\ a < new
  BY <1>4, <1>5 DEF Address, AllotsEntry
<1>10. /\ \A a \in Address : heap'.entries[a] = heap.entries[a]
       /\ \A a \in Address : Pairs(heap', a) = Pairs(heap, a)
       /\ Pairs(heap', new) = {kv}
       /\ UniqueIn(heap'.entries[new].kvs)
  BY <1>5 DEF AllotsEntry, Pairs
<1> HIDE DEF new
<1>11. \A a : Pairs(heap, a)' = Pairs(heap', a)
  BY DEF Pairs
<1>12. KeysUnique'
  BY <1>1, <1>9, <1>10 DEF KeysUnique, UniqueIn
<1>13. NoDangling'
  <2>1. heap.here + 1 \in Address'
    BY <1>9 DEF new
  <2>2. \A a \in Address' : \A p \in Pairs(heap', a) :
          p.type = "CSH_ADDRESS" => p.value \in Address'
    BY <1>1, <1>4, <1>8, <1>9, <1>10, <2>1 DEF NoDangling
  <2>3. QED
    BY <1>11, <2>2 DEF NoDangling
<1>14. \A a \in 1..heap.here : /\ ScriptAt(a)' = ScriptAt(a)
                               /\ NodeAt(a)' = NodeAt(a)
                               /\ BodyOf(a)' = BodyOf(a)
                               /\ Displaced(a, HEAP_BODY)' = Displaced(a, HEAP_BODY)
  <2>1. \A a \in 1..heap.here : ScriptAt(a)' = ScriptAt(a) /\ NodeAt(a)' = NodeAt(a)
    BY <1>2, <1>7 DEF ScriptAt, NodeAt
  <2>2. QED
    BY <2>1 DEF BodyOf, Displaced, PutArgs
<1>15. Predicted'
  <2>1. ASSUME NEW a \in 1..heap.here, ~Displaced(a, HEAP_BODY),
               NEW p \in Pairs(heap, a), p.key = HEAP_BODY
        PROVE  /\ BodyOf(a) # <<>>
               /\ p.value = a + 1
               /\ origin'[a + 1] = [slice |-> origin'[a].slice, node |-> Head(BodyOf(a))]
    <3>1. /\ BodyOf(a) # <<>>
          /\ p.value = a + 1
          /\ a < heap.here =>
               origin[a + 1] = [slice |-> origin[a].slice, node |-> Head(BodyOf(a))]
          /\ a = heap.here => /\ origin[a].slice = Len(slices)
                              /\ Top.node = Head(BodyOf(a))
      BY <1>1, <2>1 DEF Predicted
    <3>2. CASE a < heap.here
      <4>1. a + 1 \in 1..heap.here
        BY <1>4, <3>2
      <4>2. QED
        BY <1>7, <3>1, <3>2, <4>1
    <3>3. CASE a = heap.here
      <4>1. a + 1 = new
        BY <3>3 DEF new
      <4>2. QED
        BY <1>7, <3>1, <3>3, <4>1
    <3>4. QED
      BY <1>4, <3>2, <3>3
  <2>2. \A p \in Pairs(heap', new) : p.key # HEAP_BODY
    BY <1>8, <1>10
  <2>3. ASSUME NEW a \in 1..heap'.here, ~Displaced(a, HEAP_BODY)',
               NEW p \in Pairs(heap', a), p.key = HEAP_BODY
        PROVE  /\ BodyOf(a)' # <<>>
               /\ p.value = a + 1
               /\ origin'[a + 1] = [slice |-> origin'[a].slice, node |-> Head(BodyOf(a)')]
               /\ a # heap'.here
    <3>1. a \in 1..heap.here
      BY <1>9, <2>2, <2>3
    <3>2. ~Displaced(a, HEAP_BODY) /\ p \in Pairs(heap, a) /\ a # heap'.here
      BY <1>9, <1>10, <1>14, <2>3, <3>1
    <3>3. QED
      BY <1>14, <2>1, <2>3, <3>1, <3>2
  <2>4. QED
    BY <1>11, <2>3 DEF Predicted
<1>16. Present'
  <2>1. ASSUME NEW a \in 1..heap'.here, BodyOf(a)' # <<>>
        PROVE  (\E q \in Pairs(heap', a) : q.key = HEAP_BODY) \/ a = new
    <3>1. CASE a \in 1..heap.here
      <4>1. BodyOf(a) # <<>> /\ Pairs(heap', a) = Pairs(heap, a)
        BY <1>9, <1>10, <1>14, <2>1, <3>1
      <4>2. ~Running("body")
        BY <1>2 DEF Running
      <4>3. QED
        BY <1>1, <3>1, <4>1, <4>2 DEF Present
    <3>2. QED
      BY <1>9, <3>1
  <2>2. \A a : a = new => (Running("body") /\ Top.i = 0 /\ Top.addr = a)'
    BY <1>7 DEF Running
  <2>3. QED
    BY <1>11, <2>1, <2>2 DEF Present
<1>17. QED
  BY <1>7, <1>12, <1>13, <1>15, <1>16 DEF IInv

-----------------------------------------------------------------------------
(* The invariant and what follows from it *)

LEMMA StepIInv == IInv /\ [Next]_vars => IInv'
<1> SUFFICES ASSUME IInv, [Next]_vars PROVE IInv'
  OBVIOUS
<1>1. CASE Slice
  BY <1>1, StepSlice
<1>2. CASE Allocate
  BY <1>2, StepAllocate
<1>3. CASE BodyFirst
  BY <1>3, StepBodyFirst
<1>4. CASE BodyOther
  BY <1>4, StepBodyOther
<1>5. CASE BodyReturned
  BY <1>5, StepBodyReturned
<1>6. CASE BodyDone
  BY <1>6, StepBodyDone
<1>7. CASE ArgNode
  BY <1>7, StepArgNode
<1>8. CASE ArgReturned
  BY <1>8, StepArgReturned
<1>9. CASE ArgLeaf
  BY <1>9, StepArgLeaf
<1>10. CASE ArgSkipped
  BY <1>10, StepArgSkipped
<1>11. CASE Return
  BY <1>11, StepReturn
<1>12. CASE UNCHANGED vars
  <2>1. /\ heap' = heap /\ stack' = stack /\ returned' = returned
        /\ slices' = slices /\ origin' = origin
    BY <1>12 DEF vars
  <2>2. /\ Address' = Address
        /\ script' = script /\ Top' = Top
        /\ \A a : Pairs(heap, a)' = Pairs(heap, a)
        /\ \A at : Running(at)' = Running(at)
    BY <2>1 DEF Address, script, Top, Pairs, Running
  <2>3. \A a : /\ BodyOf(a)' = BodyOf(a)
               /\ Displaced(a, HEAP_BODY)' = Displaced(a, HEAP_BODY)
               /\ AboutToAllocate(a)' = AboutToAllocate(a)
    BY <2>1, <2>2 DEF ScriptAt, NodeAt, BodyOf, Displaced, PutArgs, AboutToAllocate
  <2>4. TypeOK' /\ History'
    BY <2>1, <2>2 DEF IInv, TypeOK, History, Nodes
  <2>5. \A f : FrameOK(f)' = FrameOK(f)
    BY <2>1, <2>2 DEF FrameOK
  <2>6. Frames'
    BY <2>1, <2>5 DEF IInv, Frames
  <2>7. KeysUnique' /\ NoDangling'
    BY <2>1, <2>2, <2>3 DEF IInv, KeysUnique, NoDangling
  <2>8. Predicted' /\ Present'
    BY <2>1, <2>2, <2>3 DEF IInv, Predicted, Present
  <2>9. QED
    BY <2>4, <2>6, <2>7, <2>8 DEF IInv
<1>13. QED
  BY <1>1, <1>2, <1>3, <1>4, <1>5, <1>6, <1>7, <1>8, <1>9, <1>10, <1>11, <1>12 DEF Next

\* The inductive invariant holds of every reachable state of the slicer.
THEOREM Invariance == Spec => []IInv
BY InitIInv, StepIInv, PTL DEF Spec

\* Every state of the slicer is well typed: the heap has as many entries as it
\* says, and every address a call holds is that of an entry.
THEOREM TypeCorrect == Spec => []TypeOK
<1>1. IInv => TypeOK
  BY DEF IInv
<1>2. QED
  BY <1>1, Invariance, PTL

\* heap_put never leaves two pairs with one key in an entry.
THEOREM UniqueKeys == Spec => []KeysUnique
<1>1. IInv => KeysUnique
  BY DEF IInv
<1>2. QED
  BY <1>1, Invariance, PTL

\* Every address in the heap is that of an entry, but for the one of a first
\* child stored one step ahead of its allocation.
THEOREM NoDanglingAddress == Spec => []NoDangling
<1>1. IInv => NoDangling
  BY DEF IInv
<1>2. QED
  BY <1>1, Invariance, PTL

\* The address slicer_iterate_over_body predicts for a first child is that of
\* the entry made for it, and every node that has a body gets one.
THEOREM BodyPrediction == Spec => []BodyLink
<1>1. IInv => BodyLink
  <2> SUFFICES ASSUME IInv PROVE BodyLink
    OBVIOUS
  <2>1. Address \ {0} = 1..heap.here
    BY TypeFacts DEF IInv
  <2>2. Sliced => ~Running("body")
    BY DEF Sliced, Running
  <2>3. QED
    BY <2>1, <2>2 DEF IInv, Predicted, Present, BodyLink, BodyOf
<1>2. QED
  BY <1>1, Invariance, PTL


-----------------------------------------------------------------------------
(* Where the entries lead: the invariant *)

ArgsOf(a) == ScriptAt(a).args[NodeAt(a)]

\* Entry b was made for a node of the script of entry a.
EntryFor(a, node, b) ==
  b \in 1..heap.here /\ origin[b] = [slice |-> origin[a].slice, node |-> node]

\* HEAP_NEXT after k items of the body, HEAP_PARENT, and the arguments after m.
NextSoFar(a, k) ==
  ~Displaced(a, HEAP_NEXT) =>
    /\ \A kv \in Pairs(heap, a) : kv.key = HEAP_NEXT =>
         k # 0 /\ IF k = 1 THEN kv.value = 0 ELSE EntryFor(a, BodyOf(a)[k], kv.value)
    /\ k # 0 => \E kv \in Pairs(heap, a) : kv.key = HEAP_NEXT

ParentSoFar(a) ==
  ~Displaced(a, HEAP_PARENT) =>
    /\ \A kv \in Pairs(heap, a) : kv.key = HEAP_PARENT =>
         \/ NodeAt(a) = ScriptAt(a).root /\ kv.value = 0
         \/ \E p \in Nodes(ScriptAt(a)) :
              NodeAt(a) \in ChildrenOf(ScriptAt(a), p) /\ EntryFor(a, p, kv.value)
    /\ \E kv \in Pairs(heap, a) : kv.key = HEAP_PARENT

Leads(a, arg, kv) ==
  /\ kv.key = arg.kind
  /\ IF arg.type = "CS_CELERYSCRIPT"
     THEN kv.type = "CSH_ADDRESS" /\ EntryFor(a, arg.value, kv.value)
     ELSE kv.type = HeapType(arg.type) /\ kv.value = arg.value

ArgsSoFar(a, m) ==
  \A i \in PutArgs(a) :
    i <= m /\ (\A j \in PutArgs(a) : j <= m /\ ArgsOf(a)[j].kind = ArgsOf(a)[i].kind => j <= i) =>
      \E kv \in Pairs(heap, a) : Leads(a, ArgsOf(a)[i], kv)

LinkedSoFar(a, k, m) == NextSoFar(a, k) /\ ArgsSoFar(a, m)

\* How much of its body and its arguments a call is done with.
BodyCount(f) == IF f.at \in {"body", "bodyReturn"} THEN f.i ELSE Len(script.body[f.node])
ArgCount(f) == IF f.at \in {"body", "bodyReturn"} THEN 0 ELSE f.i

Works(f, a) == f.at # "enter" /\ f.addr = a

\* The entry of a call in progress is linked as far as the call has come, any
\* other to the end.
CallLinked(f) == f.at # "enter" => LinkedSoFar(f.addr, BodyCount(f), ArgCount(f))
LinksSoFar ==
  /\ \A j \in 1..Len(stack) : CallLinked(stack[j])
  /\ \A a \in 1..heap.here : (\A j \in 1..Len(stack) : ~Works(stack[j], a)) =>
       LinkedSoFar(a, Len(BodyOf(a)), Len(ArgsOf(a)))
  /\ \A a \in 1..heap.here : ParentSoFar(a)

\* A node of the script being sliced that has no entry yet.
Fresh(n) == \A b \in 1..heap.here : origin[b] # [slice |-> Len(slices), node |-> n]

\* The child a call waits for, and those it has not come to yet.
Pending(f) == IF f.at = "bodyReturn" THEN script.body[f.node][f.i + 1]
                                     ELSE script.args[f.node][f.i + 1].value
AheadBody(f) ==
  { k \in DOMAIN script.body[f.node] :
      (f.at = "body" /\ k > f.i) \/ (f.at = "bodyReturn" /\ k > f.i + 1) }
AheadArgs(f) ==
  { k \in NodeArgs(script, f.node) :
      \/ f.at \in {"body", "bodyReturn"}
      \/ f.at = "args" /\ k > f.i
      \/ f.at = "argReturn" /\ k > f.i + 1 }
Ahead(f) ==
  { script.body[f.node][k] : k \in AheadBody(f) }
  \cup { script.args[f.node][k].value : k \in AheadArgs(f) }

\* The calls in progress are a path down the script from its root, and have
\* entries of their own; what they have not come to has none.
AllFresh(f) == IF f.at = "enter" THEN Fresh(f.node) ELSE \A n \in Ahead(f) : Fresh(n)
Path ==
  \A j \in 1..Len(stack) :
    /\ AllFresh(stack[j])
    /\ j = 1 => stack[j].node = script.root /\ stack[j].parent = 0
    /\ j > 1 => stack[j].node = Pending(stack[j - 1]) /\ stack[j].parent = stack[j - 1].addr
    /\ \A k \in 1..Len(stack) : stack[k].at # "enter" /\ Works(stack[j], stack[k].addr) => j = k

\* No node has two entries, and no child has one before its parent.
Once ==
  /\ \A a, b \in 1..heap.here : origin[a] = origin[b] => a = b
  /\ slices # <<>> =>
       \A p \in Nodes(script) : \A n \in ChildrenOf(script, p) : ~Fresh(n) => ~Fresh(p)

\* The address returned to a call is that of the child it waited for.
Answer ==
  stack # <<>> /\ Top.at \in {"bodyReturn", "argReturn"} =>
    /\ returned \in 1..heap.here
    /\ origin[returned] = [slice |-> Len(slices), node |-> Pending(Top)]

\* Entries were made for nodes of their scripts.
Placed == \A a \in 1..heap.here : NodeAt(a) \in Nodes(ScriptAt(a))

Tracks == Placed /\ Path /\ Once /\ Answer /\ LinksSoFar

-----------------------------------------------------------------------------
(* What entries keep, and what a pair put changes *)

\* A step that adds entries and scripts and changes none.
Grows ==
  /\ heap'.here \in Nat /\ heap.here <= heap'.here
  /\ \A a \in 1..heap.here : origin'[a] = origin[a]
  /\ \A k \in 1..Len(slices) : slices'[k] = slices[k]

LEMMA EntryKept ==
  ASSUME TypeOK, Grows, NEW a \in 1..heap.here
  PROVE  /\ a \in 1..heap'.here
         /\ ScriptAt(a)' = ScriptAt(a) /\ NodeAt(a)' = NodeAt(a)
         /\ BodyOf(a)' = BodyOf(a) /\ ArgsOf(a)' = ArgsOf(a) /\ PutArgs(a)' = PutArgs(a)
         /\ \A key : Displaced(a, key)' <=> Displaced(a, key)
         /\ \A node, b : EntryFor(a, node, b) => EntryFor(a, node, b)'
<1>1. heap.here \in Nat /\ origin[a].slice \in 1..Len(slices)
  BY TypeFacts
<1>2. ScriptAt(a)' = ScriptAt(a) /\ NodeAt(a)' = NodeAt(a)
  BY <1>1 DEF ScriptAt, NodeAt, Grows
<1>3. /\ BodyOf(a)' = BodyOf(a) /\ ArgsOf(a)' = ArgsOf(a) /\ PutArgs(a)' = PutArgs(a)
      /\ \A key : Displaced(a, key)' <=> Displaced(a, key)
  BY <1>2 DEF BodyOf, ArgsOf, PutArgs, Displaced
<1>4. \A b \in 1..heap.here : b \in 1..heap'.here
  BY <1>1 DEF Grows
<1>5. \A node, b : EntryFor(a, node, b) => EntryFor(a, node, b)'
  BY <1>4 DEF EntryFor, Grows
<1>6. QED
  BY <1>2, <1>3, <1>4, <1>5

LEMMA SoFarKept ==
  ASSUME TypeOK, Grows, NEW a \in 1..heap.here, Pairs(heap', a) = Pairs(heap, a)
  PROVE  /\ \A k, m : LinkedSoFar(a, k, m) => LinkedSoFar(a, k, m)'
         /\ ParentSoFar(a) => ParentSoFar(a)'
<1>1. /\ ScriptAt(a)' = ScriptAt(a) /\ NodeAt(a)' = NodeAt(a)
      /\ BodyOf(a)' = BodyOf(a) /\ ArgsOf(a)' = ArgsOf(a) /\ PutArgs(a)' = PutArgs(a)
      /\ \A key : Displaced(a, key)' <=> Displaced(a, key)
      /\ \A node, b : EntryFor(a, node, b) => EntryFor(a, node, b)'
  BY EntryKept
<1>2. Pairs(heap, a)' = Pairs(heap, a)
  BY DEF Pairs
<1>3. \A k : NextSoFar(a, k) => NextSoFar(a, k)'
  BY <1>1, <1>2 DEF NextSoFar
<1>4. \A arg, kv : Leads(a, arg, kv) => Leads(a, arg, kv)'
  BY <1>1 DEF Leads
<1>5. \A m : ArgsSoFar(a, m) => ArgsSoFar(a, m)'
  BY <1>1, <1>2, <1>4 DEF ArgsSoFar
<1>6. ParentSoFar(a) => ParentSoFar(a)'
  <2>1. Nodes(ScriptAt(a))' = Nodes(ScriptAt(a))
    BY <1>1 DEF Nodes
  <2>2. \A p : ChildrenOf(ScriptAt(a), p)' = ChildrenOf(ScriptAt(a), p)
    BY <1>1 DEF ChildrenOf, NodeArgs
  <2>3. QED
    BY <1>1, <1>2, <2>1, <2>2 DEF ParentSoFar
<1>7. QED
  BY <1>3, <1>5, <1>6 DEF LinkedSoFar

\* Under another key the pairs are those there were, under its own there is one.
LEMMA OtherKeys ==
  ASSUME TypeOK, KeysUnique, NEW adr \in Address, NEW kv, PutsPair(adr, kv)
  PROVE  /\ kv \in Pairs(heap', adr)
         /\ \A p : p.key # kv.key => (p \in Pairs(heap', adr) <=> p \in Pairs(heap, adr))
         /\ \A p \in Pairs(heap', adr) : p.key = kv.key => p = kv
<1>1. /\ kv \in Pairs(heap', adr)
      /\ \A p \in Pairs(heap', adr) : p = kv \/ (p \in Pairs(heap, adr) /\ p.key # kv.key)
      /\ \A p \in Pairs(heap, adr) : \E q \in Pairs(heap', adr) : q.key = p.key
  BY DEF PutsPair
<1>2. \A p, q \in Pairs(heap, adr) : p.key = q.key => p = q
  BY DEF Pairs, ToSet, KeysUnique
<1>3. QED
  BY <1>1, <1>2

\* A pair put under a key that is no link, or one an argument displaces, leaves the
\* links alone.
LEMMA LinksStay ==
  ASSUME TypeOK, KeysUnique, Grows, NEW a \in 1..heap.here, NEW kv, PutsPair(a, kv),
         NEW key, kv.key = key, NEW k
  PROVE  /\ NextSoFar(a, k) /\ (key = HEAP_NEXT => Displaced(a, key)) => NextSoFar(a, k)'
         /\ ParentSoFar(a) /\ (key = HEAP_PARENT => Displaced(a, key)) => ParentSoFar(a)'
<1>1. /\ ScriptAt(a)' = ScriptAt(a) /\ NodeAt(a)' = NodeAt(a)
      /\ BodyOf(a)' = BodyOf(a)
      /\ \A l : Displaced(a, l)' <=> Displaced(a, l)
      /\ \A node, b : EntryFor(a, node, b) => EntryFor(a, node, b)'
  BY EntryKept
<1>2. /\ Pairs(heap, a)' = Pairs(heap', a)
      /\ \A p : p.key # kv.key => (p \in Pairs(heap', a) <=> p \in Pairs(heap, a))
  <2>1. a \in Address
    BY TypeFacts
  <2>2. QED
    BY <2>1, OtherKeys DEF Pairs
<1>3. NextSoFar(a, k) /\ (key = HEAP_NEXT => Displaced(a, key)) => NextSoFar(a, k)'
  BY <1>1, <1>2 DEF NextSoFar
<1>4. ParentSoFar(a) /\ (key = HEAP_PARENT => Displaced(a, key)) => ParentSoFar(a)'
  <2>1. Nodes(ScriptAt(a))' = Nodes(ScriptAt(a))
    BY <1>1 DEF Nodes
  <2>2. \A p : ChildrenOf(ScriptAt(a), p)' = ChildrenOf(ScriptAt(a), p)
    BY <1>1 DEF ChildrenOf, NodeArgs
  <2>3. QED
    BY <1>1, <1>2, <2>1, <2>2 DEF ParentSoFar
<1>5. QED
  BY <1>3, <1>4

\* HEAP_NEXT after one more item of the body.
LEMMA NextGoesOn ==
  ASSUME TypeOK, KeysUnique, Grows, NEW a \in 1..heap.here, NEW i \in Nat, NEW value,
         PutsPair(a, [key |-> HEAP_NEXT, type |-> "CSH_ADDRESS", value |-> value]),
         IF i = 0 THEN value = 0 ELSE EntryFor(a, BodyOf(a)[i + 1], value)
  PROVE  NextSoFar(a, i + 1)'
<1> DEFINE kv == [key |-> HEAP_NEXT, type |-> "CSH_ADDRESS", value |-> value]
<1>1. kv.key = HEAP_NEXT /\ kv.value = value
  OBVIOUS
<1> HIDE DEF kv
<1>2. BodyOf(a)' = BodyOf(a) /\ \A node, b : EntryFor(a, node, b) => EntryFor(a, node, b)'
  BY EntryKept
<1>3. /\ Pairs(heap, a)' = Pairs(heap', a) /\ kv \in Pairs(heap', a)
      /\ \A p \in Pairs(heap', a) : p.key = kv.key => p = kv
  <2>1. a \in Address /\ PutsPair(a, kv)
    BY TypeFacts DEF kv
  <2>2. QED
    BY <2>1, OtherKeys DEF Pairs
<1>4. i + 1 # 0 /\ (i + 1 = 1 <=> i = 0)
  OBVIOUS
<1> DEFINE n == i + 1
<1>5. IF n = 1 THEN value = 0 ELSE EntryFor(a, BodyOf(a)[n], value)'
  BY <1>2, <1>4
<1> HIDE DEF n
<1>6. n # 0
  BY <1>4 DEF n
<1>7. NextSoFar(a, n)'
  BY <1>1, <1>2, <1>3, <1>5, <1>6 DEF NextSoFar
<1>8. QED
  BY <1>7 DEF n

\* Arguments are a sequence.
LEMMA ArgsOfSeq ==
  ASSUME TypeOK, Placed, NEW a \in 1..heap.here
  PROVE  /\ ArgsOf(a) \in Seq([kind : Nat, type : ArgType, value : Node \cup LeafValue])
         /\ BodyOf(a) \in Seq(Nodes(ScriptAt(a)))
         /\ WellFormed(ScriptAt(a))
         /\ PutArgs(a) \subseteq 1..Len(ArgsOf(a))
<1>1. WellFormed(ScriptAt(a)) /\ NodeAt(a) \in Nodes(ScriptAt(a))
  BY TypeFacts DEF TypeOK, ScriptAt, Placed
<1>2. /\ ArgsOf(a) \in Seq([kind : Nat, type : ArgType, value : Node \cup LeafValue])
      /\ BodyOf(a) \in Seq(Nodes(ScriptAt(a)))
  BY <1>1 DEF WellFormed, ArgsOf, BodyOf
<1>3. PutArgs(a) \subseteq 1..Len(ArgsOf(a))
  BY <1>2 DEF PutArgs, ArgsOf
<1>4. QED
  BY <1>1, <1>2, <1>3

\* No arguments yet.
LEMMA NoArgs ==
  ASSUME NEW a, PutArgs(a) \subseteq 1..Len(ArgsOf(a))
  PROVE  ArgsSoFar(a, 0)
<1>1. \A i \in PutArgs(a) : ~(i <= 0)
  OBVIOUS
<1>2. QED
  BY <1>1 DEF ArgsSoFar

\* An argument put after m others.
LEMMA ArgsGoOn ==
  ASSUME TypeOK, KeysUnique, Placed, Grows, NEW a \in 1..heap.here, NEW m \in Nat,
         NEW kv, PutsPair(a, kv), ArgsSoFar(a, m), m + 1 \in PutArgs(a),
         kv.key = ArgsOf(a)[m + 1].kind,
         Leads(a, ArgsOf(a)[m + 1], kv)
  PROVE  ArgsSoFar(a, m + 1)'
<1> DEFINE n == m + 1
<1>1. /\ ArgsOf(a)' = ArgsOf(a) /\ PutArgs(a)' = PutArgs(a)
      /\ \A node, b : EntryFor(a, node, b) => EntryFor(a, node, b)'
  BY EntryKept
<1>2. \A arg, p : Leads(a, arg, p) => Leads(a, arg, p)'
  BY <1>1 DEF Leads
<1>3. /\ Pairs(heap, a)' = Pairs(heap', a) /\ kv \in Pairs(heap', a)
      /\ \A p : p.key # kv.key => (p \in Pairs(heap', a) <=> p \in Pairs(heap, a))
  <2>1. a \in Address
    BY TypeFacts
  <2>2. QED
    BY <2>1, OtherKeys DEF Pairs
<1>4. \A i \in PutArgs(a) : /\ i <= n <=> i <= m \/ i = n
                            /\ n <= i /\ i <= n => i = n
  <2>1. PutArgs(a) \subseteq Nat
    BY ArgsOfSeq
  <2>2. QED
    BY <2>1
<1>5. ~(n <= m)
  OBVIOUS
<1>6. n \in PutArgs(a) /\ Leads(a, ArgsOf(a)[n], kv) /\ kv.key = ArgsOf(a)[n].kind
  OBVIOUS
<1>7. n <= n
  OBVIOUS
<1> HIDE DEF n
<1>8. ASSUME NEW i \in PutArgs(a), i <= n,
             \A j \in PutArgs(a) : j <= n /\ ArgsOf(a)[j].kind = ArgsOf(a)[i].kind => j <= i
      PROVE  \E p \in Pairs(heap', a) : Leads(a, ArgsOf(a)[i], p)'
  <2>1. CASE i = n
    BY <1>1, <1>2, <1>3, <1>6, <2>1
  <2>2. CASE i # n
    <3>1. i <= m
      BY <1>4, <1>8, <2>2
    <3>2. ArgsOf(a)[n].kind # ArgsOf(a)[i].kind
      BY <1>4, <1>6, <1>7, <1>8, <2>2
    <3>3. \A j \in PutArgs(a) : j <= m /\ ArgsOf(a)[j].kind = ArgsOf(a)[i].kind => j <= i
      BY <1>4, <1>8
    <3>4. PICK p \in Pairs(heap, a) : Leads(a, ArgsOf(a)[i], p)
      BY <3>1, <3>3 DEF ArgsSoFar
    <3>5. p.key # kv.key
      BY <1>6, <3>2, <3>4 DEF Leads
    <3>6. QED
      BY <1>1, <1>2, <1>3, <3>4, <3>5
  <2>3. QED
    BY <2>1, <2>2
<1>9. ArgsSoFar(a, n)'
  BY <1>1, <1>3, <1>8 DEF ArgsSoFar
<1>10. QED
  BY <1>9 DEF n

\* An argument left out after m others.
LEMMA ArgsSkip ==
  ASSUME TypeOK, Placed, NEW a \in 1..heap.here, NEW m \in Nat,
         ArgsSoFar(a, m), m + 1 \notin PutArgs(a)
  PROVE  ArgsSoFar(a, m + 1)
<1> DEFINE n == m + 1
<1>1. \A i \in PutArgs(a) : i <= n <=> i <= m
  <2>1. PutArgs(a) \subseteq Nat
    BY ArgsOfSeq
  <2>2. QED
    BY <2>1
<1> HIDE DEF n
<1>2. ArgsSoFar(a, n)
  BY <1>1 DEF ArgsSoFar
<1>3. QED
  BY <1>2 DEF n
-----------------------------------------------------------------------------
(* The calls and their links, when the innermost call goes on *)

\* A step of the innermost call, after which it goes on or waits for a child.
Turns(at, i) ==
  \/ /\ at \in {"body", "args"}
     /\ stack' = Resume(Moved(at, i))
  \/ /\ at \in {"bodyReturn", "argReturn"}
     /\ stack' = Call(Resume(Moved(at, i)), Pending(Moved(at, i)), Top.addr)
     /\ Pending(Moved(at, i)) \in Ahead(Top) \cap Nodes(script)

\* The frames after such a step: those before it, the innermost one moved on, and
\* perhaps the call it made.
Entered(f) == [node |-> Pending(f), parent |-> f.addr, addr |-> 0, at |-> "enter", i |-> 0]

LEMMA Shape ==
  ASSUME TypeOK, History, Frames, stack # <<>>, NEW at, NEW i \in Nat, Turns(at, i)
  PROVE  /\ Len(stack) \in Nat \ {0}
         /\ \A j \in 1..(Len(stack) - 1) : stack'[j] = stack[j]
         /\ stack'[Len(stack)] = Moved(at, i)
         /\ \/ Len(stack') = Len(stack) /\ at \in {"body", "args"}
            \/ /\ Len(stack') = Len(stack) + 1
               /\ stack'[Len(stack) + 1] = Entered(Moved(at, i))
               /\ Pending(Moved(at, i)) \in Ahead(Top)
<1> DEFINE f == Moved(at, i)
           d == Len(stack)
<1>1. /\ stack \in Seq(FrameSet(heap.here))
      /\ d \in Nat \ {0}
  BY TopFacts
<1>2. at \in At
  BY DEF Turns, At
<1>3. f \in FrameSet(heap.here) /\ f.addr = Top.addr
  BY <1>2, FrameMoves
<1> HIDE DEF f
<1>4. /\ Resume(f) \in Seq(FrameSet(heap.here))
      /\ Len(Resume(f)) = d
      /\ Resume(f)[d] = f
      /\ \A j \in 1..(d - 1) : Resume(f)[j] = stack[j]
  BY <1>1, <1>3, StackOps DEF Resume
<1>5. CASE at \in {"body", "args"} /\ stack' = Resume(f)
  BY <1>1, <1>4, <1>5 DEF f
<1>6. CASE /\ stack' = Call(Resume(f), Pending(f), Top.addr)
           /\ Pending(f) \in Ahead(Top) \cap Nodes(script)
  <2> DEFINE g == Entered(f)
  <2>1. g \in FrameSet(heap.here)
    <3>1. /\ Pending(f) \in Node
          /\ f.addr \in 0..heap.here /\ 0 \in 0..heap.here
          /\ "enter" \in At
      <4>1. heap.here \in Nat
        BY TypeFacts
      <4>2. 0 \in 0..heap.here /\ "enter" \in At
        BY <4>1 DEF At
      <4>3. f.addr \in 0..heap.here
        BY <1>3 DEF FrameSet
      <4>4. Nodes(script) \subseteq Node
        BY TopFacts DEF WellFormed
      <4>5. QED
        BY <1>6, <4>2, <4>3, <4>4
    <3>2. QED
      BY <3>1 DEF FrameSet, Entered
  <2>2. stack' = Append(Resume(f), g)
    BY <1>3, <1>6 DEF Call, Entered
  <2> HIDE DEF g
  <2>3. /\ Len(stack') = d + 1
        /\ stack'[d + 1] = g
        /\ \A j \in 1..d : stack'[j] = Resume(f)[j]
    BY <1>4, <2>1, <2>2, StackOps
  <2>4. d \in 1..d /\ \A j \in 1..(d - 1) : j \in 1..d
    BY <1>1
  <2>5. QED
    BY <1>1, <1>4, <1>6, <2>3, <2>4 DEF f, g
<1>7. QED
  BY <1>5, <1>6 DEF Turns, f

\* Where the entry of the innermost call stands after the step.
Continues(at, i) ==
  \A a, k, m : a = Top.addr /\ k = BodyCount(Moved(at, i)) /\ m = ArgCount(Moved(at, i)) =>
    LinkedSoFar(a, k, m)' /\ ParentSoFar(a)'

\* What a step that keeps the histories leaves as it is.
LEMMA ScriptKept ==
  ASSUME Keeps
  PROVE  /\ script' = script
         /\ \A n : Fresh(n)' <=> Fresh(n)
         /\ \A f : /\ Pending(f)' = Pending(f)
                   /\ Ahead(f)' = Ahead(f)
                   /\ AllFresh(f)' <=> AllFresh(f)
                   /\ BodyCount(f)' = BodyCount(f)
                   /\ ArgCount(f)' = ArgCount(f)
<1>1. script' = script /\ heap'.here = heap.here /\ origin' = origin /\ slices' = slices
  BY DEF Keeps, script
<1>2. \A n : Fresh(n)' <=> Fresh(n)
  BY <1>1 DEF Fresh
<1>3. \A f : /\ Pending(f)' = Pending(f)
            /\ BodyCount(f)' = BodyCount(f)
            /\ ArgCount(f)' = ArgCount(f)
  BY <1>1 DEF Pending, BodyCount, ArgCount
<1>4. \A f : Ahead(f)' = Ahead(f)
  BY <1>1 DEF Ahead, AheadBody, AheadArgs, NodeArgs
<1>5. \A f : AllFresh(f)' <=> AllFresh(f)
  BY <1>2, <1>4 DEF AllFresh
<1>6. QED
  BY <1>1, <1>2, <1>3, <1>4, <1>5

\* What Path says of the call at place j, and of two calls with one entry.
PathAt(j) ==
  /\ AllFresh(stack[j])
  /\ j = 1 => stack[j].node = script.root /\ stack[j].parent = 0
  /\ j > 1 => stack[j].node = Pending(stack[j - 1]) /\ stack[j].parent = stack[j - 1].addr
OwnEntry(j, k) ==
  stack[j].at # "enter" /\ stack[k].at # "enter" /\ stack[j].addr = stack[k].addr => j = k

LEMMA TurningPath ==
  ASSUME IInv, Path, Keeps, stack # <<>>, Top.at # "enter",
         NEW at, NEW i \in Nat, Turns(at, i), Ahead(Moved(at, i)) \subseteq Ahead(Top)
  PROVE  Path'
<1> DEFINE f == Moved(at, i)
           d == Len(stack)
<1>1. TypeOK /\ History /\ Frames
  BY DEF IInv
<1>2. /\ d \in Nat \ {0}
      /\ \A j \in 1..(d - 1) : stack'[j] = stack[j]
      /\ stack'[d] = f
      /\ \/ Len(stack') = d
         \/ /\ Len(stack') = d + 1
            /\ stack'[d + 1] = Entered(f)
            /\ Pending(f) \in Ahead(Top)
  BY <1>1, Shape
<1>3. at \in At /\ at # "enter" /\ Top = stack[d]
  BY DEF Turns, At, Top
<1>4. /\ f.node = Top.node /\ f.addr = Top.addr /\ f.at = at
      /\ f.parent = Top.parent
  <2>1. Top \in FrameSet(heap.here)
    BY <1>1, TopFacts
  <2>2. f.parent = Top.parent
    BY <2>1 DEF FrameSet, Moved
  <2>3. QED
    BY <1>1, <1>3, <2>2, FrameMoves
<1>5. \A j \in 1..d : PathAt(j) /\ \A k \in 1..d : OwnEntry(j, k)
  BY DEF Path, PathAt, OwnEntry, Works
<1>6. /\ script' = script
      /\ \A n : Fresh(n)' <=> Fresh(n)
      /\ \A g : Pending(g)' = Pending(g) /\ (AllFresh(g)' <=> AllFresh(g))
  BY ScriptKept
<1>7. \A n \in Ahead(Top) : Fresh(n)
  BY <1>2, <1>3, <1>5 DEF PathAt, AllFresh
<1>8. AllFresh(f)
  BY <1>3, <1>4, <1>7 DEF AllFresh
<1>9. /\ \A j \in 1..(d - 1) : j \in 1..d /\ j # d /\ j # d + 1 /\ (j > 1 => j - 1 \in 1..(d - 1))
      /\ d \in 1..d /\ (d > 1 => d - 1 \in 1..(d - 1)) /\ d + 1 > 1 /\ d + 1 # 1 /\ (d + 1) - 1 = d
      /\ \A j \in 1..d : j = d \/ j \in 1..(d - 1)
      /\ \A j \in 1..(d + 1) : j = d + 1 \/ j = d \/ j \in 1..(d - 1)
  BY <1>2
<1>10. /\ Entered(f).at = "enter" /\ Entered(f).node = Pending(f) /\ Entered(f).parent = f.addr
  BY DEF Entered
<1> HIDE DEF f, d
<1>11. ASSUME NEW j \in 1..(d - 1) PROVE PathAt(j)'
  <2>1. PathAt(j) /\ stack'[j] = stack[j] /\ (j > 1 => stack'[j - 1] = stack[j - 1])
    BY <1>2, <1>5, <1>9
  <2>2. QED
    BY <1>6, <2>1 DEF PathAt
<1>12. ASSUME NEW j, j = d PROVE PathAt(j)'
  <2>1. PathAt(j) /\ stack'[j] = f /\ stack[j] = Top /\ (j > 1 => stack'[j - 1] = stack[j - 1])
    BY <1>2, <1>3, <1>5, <1>9, <1>12
  <2>2. \A g : g = f => AllFresh(g)'
    BY <1>6, <1>8
  <2>3. QED
    BY <1>4, <1>6, <2>1, <2>2 DEF PathAt
<1>13. ASSUME NEW j, j = d + 1, Len(stack') = d + 1 PROVE PathAt(j)'
  <2>1. stack'[j] = Entered(f) /\ stack'[j - 1] = f /\ j > 1 /\ j # 1 /\ Fresh(Pending(f))
    BY <1>2, <1>7, <1>9, <1>13
  <2>2. \A g : g = Entered(f) => AllFresh(g)'
    BY <1>6, <1>10, <2>1 DEF AllFresh
  <2>3. QED
    BY <1>6, <1>10, <2>1, <2>2 DEF PathAt
<1>14. \A j \in 1..Len(stack') : PathAt(j)'
  BY <1>2, <1>9, <1>11, <1>12, <1>13
<1>15. \A j \in 1..Len(stack') : stack'[j].at # "enter" =>
         j \in 1..d /\ stack[j].at # "enter" /\ stack'[j].addr = stack[j].addr
  BY <1>2, <1>3, <1>4, <1>9, <1>10
<1>16. \A j, k \in 1..Len(stack') : OwnEntry(j, k)'
  BY <1>5, <1>15 DEF OwnEntry
<1>17. QED
  BY <1>14, <1>16 DEF Path, PathAt, OwnEntry, Works

\* The entries a step keeps that keeps the histories.
LEMMA KeepsGrows ==
  ASSUME TypeOK, Keeps
  PROVE  Grows
<1>1. heap.here \in Nat
  BY TypeFacts
<1>2. QED
  BY <1>1 DEF Keeps, Grows

LEMMA TurningLinks ==
  ASSUME IInv, Path, LinksSoFar, Keeps, stack # <<>>, Top.at # "enter",
         NEW at, NEW i \in Nat, Turns(at, i), Continues(at, i),
         \A b \in Address : b # Top.addr => Pairs(heap', b) = Pairs(heap, b)
  PROVE  LinksSoFar'
<1> DEFINE f == Moved(at, i)
           d == Len(stack)
<1>1. TypeOK /\ History /\ Frames
  BY DEF IInv
<1>2. /\ d \in Nat \ {0}
      /\ \A j \in 1..(d - 1) : stack'[j] = stack[j]
      /\ stack'[d] = f
      /\ \/ Len(stack') = d
         \/ /\ Len(stack') = d + 1
            /\ stack'[d + 1] = Entered(f)
  BY <1>1, Shape
<1>3. at \in At /\ at # "enter" /\ Top = stack[d]
  BY DEF Turns, At, Top
<1>4. f.node = Top.node /\ f.addr = Top.addr /\ f.at = at
  BY <1>1, <1>3, FrameMoves
<1>5. \A g : BodyCount(g)' = BodyCount(g) /\ ArgCount(g)' = ArgCount(g)
  BY ScriptKept
<1>6. /\ \A j \in 1..(d - 1) : j \in 1..d /\ j # d
      /\ d \in 1..d /\ \A j \in 1..d : j \in 1..Len(stack')
      /\ \A j \in 1..d : j = d \/ j \in 1..(d - 1)
      /\ \A j \in 1..(d + 1) : j = d + 1 \/ j = d \/ j \in 1..(d - 1)
  BY <1>2
<1>7. Entered(f).at = "enter"
  BY DEF Entered
<1>8. \A b \in 1..heap.here : b # Top.addr =>
        /\ \A k, m : LinkedSoFar(b, k, m) => LinkedSoFar(b, k, m)'
        /\ ParentSoFar(b) => ParentSoFar(b)'
  <2>1. Grows /\ \A b \in 1..heap.here : b \in Address
    BY <1>1, KeepsGrows, TypeFacts
  <2>2. QED
    BY <1>1, <2>1, SoFarKept
<1>9. \A j \in 1..d : stack[j].at # "enter" => stack[j].addr \in 1..heap.here
  BY <1>1 DEF Frames, FrameOK
<1>10. \A j \in 1..(d - 1) : stack[j].at # "enter" => stack[j].addr # Top.addr
  BY <1>3, <1>6 DEF Path, Works
<1> HIDE DEF f, d
<1>11. ASSUME NEW j \in 1..Len(stack'), NEW g, g = stack'[j]
       PROVE  CallLinked(g)'
  <2>1. CASE j \in 1..(d - 1)
    <3>1. /\ g = stack[j] /\ CallLinked(g)
          /\ g.at # "enter" => g.addr \in 1..heap.here /\ g.addr # Top.addr
      BY <1>2, <1>6, <1>9, <1>10, <1>11, <2>1 DEF LinksSoFar, d
    <3>2. QED
      BY <1>5, <1>8, <3>1 DEF CallLinked
  <2>2. CASE j = d
    <3>1. g = Moved(at, i) /\ g.addr = Top.addr
      BY <1>2, <1>4, <1>11, <2>2 DEF f
    <3>2. \A a, k, m : a = Top.addr /\ k = BodyCount(g) /\ m = ArgCount(g) => LinkedSoFar(a, k, m)'
      BY <3>1 DEF Continues
    <3>3. QED
      BY <1>5, <3>1, <3>2 DEF CallLinked
  <2>3. CASE j = d + 1 /\ Len(stack') = d + 1
    <3>1. g.at = "enter"
      BY <1>2, <1>7, <1>11, <2>3
    <3>2. QED
      BY <3>1 DEF CallLinked
  <2>4. QED
    BY <1>2, <1>6, <2>1, <2>2, <2>3
<1>12. ASSUME NEW a \in 1..heap'.here, \A j \in 1..Len(stack') : ~Works(stack'[j], a)
       PROVE  LinkedSoFar(a, Len(BodyOf(a)), Len(ArgsOf(a)))'
  <2>1. a \in 1..heap.here
    BY DEF Keeps
  <2>2. a # Top.addr
    BY <1>2, <1>3, <1>4, <1>6, <1>12 DEF Works
  <2>3. \A j \in 1..d : ~Works(stack[j], a)
    BY <1>2, <1>3, <1>6, <1>12, <2>2 DEF Works
  <2>4. LinkedSoFar(a, Len(BodyOf(a)), Len(ArgsOf(a)))
    BY <2>1, <2>3 DEF LinksSoFar, d
  <2>5. BodyOf(a)' = BodyOf(a) /\ ArgsOf(a)' = ArgsOf(a)
    BY <1>1, <2>1, KeepsGrows, EntryKept
  <2>6. QED
    BY <1>8, <2>1, <2>2, <2>4, <2>5
<1>13. \A a \in 1..heap'.here : ParentSoFar(a)'
  <2>1. ASSUME NEW a \in 1..heap'.here PROVE ParentSoFar(a)'
    <3>1. a \in 1..heap.here
      BY DEF Keeps
    <3>2. CASE a = Top.addr
      BY <3>2 DEF Continues
    <3>3. CASE a # Top.addr
      BY <1>8, <3>1, <3>3 DEF LinksSoFar
    <3>4. QED
      BY <3>2, <3>3
  <2>2. QED
    BY <2>1
<1>14. QED
  BY <1>11, <1>12, <1>13 DEF LinksSoFar

LEMMA Turning ==
  ASSUME IInv, Tracks, Keeps, stack # <<>>, Top.at # "enter",
         NEW at, NEW i \in Nat, Turns(at, i), Continues(at, i),
         Ahead(Moved(at, i)) \subseteq Ahead(Top),
         \A b \in Address : b # Top.addr => Pairs(heap', b) = Pairs(heap, b)
  PROVE  Tracks'
<1>1. TypeOK /\ History /\ Frames
  BY DEF IInv
<1>2. Path' /\ LinksSoFar'
  BY TurningPath, TurningLinks DEF Tracks
<1>3. Placed'
  <2>1. \A a : ScriptAt(a)' = ScriptAt(a) /\ NodeAt(a)' = NodeAt(a)
    BY DEF Keeps, ScriptAt, NodeAt
  <2>2. QED
    BY <2>1 DEF Tracks, Placed, Keeps, Nodes
<1>4. Once'
  <2>1. /\ script' = script /\ \A n : Fresh(n)' <=> Fresh(n)
    BY ScriptKept
  <2>2. slices' = slices /\ origin' = origin /\ heap'.here = heap.here
    BY DEF Keeps
  <2>3. QED
    BY <2>1, <2>2 DEF Tracks, Once, Nodes, ChildrenOf, NodeArgs
<1>5. Answer'
  <2>1. /\ Len(stack) \in Nat \ {0}
        /\ stack'[Len(stack)] = Moved(at, i)
        /\ \/ Len(stack') = Len(stack) /\ at \in {"body", "args"}
           \/ /\ Len(stack') = Len(stack) + 1
              /\ stack'[Len(stack) + 1] = Entered(Moved(at, i))
    BY <1>1, Shape
  <2>2. Moved(at, i).at = at
    <3>1. at \in At
      BY DEF Turns, At
    <3>2. QED
      BY <1>1, <3>1, FrameMoves
  <2>3. Top'.at \in {"enter", "body", "args"}
    <3>1. CASE Len(stack') = Len(stack) /\ at \in {"body", "args"}
      BY <2>1, <2>2, <3>1 DEF Top
    <3>2. CASE Len(stack') = Len(stack) + 1 /\ stack'[Len(stack) + 1] = Entered(Moved(at, i))
      BY <3>2 DEF Top, Entered
    <3>3. QED
      BY <2>1, <3>1, <3>2
  <2>4. QED
    BY <2>3 DEF Answer
<1>6. QED
  BY <1>2, <1>3, <1>4, <1>5 DEF Tracks

\* The entry of the innermost call.
LEMMA TopEntry ==
  ASSUME IInv, Tracks, stack # <<>>, Top.at # "enter"
  PROVE  /\ Top.addr \in 1..heap.here /\ Top.addr \in Address
         /\ origin[Top.addr] = [slice |-> Len(slices), node |-> Top.node]
         /\ ScriptAt(Top.addr) = script
         /\ NodeAt(Top.addr) = Top.node
         /\ BodyOf(Top.addr) = Body
         /\ ArgsOf(Top.addr) = Args
         /\ Top.i \in Nat
         /\ LinkedSoFar(Top.addr, BodyCount(Top), ArgCount(Top))
         /\ ParentSoFar(Top.addr)
<1>1. TypeOK /\ History /\ Frames
  BY DEF IInv
<1>2. FrameOK(Top) /\ Len(stack) \in 1..Len(stack)
  BY <1>1, TopFacts
<1>3. /\ Top.addr \in 1..heap.here /\ Top.addr \in Address
      /\ origin[Top.addr] = [slice |-> Len(slices), node |-> Top.node]
  BY <1>1, <1>2, TypeFacts DEF FrameOK
<1>4. /\ ScriptAt(Top.addr) = script
      /\ NodeAt(Top.addr) = Top.node
  BY <1>3 DEF ScriptAt, NodeAt, script
<1>5. LinkedSoFar(Top.addr, BodyCount(Top), ArgCount(Top)) /\ ParentSoFar(Top.addr)
  BY <1>2, <1>3 DEF Tracks, LinksSoFar, CallLinked, Top
<1>6. Top.i \in Nat
  BY <1>1, TopFields
<1>7. QED
  BY <1>3, <1>4, <1>5, <1>6 DEF BodyOf, ArgsOf, Body, Args

\* A step that puts nothing.
LEMMA QuietTurn ==
  ASSUME IInv, Tracks, UNCHANGED <<heap, slices, origin>>, stack # <<>>, Top.at # "enter",
         NEW at, NEW i \in Nat, Turns(at, i),
         LinkedSoFar(Top.addr, BodyCount(Moved(at, i)), ArgCount(Moved(at, i))),
         Ahead(Moved(at, i)) \subseteq Ahead(Top)
  PROVE  Tracks'
<1>1. Keeps /\ TypeOK
  BY QuietKeeps DEF IInv
<1>2. Grows /\ \A b : Pairs(heap', b) = Pairs(heap, b)
  BY <1>1, KeepsGrows
<1>3. Continues(at, i)
  <2>1. Top.addr \in 1..heap.here /\ ParentSoFar(Top.addr)
    BY TopEntry
  <2>2. ASSUME NEW a, NEW k, NEW m,
               a = Top.addr /\ k = BodyCount(Moved(at, i)) /\ m = ArgCount(Moved(at, i))
        PROVE  LinkedSoFar(a, k, m)' /\ ParentSoFar(a)'
    <3>1. a \in 1..heap.here /\ LinkedSoFar(a, k, m) /\ ParentSoFar(a)
      BY <2>1, <2>2
    <3>2. Pairs(heap', a) = Pairs(heap, a)
      BY <1>2
    <3>3. QED
      BY <1>1, <1>2, <3>1, <3>2, SoFarKept
  <2>3. QED
    BY <2>2 DEF Continues
<1>4. QED
  BY <1>1, <1>2, <1>3, Turning

LEMMA TrackBodyOther == IInv /\ Tracks /\ BodyOther => Tracks'
<1> SUFFICES ASSUME IInv, Tracks, BodyOther PROVE Tracks'
  OBVIOUS
<1> DEFINE f == Moved("bodyReturn", Top.i)
<1>1. /\ stack # <<>> /\ Top.at = "body" /\ Top.i < Len(Body)
      /\ stack' = Call(Resume([Top EXCEPT !.at = "bodyReturn"]), Body[Top.i + 1], Top.addr)
      /\ UNCHANGED <<heap, slices, origin>>
  BY DEF BodyOther, Running
<1>2. Top.i \in Nat /\ Body \in Seq(Nodes(script)) /\ Body[Top.i + 1] \in Nodes(script)
  BY <1>1, TopFields, TopFacts DEF IInv
<1>3. /\ f = [Top EXCEPT !.at = "bodyReturn"]
      /\ f.node = Top.node /\ f.at = "bodyReturn" /\ f.i = Top.i
  BY <1>1, <1>2, FrameMoves DEF IInv, At
<1>4. Top.i + 1 \in DOMAIN Body /\ Top.i + 1 > Top.i
  BY <1>1, <1>2
<1> HIDE DEF f
<1>5. Pending(f) = Body[Top.i + 1] /\ Body[Top.i + 1] \in Ahead(Top)
  BY <1>1, <1>3, <1>4 DEF Pending, Ahead, AheadBody, Body
<1>6. Turns("bodyReturn", Top.i)
  BY <1>1, <1>2, <1>3, <1>5 DEF Turns, f
<1>7. Ahead(f) \subseteq Ahead(Top)
  <2>1. \A k \in DOMAIN Body : k > Top.i + 1 => k > Top.i
    BY <1>2
  <2>2. AheadBody(f) \subseteq AheadBody(Top) /\ AheadArgs(f) \subseteq AheadArgs(Top)
    BY <1>1, <1>3, <2>1 DEF AheadBody, AheadArgs, Body
  <2>3. QED
    BY <1>3, <2>2 DEF Ahead
<1>8. LinkedSoFar(Top.addr, BodyCount(f), ArgCount(f))
  BY <1>1, <1>3, TopEntry DEF BodyCount, ArgCount
<1>9. QED
  BY <1>1, <1>2, <1>6, <1>7, <1>8, QuietTurn DEF f

LEMMA TrackBodyDone == IInv /\ Tracks /\ BodyDone => Tracks'
<1> SUFFICES ASSUME IInv, Tracks, BodyDone PROVE Tracks'
  OBVIOUS
<1> DEFINE f == Moved("args", 0)
<1>1. /\ stack # <<>> /\ Top.at = "body" /\ Top.i = Len(Body)
      /\ stack' = Resume([Top EXCEPT !.at = "args", !.i = 0])
      /\ UNCHANGED <<heap, slices, origin>>
  BY DEF BodyDone, Running
<1>2. /\ f.node = Top.node /\ f.at = "args" /\ f.i = 0
  BY <1>1, FrameMoves DEF IInv, At
<1>3. Turns("args", 0)
  BY <1>1 DEF Turns, Moved
<1> HIDE DEF f
<1>4. Ahead(f) \subseteq Ahead(Top)
  <2>1. AheadBody(f) \subseteq AheadBody(Top) /\ AheadArgs(f) \subseteq AheadArgs(Top)
    BY <1>1, <1>2 DEF AheadBody, AheadArgs
  <2>2. QED
    BY <1>2, <2>1 DEF Ahead
<1>5. LinkedSoFar(Top.addr, BodyCount(f), ArgCount(f))
  BY <1>1, <1>2, TopEntry DEF BodyCount, ArgCount, Body
<1>6. QED
  BY <1>1, <1>3, <1>4, <1>5, QuietTurn DEF f

LEMMA TrackArgNode == IInv /\ Tracks /\ ArgNode => Tracks'
<1> SUFFICES ASSUME IInv, Tracks, ArgNode PROVE Tracks'
  OBVIOUS
<1> DEFINE f == Moved("argReturn", Top.i)
<1>1. /\ stack # <<>> /\ Top.at = "args" /\ Top.i < Len(Args)
      /\ Arg.type = "CS_CELERYSCRIPT"
      /\ stack' = Call(Resume([Top EXCEPT !.at = "argReturn"]), Arg.value, Top.addr)
      /\ UNCHANGED <<heap, slices, origin>>
  BY DEF ArgNode, Running
<1>2. Top.i \in Nat /\ Top.i + 1 \in DOMAIN Args /\ Arg.value \in Nodes(script)
  BY <1>1, TopFields DEF IInv
<1>3. /\ f = [Top EXCEPT !.at = "argReturn"]
      /\ f.node = Top.node /\ f.at = "argReturn" /\ f.i = Top.i
  BY <1>1, <1>2, FrameMoves DEF IInv, At
<1>4. Top.i + 1 > Top.i
  BY <1>2
<1> HIDE DEF f
<1>5. Pending(f) = Arg.value /\ Arg.value \in Ahead(Top)
  BY <1>1, <1>2, <1>3, <1>4 DEF Pending, Ahead, AheadArgs, NodeArgs, Args, Arg
<1>6. Turns("argReturn", Top.i)
  BY <1>1, <1>2, <1>3, <1>5 DEF Turns, f
<1>7. Ahead(f) \subseteq Ahead(Top)
  <2>1. \A k \in NodeArgs(script, Top.node) : k > Top.i + 1 => k > Top.i
    <3>1. DOMAIN script.args[Top.node] \subseteq Nat
      BY <1>1, TopFacts DEF IInv, Args
    <3>2. QED
      BY <1>2, <3>1 DEF NodeArgs
  <2>2. AheadBody(f) \subseteq AheadBody(Top) /\ AheadArgs(f) \subseteq AheadArgs(Top)
    BY <1>1, <1>3, <2>1 DEF AheadBody, AheadArgs
  <2>3. QED
    BY <1>3, <2>2 DEF Ahead
<1>8. LinkedSoFar(Top.addr, BodyCount(f), ArgCount(f))
  BY <1>1, <1>3, TopEntry DEF BodyCount, ArgCount
<1>9. QED
  BY <1>1, <1>2, <1>6, <1>7, <1>8, QuietTurn DEF f

LEMMA TrackArgSkipped == IInv /\ Tracks /\ ArgSkipped => Tracks'
<1> SUFFICES ASSUME IInv, Tracks, ArgSkipped PROVE Tracks'
  OBVIOUS
<1> DEFINE n == Top.i + 1
           f == Moved("args", n)
<1>1. /\ stack # <<>> /\ Top.at = "args" /\ Top.i < Len(Args)
      /\ Arg.type = "unset"
      /\ stack' = Resume([Top EXCEPT !.i = @ + 1])
      /\ UNCHANGED <<heap, slices, origin>>
  BY DEF ArgSkipped, Running
<1>2. Top.i \in Nat /\ n \in DOMAIN Args /\ n \in Nat
  BY <1>1, TopFields DEF IInv
<1>3. /\ f = [Top EXCEPT !.i = n]
      /\ f.node = Top.node /\ f.at = "args" /\ f.i = n
  BY <1>1, <1>2, FrameMoves DEF IInv, At
<1>4. Turns("args", n)
  BY <1>1, <1>3 DEF Turns
<1>5. \A k \in NodeArgs(script, Top.node) : k > n => k > Top.i
  <2>1. DOMAIN script.args[Top.node] \subseteq Nat
    BY <1>1, TopFacts DEF IInv, Args
  <2>2. QED
    BY <1>2, <2>1 DEF NodeArgs
<1>6. n \notin PutArgs(Top.addr)
  BY <1>1, TopEntry DEF PutArgs, Arg, Args
<1>7. ArgsSoFar(Top.addr, n)
  <2>1. ArgsSoFar(Top.addr, Top.i)
    BY <1>1, TopEntry DEF LinkedSoFar, ArgCount
  <2>2. QED
    BY <1>1, <1>2, <1>6, <2>1, TopEntry, ArgsSkip DEF IInv, Tracks
<1> HIDE DEF f, n
<1>8. Ahead(f) \subseteq Ahead(Top)
  <2>1. AheadBody(f) \subseteq AheadBody(Top) /\ AheadArgs(f) \subseteq AheadArgs(Top)
    BY <1>1, <1>3, <1>5 DEF AheadBody, AheadArgs
  <2>2. QED
    BY <1>3, <2>1 DEF Ahead
<1>9. LinkedSoFar(Top.addr, BodyCount(f), ArgCount(f))
  BY <1>1, <1>3, <1>7, TopEntry DEF BodyCount, ArgCount, LinkedSoFar
<1>10. QED
  BY <1>1, <1>2, <1>4, <1>8, <1>9, QuietTurn DEF f

\* A step that puts a pair into the entry of the innermost call.
LEMMA PutTurn ==
  ASSUME IInv, Tracks, UNCHANGED <<slices, origin>>, stack # <<>>, Top.at # "enter",
         NEW kv, PutsPair(Top.addr, kv),
         kv.key = HEAP_PARENT => Displaced(Top.addr, kv.key),
         NEW at, NEW i \in Nat, Turns(at, i),
         \A a, k, m : a = Top.addr /\ k = BodyCount(Moved(at, i)) /\ m = ArgCount(Moved(at, i)) =>
           LinkedSoFar(a, k, m)',
         Ahead(Moved(at, i)) \subseteq Ahead(Top)
  PROVE  Tracks'
<1>1. Keeps /\ TypeOK /\ KeysUnique
  BY DEF IInv, Keeps, PutsPair
<1>2. Grows
  BY <1>1, KeepsGrows
<1>3. \A a : a = Top.addr => ParentSoFar(a)'
  <2>1. Top.addr \in 1..heap.here /\ ParentSoFar(Top.addr)
    BY TopEntry
  <2>2. ASSUME NEW a, a = Top.addr PROVE ParentSoFar(a)'
    <3>1. /\ a \in 1..heap.here /\ ParentSoFar(a) /\ PutsPair(a, kv)
          /\ kv.key = HEAP_PARENT => Displaced(a, kv.key)
      BY <2>1, <2>2
    <3>2. QED
      BY <1>1, <1>2, <3>1, LinksStay
  <2>3. QED
    BY <2>2
<1>4. Continues(at, i)
  BY <1>3 DEF Continues
<1>5. \A b \in Address : b # Top.addr => Pairs(heap', b) = Pairs(heap, b)
  BY DEF PutsPair
<1>6. QED
  BY <1>1, <1>4, <1>5, Turning

LEMMA TrackBodyFirst == IInv /\ Tracks /\ BodyFirst => Tracks'
<1> SUFFICES ASSUME IInv, Tracks, BodyFirst PROVE Tracks'
  OBVIOUS
<1> DEFINE f == Moved("bodyReturn", Top.i)
           value == Top.addr + 1
           kv == [key |-> HEAP_BODY, type |-> "CSH_ADDRESS", value |-> value]
<1>1. /\ stack # <<>> /\ Top.at = "body" /\ Top.i < Len(Body) /\ Top.i = 0
      /\ heap' = HeapPut(heap, Top.addr, "CSH_ADDRESS", HEAP_BODY, value)
      /\ stack' = Call(Resume([Top EXCEPT !.at = "bodyReturn"]), Body[Top.i + 1], Top.addr)
      /\ UNCHANGED <<slices, origin>>
  BY DEF BodyFirst, Running
<1>2. Top.i \in Nat /\ Body \in Seq(Nodes(script)) /\ Body[Top.i + 1] \in Nodes(script)
  BY <1>1, TopFields, TopFacts DEF IInv
<1>3. /\ f = [Top EXCEPT !.at = "bodyReturn"]
      /\ f.node = Top.node /\ f.at = "bodyReturn" /\ f.i = Top.i
  BY <1>1, <1>2, FrameMoves DEF IInv, At
<1>4. Top.i + 1 \in DOMAIN Body /\ Top.i + 1 > Top.i
  BY <1>1, <1>2
<1>5. /\ Top.addr \in 1..heap.here /\ Top.addr \in Address
      /\ NextSoFar(Top.addr, 0)
  <2>1. BodyCount(Top) = 0
    BY <1>1 DEF BodyCount
  <2>2. QED
    BY <1>1, <2>1, TopEntry DEF LinkedSoFar
<1>6. PutsPair(Top.addr, kv)
  <2>1. value \in Value /\ HEAP_BODY \in Nat /\ "CSH_ADDRESS" \in EntryType
    BY <1>5, TypeFacts DEF IInv, HEAP_BODY, EntryType, Value
  <2> HIDE DEF value
  <2>2. QED
    BY <1>1, <1>5, <2>1, PutStep DEF IInv
<1>7. kv.key = HEAP_BODY /\ HEAP_BODY # HEAP_PARENT /\ HEAP_BODY # HEAP_NEXT
  BY DEF HEAP_BODY, HEAP_PARENT, HEAP_NEXT
<1> HIDE DEF f, kv
<1>8. Pending(f) = Body[Top.i + 1] /\ Body[Top.i + 1] \in Ahead(Top)
  BY <1>1, <1>3, <1>4 DEF Pending, Ahead, AheadBody, Body
<1>9. Turns("bodyReturn", Top.i)
  BY <1>1, <1>2, <1>3, <1>8 DEF Turns, f
<1>10. Ahead(f) \subseteq Ahead(Top)
  <2>1. \A k \in DOMAIN Body : k > Top.i + 1 => k > Top.i
    BY <1>2
  <2>2. AheadBody(f) \subseteq AheadBody(Top) /\ AheadArgs(f) \subseteq AheadArgs(Top)
    BY <1>1, <1>3, <2>1 DEF AheadBody, AheadArgs, Body
  <2>3. QED
    BY <1>3, <2>2 DEF Ahead
<1>11. BodyCount(f) = 0 /\ ArgCount(f) = 0
  BY <1>1, <1>3 DEF BodyCount, ArgCount
<1>12. Keeps /\ Grows
  <2>1. Keeps
    BY <1>1, <1>6 DEF PutsPair, Keeps
  <2>2. QED
    BY <2>1, KeepsGrows DEF IInv
<1>13. ASSUME NEW a, a = Top.addr PROVE LinkedSoFar(a, 0, 0)'
  <2>1. a \in 1..heap.here /\ NextSoFar(a, 0) /\ PutsPair(a, kv)
    BY <1>5, <1>6, <1>13
  <2>2. NextSoFar(a, 0)'
    BY <1>7, <1>12, <2>1, LinksStay DEF IInv
  <2>3. PutArgs(a) \subseteq 1..Len(ArgsOf(a))
    BY <2>1, ArgsOfSeq DEF IInv, Tracks
  <2>4. PutArgs(a)' = PutArgs(a) /\ ArgsOf(a)' = ArgsOf(a)
    BY <1>12, <2>1, EntryKept DEF IInv
  <2>5. ArgsSoFar(a, 0)'
    BY <2>3, <2>4, NoArgs DEF ArgsSoFar
  <2>6. QED
    BY <2>2, <2>5 DEF LinkedSoFar
<1>14. QED
  BY <1>1, <1>2, <1>6, <1>7, <1>9, <1>10, <1>11, <1>13, PutTurn DEF f

LEMMA TrackBodyReturned == IInv /\ Tracks /\ BodyReturned => Tracks'
<1> SUFFICES ASSUME IInv, Tracks, BodyReturned PROVE Tracks'
  OBVIOUS
<1> DEFINE n == Top.i + 1
           f == Moved("body", n)
           value == IF Top.i = 0 THEN 0 ELSE returned
           kv == [key |-> HEAP_NEXT, type |-> "CSH_ADDRESS", value |-> value]
<1>1. /\ stack # <<>> /\ Top.at = "bodyReturn"
      /\ heap' = HeapPut(heap, Top.addr, "CSH_ADDRESS", HEAP_NEXT, value)
      /\ stack' = Resume(f)
      /\ UNCHANGED <<returned, slices, origin>>
  BY DEF BodyReturned, Running, Moved
<1>2. Top.i \in Nat /\ n \in Nat
  BY <1>1, TopEntry
<1>3. f.node = Top.node /\ f.at = "body" /\ f.i = n
  BY <1>1, <1>2, FrameMoves DEF IInv, At
<1>4. Turns("body", n)
  BY <1>1 DEF Turns
<1>5. /\ Top.addr \in 1..heap.here /\ Top.addr \in Address
      /\ origin[Top.addr] = [slice |-> Len(slices), node |-> Top.node]
      /\ BodyOf(Top.addr) = Body
  BY <1>1, TopEntry
<1>6. /\ value \in Value /\ HEAP_NEXT \in Nat /\ HEAP_NEXT # HEAP_PARENT
      /\ "CSH_ADDRESS" \in EntryType
  BY TypeFacts DEF IInv, TypeOK, EntryType, HEAP_NEXT, HEAP_PARENT
<1>7. IF Top.i = 0 THEN value = 0 ELSE EntryFor(Top.addr, Body[n], value)
  BY <1>1, <1>5 DEF Tracks, Answer, EntryFor, Pending, Body
<1> HIDE DEF value
<1>8. PutsPair(Top.addr, kv)
  BY <1>1, <1>5, <1>6, PutStep DEF IInv
<1>9. kv.key = HEAP_NEXT
  OBVIOUS
<1>10. Keeps /\ Grows
  <2>1. Keeps
    BY <1>1, <1>8 DEF PutsPair, Keeps
  <2>2. QED
    BY <2>1, KeepsGrows DEF IInv
<1>11. ASSUME NEW a, NEW k, a = Top.addr, k = n PROVE LinkedSoFar(a, k, 0)'
  <2>1. a \in 1..heap.here /\ PutsPair(a, kv) /\ BodyOf(a) = Body
    BY <1>5, <1>8, <1>11
  <2>2. NextSoFar(a, k)'
    <3> SUFFICES ASSUME NEW i, i = Top.i PROVE NextSoFar(a, k)'
      OBVIOUS
    <3>1. i \in Nat /\ IF i = 0 THEN value = 0 ELSE EntryFor(a, BodyOf(a)[i + 1], value)
      BY <1>2, <1>7, <1>11, <2>1
    <3>2. NextSoFar(a, i + 1)'
      BY <1>10, <2>1, <3>1, NextGoesOn DEF IInv
    <3>3. QED
      BY <1>11, <3>2
  <2>3. PutArgs(a) \subseteq 1..Len(ArgsOf(a))
    BY <2>1, ArgsOfSeq DEF IInv, Tracks
  <2>4. PutArgs(a)' = PutArgs(a) /\ ArgsOf(a)' = ArgsOf(a)
    BY <1>10, <2>1, EntryKept DEF IInv
  <2>5. ArgsSoFar(a, 0)'
    BY <2>3, <2>4, NoArgs DEF ArgsSoFar
  <2>6. QED
    BY <2>2, <2>5 DEF LinkedSoFar
<1> HIDE DEF kv, f
<1>12. Ahead(f) \subseteq Ahead(Top)
  <2>1. AheadBody(f) \subseteq AheadBody(Top) /\ AheadArgs(f) \subseteq AheadArgs(Top)
    BY <1>1, <1>3 DEF AheadBody, AheadArgs
  <2>2. QED
    BY <1>3, <2>1 DEF Ahead
<1>13. BodyCount(f) = n /\ ArgCount(f) = 0
  BY <1>3 DEF BodyCount, ArgCount
<1>14. QED
  BY <1>1, <1>2, <1>4, <1>6, <1>8, <1>9, <1>11, <1>12, <1>13, PutTurn DEF f

\* A step that puts an argument.
LEMMA ArgTurn ==
  ASSUME IInv, Tracks, UNCHANGED <<slices, origin>>, stack # <<>>,
         Top.at \in {"args", "argReturn"}, Top.i < Len(Args), Arg.type # "unset",
         NEW kv, PutsPair(Top.addr, kv), Leads(Top.addr, Arg, kv),
         stack' = Resume(Moved("args", Top.i + 1))
  PROVE  Tracks'
<1> DEFINE n == Top.i + 1
           f == Moved("args", n)
<1>1. /\ Top.i \in Nat /\ n \in Nat
      /\ Top.addr \in 1..heap.here
      /\ ArgsOf(Top.addr) = Args
      /\ LinkedSoFar(Top.addr, BodyCount(Top), ArgCount(Top))
  BY TopEntry
<1>2. f.node = Top.node /\ f.at = "args" /\ f.i = n
  BY <1>1, FrameMoves DEF IInv, At
<1>3. Turns("args", n)
  BY DEF Turns
<1>4. Ahead(f) \subseteq Ahead(Top)
  <2>1. \A k \in NodeArgs(script, Top.node) : k > n => k > Top.i
    <3>1. DOMAIN script.args[Top.node] \subseteq Nat
      BY TopFacts DEF IInv, Args
    <3>2. QED
      BY <1>1, <3>1 DEF NodeArgs
  <2> HIDE DEF f
  <2>2. AheadBody(f) \subseteq AheadBody(Top) /\ AheadArgs(f) \subseteq AheadArgs(Top)
    BY <1>2, <2>1 DEF AheadBody, AheadArgs
  <2>3. QED
    BY <1>2, <2>2 DEF Ahead
<1>5. kv.key = Arg.kind
  BY DEF Leads
<1>6. n \in PutArgs(Top.addr) /\ ArgsOf(Top.addr)[n] = Arg
  <2>1. n \in DOMAIN Args
    BY TopFields DEF IInv
  <2>2. QED
    BY <1>1, <2>1, TopEntry DEF PutArgs, Arg, Args
<1>7. Displaced(Top.addr, kv.key)
  BY <1>5, ArgDisplaces
<1>8. Keeps /\ Grows
  <2>1. Keeps
    BY DEF PutsPair, Keeps, IInv
  <2>2. QED
    BY <2>1, KeepsGrows DEF IInv
<1> HIDE DEF f
<1>9. BodyCount(f) = BodyCount(Top) /\ ArgCount(f) = n /\ ArgCount(Top) = Top.i
  BY <1>2 DEF BodyCount, ArgCount
<1>10. ASSUME NEW a, NEW k, NEW m, NEW i,
              a = Top.addr, k = BodyCount(f), m = ArgCount(f), i = Top.i
       PROVE  LinkedSoFar(a, k, m)'
  <2>1. /\ a \in 1..heap.here /\ PutsPair(a, kv) /\ i \in Nat /\ m = i + 1
        /\ NextSoFar(a, k) /\ ArgsSoFar(a, i) /\ Displaced(a, kv.key)
        /\ m \in PutArgs(a) /\ Leads(a, ArgsOf(a)[m], kv) /\ kv.key = ArgsOf(a)[m].kind
    BY <1>1, <1>5, <1>6, <1>7, <1>9, <1>10 DEF LinkedSoFar
  <2>2. NextSoFar(a, k)'
    BY <1>8, <2>1, LinksStay DEF IInv
  <2>3. ArgsSoFar(a, i + 1)'
    BY <1>8, <2>1, ArgsGoOn DEF IInv, Tracks
  <2>4. QED
    BY <2>1, <2>2, <2>3 DEF LinkedSoFar
<1>11. \A a, k, m : a = Top.addr /\ k = BodyCount(f) /\ m = ArgCount(f) => LinkedSoFar(a, k, m)'
  BY <1>10
<1>12. QED
  BY <1>1, <1>3, <1>4, <1>7, <1>11, PutTurn DEF f

LEMMA TrackArgLeaf == IInv /\ Tracks /\ ArgLeaf => Tracks'
<1> SUFFICES ASSUME IInv, Tracks, ArgLeaf PROVE Tracks'
  OBVIOUS
<1> DEFINE type == HeapType(Arg.type)
           kv == [key |-> Arg.kind, type |-> type, value |-> Arg.value]
<1>1. /\ stack # <<>> /\ Top.at = "args" /\ Top.i < Len(Args)
      /\ Arg.type \in {"CS_STRING", "CS_BOOL", "CS_NUMBER"}
      /\ heap' = HeapPut(heap, Top.addr, type, Arg.kind, Arg.value)
      /\ stack' = Resume([Top EXCEPT !.i = Top.i + 1])
      /\ UNCHANGED <<slices, origin>>
  BY DEF ArgLeaf, Running
<1>2. stack' = Resume(Moved("args", Top.i + 1))
  <2>1. Top.i + 1 \in Nat /\ "args" \in At
    BY <1>1, TopFields DEF IInv, At
  <2>2. QED
    BY <1>1, <2>1, FrameMoves DEF IInv
<1>3. Arg.kind \in Nat /\ Arg.value \in Value
  <2>1. TypeOK /\ History /\ Frames
    BY DEF IInv
  <2>2. QED
    BY <1>1, <2>1, TopFields
<1>4. type \in EntryType
  BY <1>1 DEF HeapType, EntryType
<1>5. Top.addr \in Address
  BY <1>1, TopEntry
<1>6. kv.key = Arg.kind /\ kv.type = HeapType(Arg.type) /\ kv.value = Arg.value
  OBVIOUS
<1> HIDE DEF type
<1>7. PutsPair(Top.addr, kv)
  BY <1>1, <1>3, <1>4, <1>5, PutStep DEF IInv
<1> HIDE DEF kv
<1>8. Leads(Top.addr, Arg, kv)
  BY <1>1, <1>6 DEF Leads
<1>9. QED
  BY <1>1, <1>2, <1>7, <1>8, ArgTurn

LEMMA TrackArgReturned == IInv /\ Tracks /\ ArgReturned => Tracks'
<1> SUFFICES ASSUME IInv, Tracks, ArgReturned PROVE Tracks'
  OBVIOUS
<1> DEFINE kv == [key |-> Arg.kind, type |-> "CSH_ADDRESS", value |-> returned]
<1>1. /\ stack # <<>> /\ Top.at = "argReturn"
      /\ heap' = HeapPut(heap, Top.addr, "CSH_ADDRESS", Arg.kind, returned)
      /\ stack' = Resume(Moved("args", Top.i + 1))
      /\ UNCHANGED <<slices, origin>>
  BY DEF ArgReturned, Running, Moved
<1>2. Top.i < Len(Args) /\ Arg.type = "CS_CELERYSCRIPT"
  BY <1>1, TopFacts DEF IInv, FrameOK, Args, Arg
<1>3. Arg.kind \in Nat
  <2>1. TypeOK /\ History /\ Frames
    BY DEF IInv
  <2>2. QED
    BY <1>1, <1>2, <2>1, TopFields
<1>4. /\ returned \in Address /\ returned \in Value
      /\ "CSH_ADDRESS" \in EntryType
  BY TypeFacts DEF IInv, TypeOK, EntryType
<1>5. /\ Top.addr \in Address
      /\ origin[Top.addr] = [slice |-> Len(slices), node |-> Top.node]
  BY <1>1, TopEntry
<1>6. kv.key = Arg.kind /\ kv.type = "CSH_ADDRESS" /\ kv.value = returned
  OBVIOUS
<1>7. PutsPair(Top.addr, kv)
  BY <1>1, <1>3, <1>4, <1>5, PutStep DEF IInv
<1> HIDE DEF kv
<1>8. EntryFor(Top.addr, Arg.value, returned)
  BY <1>1, <1>5 DEF Tracks, Answer, EntryFor, Pending, Arg, Args
<1>9. Leads(Top.addr, Arg, kv)
  BY <1>2, <1>6, <1>8 DEF Leads
<1>10. QED
  BY <1>1, <1>2, <1>7, <1>9, ArgTurn

-----------------------------------------------------------------------------
(* The calls and their links, when a call begins or ends *)

\* The call before the innermost one waits for its node.
LEMMA TrackReturn == IInv /\ Tracks /\ Return => Tracks'
<1> SUFFICES ASSUME IInv, Tracks, Return PROVE Tracks'
  OBVIOUS
<1> DEFINE d == Len(stack)
<1>1. /\ stack # <<>> /\ Top.at = "args" /\ Top.i = Len(Args)
      /\ returned' = Top.addr
      /\ stack' = Front(stack)
      /\ UNCHANGED <<heap, slices, origin>>
  BY DEF Return, Running
<1>2. TypeOK /\ History /\ Frames /\ Keeps
  BY QuietKeeps, <1>1 DEF IInv
<1>3. /\ stack \in Seq(FrameSet(heap.here)) /\ Top \in FrameSet(heap.here)
      /\ d \in Nat \ {0}
  BY <1>1, <1>2, TopFacts
<1>4. /\ Len(stack') = d - 1
      /\ \A j \in 1..(d - 1) : stack'[j] = stack[j]
  BY <1>1, <1>3, StackOps
<1>5. /\ \A j \in 1..(d - 1) : j \in 1..d /\ j # d /\ (j > 1 => j - 1 \in 1..(d - 1))
      /\ d \in 1..d /\ (d - 1 # 0 => d - 1 \in 1..(d - 1) /\ d > 1)
      /\ \A j \in 1..d : j = d \/ j \in 1..(d - 1)
  <2>1. \A j \in 1..(d - 1) : j \in 1..d /\ j # d /\ (j > 1 => j - 1 \in 1..(d - 1))
    BY <1>3
  <2>2. d \in 1..d /\ \A j \in 1..d : j = d \/ j \in 1..(d - 1)
    BY <1>3
  <2> HIDE DEF d
  <2>3. d - 1 # 0 => d - 1 \in 1..(d - 1) /\ d > 1
    BY <1>3
  <2>4. QED
    BY <2>1, <2>2, <2>3
<1>6. /\ Top.addr \in 1..heap.here
      /\ origin[Top.addr] = [slice |-> Len(slices), node |-> Top.node]
      /\ BodyOf(Top.addr) = Body /\ ArgsOf(Top.addr) = Args
      /\ LinkedSoFar(Top.addr, BodyCount(Top), ArgCount(Top))
  BY <1>1, TopEntry
<1>7. /\ \A n : Fresh(n)' <=> Fresh(n)
      /\ script' = script
      /\ \A f : /\ Pending(f)' = Pending(f)
                /\ AllFresh(f)' <=> AllFresh(f)
                /\ BodyCount(f)' = BodyCount(f)
                /\ ArgCount(f)' = ArgCount(f)
  BY <1>2, ScriptKept
<1>8. \A b \in 1..heap.here :
        /\ \A k, m : LinkedSoFar(b, k, m) => LinkedSoFar(b, k, m)'
        /\ ParentSoFar(b) => ParentSoFar(b)'
  <2>1. Grows /\ \A b \in 1..heap.here : Pairs(heap', b) = Pairs(heap, b)
    BY <1>1, <1>2, KeepsGrows
  <2>2. QED
    BY <1>2, <2>1, SoFarKept
<1>9. Top = stack[d]
  BY DEF Top
<1> HIDE DEF d
<1>10. \A a : ScriptAt(a)' = ScriptAt(a) /\ NodeAt(a)' = NodeAt(a)
  BY <1>1 DEF ScriptAt, NodeAt
<1>11. \A a : BodyOf(a)' = BodyOf(a) /\ ArgsOf(a)' = ArgsOf(a)
  BY <1>10 DEF BodyOf, ArgsOf
<1>12. Placed'
  BY <1>1, <1>10 DEF Tracks, Placed, Nodes
<1>13. Path'
  <2>1. \A j \in 1..d : PathAt(j) /\ \A k \in 1..d : OwnEntry(j, k)
    BY DEF Tracks, Path, PathAt, OwnEntry, Works, d
  <2>2. ASSUME NEW j \in 1..(d - 1) PROVE PathAt(j)'
    <3>1. PathAt(j) /\ stack'[j] = stack[j] /\ (j > 1 => stack'[j - 1] = stack[j - 1])
      BY <1>4, <1>5, <2>1
    <3>2. QED
      BY <1>7, <3>1 DEF PathAt
  <2>3. \A j, k \in 1..(d - 1) : OwnEntry(j, k)'
    BY <1>4, <1>5, <2>1 DEF OwnEntry
  <2>4. QED
    BY <1>4, <2>2, <2>3 DEF Path, PathAt, OwnEntry, Works
<1>14. Once'
  BY <1>1, <1>7 DEF Tracks, Once, Nodes, ChildrenOf, NodeArgs
<1>15. Answer'
  <2>1. SUFFICES ASSUME stack' # <<>>, Top'.at \in {"bodyReturn", "argReturn"}
        PROVE  /\ Top.addr \in 1..heap.here
               /\ origin[Top.addr] = [slice |-> Len(slices), node |-> Pending(Top)']
    BY <1>1 DEF Answer
  <2>2. d - 1 # 0
    <3>1. stack' \in Seq(FrameSet(heap.here))
      BY <1>1, <1>3, StackOps
    <3>2. QED
      BY <1>4, <2>1, <3>1
  <2>3. Top' = stack[d - 1]
    BY <1>4, <1>5, <2>2 DEF Top
  <2>4. Top.node = Pending(stack[d - 1])
    BY <1>5, <1>9, <2>2 DEF Tracks, Path, d
  <2>5. Pending(Top)' = Pending(stack[d - 1])
    BY <1>7, <2>3
  <2>6. QED
    BY <1>6, <2>4, <2>5
<1>16. LinksSoFar'
  <2>1. \A j \in 1..d : stack[j].at # "enter" => stack[j].addr \in 1..heap.here
    BY <1>2 DEF Frames, FrameOK, d
  <2>2. ASSUME NEW j \in 1..(d - 1), NEW g, g = stack'[j] PROVE CallLinked(g)'
    <3>1. g = stack[j] /\ CallLinked(g) /\ (g.at # "enter" => g.addr \in 1..heap.here)
      BY <1>4, <1>5, <2>1, <2>2 DEF Tracks, LinksSoFar, d
    <3>2. QED
      BY <1>7, <1>8, <3>1 DEF CallLinked
  <2>3. BodyCount(Top) = Len(Body) /\ ArgCount(Top) = Len(Args)
    BY <1>1 DEF BodyCount, ArgCount, Body
  <2>4. ASSUME NEW a \in 1..heap.here, \A j \in 1..(d - 1) : ~Works(stack'[j], a)
        PROVE  LinkedSoFar(a, Len(BodyOf(a)), Len(ArgsOf(a)))
    <3>1. CASE a = Top.addr
      BY <1>6, <2>3, <3>1
    <3>2. CASE a # Top.addr
      <4>1. \A j \in 1..d : ~Works(stack[j], a)
        BY <1>4, <1>5, <1>9, <2>4, <3>2 DEF Works
      <4>2. QED
        BY <4>1 DEF Tracks, LinksSoFar, d
    <3>3. QED
      BY <3>1, <3>2
  <2>5. ASSUME NEW a \in 1..heap'.here, \A j \in 1..Len(stack') : ~Works(stack'[j], a)
        PROVE  LinkedSoFar(a, Len(BodyOf(a)), Len(ArgsOf(a)))'
    <3>1. a \in 1..heap.here /\ LinkedSoFar(a, Len(BodyOf(a)), Len(ArgsOf(a)))
      BY <1>1, <1>4, <2>4, <2>5
    <3>2. QED
      BY <1>8, <1>11, <3>1
  <2>6. \A a \in 1..heap'.here : ParentSoFar(a)'
    BY <1>1, <1>8 DEF Tracks, LinksSoFar
  <2>7. QED
    BY <1>4, <2>2, <2>5, <2>6 DEF LinksSoFar
<1>17. QED
  BY <1>12, <1>13, <1>14, <1>15, <1>16 DEF Tracks

\* A new script has no entries yet.
LEMMA TrackSlice == IInv /\ Tracks /\ Slice => Tracks'
<1> SUFFICES ASSUME IInv, Tracks, Slice PROVE Tracks'
  OBVIOUS
<1>1. PICK celery \in Scripts : /\ slices' = Append(slices, celery)
                                /\ stack' = Call(<<>>, celery.root, 0)
  BY DEF Slice
<1>2. stack = <<>> /\ UNCHANGED <<heap, returned, origin>>
  BY DEF Slice
<1>3. TypeOK /\ slices \in Seq(Scripts)
  BY DEF IInv, History
<1> DEFINE f == [node |-> celery.root, parent |-> 0, addr |-> 0, at |-> "enter", i |-> 0]
<1>4. /\ stack' = <<f>> /\ Len(stack') = 1 /\ stack'[1] = f /\ Top' = f
      /\ f.at = "enter" /\ f.node = celery.root /\ f.parent = 0
  BY <1>1 DEF Call, Top
<1> HIDE DEF f
<1>5. /\ Len(slices) \in Nat
      /\ Len(slices') = Len(slices) + 1
      /\ slices'[Len(slices) + 1] = celery
      /\ \A k \in 1..Len(slices) : slices'[k] = slices[k]
      /\ slices' # <<>>
  BY <1>1, <1>3
<1>6. script' = celery
  BY <1>5 DEF script
<1>7. Grows
  <2>1. heap.here \in Nat
    BY <1>3, TypeFacts
  <2>2. QED
    BY <1>2, <1>5, <2>1 DEF Grows
<1>8. \A n : Fresh(n)'
  <2>1. \A b \in 1..heap.here : origin[b].slice # Len(slices')
    BY <1>3, <1>5, TypeFacts
  <2>2. QED
    BY <1>2, <2>1 DEF Fresh
<1>9. \A a \in 1..heap.here :
        /\ ScriptAt(a)' = ScriptAt(a) /\ NodeAt(a)' = NodeAt(a)
        /\ BodyOf(a)' = BodyOf(a) /\ ArgsOf(a)' = ArgsOf(a)
        /\ \A k, m : LinkedSoFar(a, k, m) => LinkedSoFar(a, k, m)'
        /\ ParentSoFar(a) => ParentSoFar(a)'
  <2>1. \A a : Pairs(heap', a) = Pairs(heap, a)
    BY <1>2
  <2>2. QED
    BY <1>3, <1>7, <2>1, EntryKept, SoFarKept
<1>10. Placed'
  BY <1>2, <1>9 DEF Tracks, Placed, Nodes
<1>11. Path'
  <2>1. \A j \in 1..Len(stack') : j = 1 /\ stack'[j] = f /\ ~(j > 1)
    BY <1>4
  <2>2. \A g : g = f => AllFresh(g)'
    BY <1>4, <1>8 DEF AllFresh
  <2>3. QED
    BY <1>4, <1>6, <2>1, <2>2 DEF Path
<1>12. Once'
  BY <1>2, <1>8 DEF Tracks, Once
<1>13. Answer'
  BY <1>4 DEF Answer
<1>14. LinksSoFar'
  <2>1. \A j \in 1..Len(stack') : \A g : g = stack'[j] => CallLinked(g)'
    <3>1. \A j \in 1..Len(stack') : stack'[j] = f
      BY <1>4
    <3>2. \A g : g = f => CallLinked(g)'
      BY <1>4 DEF CallLinked
    <3>3. QED
      BY <3>1, <3>2
  <2>2. \A a \in 1..heap.here : LinkedSoFar(a, Len(BodyOf(a)), Len(ArgsOf(a))) /\ ParentSoFar(a)
    BY <1>2 DEF Tracks, LinksSoFar
  <2>3. \A a \in 1..heap'.here : LinkedSoFar(a, Len(BodyOf(a)), Len(ArgsOf(a)))' /\ ParentSoFar(a)'
    BY <1>2, <1>9, <2>2
  <2>4. QED
    BY <2>1, <2>3 DEF LinksSoFar
<1>15. QED
  BY <1>10, <1>11, <1>12, <1>13, <1>14 DEF Tracks

\* Before any script there is nothing to link.
LEMMA TrackInit == Init => Tracks
<1> SUFFICES ASSUME Init PROVE Tracks
  OBVIOUS
<1>1. /\ stack = <<>> /\ slices = <<>> /\ heap.here = 0 /\ 1..heap.here = {}
      /\ 1..Len(stack) = {}
  <2>1. heap.here = 0
    BY DEF Init, HeapInit, HeapPut
  <2>2. QED
    BY <2>1 DEF Init
<1>2. QED
  BY <1>1 DEF Tracks, Placed, Path, Once, Answer, LinksSoFar

\* The script being sliced is a tree.
LEMMA ScriptTree ==
  ASSUME IInv, stack # <<>>
  PROVE  WellFormed(script) /\ IsTree(script)
<1>1. slices \in Seq(Scripts) /\ slices # <<>>
  BY DEF IInv, TypeOK, History
<1>2. script \in Scripts
  BY <1>1 DEF script
<1>3. QED
  BY <1>2, ScriptsAssumption, TreesAssumption

\* What a call has not come to is below its node; the child it waits for is too,
\* and is none of those to come.
LEMMA AheadBelow ==
  ASSUME NEW f
  PROVE  Ahead(f) \subseteq ChildrenOf(script, f.node)
BY DEF Ahead, AheadBody, AheadArgs, ChildrenOf, ToSet

LEMMA PendingBelow ==
  ASSUME IInv, stack # <<>>, NEW f, f.node \in Nodes(script), f.i \in Nat,
         f.at \in {"bodyReturn", "argReturn"}, FrameOK(f)
  PROVE  /\ Pending(f) \in ChildrenOf(script, f.node)
         /\ Pending(f) \notin Ahead(f)
<1> DEFINE n == f.i + 1
<1>1. WellFormed(script) /\ IsTree(script)
  BY ScriptTree
<1>2. /\ script.body[f.node] \in Seq(Nodes(script))
      /\ script.args[f.node] \in Seq([kind : Nat, type : ArgType, value : Node \cup LeafValue])
  BY <1>1 DEF WellFormed
<1>3. /\ \A k, l \in DOMAIN script.body[f.node] :
           script.body[f.node][k] = script.body[f.node][l] => k = l
      /\ \A k, l \in NodeArgs(script, f.node) :
           script.args[f.node][k].value = script.args[f.node][l].value => k = l
      /\ \A k \in NodeArgs(script, f.node) :
           script.args[f.node][k].value \notin ToSet(script.body[f.node])
  BY <1>1 DEF IsTree
<1>4. \A k : k > n => k # n
  OBVIOUS
<1>5. CASE f.at = "bodyReturn"
  <2>1. n \in DOMAIN script.body[f.node] /\ Pending(f) = script.body[f.node][n]
    <3>1. f.i < Len(script.body[f.node])
      BY <1>5 DEF FrameOK
    <3>2. QED
      BY <1>2, <1>5, <3>1 DEF Pending
  <2>2. Pending(f) \in ToSet(script.body[f.node])
    BY <2>1 DEF ToSet
  <2>3. \A k \in AheadBody(f) : k \in DOMAIN script.body[f.node] /\ k # n
    BY <1>4, <1>5 DEF AheadBody
  <2>4. \A k \in AheadArgs(f) : k \in NodeArgs(script, f.node)
    BY DEF AheadArgs
  <2> HIDE DEF n
  <2>5. Pending(f) \notin { script.body[f.node][k] : k \in AheadBody(f) }
    BY <1>3, <2>1, <2>3
  <2>6. Pending(f) \notin { script.args[f.node][k].value : k \in AheadArgs(f) }
    BY <1>3, <2>2, <2>4
  <2>7. QED
    BY <2>2, <2>5, <2>6 DEF Ahead, ChildrenOf
<1>6. CASE f.at = "argReturn"
  <2>1. n \in NodeArgs(script, f.node) /\ Pending(f) = script.args[f.node][n].value
    <3>1. f.i < Len(script.args[f.node]) /\ script.args[f.node][n].type = "CS_CELERYSCRIPT"
      BY <1>6 DEF FrameOK
    <3>2. n \in DOMAIN script.args[f.node]
      BY <1>2, <3>1
    <3>3. QED
      BY <1>6, <3>1, <3>2 DEF Pending, NodeArgs
  <2>2. AheadBody(f) = {}
    BY <1>6 DEF AheadBody
  <2>3. \A k \in AheadArgs(f) : k \in NodeArgs(script, f.node) /\ k # n
    BY <1>4, <1>6 DEF AheadArgs
  <2> HIDE DEF n
  <2>4. Ahead(f) = { script.args[f.node][k].value : k \in AheadArgs(f) }
    BY <2>2 DEF Ahead
  <2>5. Pending(f) \notin Ahead(f)
    BY <1>3, <2>1, <2>3, <2>4
  <2>6. QED
    BY <2>1, <2>5 DEF ChildrenOf
<1>7. QED
  BY <1>5, <1>6

\* The only node above that of the innermost call, before it has an entry, is that
\* of the call before it.
LEMMA Parentage ==
  ASSUME IInv, Tracks, stack # <<>>, Top.at = "enter",
         NEW p \in Nodes(script), Top.node \in ChildrenOf(script, p)
  PROVE  /\ Len(stack) > 1 /\ Len(stack) - 1 \in 1..Len(stack)
         /\ p = stack[Len(stack) - 1].node
<1> DEFINE d == Len(stack)
           g == stack[d - 1]
<1>1. TypeOK /\ History /\ Frames
  BY DEF IInv
<1>2. d \in Nat \ {0} /\ Top = stack[d] /\ d \in 1..d
  BY <1>1, TopFacts DEF Top
<1>3. IsTree(script)
  BY ScriptTree
<1>4. d # 1
  <2>1. script.root \notin ChildrenOf(script, p)
    BY <1>3 DEF IsTree
  <2>2. QED
    BY <1>2, <2>1 DEF Tracks, Path
<1>5. d > 1 /\ d - 1 \in 1..d /\ d - 1 < d
  <2> HIDE DEF d
  <2>1. QED
    BY <1>2, <1>4
<1>6. /\ Top.node = Pending(g)
      /\ g.at \in {"bodyReturn", "argReturn"} /\ FrameOK(g) /\ g.node \in Nodes(script)
  BY <1>1, <1>2, <1>5 DEF Tracks, Path, Frames, TypeOK
<1>7. g.i \in Nat
  <2>1. g \in FrameSet(heap.here)
    BY <1>1, <1>5, TopFacts
  <2>2. QED
    BY <2>1 DEF FrameSet
<1> HIDE DEF g, d
<1>8. Top.node \in ChildrenOf(script, g.node)
  BY <1>6, <1>7, PendingBelow
<1>9. p = g.node
  <2>1. p # g.node => ChildrenOf(script, p) \cap ChildrenOf(script, g.node) = {}
    BY <1>3, <1>6 DEF IsTree
  <2>2. QED
    BY <1>8, <2>1
<1>10. QED
  BY <1>5, <1>9 DEF g, d

\* Two calls that have entries work on different nodes.
LEMMA CallsApart ==
  ASSUME IInv, Tracks, NEW j \in 1..Len(stack), NEW k \in 1..Len(stack),
         stack[j].at # "enter", stack[k].at # "enter", stack[j].node = stack[k].node
  PROVE  j = k
<1>1. /\ stack[j].addr \in 1..heap.here /\ stack[k].addr \in 1..heap.here
      /\ origin[stack[j].addr] = origin[stack[k].addr]
  <2>1. FrameOK(stack[j]) /\ FrameOK(stack[k])
    BY DEF IInv, Frames
  <2>2. \A f : FrameOK(f) /\ f.at # "enter" =>
          /\ f.addr \in 1..heap.here
          /\ origin[f.addr] = [slice |-> Len(slices), node |-> f.node]
    BY DEF FrameOK
  <2>3. QED
    BY <2>1, <2>2
<1>2. stack[j].addr = stack[k].addr
  BY <1>1 DEF Tracks, Once
<1>3. QED
  BY <1>2 DEF Tracks, Path, Works

\* What an allocation changes, said of the state before it.
Allots(new) ==
  /\ new = heap.here + 1 /\ new \in Nat
  /\ heap'.here = new
  /\ stack # <<>> /\ Top.at = "enter"
  /\ UNCHANGED <<returned, slices>>
  /\ origin'[new] = [slice |-> Len(slices), node |-> Top.node]
  /\ \A a \in 1..heap.here : origin'[a] = origin[a]
  /\ Len(stack') = Len(stack)
  /\ \A j \in 1..(Len(stack) - 1) : stack'[j] = stack[j]
  /\ stack'[Len(stack)] = [Top EXCEPT !.addr = new, !.at = "body"]
  /\ AllotsEntry([key |-> HEAP_PARENT, type |-> "CSH_ADDRESS", value |-> Top.parent])

LEMMA AllocateAllots ==
  ASSUME IInv, Allocate
  PROVE  \E new : Allots(new)
<1> DEFINE parent == Top.parent
           kv == [key |-> HEAP_PARENT, type |-> "CSH_ADDRESS", value |-> parent]
<1>1. TypeOK /\ History /\ Frames
  BY DEF IInv
<1>2. /\ stack # <<>> /\ Top.at = "enter"
      /\ heap' = LET allotted == HeapAlot(heap, script.kind[Top.node])
                 IN HeapPut(allotted, allotted.here, "CSH_ADDRESS", HEAP_PARENT, parent)
      /\ origin' = Append(origin, [slice |-> Len(slices), node |-> Top.node])
      /\ UNCHANGED <<returned, slices>>
  BY DEF Allocate, Running
<1>3. script.kind[Top.node] \in Nat /\ Top \in FrameSet(heap.here) /\ Len(stack) \in Nat \ {0}
  BY <1>1, <1>2, TopFacts
<1>4. parent \in Address /\ heap.here \in Nat
  BY <1>1, <1>3, TypeFacts DEF FrameSet
<1>5. AllotsEntry(kv)
  BY <1>1, <1>2, <1>3, <1>4, AllotStep
<1>6. stack' = Resume([Top EXCEPT !.addr = heap.here + 1, !.at = "body"])
  BY <1>4 DEF Allocate, HeapAlot
<1>7. /\ origin'[heap.here + 1] = [slice |-> Len(slices), node |-> Top.node]
      /\ \A a \in 1..heap.here : origin'[a] = origin[a]
      /\ Len(stack') = Len(stack)
      /\ \A j \in 1..(Len(stack) - 1) : stack'[j] = stack[j]
  BY <1>1, <1>2, <1>5, <1>6, AllotTypes
<1>8. stack'[Len(stack)] = [Top EXCEPT !.addr = heap.here + 1, !.at = "body"]
  <2>1. stack \in Seq(FrameSet(heap.here)) /\ Len(stack) \in DOMAIN stack
    BY <1>1, <1>2, TopFacts
  <2>2. QED
    BY <1>6, <2>1 DEF Resume
<1>9. heap'.here = heap.here + 1 /\ heap.here + 1 \in Nat
  BY <1>4, <1>5 DEF AllotsEntry
<1>10. Allots(heap.here + 1)
  BY <1>2, <1>5, <1>7, <1>8, <1>9 DEF Allots
<1>11. QED
  BY <1>10

\* The nodes that have no entry after an allocation.
LEMMA FreshAfter ==
  ASSUME IInv, NEW new, Allots(new)
  PROVE  \A n : Fresh(n)' <=> Fresh(n) /\ n # Top.node
<1>1. heap.here \in Nat /\ heap'.here = heap.here + 1 /\ new = heap.here + 1
  BY TypeFacts DEF IInv, Allots
<1>2. /\ \A b \in 1..heap'.here : b = new \/ b \in 1..heap.here
      /\ \A b \in 1..heap.here : b \in 1..heap'.here
      /\ new \in 1..heap'.here
  BY <1>1
<1>3. /\ slices' = slices
      /\ origin'[new] = [slice |-> Len(slices), node |-> Top.node]
      /\ \A a \in 1..heap.here : origin'[a] = origin[a]
  BY DEF Allots
<1>4. \A n : ([slice |-> Len(slices), node |-> Top.node] = [slice |-> Len(slices), node |-> n])
               <=> n = Top.node
  OBVIOUS
<1>5. QED
  BY <1>2, <1>3, <1>4 DEF Fresh

LEMMA AllotPath ==
  ASSUME IInv, Tracks, NEW new, Allots(new)
  PROVE  Path'
<1> DEFINE d == Len(stack)
           f == [Top EXCEPT !.addr = new, !.at = "body"]
<1>1. TypeOK /\ History /\ Frames
  BY DEF IInv
<1>2. /\ stack # <<>> /\ Top.at = "enter" /\ slices' = slices
      /\ d \in Nat \ {0} /\ Top = stack[d] /\ d \in 1..d
      /\ Top \in FrameSet(heap.here) /\ Top.node \in Nodes(script)
  BY <1>1, TopFacts DEF Allots, Top
<1>3. /\ Len(stack') = d
      /\ \A j \in 1..(d - 1) : stack'[j] = stack[j]
      /\ stack'[d] = f
  BY DEF Allots
<1>4. f.node = Top.node /\ f.parent = Top.parent /\ f.addr = new /\ f.at = "body" /\ f.i = Top.i
  BY <1>2 DEF FrameSet
<1>5. \A n : Fresh(n)' <=> Fresh(n) /\ n # Top.node
  BY FreshAfter
<1>6. /\ \A j \in 1..d : j = d \/ j \in 1..(d - 1)
      /\ \A j \in 1..(d - 1) : j \in 1..d /\ j < d /\ j # d /\ (j > 1 => j - 1 \in 1..(d - 1))
  BY <1>2
<1>7. d > 1 => d - 1 \in 1..(d - 1)
  <2> HIDE DEF d
  <2>1. QED
    BY <1>2
<1> HIDE DEF f, d
<1>8. /\ script' = script
      /\ \A g : Pending(g)' = Pending(g) /\ Ahead(g)' = Ahead(g)
  <2>1. script' = script
    BY <1>2 DEF script
  <2>2. QED
    BY <2>1 DEF Pending, Ahead, AheadBody, AheadArgs, NodeArgs
<1>9. \A j \in 1..d : PathAt(j) /\ \A k \in 1..d : OwnEntry(j, k)
  BY DEF Tracks, Path, PathAt, OwnEntry, Works, d
<1>10. \A j \in 1..(d - 1) : /\ stack[j].at \in {"bodyReturn", "argReturn"}
                             /\ FrameOK(stack[j])
                             /\ stack[j].node \in Nodes(script)
                             /\ stack[j].i \in Nat
                             /\ stack[j].addr \in 1..heap.here
  <2>1. \A j \in 1..d : stack[j] \in FrameSet(heap.here)
    BY <1>1, <1>2, TopFacts DEF d
  <2>2. \A j \in 1..d : stack[j].i \in Nat
    BY <2>1 DEF FrameSet
  <2>3. QED
    BY <1>1, <1>6, <2>2 DEF Frames, FrameOK, TypeOK, d
<1>11. ASSUME NEW j \in 1..(d - 1) PROVE Top.node \notin Ahead(stack[j])
  <2> SUFFICES ASSUME Top.node \in Ahead(stack[j]) PROVE FALSE
    OBVIOUS
  <2>1. Top.node \in ChildrenOf(script, stack[j].node)
    BY AheadBelow
  <2>2. d > 1 /\ stack[j].node = stack[d - 1].node
    BY <1>2, <1>10, <2>1, Parentage DEF d
  <2>3. d - 1 \in 1..(d - 1) /\ Top.node = Pending(stack[d - 1])
    BY <1>2, <1>7, <1>9, <2>2 DEF PathAt
  <2>4. j = d - 1
    <3>1. stack[j].at # "enter" /\ stack[d - 1].at # "enter"
      BY <1>10, <2>3
    <3>2. j \in 1..Len(stack) /\ d - 1 \in 1..Len(stack)
      BY <1>6, <2>3 DEF d
    <3>3. QED
      BY <2>2, <3>1, <3>2, CallsApart
  <2>5. Pending(stack[d - 1]) \notin Ahead(stack[d - 1])
    BY <1>2, <1>10, <2>3, PendingBelow
  <2>6. QED
    BY <2>3, <2>4, <2>5
<1>12. ASSUME NEW j \in 1..(d - 1) PROVE PathAt(j)'
  <2>1. /\ PathAt(j) /\ stack'[j] = stack[j] /\ (j > 1 => stack'[j - 1] = stack[j - 1])
        /\ stack[j].at # "enter"
    BY <1>3, <1>6, <1>9, <1>10
  <2>2. \A g : g = stack[j] => AllFresh(g)'
    BY <1>5, <1>8, <1>11, <2>1 DEF PathAt, AllFresh
  <2>3. QED
    BY <1>8, <2>1, <2>2 DEF PathAt
<1>13. \A n \in ChildrenOf(script, Top.node) : Fresh(n) /\ n # Top.node
  <2>1. Fresh(Top.node)
    BY <1>2, <1>9 DEF PathAt, AllFresh
  <2>2. \A n \in ChildrenOf(script, Top.node) : Fresh(n)
    BY <1>1, <1>2, <2>1, TopFacts DEF Tracks, Once
  <2>3. ASSUME Top.node \in ChildrenOf(script, Top.node) PROVE FALSE
    <3>1. d > 1 /\ Top.node = stack[d - 1].node
      BY <1>2, <2>3, Parentage DEF d
    <3>2. /\ d - 1 \in 1..(d - 1)
          /\ FrameOK(stack[d - 1]) /\ stack[d - 1].at # "enter"
      BY <1>7, <1>10, <3>1
    <3>3. QED
      BY <2>1, <3>1, <3>2 DEF FrameOK, Fresh
  <2>4. QED
    BY <2>2, <2>3
<1>14. ASSUME NEW j, j = d PROVE PathAt(j)'
  <2>1. PathAt(j) /\ stack'[j] = f /\ stack[j] = Top /\ (j > 1 => stack'[j - 1] = stack[j - 1])
    BY <1>2, <1>3, <1>7, <1>9, <1>14
  <2>2. \A n \in Ahead(f) : Fresh(n)'
    BY <1>4, <1>5, <1>13, AheadBelow
  <2>3. \A g : g = f => AllFresh(g)'
    BY <1>4, <1>8, <2>2 DEF AllFresh
  <2>4. QED
    BY <1>4, <1>8, <2>1, <2>3 DEF PathAt
<1>15. ASSUME NEW j \in 1..d, NEW k \in 1..d PROVE OwnEntry(j, k)'
  <2>1. \A a \in 1..heap.here : a # new
    BY <1>1, TypeFacts DEF Allots
  <2>2. QED
    BY <1>3, <1>4, <1>6, <1>9, <1>10, <2>1 DEF OwnEntry
<1>16. QED
  BY <1>3, <1>6, <1>12, <1>14, <1>15 DEF Path, PathAt, OwnEntry, Works

LEMMA AllotLinks ==
  ASSUME IInv, Tracks, NEW new, Allots(new)
  PROVE  LinksSoFar'
<1> DEFINE d == Len(stack)
           f == [Top EXCEPT !.addr = new, !.at = "body"]
           kv == [key |-> HEAP_PARENT, type |-> "CSH_ADDRESS", value |-> Top.parent]
<1>1. TypeOK /\ History /\ Frames
  BY DEF IInv
<1>2. /\ stack # <<>> /\ Top.at = "enter" /\ slices' = slices
      /\ d \in Nat \ {0} /\ Top = stack[d] /\ d \in 1..d
      /\ Top \in FrameSet(heap.here) /\ Top.node \in Nodes(script) /\ FrameOK(Top)
  BY <1>1, TopFacts DEF Allots, Top
<1>3. /\ Len(stack') = d
      /\ \A j \in 1..(d - 1) : stack'[j] = stack[j]
      /\ stack'[d] = f
  BY DEF Allots
<1>4. f.node = Top.node /\ f.addr = new /\ f.at = "body" /\ f.i = 0
  BY <1>2 DEF FrameSet, FrameOK
<1>5. /\ \A j \in 1..d : j = d \/ j \in 1..(d - 1)
      /\ \A j \in 1..(d - 1) : j \in 1..d /\ j < d
  BY <1>2
<1>6. /\ heap.here \in Nat /\ new = heap.here + 1 /\ heap'.here = new
      /\ AllotsEntry(kv)
      /\ origin'[new] = [slice |-> Len(slices), node |-> Top.node]
      /\ \A a \in 1..heap.here : origin'[a] = origin[a]
  BY <1>1, TypeFacts DEF Allots
<1>7. /\ \A a \in 1..heap'.here : a = new \/ a \in 1..heap.here
      /\ \A a \in 1..heap.here : a \in 1..heap'.here /\ a # new /\ a \in Address
      /\ new \in 1..heap'.here
  BY <1>1, <1>6, TypeFacts
<1>8. Grows
  <2>1. heap'.here \in Nat /\ heap.here <= heap'.here
    BY <1>6
  <2>2. QED
    BY <1>2, <1>6, <2>1 DEF Grows
<1>9. kv.key = HEAP_PARENT /\ kv.value = Top.parent /\ HEAP_PARENT # HEAP_NEXT
  BY DEF HEAP_PARENT, HEAP_NEXT
<1> HIDE DEF f, d, kv
<1>10. /\ \A a \in 1..heap.here : Pairs(heap', a) = Pairs(heap, a)
       /\ \A a : a = new => Pairs(heap, a)' = {kv}
  BY <1>6, <1>7 DEF AllotsEntry, Pairs
<1>11. \A a \in 1..heap.here :
         /\ BodyOf(a)' = BodyOf(a) /\ ArgsOf(a)' = ArgsOf(a)
         /\ \A k, m : LinkedSoFar(a, k, m) => LinkedSoFar(a, k, m)'
         /\ ParentSoFar(a) => ParentSoFar(a)'
  BY <1>1, <1>8, <1>10, EntryKept, SoFarKept
<1>12. /\ script' = script
       /\ \A g : BodyCount(g)' = BodyCount(g) /\ ArgCount(g)' = ArgCount(g)
  <2>1. script' = script
    BY <1>2 DEF script
  <2>2. QED
    BY <2>1 DEF BodyCount, ArgCount
<1>13. /\ ScriptAt(new)' = script /\ NodeAt(new)' = Top.node
  BY <1>2, <1>6 DEF ScriptAt, NodeAt, script
<1>14. LinkedSoFar(new, 0, 0)'
  <2>1. NextSoFar(new, 0)'
    BY <1>9, <1>10 DEF NextSoFar
  <2>2. ArgsSoFar(new, 0)'
    <3>1. PutArgs(new)' \subseteq Nat \ {0}
      <4>1. DOMAIN Args \subseteq Nat \ {0}
        BY <1>1, <1>2, TopFacts
      <4>2. PutArgs(new)' \subseteq DOMAIN Args
        BY <1>13 DEF PutArgs, Args
      <4>3. QED
        BY <4>1, <4>2
    <3>2. \A i \in PutArgs(new)' : ~(i <= 0)
      BY <3>1
    <3>3. QED
      BY <3>2 DEF ArgsSoFar
  <2>3. QED
    BY <2>1, <2>2 DEF LinkedSoFar
<1>15. ParentSoFar(new)'
  <2>1. CASE d = 1
    <3>1. Top.node = script.root /\ Top.parent = 0
      BY <1>2, <2>1 DEF Tracks, Path, d
    <3>2. QED
      BY <1>9, <1>10, <1>13, <3>1 DEF ParentSoFar
  <2>2. CASE d # 1
    <3> DEFINE g == stack[d - 1]
    <3>1. d > 1 /\ d - 1 \in 1..d /\ d - 1 < d
      BY <1>2, <2>2
    <3>2. g \in FrameSet(heap.here)
      BY <1>1, <1>2, <3>1, TopFacts DEF d
    <3>3. /\ Top.node = Pending(g) /\ Top.parent = g.addr
          /\ g.at \in {"bodyReturn", "argReturn"} /\ FrameOK(g) /\ g.node \in Nodes(script)
          /\ g.i \in Nat
      BY <1>1, <1>2, <3>1, <3>2 DEF Tracks, Path, Frames, TypeOK, FrameSet, d
    <3> HIDE DEF g
    <3>4. Top.node \in ChildrenOf(script, g.node)
      BY <1>2, <3>3, PendingBelow
    <3>5. g.addr \in 1..heap.here /\ origin[g.addr] = [slice |-> Len(slices), node |-> g.node]
      BY <3>3 DEF FrameOK
    <3>6. \A p, v : p = g.node /\ v = Top.parent => EntryFor(new, p, v)'
      <4>1. /\ g.addr \in 1..heap'.here
            /\ origin'[g.addr] = [slice |-> origin'[new].slice, node |-> g.node]
        BY <1>6, <1>7, <3>5
      <4>2. QED
        BY <3>3, <4>1 DEF EntryFor
    <3>7. /\ Nodes(ScriptAt(new))' = Nodes(script)
          /\ \A p : ChildrenOf(ScriptAt(new), p)' = ChildrenOf(script, p)
      BY <1>13 DEF Nodes, ChildrenOf, NodeArgs
    <3>8. \A p \in Pairs(heap, new)' : p.key = HEAP_PARENT /\ p.value = Top.parent
      BY <1>9, <1>10
    <3>9. \E p \in Pairs(heap, new)' : p.key = HEAP_PARENT
      BY <1>9, <1>10
    <3>10. QED
      BY <1>13, <3>3, <3>4, <3>6, <3>7, <3>8, <3>9 DEF ParentSoFar
  <2>3. QED
    BY <2>1, <2>2
<1>16. ASSUME NEW j \in 1..Len(stack'), NEW g, g = stack'[j] PROVE CallLinked(g)'
  <2>1. CASE j \in 1..(d - 1)
    <3>1. /\ g = stack[j] /\ CallLinked(g)
          /\ g.at # "enter" => g.addr \in 1..heap.here
      BY <1>1, <1>3, <1>5, <1>16, <2>1 DEF Tracks, LinksSoFar, Frames, FrameOK, d
    <3>2. QED
      BY <1>11, <1>12, <3>1 DEF CallLinked
  <2>2. CASE j = d
    <3>1. g.at = "body" /\ g.i = 0 /\ g.addr = new
      BY <1>3, <1>4, <1>16, <2>2
    <3>2. BodyCount(g) = 0 /\ ArgCount(g) = 0
      BY <3>1 DEF BodyCount, ArgCount
    <3>3. QED
      BY <1>12, <1>14, <3>1, <3>2 DEF CallLinked
  <2>3. QED
    BY <1>3, <1>5, <2>1, <2>2
<1>17. ASSUME NEW a \in 1..heap'.here, \A j \in 1..Len(stack') : ~Works(stack'[j], a)
       PROVE  LinkedSoFar(a, Len(BodyOf(a)), Len(ArgsOf(a)))'
  <2>1. a # new
    BY <1>2, <1>3, <1>4, <1>17 DEF Works
  <2>2. a \in 1..heap.here
    BY <1>7, <2>1
  <2>3. \A j \in 1..d : ~Works(stack[j], a)
    BY <1>2, <1>3, <1>5, <1>17 DEF Works
  <2>4. LinkedSoFar(a, Len(BodyOf(a)), Len(ArgsOf(a)))
    BY <2>2, <2>3 DEF Tracks, LinksSoFar, d
  <2>5. QED
    BY <1>11, <2>2, <2>4
<1>18. \A a \in 1..heap'.here : ParentSoFar(a)'
  BY <1>7, <1>11, <1>15 DEF Tracks, LinksSoFar
<1>19. QED
  BY <1>16, <1>17, <1>18 DEF LinksSoFar

LEMMA TrackAllocate == IInv /\ Tracks /\ Allocate => Tracks'
<1> SUFFICES ASSUME IInv, Tracks, Allocate PROVE Tracks'
  OBVIOUS
<1>1. PICK new : Allots(new)
  BY AllocateAllots
<1>2. TypeOK /\ History /\ Frames
  BY DEF IInv
<1>3. /\ stack # <<>> /\ Top.at = "enter" /\ slices' = slices /\ script' = script
      /\ Len(stack) \in Nat \ {0} /\ Len(stack) \in 1..Len(stack) /\ Top = stack[Len(stack)]
      /\ Top.node \in Nodes(script) /\ Top \in FrameSet(heap.here)
      /\ slices # <<>>
  BY <1>1, <1>2, TopFacts DEF Allots, Top, script
<1>4. /\ heap.here \in Nat /\ new = heap.here + 1 /\ heap'.here = new
      /\ origin'[new] = [slice |-> Len(slices), node |-> Top.node]
      /\ \A a \in 1..heap.here : origin'[a] = origin[a]
  BY <1>1, <1>2, TypeFacts DEF Allots
<1>5. \A a \in 1..heap'.here : a = new \/ a \in 1..heap.here
  BY <1>4
<1>6. Path' /\ LinksSoFar'
  BY <1>1, AllotPath, AllotLinks
<1>7. Placed'
  <2>1. ScriptAt(new)' = script /\ NodeAt(new)' = Top.node
    BY <1>3, <1>4 DEF ScriptAt, NodeAt, script
  <2>2. \A a \in 1..heap.here : ScriptAt(a)' = ScriptAt(a) /\ NodeAt(a)' = NodeAt(a)
    BY <1>3, <1>4 DEF ScriptAt, NodeAt
  <2>3. \A a \in 1..heap.here : NodeAt(a)' \in Nodes(ScriptAt(a))'
    BY <2>2 DEF Tracks, Placed, Nodes
  <2>4. NodeAt(new)' \in Nodes(ScriptAt(new))'
    BY <1>3, <2>1 DEF Nodes
  <2>5. QED
    BY <1>5, <2>3, <2>4 DEF Placed
<1>8. Fresh(Top.node)
  BY <1>3 DEF Tracks, Path, AllFresh
<1>9. Once'
  <2>1. \A n : Fresh(n)' <=> Fresh(n) /\ n # Top.node
    BY <1>1, FreshAfter
  <2>2. \A a \in 1..heap.here : origin[a] # [slice |-> Len(slices), node |-> Top.node]
    BY <1>8 DEF Fresh
  <2>3. \A a, b \in 1..heap'.here : origin'[a] = origin'[b] => a = b
    BY <1>4, <1>5, <2>2 DEF Tracks, Once
  <2>4. ASSUME NEW p \in Nodes(script), NEW n \in ChildrenOf(script, p), ~Fresh(n)'
        PROVE  ~Fresh(p)'
    <3>1. CASE ~Fresh(n)
      BY <1>3, <2>1, <3>1 DEF Tracks, Once
    <3>2. CASE n = Top.node
      <4>1. Len(stack) > 1 /\ Len(stack) - 1 \in 1..Len(stack) /\ p = stack[Len(stack) - 1].node
        BY <1>3, <3>2, Parentage
      <4>2. PICK g : g = stack[Len(stack) - 1]
        OBVIOUS
      <4>3. FrameOK(g) /\ g.at # "enter" /\ p = g.node
        BY <1>2, <1>3, <4>1, <4>2 DEF Frames
      <4>4. g.addr \in 1..heap.here /\ origin[g.addr] = [slice |-> Len(slices), node |-> p]
        BY <4>3 DEF FrameOK
      <4>5. ~Fresh(p)
        BY <4>4 DEF Fresh
      <4>6. QED
        BY <2>1, <4>5
    <3>3. QED
      BY <2>1, <2>4, <3>1, <3>2
  <2>5. QED
    BY <1>3, <2>3, <2>4 DEF Once, Nodes, ChildrenOf, NodeArgs
<1>10. Answer'
  <2>1. Top' = [Top EXCEPT !.addr = new, !.at = "body"]
    BY <1>1, <1>3 DEF Allots, Top
  <2>2. Top'.at = "body"
    BY <1>3, <2>1 DEF FrameSet
  <2>3. QED
    BY <2>2 DEF Answer
<1>11. QED
  BY <1>6, <1>7, <1>9, <1>10 DEF Tracks

-----------------------------------------------------------------------------
(* Where the entries of sliced scripts lead *)

LEMMA StepTracks == IInv /\ Tracks /\ [Next]_vars => Tracks'
<1> SUFFICES ASSUME IInv, Tracks, [Next]_vars PROVE Tracks'
  OBVIOUS
<1>1. CASE Slice
  BY <1>1, TrackSlice
<1>2. CASE Allocate
  BY <1>2, TrackAllocate
<1>3. CASE BodyFirst
  BY <1>3, TrackBodyFirst
<1>4. CASE BodyOther
  BY <1>4, TrackBodyOther
<1>5. CASE BodyReturned
  BY <1>5, TrackBodyReturned
<1>6. CASE BodyDone
  BY <1>6, TrackBodyDone
<1>7. CASE ArgNode
  BY <1>7, TrackArgNode
<1>8. CASE ArgReturned
  BY <1>8, TrackArgReturned
<1>9. CASE ArgLeaf
  BY <1>9, TrackArgLeaf
<1>10. CASE ArgSkipped
  BY <1>10, TrackArgSkipped
<1>11. CASE Return
  BY <1>11, TrackReturn
<1>12. CASE UNCHANGED vars
  <2>1. /\ heap' = heap /\ stack' = stack /\ returned' = returned
        /\ slices' = slices /\ origin' = origin
    BY <1>12 DEF vars
  <2>2. Keeps /\ Grows /\ TypeOK
    <3>1. Keeps /\ TypeOK
      BY <2>1, QuietKeeps DEF IInv
    <3>2. QED
      BY <3>1, KeepsGrows
  <2>3. /\ script' = script /\ Top' = Top
        /\ \A n : Fresh(n)' <=> Fresh(n)
        /\ \A f : /\ Pending(f)' = Pending(f)
                  /\ AllFresh(f)' <=> AllFresh(f)
                  /\ BodyCount(f)' = BodyCount(f)
                  /\ ArgCount(f)' = ArgCount(f)
    BY <2>1, <2>2, ScriptKept DEF Top
  <2>4. \A a \in 1..heap.here :
          /\ ScriptAt(a)' = ScriptAt(a) /\ NodeAt(a)' = NodeAt(a)
          /\ BodyOf(a)' = BodyOf(a) /\ ArgsOf(a)' = ArgsOf(a)
          /\ \A k, m : LinkedSoFar(a, k, m) => LinkedSoFar(a, k, m)'
          /\ ParentSoFar(a) => ParentSoFar(a)'
    <3>1. \A a : Pairs(heap', a) = Pairs(heap, a)
      BY <2>1
    <3>2. QED
      BY <2>2, <3>1, EntryKept, SoFarKept
  <2>5. Placed'
    BY <2>1, <2>4 DEF Tracks, Placed, Nodes
  <2>6. Path'
    BY <2>1, <2>3 DEF Tracks, Path, Works
  <2>7. Once'
    BY <2>1, <2>3 DEF Tracks, Once, Nodes, ChildrenOf, NodeArgs
  <2>8. Answer'
    BY <2>1, <2>3 DEF Tracks, Answer
  <2>9. LinksSoFar'
    <3>1. \A j \in 1..Len(stack) : stack[j].at # "enter" => stack[j].addr \in 1..heap.here
      BY DEF IInv, Frames, FrameOK
    <3>2. \A j \in 1..Len(stack') : \A g : g = stack'[j] => CallLinked(g)'
      BY <2>1, <2>3, <2>4, <3>1 DEF Tracks, LinksSoFar, CallLinked
    <3>3. ASSUME NEW a \in 1..heap'.here, \A j \in 1..Len(stack') : ~Works(stack'[j], a)
          PROVE  LinkedSoFar(a, Len(BodyOf(a)), Len(ArgsOf(a)))'
      <4>1. a \in 1..heap.here /\ LinkedSoFar(a, Len(BodyOf(a)), Len(ArgsOf(a)))
        BY <2>1, <3>3 DEF Tracks, LinksSoFar
      <4>2. QED
        BY <2>4, <4>1
    <3>4. \A a \in 1..heap'.here : ParentSoFar(a)'
      BY <2>1, <2>4 DEF Tracks, LinksSoFar
    <3>5. QED
      BY <3>2, <3>3, <3>4 DEF LinksSoFar
  <2>10. QED
    BY <2>5, <2>6, <2>7, <2>8, <2>9 DEF Tracks
<1>13. QED
  BY <1>1, <1>2, <1>3, <1>4, <1>5, <1>6, <1>7, <1>8, <1>9, <1>10, <1>11, <1>12 DEF Next

\* The calls in progress keep to the script: each waits for the child below it, no
\* node has two entries, and every entry is linked as far as its call has come.
THEOREM Tracking == Spec => [](IInv /\ Tracks)
<1>1. Init => IInv /\ Tracks
  BY InitIInv, TrackInit
<1>2. IInv /\ Tracks /\ [Next]_vars => IInv' /\ Tracks'
  BY StepIInv, StepTracks
<1>3. QED
  BY <1>1, <1>2, PTL DEF Spec

\* The entry made for a node is the only one.
LEMMA HomeIs ==
  ASSUME TypeOK, Once, NEW a, NEW node, NEW b, EntryFor(a, node, b)
  PROVE  Home(a, node) = b
<1>1. Address \ {0} = 1..heap.here
  BY TypeFacts
<1>2. \E c \in Address \ {0} : origin[c] = [slice |-> origin[a].slice, node |-> node]
  BY <1>1 DEF EntryFor
<1>3. /\ Home(a, node) \in 1..heap.here
      /\ origin[Home(a, node)] = [slice |-> origin[a].slice, node |-> node]
  BY <1>1, <1>2 DEF Home
<1>4. QED
  BY <1>3 DEF EntryFor, Once

\* Linked to the end.
AllLinked ==
  \A a \in 1..heap.here : /\ NextSoFar(a, Len(BodyOf(a)))
                          /\ ArgsSoFar(a, Len(ArgsOf(a)))
                          /\ ParentSoFar(a)

LEMMA LinkedNext ==
  ASSUME TypeOK, Placed, Once, AllLinked
  PROVE  NextLink
<1> SUFFICES ASSUME NEW a \in Address \ {0}, ~Displaced(a, HEAP_NEXT)
             PROVE  ValuesOf(heap, a, HEAP_NEXT) = IF BodyOf(a) = <<>> THEN {}
                                                   ELSE IF Len(BodyOf(a)) = 1 THEN {0}
                                                   ELSE {Home(a, Last(BodyOf(a)))}
  BY DEF NextLink, BodyOf
<1>1. a \in 1..heap.here
  BY TypeFacts
<1>2. BodyOf(a) \in Seq(Nodes(ScriptAt(a)))
  BY <1>1, ArgsOfSeq
<1>3. /\ \A kv \in Pairs(heap, a) : kv.key = HEAP_NEXT =>
           /\ Len(BodyOf(a)) # 0
           /\ IF Len(BodyOf(a)) = 1 THEN kv.value = 0
              ELSE EntryFor(a, BodyOf(a)[Len(BodyOf(a))], kv.value)
      /\ Len(BodyOf(a)) # 0 => \E kv \in Pairs(heap, a) : kv.key = HEAP_NEXT
  BY <1>1 DEF AllLinked, NextSoFar
<1>4. ValuesOf(heap, a, HEAP_NEXT) = { kv.value : kv \in { k \in Pairs(heap, a) : k.key = HEAP_NEXT } }
  BY DEF ValuesOf
<1>5. CASE BodyOf(a) = <<>>
  <2>1. Len(BodyOf(a)) = 0
    BY <1>5
  <2>2. QED
    BY <1>3, <1>4, <1>5, <2>1
<1>6. CASE BodyOf(a) # <<>> /\ Len(BodyOf(a)) = 1
  <2>1. Len(BodyOf(a)) # 0
    BY <1>6
  <2>2. ValuesOf(heap, a, HEAP_NEXT) = {0}
    BY <1>3, <1>4, <1>6, <2>1
  <2>3. QED
    BY <1>6, <2>2
<1>7. CASE BodyOf(a) # <<>> /\ Len(BodyOf(a)) # 1
  <2>1. Len(BodyOf(a)) # 0 /\ Last(BodyOf(a)) = BodyOf(a)[Len(BodyOf(a))]
    BY <1>2, <1>7 DEF Last
  <2>2. \A kv \in Pairs(heap, a) : kv.key = HEAP_NEXT => kv.value = Home(a, Last(BodyOf(a)))
    <3>1. \A b : EntryFor(a, Last(BodyOf(a)), b) => Home(a, Last(BodyOf(a))) = b
      BY HomeIs
    <3>2. QED
      BY <1>3, <1>7, <2>1, <3>1
  <2>3. ValuesOf(heap, a, HEAP_NEXT) = {Home(a, Last(BodyOf(a)))}
    BY <1>3, <1>4, <2>1, <2>2
  <2>4. QED
    BY <1>7, <2>3
<1>8. QED
  BY <1>5, <1>6, <1>7

LEMMA LinkedParent ==
  ASSUME TypeOK, History, Placed, Once, AllLinked
  PROVE  ParentLink
<1> DEFINE parents(a) == { p \in Nodes(ScriptAt(a)) : NodeAt(a) \in ChildrenOf(ScriptAt(a), p) }
<1> SUFFICES ASSUME NEW a \in Address \ {0}, ~Displaced(a, HEAP_PARENT)
             PROVE  ValuesOf(heap, a, HEAP_PARENT) =
                      IF parents(a) = {} THEN {0} ELSE { Home(a, p) : p \in parents(a) }
  BY DEF ParentLink
<1>1. a \in 1..heap.here
  BY TypeFacts
<1>2. IsTree(ScriptAt(a))
  <2>1. ScriptAt(a) \in Scripts
    BY <1>1, TypeFacts DEF History, ScriptAt
  <2>2. QED
    BY <2>1, TreesAssumption
<1>3. NodeAt(a) = ScriptAt(a).root => parents(a) = {}
  BY <1>2 DEF IsTree
<1>4. \A p \in Nodes(ScriptAt(a)) : NodeAt(a) \in ChildrenOf(ScriptAt(a), p) => parents(a) = {p}
  BY <1>2 DEF IsTree
<1> HIDE DEF parents
<1>5. /\ \A kv \in Pairs(heap, a) : kv.key = HEAP_PARENT =>
           \/ parents(a) = {} /\ kv.value = 0
           \/ \E p : parents(a) = {p} /\ EntryFor(a, p, kv.value)
      /\ \E kv \in Pairs(heap, a) : kv.key = HEAP_PARENT
  BY <1>1, <1>3, <1>4 DEF AllLinked, ParentSoFar
<1>6. ValuesOf(heap, a, HEAP_PARENT) = { kv.value : kv \in { k \in Pairs(heap, a) : k.key = HEAP_PARENT } }
  BY DEF ValuesOf
<1>7. CASE parents(a) = {}
  <2>1. \A kv \in Pairs(heap, a) : kv.key = HEAP_PARENT => kv.value = 0
    BY <1>5, <1>7
  <2>2. ValuesOf(heap, a, HEAP_PARENT) = {0}
    BY <1>5, <1>6, <2>1
  <2>3. QED
    BY <1>7, <2>2
<1>8. CASE parents(a) # {}
  <2>1. PICK p : parents(a) = {p}
    BY <1>5, <1>8
  <2>2. \A kv \in Pairs(heap, a) : kv.key = HEAP_PARENT => kv.value = Home(a, p)
    <3>1. \A b : EntryFor(a, p, b) => Home(a, p) = b
      BY HomeIs
    <3>2. QED
      BY <1>5, <1>8, <2>1, <3>1
  <2>3. ValuesOf(heap, a, HEAP_PARENT) = {Home(a, p)}
    BY <1>5, <1>6, <2>2
  <2>4. { Home(a, q) : q \in parents(a) } = {Home(a, p)}
    BY <2>1
  <2>5. QED
    BY <1>8, <2>3, <2>4
<1>9. QED
  BY <1>7, <1>8

LEMMA LinkedArgs ==
  ASSUME TypeOK, Placed, Once, AllLinked
  PROVE  ArgLink
<1> SUFFICES ASSUME NEW a \in Address \ {0}, NEW i \in PutArgs(a),
                    \A j \in PutArgs(a) : ArgsOf(a)[j].kind = ArgsOf(a)[i].kind => j <= i
             PROVE  \E kv \in Pairs(heap, a) :
                      /\ kv.key = ArgsOf(a)[i].kind
                      /\ IF ArgsOf(a)[i].type = "CS_CELERYSCRIPT"
                         THEN kv.type = "CSH_ADDRESS" /\ kv.value = Home(a, ArgsOf(a)[i].value)
                         ELSE kv.type = HeapType(ArgsOf(a)[i].type) /\ kv.value = ArgsOf(a)[i].value
  BY DEF ArgLink, ArgsOf
<1>1. a \in 1..heap.here
  BY TypeFacts
<1>2. i <= Len(ArgsOf(a))
  BY <1>1, ArgsOfSeq
<1>3. PICK kv \in Pairs(heap, a) : Leads(a, ArgsOf(a)[i], kv)
  BY <1>1, <1>2 DEF AllLinked, ArgsSoFar
<1>4. \A node, b : EntryFor(a, node, b) => Home(a, node) = b
  BY HomeIs
<1>5. QED
  BY <1>3, <1>4 DEF Leads

\* Once a script is sliced, the addresses in every entry are those of the entries
\* made for the nodes the script names there: the last item of its body, the node
\* it is in, the last argument of each number.
THEOREM LinksRight == Spec => []LinksLead
<1>1. IInv /\ Tracks => LinksLead
  <2> SUFFICES ASSUME IInv, Tracks PROVE LinksLead
    OBVIOUS
  <2>1. TypeOK /\ History /\ Placed /\ Once
    BY DEF IInv, Tracks
  <2>2. CASE stack = <<>>
    <3>1. AllLinked
      BY <2>2 DEF Tracks, LinksSoFar, AllLinked, LinkedSoFar
    <3>2. QED
      BY <2>1, <3>1, LinkedNext, LinkedParent, LinkedArgs DEF LinksLead
  <2>3. CASE stack # <<>>
    BY <2>3 DEF LinksLead, NextLink, ParentLink, ArgLink, Sliced
  <2>4. QED
    BY <2>2, <2>3
<1>2. QED
  BY <1>1, Tracking, PTL

-----------------------------------------------------------------------------
(* Recursive functions: that they exist, and what they give *)

\* What holds of 0, and of every number up to n if it does of the one before it.
LEMMA CountUp ==
  ASSUME NEW n \in Nat, NEW Good, 0 \in Good, \A k \in 1..n : k - 1 \in Good => k \in Good
  PROVE  \A k \in 0..n : k \in Good
<1> DEFINE Bad == { k \in 0..n : k \notin Good }
<1> SUFFICES ASSUME Bad # {} PROVE FALSE
  OBVIOUS
<1>1. Bad \subseteq Nat
  OBVIOUS
<1>2. Min(Bad) \in Bad /\ \A k \in Bad : Min(Bad) <= k
  <2> HIDE DEF Bad
  <2>1. QED
    BY <1>1, MinOfNats
<1>3. PICK m \in Bad : \A k \in Bad : m <= k
  BY <1>2
<1>4. m \in 1..n /\ m - 1 \in 0..n /\ ~(m <= m - 1)
  BY <1>3
<1>5. m - 1 \notin Bad
  BY <1>3, <1>4
<1>6. QED
  BY <1>3, <1>4, <1>5

\* A value changed n times.
Iterated(f, n, first, step) ==
  f = [k \in 0..n |-> IF k = 0 THEN first ELSE step[k][f[k - 1]]]

\* A function given by its first value and its steps exists.
LEMMA Iterates ==
  ASSUME NEW n \in Nat, NEW X, NEW first \in X, NEW step \in [1..n -> [X -> X]]
  PROVE  \E f \in [0..n -> X] : Iterated(f, n, first, step)
<1> DEFINE Solves(m, f) == \A k \in 0..m : f[k] = IF k = 0 THEN first ELSE step[k][f[k - 1]]
           Good == { m \in 0..n : \E f \in [0..m -> X] : Solves(m, f) }
<1>1. 0 \in Good
  <2> DEFINE g == [k \in 0..0 |-> first]
  <2>1. g \in [0..0 -> X] /\ Solves(0, g)
    OBVIOUS
  <2> HIDE DEF g
  <2>2. QED
    BY <2>1
<1>2. ASSUME NEW m \in 1..n, m - 1 \in Good PROVE m \in Good
  <2>1. PICK f \in [0..(m - 1) -> X] : Solves(m - 1, f)
    BY <1>2
  <2> DEFINE g == [k \in 0..m |-> IF k = m THEN step[m][f[m - 1]] ELSE f[k]]
  <2>2. /\ m - 1 \in 0..(m - 1) /\ m - 1 # m
        /\ \A k \in 0..m : k # m => k \in 0..(m - 1)
        /\ \A k \in 0..(m - 1) : k \in 0..m /\ k # m /\ (k # 0 => k - 1 \in 0..(m - 1))
        /\ m # 0 /\ m \in 0..m /\ m - 1 \in 0..m
    OBVIOUS
  <2>3. step[m][f[m - 1]] \in X
    BY <2>2
  <2>4. g \in [0..m -> X]
    BY <2>2, <2>3
  <2>5. \A k \in 0..(m - 1) : g[k] = f[k]
    BY <2>2
  <2>6. g[m] = step[m][f[m - 1]]
    BY <2>2
  <2> HIDE DEF g
  <2>7. Solves(m, g)
    <3> SUFFICES ASSUME NEW k \in 0..m
                 PROVE  g[k] = IF k = 0 THEN first ELSE step[k][g[k - 1]]
      OBVIOUS
    <3>1. CASE k = m
      BY <2>2, <2>5, <2>6, <3>1
    <3>2. CASE k # m
      <4>1. k \in 0..(m - 1)
        BY <2>2, <3>2
      <4>2. g[k] = f[k] /\ f[k] = IF k = 0 THEN first ELSE step[k][f[k - 1]]
        BY <2>1, <2>5, <4>1
      <4>3. k # 0 => g[k - 1] = f[k - 1]
        BY <2>2, <2>5, <4>1
      <4>4. QED
        BY <4>2, <4>3
    <3>3. QED
      BY <3>1, <3>2
  <2>8. QED
    BY <2>4, <2>7
<1>3. n \in Good
  <2> HIDE DEF Good
  <2>1. \A k \in 0..n : k \in Good
    BY <1>1, <1>2, CountUp
  <2>2. QED
    BY <2>1
<1>4. PICK f \in [0..n -> X] : Solves(n, f)
  BY <1>3
<1>5. Iterated(f, n, first, step)
  BY <1>4 DEF Iterated
<1>6. QED
  BY <1>5

\* The sequences of a sequence put one behind the other, from the first to the k-th.
Flat(ss) == LET flat[k \in 0..Len(ss)] == IF k = 0 THEN <<>> ELSE flat[k - 1] \o ss[k]
            IN  flat

\* What Flat gives.
LEMMA FlatIs ==
  ASSUME NEW S, NEW ss \in Seq(Seq(S))
  PROVE  /\ Flat(ss) \in [0..Len(ss) -> Seq(S)]
         /\ Flat(ss)[0] = <<>>
         /\ \A k \in 1..Len(ss) : Flat(ss)[k] = Flat(ss)[k - 1] \o ss[k]
<1> DEFINE n == Len(ss)
           step == [k \in 1..n |-> [s \in Seq(S) |-> s \o ss[k]]]
           Solves(f) == f = [k \in 0..n |-> IF k = 0 THEN <<>> ELSE f[k - 1] \o ss[k]]
<1>1. n \in Nat /\ <<>> \in Seq(S) /\ \A k \in 1..n : ss[k] \in Seq(S)
  OBVIOUS
<1>2. step \in [1..n -> [Seq(S) -> Seq(S)]]
  BY <1>1
<1>3. PICK f \in [0..n -> Seq(S)] :
        f = [k \in 0..n |-> IF k = 0 THEN <<>> ELSE step[k][f[k - 1]]]
  <2> DEFINE X == Seq(S)
             first == <<>>
  <2> HIDE DEF n, step, X, first
  <2>1. n \in Nat /\ first \in X /\ step \in [1..n -> [X -> X]]
    BY <1>1, <1>2 DEF X, first
  <2>2. \E f \in [0..n -> X] : Iterated(f, n, first, step)
    BY <2>1, Iterates
  <2>3. QED
    BY <2>2 DEF X, first, Iterated
<1> HIDE DEF n
<1>4. \A k \in 0..n : k # 0 => k \in 1..n /\ k - 1 \in 0..n
  BY <1>1
<1>5. \A k \in 0..n : k # 0 => step[k][f[k - 1]] = f[k - 1] \o ss[k]
  BY <1>4
<1>6. \A k \in 0..n : f[k] = IF k = 0 THEN <<>> ELSE f[k - 1] \o ss[k]
  <2> HIDE DEF step
  <2>1. QED
    BY <1>3, <1>5
<1>7. Solves(f)
  BY <1>6
<1>8. Flat(ss) = CHOOSE g : Solves(g)
  BY DEF Flat, n
<1>9. Solves(Flat(ss))
  BY <1>7, <1>8
<1> DEFINE F == Flat(ss)
<1>10. F = [k \in 0..n |-> IF k = 0 THEN <<>> ELSE F[k - 1] \o ss[k]]
  BY <1>9
<1> HIDE DEF F, Solves, step
<1>11. \A k \in 0..n : F[k] = IF k = 0 THEN <<>> ELSE F[k - 1] \o ss[k]
  BY <1>10
<1>12. F[0] = <<>> /\ \A k \in 1..n : F[k] = F[k - 1] \o ss[k]
  <2>1. 0 \in 0..n /\ \A k \in 1..n : k \in 0..n /\ k # 0
    BY <1>1
  <2>2. QED
    BY <1>11, <2>1
<1>13. \A k \in 0..n : F[k] \in Seq(S)
  <2> DEFINE Good == { k \in 0..n : F[k] \in Seq(S) }
  <2>1. 0 \in Good
    <3>1. 0 \in 0..n
      BY <1>1
    <3>2. F[0] \in Seq(S)
      BY <1>1, <1>12
    <3>3. QED
      BY <3>1, <3>2
  <2>2. ASSUME NEW k \in 1..n, k - 1 \in Good PROVE k \in Good
    <3>1. F[k - 1] \in Seq(S) /\ ss[k] \in Seq(S) /\ k \in 0..n
      BY <1>1, <2>2
    <3>2. F[k - 1] \o ss[k] \in Seq(S)
      BY <3>1
    <3>3. QED
      BY <1>12, <3>1, <3>2
  <2>3. \A k \in 0..n : k \in Good
    <3> HIDE DEF Good
    <3>1. QED
      BY <1>1, <2>1, <2>2, CountUp
  <2>4. QED
    BY <2>3
<1>14. F \in [0..n -> Seq(S)]
  <2>1. F = [k \in 0..n |-> F[k]]
    BY <1>10
  <2>2. QED
    BY <1>13, <2>1
<1>15. QED
  BY <1>12, <1>14 DEF F, n

\* FlattenSeq puts all of them behind one another.
LEMMA FlattenIs ==
  ASSUME NEW S, NEW ss \in Seq(Seq(S))
  PROVE  FlattenSeq(ss) = Flat(ss)[Len(ss)] /\ FlattenSeq(ss) \in Seq(S)
<1> DEFINE n == Len(ss)
           F == Flat(ss)
           Solves(g) == g = [i \in 1..n |-> IF i = 1 THEN ss[i] ELSE g[i - 1] \o ss[i]]
<1>1. /\ n \in Nat /\ F \in [0..n -> Seq(S)] /\ F[0] = <<>>
      /\ \A k \in 1..n : F[k] = F[k - 1] \o ss[k]
      /\ \A k \in 1..n : ss[k] \in Seq(S)
  <2>1. n \in Nat /\ \A k \in 1..n : ss[k] \in Seq(S)
    OBVIOUS
  <2>2. QED
    BY <2>1, FlatIs
<1>2. CASE n = 0
  <2>1. ss = <<>>
    BY <1>2
  <2>2. FlattenSeq(ss) = ss
    BY <1>2 DEF FlattenSeq
  <2>3. QED
    BY <1>1, <1>2, <2>1, <2>2
<1>3. CASE n # 0
  <2>1. FlattenSeq(ss) = (CHOOSE g : Solves(g))[n]
    BY <1>3 DEF FlattenSeq
  <2> HIDE DEF n, F
  <2>2. \A i \in 1..n : i \in 0..n /\ i - 1 \in 0..n /\ (i # 1 => i - 1 \in 1..n) /\ (i = 1 => i - 1 = 0)
    BY <1>1
  <2>3. \A s \in Seq(S) : <<>> \o s = s
    OBVIOUS
  <2> DEFINE f == [i \in 1..n |-> F[i]]
  <2>4. ASSUME NEW i \in 1..n PROVE f[i] = IF i = 1 THEN ss[i] ELSE f[i - 1] \o ss[i]
    <3>1. CASE i = 1
      <4>1. F[i] = <<>> \o ss[i]
        BY <1>1, <2>2, <3>1
      <4>2. QED
        BY <1>1, <2>3, <3>1, <4>1
    <3>2. CASE i # 1
      BY <1>1, <2>2, <3>2
    <3>3. QED
      BY <3>1, <3>2
  <2>5. Solves(f)
    <3>1. f = [i \in 1..n |-> f[i]]
      OBVIOUS
    <3> HIDE DEF f
    <3>2. QED
      BY <2>4, <3>1
  <2> DEFINE g == CHOOSE h : Solves(h)
  <2>6. Solves(g)
    BY <2>5
  <2> HIDE DEF g
  <2>7. \A i \in 1..n : g[i] = IF i = 1 THEN ss[i] ELSE g[i - 1] \o ss[i]
    BY <2>6
  <2> DEFINE Good == { k \in 0..n : k # 0 => g[k] = F[k] }
  <2>8. 0 \in Good
    BY <1>1
  <2>9. ASSUME NEW k \in 1..n, k - 1 \in Good PROVE k \in Good
    <3>1. CASE k = 1
      <4>1. F[k] = <<>> \o ss[k]
        BY <1>1, <2>2, <3>1
      <4>2. g[k] = F[k]
        BY <1>1, <2>3, <2>7, <3>1, <4>1
      <4>3. QED
        BY <2>2, <4>2
    <3>2. CASE k # 1
      <4>1. k - 1 # 0 /\ k - 1 \in 1..n
        BY <2>2, <3>2
      <4>2. g[k - 1] = F[k - 1]
        BY <2>9, <4>1
      <4>3. g[k] = F[k]
        BY <1>1, <2>7, <3>2, <4>2
      <4>4. QED
        BY <2>2, <4>3
    <3>3. QED
      BY <3>1, <3>2
  <2>10. \A k \in 0..n : k \in Good
    <3> HIDE DEF Good
    <3>1. QED
      BY <1>1, <2>8, <2>9, CountUp
  <2>11. n \in 0..n
    BY <1>1
  <2>12. g[n] = F[n]
    BY <1>3, <2>10, <2>11
  <2>13. QED
    BY <1>1, <2>1, <2>11, <2>12 DEF g, F, n
<1>4. QED
  BY <1>2, <1>3

\* It depends only on the sequences it puts behind one another.
LEMMA FlatSame ==
  ASSUME NEW S, NEW ss \in Seq(Seq(S)), NEW T, NEW tt \in Seq(Seq(T)), NEW n \in Nat,
         n <= Len(ss), n <= Len(tt), \A k \in 1..n : ss[k] = tt[k]
  PROVE  Flat(ss)[n] = Flat(tt)[n]
<1> DEFINE Good == { k \in 0..n : Flat(ss)[k] = Flat(tt)[k] }
<1>1. /\ Flat(ss)[0] = <<>> /\ Flat(tt)[0] = <<>>
      /\ \A k \in 1..Len(ss) : Flat(ss)[k] = Flat(ss)[k - 1] \o ss[k]
      /\ \A k \in 1..Len(tt) : Flat(tt)[k] = Flat(tt)[k - 1] \o tt[k]
  BY FlatIs
<1>2. Len(ss) \in Nat /\ Len(tt) \in Nat
  OBVIOUS
<1>3. \A k \in 1..n : k \in 0..n /\ k \in 1..Len(ss) /\ k \in 1..Len(tt)
  BY <1>2
<1>4. 0 \in Good
  BY <1>1
<1>5. ASSUME NEW k \in 1..n, k - 1 \in Good PROVE k \in Good
  BY <1>1, <1>3, <1>5
<1>6. \A k \in 0..n : k \in Good
  <2> HIDE DEF Good
  <2>1. QED
    BY <1>4, <1>5, CountUp
<1>7. n \in 0..n
  OBVIOUS
<1>8. QED
  BY <1>6, <1>7

-----------------------------------------------------------------------------
(* The order of traversal of a script *)

\* What a node of a script has below it are nodes of the script.
LEMMA ChildrenAreNodes ==
  ASSUME NEW celery, WellFormed(celery), NEW n \in Nodes(celery)
  PROVE  ChildrenOf(celery, n) \subseteq Nodes(celery)
<1> DEFINE Argument == [kind : Nat, type : ArgType, value : Node \cup LeafValue]
           body == celery.body[n]
           args == celery.args[n]
<1>1. body \in Seq(Nodes(celery)) /\ args \in Seq(Argument)
  BY DEF WellFormed
<1>2. \A i \in 1..Len(args) : args[i].type = "CS_CELERYSCRIPT" => args[i].value \in Nodes(celery)
  BY DEF WellFormed
<1>3. ToSet(body) \subseteq Nodes(celery)
  <2> HIDE DEF body
  <2>1. QED
    BY <1>1 DEF ToSet
<1>4. \A i \in NodeArgs(celery, n) : args[i].value \in Nodes(celery)
  <2>1. DOMAIN args = 1..Len(args)
    <3> HIDE DEF args, Argument
    <3>1. QED
      BY <1>1
  <2>2. QED
    BY <1>2, <2>1 DEF NodeArgs
<1>5. QED
  BY <1>3, <1>4 DEF ChildrenOf

\* Some node of any set of nodes has no child in the set: going down ends.
LEMMA Grounded ==
  ASSUME NEW celery, WellFormed(celery), IsTree(celery),
         NEW T \in SUBSET Nodes(celery), T # {}
  PROVE  \E n \in T : ChildrenOf(celery, n) \cap T = {}
<1> SUFFICES ASSUME \A n \in T : ChildrenOf(celery, n) \cap T # {} PROVE FALSE
  OBVIOUS
<1> DEFINE Child(n) == CHOOSE c \in T : c \in ChildrenOf(celery, n)
           f == [n \in T |-> Child(n)]
<1>1. /\ \A n \in Nodes(celery) : /\ celery.root \notin ChildrenOf(celery, n)
                                  /\ \A m \in Nodes(celery) \ {n} :
                                       ChildrenOf(celery, n) \cap ChildrenOf(celery, m) = {}
      /\ IsFiniteSet(Nodes(celery))
      /\ \A S \in SUBSET Nodes(celery) :
           celery.root \in S /\ (\A n \in S : ChildrenOf(celery, n) \subseteq S) => S = Nodes(celery)
  BY DEF IsTree
<1>2. \A n \in T : Child(n) \in T /\ Child(n) \in ChildrenOf(celery, n)
  OBVIOUS
<1> HIDE DEF Child
<1>3. f \in Injection(T, T)
  <2>1. \A n, m \in T : f[n] = f[m] => n = m
    BY <1>1, <1>2
  <2>2. f \in [T -> T]
    BY <1>2
  <2>3. QED
    BY <2>1, <2>2 DEF Injection, IsInjective
<1>4. IsFiniteSet(T)
  BY <1>1, FS_Subset
<1>5. f \in Surjection(T, T)
  BY <1>3, <1>4, FS_Injection
<1>6. \A c \in T : \E n \in T : c \in ChildrenOf(celery, n)
  <2>1. \A c \in T : \E n \in T : f[n] = c
    BY <1>5 DEF Surjection
  <2>2. QED
    BY <1>2, <2>1
<1> DEFINE S == Nodes(celery) \ T
<1>7. celery.root \in S
  <2>1. celery.root \in Nodes(celery)
    BY DEF WellFormed
  <2>2. QED
    BY <1>1, <1>6, <2>1
<1>8. \A n \in S : ChildrenOf(celery, n) \subseteq S
  <2>1. ASSUME NEW n \in S, NEW c \in ChildrenOf(celery, n) PROVE c \in S
    <3>1. c \in Nodes(celery)
      BY ChildrenAreNodes
    <3>2. c \notin T
      <4>1. \A m \in T : m \in Nodes(celery) /\ m # n
        OBVIOUS
      <4>2. QED
        BY <1>1, <1>6, <4>1
    <3>3. QED
      BY <3>1, <3>2
  <2> HIDE DEF S
  <2>2. QED
    BY <2>1
<1>9. S = Nodes(celery)
  BY <1>1, <1>7, <1>8
<1>10. QED
  BY <1>9

\* A node with what its body and its arguments give.
BodyOrders(celery, g, n) == [i \in DOMAIN celery.body[n] |-> g[celery.body[n][i]]]
ArgOrders(celery, g, n) ==
  [i \in DOMAIN celery.args[n] |->
     IF i \in NodeArgs(celery, n) THEN g[celery.args[n][i].value] ELSE <<>>]
OrderFrom(celery, g, n) ==
  <<n>> \o FlattenSeq(BodyOrders(celery, g, n)) \o FlattenSeq(ArgOrders(celery, g, n))

\* The orders of the children are as many as the items and the arguments.
LEMMA OrderParts ==
  ASSUME NEW celery, WellFormed(celery), NEW T \in SUBSET Nodes(celery), NEW n \in Nodes(celery),
         ChildrenOf(celery, n) \subseteq T, NEW S, NEW g \in [T -> Seq(S)]
  PROVE  /\ BodyOrders(celery, g, n) \in Seq(Seq(S))
         /\ Len(BodyOrders(celery, g, n)) = Len(celery.body[n])
         /\ ArgOrders(celery, g, n) \in Seq(Seq(S))
         /\ Len(ArgOrders(celery, g, n)) = Len(celery.args[n])
<1> DEFINE Argument == [kind : Nat, type : ArgType, value : Node \cup LeafValue]
<1>1. celery.body[n] \in Seq(Nodes(celery)) /\ celery.args[n] \in Seq(Argument)
  BY DEF WellFormed
<1> HIDE DEF Argument
<1>2. /\ Len(celery.body[n]) \in Nat /\ DOMAIN celery.body[n] = 1..Len(celery.body[n])
      /\ Len(celery.args[n]) \in Nat /\ DOMAIN celery.args[n] = 1..Len(celery.args[n])
  BY <1>1
<1>3. /\ \A i \in DOMAIN celery.body[n] : celery.body[n][i] \in T
      /\ \A i \in NodeArgs(celery, n) : celery.args[n][i].value \in T
  BY DEF ChildrenOf, ToSet
<1>4. \A x \in T : g[x] \in Seq(S)
  OBVIOUS
<1>5. <<>> \in Seq(S)
  OBVIOUS
<1> DEFINE X == Seq(S)
           N == Len(celery.body[n])
           M == Len(celery.args[n])
<1>6. \A i \in 1..N : g[celery.body[n][i]] \in X
  BY <1>2, <1>3, <1>4
<1>7. \A i \in 1..M : (IF i \in NodeArgs(celery, n) THEN g[celery.args[n][i].value] ELSE <<>>) \in X
  BY <1>3, <1>4, <1>5
<1> HIDE DEF X
<1>8. /\ BodyOrders(celery, g, n) = [i \in 1..N |-> g[celery.body[n][i]]]
      /\ ArgOrders(celery, g, n) =
           [i \in 1..M |-> IF i \in NodeArgs(celery, n) THEN g[celery.args[n][i].value] ELSE <<>>]
  BY <1>2 DEF BodyOrders, ArgOrders
<1> HIDE DEF N, M
<1>9. N \in Nat /\ M \in Nat
  BY <1>2 DEF N, M
<1>10. BodyOrders(celery, g, n) \in Seq(X) /\ Len(BodyOrders(celery, g, n)) = N
  BY <1>6, <1>8, <1>9
<1>11. ArgOrders(celery, g, n) \in Seq(X) /\ Len(ArgOrders(celery, g, n)) = M
  BY <1>7, <1>8, <1>9
<1>12. QED
  BY <1>10, <1>11 DEF X, N, M

\* From orders of nodes comes an order of nodes.
LEMMA OrderType ==
  ASSUME NEW celery, WellFormed(celery), NEW T \in SUBSET Nodes(celery), NEW n \in Nodes(celery),
         ChildrenOf(celery, n) \subseteq T, NEW g \in [T -> Seq(Nodes(celery))]
  PROVE  OrderFrom(celery, g, n) \in Seq(Nodes(celery))
<1>1. /\ BodyOrders(celery, g, n) \in Seq(Seq(Nodes(celery)))
      /\ ArgOrders(celery, g, n) \in Seq(Seq(Nodes(celery)))
  BY OrderParts
<1>2. /\ FlattenSeq(BodyOrders(celery, g, n)) \in Seq(Nodes(celery))
      /\ FlattenSeq(ArgOrders(celery, g, n)) \in Seq(Nodes(celery))
  BY <1>1, FlattenIs
<1>3. <<n>> \in Seq(Nodes(celery))
  OBVIOUS
<1>4. QED
  BY <1>2, <1>3 DEF OrderFrom

\* It depends only on the orders of the children.
LEMMA OrderSame ==
  ASSUME NEW celery, NEW n, NEW g, NEW h, \A c \in ChildrenOf(celery, n) : g[c] = h[c]
  PROVE  OrderFrom(celery, g, n) = OrderFrom(celery, h, n)
<1>1. /\ \A i \in DOMAIN celery.body[n] : celery.body[n][i] \in ChildrenOf(celery, n)
      /\ \A i \in NodeArgs(celery, n) : celery.args[n][i].value \in ChildrenOf(celery, n)
  BY DEF ChildrenOf, ToSet
<1>2. BodyOrders(celery, g, n) = BodyOrders(celery, h, n)
  BY <1>1 DEF BodyOrders
<1>3. ArgOrders(celery, g, n) = ArgOrders(celery, h, n)
  BY <1>1 DEF ArgOrders
<1>4. QED
  BY <1>2, <1>3 DEF OrderFrom

\* Orders exists: the largest set of nodes with known orders is that of all.
LEMMA OrdersIs ==
  ASSUME NEW celery, WellFormed(celery), IsTree(celery)
  PROVE  /\ Orders(celery) \in [Nodes(celery) -> Seq(Nodes(celery))]
         /\ \A n \in Nodes(celery) : Orders(celery)[n] = OrderFrom(celery, Orders(celery), n)
<1> DEFINE N == Nodes(celery)
           Kids(n) == ChildrenOf(celery, n)
           O(g, n) == OrderFrom(celery, g, n)
           Solves(g, T) == \A n \in T : Kids(n) \subseteq T /\ g[n] = O(g, n)
           Good == { T \in SUBSET N : \E g \in [T -> Seq(N)] : Solves(g, T) }
           Left == { Cardinality(N \ T) : T \in Good }
<1>1. IsFiniteSet(N)
  BY DEF IsTree
<1>2. {} \in Good
  <2> DEFINE g == [n \in {} |-> <<>>]
  <2>1. g \in [{} -> Seq(N)] /\ Solves(g, {})
    OBVIOUS
  <2> HIDE DEF g, Solves
  <2>2. QED
    BY <2>1
<1>3. Left \subseteq Nat /\ Left # {}
  <2>1. \A T \in SUBSET N : Cardinality(N \ T) \in Nat
    BY <1>1, FS_Subset, FS_CardinalityType
  <2>2. QED
    BY <1>2, <2>1
<1>4. PICK T \in Good : \A U \in Good : Cardinality(N \ T) <= Cardinality(N \ U)
  <2> HIDE DEF Good
  <2>1. Min(Left) \in Left /\ \A x \in Left : Min(Left) <= x
    <3> HIDE DEF Left
    <3>1. QED
      BY <1>3, MinOfNats
  <2>2. QED
    BY <2>1
<1>5. PICK g \in [T -> Seq(N)] : Solves(g, T)
  BY <1>4
<1>6. T \in SUBSET N
  BY <1>4
<1>7. T = N
  <2> SUFFICES ASSUME T # N PROVE FALSE
    OBVIOUS
  <2>1. PICK n \in N \ T : Kids(n) \cap (N \ T) = {}
    <3>1. N \ T \in SUBSET Nodes(celery) /\ N \ T # {}
      BY <1>6
    <3>2. QED
      BY <3>1, Grounded
  <2>2. Kids(n) \subseteq T
    <3>1. Kids(n) \subseteq N
      BY <2>1, ChildrenAreNodes
    <3>2. QED
      BY <2>1, <3>1
  <2> DEFINE U == T \cup {n}
             h == [x \in U |-> IF x = n THEN O(g, n) ELSE g[x]]
  <2>3. O(g, n) \in Seq(N)
    BY <1>5, <1>6, <2>1, <2>2, OrderType
  <2>4. h \in [U -> Seq(N)]
    <3> HIDE DEF O
    <3>1. \A x \in U : (IF x = n THEN O(g, n) ELSE g[x]) \in Seq(N)
      BY <1>5, <2>3
    <3>2. QED
      BY <3>1
  <2>5. h[n] = O(g, n) /\ \A x \in T : h[x] = g[x]
    <3> HIDE DEF O
    <3>1. QED
      BY <2>1
  <2> HIDE DEF h
  <2>6. ASSUME NEW x \in U PROVE Kids(x) \subseteq U /\ h[x] = O(h, x)
    <3>1. Kids(x) \subseteq T
      BY <1>5, <2>2
    <3>2. O(h, x) = O(g, x)
      BY <2>5, <3>1, OrderSame
    <3>3. h[x] = O(g, x)
      <4> HIDE DEF O
      <4>1. QED
        BY <1>5, <2>5
    <3>4. QED
      BY <3>1, <3>2, <3>3
  <2>7. Solves(h, U)
    BY <2>6
  <2>8. U \in Good
    <3> HIDE DEF Solves, U
    <3>1. U \in SUBSET N
      BY <1>6 DEF U
    <3>2. QED
      BY <2>4, <2>7, <3>1
  <2>9. Cardinality(N \ U) = Cardinality(N \ T) - 1 /\ Cardinality(N \ T) \in Nat
    <3>1. IsFiniteSet(N \ T) /\ n \in N \ T
      BY <1>1, <2>1, FS_Subset
    <3>2. N \ U = (N \ T) \ {n}
      OBVIOUS
    <3>3. Cardinality((N \ T) \ {n}) = Cardinality(N \ T) - 1
      BY <3>1, FS_RemoveElement
    <3>4. Cardinality(N \ T) \in Nat
      BY <3>1, FS_CardinalityType
    <3>5. QED
      BY <3>2, <3>3, <3>4
  <2>10. Cardinality(N \ T) <= Cardinality(N \ U)
    BY <1>4, <2>8
  <2>11. QED
    BY <2>9, <2>10
<1> DEFINE Order(f) == f = [n \in N |-> O(f, n)]
<1>8. Order(g)
  <2>1. \A n \in N : g[n] = O(g, n)
    BY <1>5, <1>7
  <2> HIDE DEF O
  <2>2. g = [n \in N |-> g[n]]
    BY <1>5, <1>7
  <2>3. QED
    BY <2>1, <2>2
<1>9. Orders(celery) = CHOOSE f : Order(f)
  BY DEF Orders, OrderFrom, BodyOrders, ArgOrders
<1> DEFINE f == Orders(celery)
<1>10. Order(f)
  BY <1>8, <1>9
<1> HIDE DEF f
<1>11. f = [n \in N |-> O(f, n)]
  BY <1>10
<1>12. \A n \in N : f[n] = O(f, n)
  <2> HIDE DEF O
  <2>1. QED
    BY <1>11
\* By the same way down as above, every order is one of nodes.
<1>13. \A n \in N : f[n] \in Seq(N)
  <2> DEFINE B == { n \in N : f[n] \notin Seq(N) }
  <2> SUFFICES ASSUME B # {} PROVE FALSE
    OBVIOUS
  <2>1. PICK n \in B : Kids(n) \cap B = {}
    <3>1. B \in SUBSET Nodes(celery)
      OBVIOUS
    <3>2. QED
      BY <3>1, Grounded
  <2>2. Kids(n) \subseteq N
    BY <2>1, ChildrenAreNodes
  <2> DEFINE G == N \ B
             e == [x \in G |-> f[x]]
  <2>3. Kids(n) \subseteq G /\ G \in SUBSET Nodes(celery)
    BY <2>1, <2>2
  <2>4. e \in [G -> Seq(N)]
    OBVIOUS
  <2>5. \A x \in Kids(n) : e[x] = f[x]
    BY <2>3
  <2> HIDE DEF e, G
  <2>6. O(e, n) \in Seq(N)
    BY <2>1, <2>3, <2>4, OrderType
  <2>7. O(e, n) = O(f, n)
    BY <2>5, OrderSame
  <2>8. QED
    BY <1>12, <2>1, <2>6, <2>7
<1>14. f \in [N -> Seq(N)]
  <2> HIDE DEF O
  <2>1. f = [n \in N |-> f[n]]
    BY <1>11
  <2>2. QED
    BY <1>13, <2>1
<1>15. QED
  BY <1>12, <1>14 DEF f

-----------------------------------------------------------------------------
(* Where the nodes lie in the heap: the invariant *)

\* The entries after from, up to to, were made for the nodes of s, in that order.
Lies(o, s, from, to) == to = from + Len(s) /\ \A k \in 1..Len(s) : o[from + k].node = s[k]

\* What lies behind something lies with it.
LEMMA LiesOn ==
  ASSUME NEW S, NEW s \in Seq(S), NEW t \in Seq(S), NEW o, NEW a \in Nat, NEW b, NEW c,
         Lies(o, s, a, b), Lies(o, t, b, c)
  PROVE  Lies(o, s \o t, a, c)
<1>1. /\ s \o t \in Seq(S) /\ Len(s) \in Nat /\ Len(t) \in Nat
      /\ Len(s \o t) = Len(s) + Len(t)
      /\ \A k \in 1..Len(s) : (s \o t)[k] = s[k]
      /\ \A k \in 1..(Len(s) + Len(t)) : k \notin 1..Len(s) => (s \o t)[k] = t[k - Len(s)]
  OBVIOUS
<1>2. /\ b = a + Len(s) /\ \A k \in 1..Len(s) : o[a + k].node = s[k]
      /\ c = b + Len(t) /\ \A k \in 1..Len(t) : o[b + k].node = t[k]
  BY DEF Lies
<1>3. c = a + Len(s \o t)
  BY <1>1, <1>2
<1>4. ASSUME NEW k \in 1..Len(s \o t) PROVE o[a + k].node = (s \o t)[k]
  <2>1. CASE k \in 1..Len(s)
    BY <1>1, <1>2, <2>1
  <2>2. CASE k \notin 1..Len(s)
    <3>1. k \in 1..(Len(s) + Len(t)) /\ k - Len(s) \in 1..Len(t) /\ b + (k - Len(s)) = a + k
      BY <1>1, <1>2, <2>2
    <3>2. o[b + (k - Len(s))].node = t[k - Len(s)]
      BY <1>2, <3>1
    <3>3. QED
      BY <1>1, <2>2, <3>1, <3>2
  <2>3. QED
    BY <2>1, <2>2
<1>5. QED
  BY <1>3, <1>4 DEF Lies

\* It does not matter to what lies in the heap that the heap grows.
LEMMA LiesStill ==
  ASSUME NEW S, NEW s \in Seq(S), NEW o, NEW p, NEW a \in Nat, NEW b, NEW here \in Nat,
         Lies(o, s, a, b), b <= here, \A k \in 1..here : p[k] = o[k]
  PROVE  Lies(p, s, a, b)
<1>1. Len(s) \in Nat /\ b = a + Len(s)
  BY DEF Lies
<1>2. \A k \in 1..Len(s) : a + k \in 1..here
  BY <1>1
<1>3. QED
  BY <1>2 DEF Lies

\* A node with the first k items of its body and its first m arguments.
Upto(celery, n, k, m) ==
  <<n>> \o Flat(BodyOrders(celery, Orders(celery), n))[k]
        \o Flat(ArgOrders(celery, Orders(celery), n))[m]

\* How much of a script a call has laid down; got says that the child it made, if
\* it made one, has returned.
BodyHeld(celery, f, got) ==
  IF f.at = "body" THEN f.i
  ELSE IF f.at = "bodyReturn" THEN IF got THEN f.i + 1 ELSE f.i
  ELSE Len(celery.body[f.node])
ArgsHeld(f, got) ==
  IF f.at \in {"body", "bodyReturn"} THEN 0
  ELSE IF f.at = "argReturn" /\ got THEN f.i + 1 ELSE f.i
Held(celery, f, got) == Upto(celery, f.node, BodyHeld(celery, f, got), ArgsHeld(f, got))

\* Where the entries of a call begin, and where those end that were there before
\* the call after the j-th began.
Before(f, here) == IF f.at = "enter" THEN here ELSE f.addr - 1
Until(st, here, j) == IF j = Len(st) THEN here ELSE Before(st[j + 1], here)

LaidAt(celery, o, st, here, j) ==
  st[j].at # "enter" =>
    Lies(o, Held(celery, st[j], j = Len(st)), st[j].addr - 1, Until(st, here, j))

Preorders(ss) == [k \in DOMAIN ss |-> Preorder(ss[k])]
Finished(st, ss) == IF st = <<>> THEN Len(ss) ELSE Len(ss) - 1

\* The scripts sliced lie one behind the other, and then what each call in progress
\* has come to.
Layout ==
  /\ Lies(origin, Flat(Preorders(slices))[Finished(stack, slices)], 0, Until(stack, heap.here, 0))
  /\ \A j \in 1..Len(stack) : LaidAt(script, origin, stack, heap.here, j)

\* How the order of a node grows, item by item and then argument by argument.
LEMMA UptoIs ==
  ASSUME NEW celery, WellFormed(celery), IsTree(celery), NEW n \in Nodes(celery)
  PROVE  /\ Upto(celery, n, 0, 0) = <<n>>
         /\ \A k \in 0..Len(celery.body[n]), m \in 0..Len(celery.args[n]) :
              Upto(celery, n, k, m) \in Seq(Nodes(celery))
         /\ \A k \in 1..Len(celery.body[n]) :
              Upto(celery, n, k, 0) = Upto(celery, n, k - 1, 0) \o Orders(celery)[celery.body[n][k]]
         /\ \A k \in 0..Len(celery.body[n]), m \in 1..Len(celery.args[n]) :
              Upto(celery, n, k, m) =
                IF m \in NodeArgs(celery, n)
                THEN Upto(celery, n, k, m - 1) \o Orders(celery)[celery.args[n][m].value]
                ELSE Upto(celery, n, k, m - 1)
         /\ Upto(celery, n, Len(celery.body[n]), Len(celery.args[n])) = Orders(celery)[n]
<1> DEFINE N == Nodes(celery)
           O == Orders(celery)
           B == BodyOrders(celery, O, n)
           A == ArgOrders(celery, O, n)
           K == Len(celery.body[n])
           M == Len(celery.args[n])
           Cat(s, t) == s \o t
           X == Seq(N)
           one == <<n>>
           none == <<>>
<1>1. /\ O \in [N -> Seq(N)]
      /\ O[n] = OrderFrom(celery, O, n)
  BY OrdersIs
<1>2. ChildrenOf(celery, n) \subseteq N
  BY ChildrenAreNodes
<1>3. B \in Seq(Seq(N)) /\ Len(B) = K /\ A \in Seq(Seq(N)) /\ Len(A) = M
  <2> HIDE DEF O
  <2>1. N \in SUBSET Nodes(celery)
    OBVIOUS
  <2>2. QED
    BY <1>1, <1>2, <2>1, OrderParts
<1>4. /\ DOMAIN celery.body[n] = 1..K /\ DOMAIN celery.args[n] = 1..M /\ K \in Nat /\ M \in Nat
      /\ \A k \in 1..K : celery.body[n][k] \in N
      /\ \A m \in NodeArgs(celery, n) : celery.args[n][m].value \in N
  <2> DEFINE Argument == [kind : Nat, type : ArgType, value : Node \cup LeafValue]
             body == celery.body[n]
             args == celery.args[n]
  <2>1. body \in Seq(N) /\ args \in Seq(Argument)
    BY DEF WellFormed
  <2>2. \A m \in NodeArgs(celery, n) : args[m].value \in N
    BY <1>2 DEF ChildrenOf
  <2> HIDE DEF body, args, Argument, N
  <2>3. /\ DOMAIN body = 1..Len(body) /\ DOMAIN args = 1..Len(args)
        /\ Len(body) \in Nat /\ Len(args) \in Nat
        /\ \A k \in 1..Len(body) : body[k] \in N
    BY <2>1
  <2>4. QED
    BY <2>2, <2>3 DEF body, args
<1>5. /\ Flat(B) \in [0..K -> X] /\ Flat(B)[0] = none
      /\ \A k \in 1..K : Flat(B)[k] = Cat(Flat(B)[k - 1], B[k])
      /\ Flat(A) \in [0..M -> X] /\ Flat(A)[0] = none
      /\ \A m \in 1..M : Flat(A)[m] = Cat(Flat(A)[m - 1], A[m])
      /\ FlattenSeq(B) = Flat(B)[K] /\ FlattenSeq(A) = Flat(A)[M]
  <2> HIDE DEF B, A, K, M, N
  <2>1. QED
    BY <1>3, FlatIs, FlattenIs
<1>6. (\A k \in 1..K : B[k] \in X) /\ \A m \in 1..M : A[m] \in X
  <2> HIDE DEF B, A, K, M
  <2>1. QED
    BY <1>3
<1>7. /\ \A k \in 1..K : B[k] = O[celery.body[n][k]]
      /\ \A m \in 1..M : A[m] = IF m \in NodeArgs(celery, n) THEN O[celery.args[n][m].value] ELSE none
  BY <1>4 DEF BodyOrders, ArgOrders
<1>8. \A k \in 0..K, m \in 0..M : Upto(celery, n, k, m) = Cat(Cat(one, Flat(B)[k]), Flat(A)[m])
  BY DEF Upto
<1>9. O[n] = Cat(Cat(one, FlattenSeq(B)), FlattenSeq(A))
  BY <1>1 DEF OrderFrom
<1> HIDE DEF O, B, A, K, M, N, X, Cat, one, none
<1>10. /\ one \in X /\ none \in X
       /\ \A s \in X : Cat(s, none) = s
       /\ \A s, t \in X : Cat(s, t) \in X
       /\ \A s, t, u \in X : Cat(Cat(s, t), u) = Cat(s, Cat(t, u))
  <2>1. one \in X /\ none \in X
    BY DEF N, X, one, none
  <2>2. \A s \in X : s \o none = s
    BY DEF X, none
  <2>3. \A s, t \in X : s \o t \in X
    BY DEF X
  <2>4. \A s, t, u \in X : (s \o t) \o u = s \o (t \o u)
    BY ConcatAssociative DEF X
  <2>5. QED
    BY <2>1, <2>2, <2>3, <2>4 DEF Cat
<1>11. /\ \A k \in 0..K : Flat(B)[k] \in X
       /\ \A m \in 0..M : Flat(A)[m] \in X
       /\ \A k \in 1..K : k \in 0..K /\ k - 1 \in 0..K
       /\ \A m \in 1..M : m \in 0..M /\ m - 1 \in 0..M
       /\ 0 \in 0..K /\ 0 \in 0..M /\ K \in 0..K /\ M \in 0..M
  <2>1. /\ \A k \in 1..K : k \in 0..K /\ k - 1 \in 0..K
        /\ \A m \in 1..M : m \in 0..M /\ m - 1 \in 0..M
        /\ 0 \in 0..K /\ 0 \in 0..M /\ K \in 0..K /\ M \in 0..M
    BY <1>4
  <2>2. (\A k \in 0..K : Flat(B)[k] \in X) /\ \A m \in 0..M : Flat(A)[m] \in X
    BY <1>5
  <2>3. QED
    BY <2>1, <2>2
<1>12. Upto(celery, n, 0, 0) = one
  <2>1. Upto(celery, n, 0, 0) = Cat(Cat(one, Flat(B)[0]), Flat(A)[0])
    BY <1>8, <1>11
  <2>2. Cat(one, none) = one
    BY <1>10
  <2>3. Flat(B)[0] = none /\ Flat(A)[0] = none
    BY <1>5
  <2>4. QED
    BY <2>1, <2>2, <2>3
<1>13. ASSUME NEW k \in 0..K, NEW m \in 0..M PROVE Upto(celery, n, k, m) \in X
  <2>1. Flat(B)[k] \in X /\ Flat(A)[m] \in X
    BY <1>11
  <2>2. Cat(one, Flat(B)[k]) \in X
    BY <1>10, <2>1
  <2>3. Cat(Cat(one, Flat(B)[k]), Flat(A)[m]) \in X
    BY <1>10, <2>1, <2>2
  <2>4. QED
    BY <1>8, <2>3
<1>14. ASSUME NEW k \in 1..K
       PROVE  Upto(celery, n, k, 0) = Cat(Upto(celery, n, k - 1, 0), O[celery.body[n][k]])
  <2>1. O[celery.body[n][k]] \in X /\ Flat(B)[k - 1] \in X
    BY <1>6, <1>7, <1>11
  <2>2. Flat(B)[k] = Cat(Flat(B)[k - 1], O[celery.body[n][k]])
    BY <1>5, <1>7
  <2>3. ASSUME NEW l \in 0..K PROVE Upto(celery, n, l, 0) = Cat(one, Flat(B)[l])
    <3>1. Upto(celery, n, l, 0) = Cat(Cat(one, Flat(B)[l]), Flat(A)[0])
      BY <1>8, <1>11
    <3>2. Flat(A)[0] = none
      BY <1>5
    <3>3. Cat(one, Flat(B)[l]) \in X
      BY <1>10, <1>11
    <3>4. QED
      BY <1>10, <3>1, <3>2, <3>3
  <2>4. Cat(one, Cat(Flat(B)[k - 1], O[celery.body[n][k]]))
          = Cat(Cat(one, Flat(B)[k - 1]), O[celery.body[n][k]])
    <3> DEFINE s == Flat(B)[k - 1]
               t == O[celery.body[n][k]]
    <3>1. s \in X /\ t \in X /\ one \in X
      BY <1>10, <2>1
    <3> HIDE DEF s, t
    <3>2. Cat(Cat(one, s), t) = Cat(one, Cat(s, t))
      BY <1>10, <3>1
    <3>3. QED
      BY <3>2 DEF s, t
  <2>5. QED
    BY <1>11, <2>2, <2>3, <2>4
<1>15. ASSUME NEW k \in 0..K, NEW m \in 1..M
       PROVE  Upto(celery, n, k, m) = IF m \in NodeArgs(celery, n)
                THEN Cat(Upto(celery, n, k, m - 1), O[celery.args[n][m].value])
                ELSE Upto(celery, n, k, m - 1)
  <2> DEFINE s == Cat(one, Flat(B)[k])
             t == Flat(A)[m - 1]
             u == A[m]
  <2>1. s \in X /\ t \in X
    BY <1>10, <1>11
  <2>2. u \in X
    BY <1>6
  <2>3. Upto(celery, n, k, m) = Cat(s, Cat(t, u)) /\ Upto(celery, n, k, m - 1) = Cat(s, t)
    BY <1>5, <1>8, <1>11
  <2>4. /\ m \in NodeArgs(celery, n) => u = O[celery.args[n][m].value]
        /\ m \notin NodeArgs(celery, n) => u = none
    BY <1>7
  <2> HIDE DEF s, t, u
  <2>5. Cat(s, Cat(t, u)) = Cat(Cat(s, t), u) /\ Cat(s, t) \in X
    BY <1>10, <2>1, <2>2
  <2>6. QED
    BY <1>10, <2>3, <2>4, <2>5
<1>16. Upto(celery, n, K, M) = O[n]
  BY <1>5, <1>8, <1>9, <1>11
<1>17. QED
  BY <1>12, <1>13, <1>14, <1>15, <1>16 DEF O, K, M, N, X, Cat, one, none

\* Before any script nothing lies in the heap.
LEMMA LayInit == Init => Layout
<1> SUFFICES ASSUME Init PROVE Layout
  OBVIOUS
<1>1. heap.here = 0
  BY DEF Init, HeapInit, HeapPut
<1>2. stack = <<>> /\ slices = <<>> /\ Len(stack) = 0 /\ Len(slices) = 0
  BY DEF Init
<1>3. Preorders(slices) = <<>>
  BY <1>2 DEF Preorders
<1>4. <<>> \in Seq(Seq(Node))
  OBVIOUS
<1>5. Flat(<<>>)[0] = <<>>
  BY <1>4, FlatIs
<1>6. Lies(origin, <<>>, 0, 0)
  BY DEF Lies
<1>7. Finished(stack, slices) = 0 /\ Until(stack, heap.here, 0) = 0
  BY <1>1, <1>2 DEF Finished, Until
<1>8. \A j \in 1..Len(stack) : FALSE
  BY <1>2
<1>9. QED
  BY <1>3, <1>5, <1>6, <1>7, <1>8 DEF Layout

\* A step in which the innermost call goes on or makes a call lays nothing down.
LEMMA TurnLays ==
  ASSUME IInv, Layout, UNCHANGED <<origin, slices>>, heap'.here = heap.here,
         stack # <<>>, Top.at # "enter", NEW at, NEW i \in Nat, Turns(at, i),
         Held(script, Moved(at, i), at \in {"body", "args"}) = Held(script, Top, TRUE)
  PROVE  Layout'
<1> DEFINE f == Moved(at, i)
           d == Len(stack)
           here == heap.here
           Still(j) == stack'[j] = stack[j]
<1>1. TypeOK /\ History /\ Frames
  BY DEF IInv
<1>2. /\ d \in Nat \ {0}
      /\ \A j \in 1..(d - 1) : Still(j)
      /\ stack'[d] = f
      /\ \/ Len(stack') = d /\ at \in {"body", "args"}
         \/ Len(stack') = d + 1 /\ stack'[d + 1] = Entered(f)
  BY <1>1, Shape
<1>3. at \in At /\ at # "enter" /\ Top = stack[d] /\ (Len(stack') = d + 1 => at \notin {"body", "args"})
  <2>1. Turns(at, i) => at \in {"body", "args", "bodyReturn", "argReturn"}
    BY DEF Turns
  <2>2. CASE Len(stack') = d
    BY <1>2, <2>1, <2>2 DEF At, Top
  <2>3. CASE stack' = Resume(f)
    <3>1. stack \in Seq(FrameSet(here)) /\ f \in FrameSet(here)
      BY <1>1, <2>1, TopFacts, FrameMoves DEF At
    <3>2. Len(stack') = d
      BY <2>3, <3>1, StackOps DEF Resume
    <3>3. QED
      BY <2>2, <3>2
  <2>4. CASE stack' # Resume(f)
    BY <2>1, <2>4 DEF At, Top, Turns
  <2>5. QED
    BY <2>3, <2>4
<1>4. f.node = Top.node /\ f.addr = Top.addr /\ f.at = at
  BY <1>1, <1>3, FrameMoves
<1>5. Entered(f).at = "enter"
  BY DEF Entered
<1> HIDE DEF f, d, here
<1>6. /\ \A j \in 1..d : Before(stack'[j], here) = Before(stack[j], here)
      /\ \A j \in 1..d : j = d \/ (j \in 1..(d - 1) /\ j # d /\ j + 1 \in 1..d)
      /\ \A j \in 1..(d + 1) : j = d + 1 \/ j \in 1..d
      /\ 1 \in 1..d /\ d # d + 1 /\ 0 # d /\ 0 # d + 1 /\ 0 + 1 = 1
      /\ \A j \in 1..d : j # d + 1
  <2>1. \A j \in 1..d : j = d \/ (j \in 1..(d - 1) /\ j # d /\ j + 1 \in 1..d)
    BY <1>2
  <2>2. Before(f, here) = Before(Top, here)
    BY <1>3, <1>4 DEF Before
  <2>3. \A j \in 1..d : stack'[j] = stack[j] \/ (stack'[j] = f /\ stack[j] = Top)
    BY <1>2, <1>3, <2>1
  <2>4. \A j \in 1..d : Before(stack'[j], here) = Before(stack[j], here)
    BY <2>2, <2>3
  <2>5. /\ \A j \in 1..(d + 1) : j = d + 1 \/ j \in 1..d
        /\ 1 \in 1..d /\ d # d + 1 /\ 0 # d /\ 0 # d + 1 /\ 0 + 1 = 1
        /\ \A j \in 1..d : j # d + 1
    BY <1>2
  <2>6. QED
    BY <2>1, <2>4, <2>5
<1>7. Len(stack) = d /\ (Len(stack') = d \/ Len(stack') = d + 1)
  BY <1>2 DEF d
<1>8. /\ Lies(origin, Flat(Preorders(slices))[Finished(stack, slices)], 0, Until(stack, here, 0))
      /\ \A j \in 1..d : LaidAt(script, origin, stack, here, j)
  BY DEF Layout, d, here
<1>9. Until(stack', here, 0) = Until(stack, here, 0)
  BY <1>6, <1>7 DEF Until
<1>10. Finished(stack', slices) = Finished(stack, slices)
  <2>1. stack' # <<>>
    <3>1. Len(stack') # 0
      BY <1>6, <1>7
    <3>2. QED
      BY <3>1
  <2>2. QED
    BY <2>1 DEF Finished
<1>11. ASSUME NEW j \in 1..d, j # d PROVE LaidAt(script, origin, stack', here, j)
  <2>1. stack'[j] = stack[j] /\ j # Len(stack') /\ j # Len(stack)
    BY <1>2, <1>6, <1>7, <1>11
  <2>2. Until(stack', here, j) = Until(stack, here, j)
    BY <1>6, <1>11, <2>1 DEF Until
  <2>3. QED
    BY <1>8, <2>1, <2>2 DEF LaidAt
<1>12. LaidAt(script, origin, stack', here, d)
  <2>1. d \in 1..d
    BY <1>2
  <2>2. Lies(origin, Held(script, Top, TRUE), Top.addr - 1, here)
    <3>1. LaidAt(script, origin, stack, here, d)
      BY <1>8, <2>1
    <3>2. Until(stack, here, d) = here /\ (d = Len(stack)) = TRUE
      BY <1>7 DEF Until
    <3>3. QED
      BY <1>3, <3>1, <3>2 DEF LaidAt
  <2>3. Until(stack', here, d) = here
    <3>1. CASE Len(stack') = d
      BY <3>1 DEF Until
    <3>2. CASE Len(stack') = d + 1
      <4>1. Before(Entered(f), here) = here
        BY <1>5 DEF Before
      <4>2. stack'[d + 1] = Entered(f) /\ d # Len(stack')
        BY <1>2, <1>6, <3>2
      <4>3. QED
        BY <4>1, <4>2 DEF Until
    <3>3. QED
      BY <1>7, <3>1, <3>2
  <2>4. (d = Len(stack')) = (at \in {"body", "args"})
    BY <1>2, <1>3, <1>6, <1>7
  <2>5. Held(script, f, d = Len(stack')) = Held(script, Top, TRUE)
    BY <2>4 DEF f
  <2>6. QED
    BY <1>2, <1>4, <2>2, <2>3, <2>5 DEF LaidAt
<1>13. ASSUME Len(stack') = d + 1 PROVE LaidAt(script, origin, stack', here, d + 1)
  <2>1. stack'[d + 1] = Entered(f)
    BY <1>2, <1>6, <1>13
  <2>2. QED
    BY <1>5, <2>1 DEF LaidAt
<1>14. \A j \in 1..Len(stack') : LaidAt(script, origin, stack', here, j)
  BY <1>6, <1>7, <1>11, <1>12, <1>13
<1>15. origin' = origin /\ slices' = slices /\ heap'.here = here /\ script' = script
  BY DEF here, script
<1>16. QED
  BY <1>8, <1>9, <1>10, <1>14, <1>15 DEF Layout

\* Every entry has the kind of the node it was made for.
KindsKept == \A a \in 1..heap.here : heap.entries[a].kind = ScriptAt(a).kind[NodeAt(a)]

Lays == Layout /\ KindsKept

\* Neither heap_put nor a step without one changes a kind.
SameKinds ==
  /\ heap'.here = heap.here
  /\ \A a \in 1..heap.here : heap'.entries[a].kind = heap.entries[a].kind

\* A pair put into an entry leaves all kinds.
LEMMA KindsPut ==
  ASSUME TypeOK, NEW adr, NEW type, NEW key, NEW value,
         heap' = HeapPut(heap, adr, type, key, value)
  PROVE  SameKinds
<1> DEFINE new == Updated(heap.entries[adr].kvs, [key |-> key, type |-> type, value |-> value])
<1>1. heap' = [heap EXCEPT !.entries[adr].kvs = new]
  BY DEF HeapPut
<1> HIDE DEF new
<1>2. /\ heap = [here |-> heap.here, heap_size |-> heap.heap_size, entries |-> heap.entries]
      /\ heap.entries \in [0..heap.here -> Entry] /\ heap.here \in Nat
  BY TypeFacts DEF IsHeap
<1>3. /\ heap'.here = heap.here
      /\ heap'.entries = [heap.entries EXCEPT ![adr] = [heap.entries[adr] EXCEPT !.kvs = new]]
  BY <1>1, <1>2
<1>4. \A a \in 1..heap.here : a \in 0..heap.here
  BY <1>2
<1>5. \A a \in 1..heap.here : heap'.entries[a].kind = heap.entries[a].kind
  BY <1>2, <1>3, <1>4 DEF Entry
<1>6. QED
  BY <1>3, <1>5 DEF SameKinds

\* A turn of a loop that lays down nothing but what the child did.
LEMMA TurnsLay ==
  ASSUME IInv, Lays, UNCHANGED <<origin, slices>>, SameKinds,
         stack # <<>>, Top.at # "enter", NEW at, NEW i \in Nat, Turns(at, i),
         Held(script, Moved(at, i), at \in {"body", "args"}) = Held(script, Top, TRUE)
  PROVE  Lays'
<1>1. Layout'
  BY TurnLays DEF Lays, SameKinds
<1>2. \A a : ScriptAt(a)' = ScriptAt(a) /\ NodeAt(a)' = NodeAt(a)
  BY DEF ScriptAt, NodeAt
<1>3. KindsKept'
  BY <1>2 DEF Lays, KindsKept, SameKinds
<1>4. QED
  BY <1>1, <1>3 DEF Lays

\* The calls for an item of the body and for an argument.
LEMMA CallsItem ==
  ASSUME IInv, Lays, UNCHANGED <<origin, slices>>, SameKinds,
         stack # <<>>, Top.at = "body", Top.i < Len(Body),
         stack' = Call(Resume([Top EXCEPT !.at = "bodyReturn"]), Body[Top.i + 1], Top.addr)
  PROVE  Lays'
<1> DEFINE f == Moved("bodyReturn", Top.i)
<1>1. Top.i \in Nat /\ Body \in Seq(Nodes(script)) /\ Body[Top.i + 1] \in Nodes(script)
  BY TopFields, TopFacts DEF IInv
<1>2. /\ f = [Top EXCEPT !.at = "bodyReturn"]
      /\ f.node = Top.node /\ f.at = "bodyReturn" /\ f.i = Top.i
  BY <1>1, FrameMoves DEF IInv, At
<1>3. Top.i + 1 \in DOMAIN Body /\ Top.i + 1 > Top.i
  BY <1>1
<1> HIDE DEF f
<1>4. Pending(f) = Body[Top.i + 1] /\ Body[Top.i + 1] \in Ahead(Top)
  BY <1>2, <1>3 DEF Pending, Ahead, AheadBody, Body
<1>5. Turns("bodyReturn", Top.i)
  BY <1>1, <1>2, <1>4 DEF Turns, f
<1>6. BodyHeld(script, f, FALSE) = BodyHeld(script, Top, TRUE) /\ ArgsHeld(f, FALSE) = ArgsHeld(Top, TRUE)
  BY <1>2 DEF BodyHeld, ArgsHeld
<1>7. Held(script, f, FALSE) = Held(script, Top, TRUE)
  BY <1>2, <1>6 DEF Held
<1>8. ("bodyReturn" \in {"body", "args"}) = FALSE
  OBVIOUS
<1>9. QED
  BY <1>1, <1>5, <1>7, <1>8, TurnsLay DEF f

\* Calling an argument lays down nothing yet.
LEMMA CallsArgument ==
  ASSUME IInv, Lays, UNCHANGED <<origin, slices>>, SameKinds,
         stack # <<>>, Top.at = "args", Top.i < Len(Args), Arg.type = "CS_CELERYSCRIPT",
         stack' = Call(Resume([Top EXCEPT !.at = "argReturn"]), Arg.value, Top.addr)
  PROVE  Lays'
<1> DEFINE f == Moved("argReturn", Top.i)
<1>1. Top.i \in Nat /\ Top.i + 1 \in DOMAIN Args /\ Arg.value \in Nodes(script)
  BY TopFields DEF IInv
<1>2. /\ f = [Top EXCEPT !.at = "argReturn"]
      /\ f.node = Top.node /\ f.at = "argReturn" /\ f.i = Top.i
  BY <1>1, FrameMoves DEF IInv, At
<1>3. Top.i + 1 > Top.i
  BY <1>1
<1> HIDE DEF f
<1>4. Pending(f) = Arg.value /\ Arg.value \in Ahead(Top)
  BY <1>1, <1>2, <1>3 DEF Pending, Ahead, AheadArgs, NodeArgs, Args, Arg
<1>5. Turns("argReturn", Top.i)
  BY <1>1, <1>2, <1>4 DEF Turns, f
<1>6. BodyHeld(script, f, FALSE) = BodyHeld(script, Top, TRUE) /\ ArgsHeld(f, FALSE) = ArgsHeld(Top, TRUE)
  BY <1>2 DEF BodyHeld, ArgsHeld
<1>7. Held(script, f, FALSE) = Held(script, Top, TRUE)
  BY <1>2, <1>6 DEF Held
<1>8. ("argReturn" \in {"body", "args"}) = FALSE
  OBVIOUS
<1>9. QED
  BY <1>1, <1>5, <1>7, <1>8, TurnsLay DEF f

\* The steps that call.
LEMMA LayCalls ==
  ASSUME IInv, Lays, BodyFirst \/ BodyOther \/ ArgNode
  PROVE  Lays'
<1>1. heap' = heap => SameKinds
  BY DEF SameKinds
<1>2. CASE BodyFirst
  <2>1. SameKinds
    BY <1>2, KindsPut DEF BodyFirst, IInv
  <2>2. QED
    BY <1>2, <2>1, CallsItem DEF BodyFirst, Running
<1>3. CASE BodyOther
  BY <1>1, <1>3, CallsItem DEF BodyOther, Running
<1>4. CASE ArgNode
  BY <1>1, <1>4, CallsArgument DEF ArgNode, Running
<1>5. QED
  BY <1>2, <1>3, <1>4

\* The item that returned now counts for the body it is in.
LEMMA LayBodyReturned == IInv /\ Lays /\ BodyReturned => Lays'
<1> SUFFICES ASSUME IInv, Lays, BodyReturned PROVE Lays'
  OBVIOUS
<1> DEFINE n == Top.i + 1
           f == Moved("body", n)
<1>1. /\ stack # <<>> /\ Top.at = "bodyReturn" /\ UNCHANGED <<slices, origin>>
      /\ stack' = Resume(f) /\ SameKinds
  BY KindsPut DEF BodyReturned, Running, Moved, IInv
<1>2. n \in Nat
  BY <1>1, TopFields DEF IInv
<1>3. f.node = Top.node /\ f.at = "body" /\ f.i = n
  BY <1>1, <1>2, FrameMoves DEF IInv, At
<1>4. Turns("body", n)
  BY <1>1 DEF Turns
<1> HIDE DEF f
<1>5. BodyHeld(script, f, TRUE) = BodyHeld(script, Top, TRUE) /\ ArgsHeld(f, TRUE) = ArgsHeld(Top, TRUE)
  BY <1>1, <1>3 DEF BodyHeld, ArgsHeld
<1>6. Held(script, f, TRUE) = Held(script, Top, TRUE)
  BY <1>3, <1>5 DEF Held
<1>7. QED
  BY <1>1, <1>2, <1>4, <1>6, TurnsLay DEF f

\* From the body to the arguments.
LEMMA LayBodyDone == IInv /\ Lays /\ BodyDone => Lays'
<1> SUFFICES ASSUME IInv, Lays, BodyDone PROVE Lays'
  OBVIOUS
<1> DEFINE f == Moved("args", 0)
<1>1. /\ stack # <<>> /\ Top.at = "body" /\ Top.i = Len(Body) /\ UNCHANGED <<slices, origin>>
      /\ stack' = Resume(f) /\ SameKinds
  BY DEF BodyDone, Running, Moved, SameKinds
<1>2. f.node = Top.node /\ f.at = "args" /\ f.i = 0
  BY <1>1, FrameMoves DEF IInv, At
<1>3. Turns("args", 0)
  BY <1>1 DEF Turns
<1> HIDE DEF f
<1>4. BodyHeld(script, f, TRUE) = BodyHeld(script, Top, TRUE) /\ ArgsHeld(f, TRUE) = ArgsHeld(Top, TRUE)
  BY <1>1, <1>2 DEF BodyHeld, ArgsHeld, Body
<1>5. Held(script, f, TRUE) = Held(script, Top, TRUE)
  BY <1>2, <1>4 DEF Held
<1>6. QED
  BY <1>1, <1>3, <1>5, TurnsLay DEF f

\* The argument that returned now counts for its node.
LEMMA LayArgReturned == IInv /\ Lays /\ ArgReturned => Lays'
<1> SUFFICES ASSUME IInv, Lays, ArgReturned PROVE Lays'
  OBVIOUS
<1> DEFINE n == Top.i + 1
           f == Moved("args", n)
<1>1. /\ stack # <<>> /\ Top.at = "argReturn" /\ UNCHANGED <<slices, origin>>
      /\ stack' = Resume(f) /\ SameKinds
  BY KindsPut DEF ArgReturned, Running, Moved, IInv
<1>2. n \in Nat
  BY <1>1, TopFields DEF IInv
<1>3. f.node = Top.node /\ f.at = "args" /\ f.i = n
  BY <1>1, <1>2, FrameMoves DEF IInv, At
<1>4. Turns("args", n)
  BY <1>1 DEF Turns
<1> HIDE DEF f
<1>5. BodyHeld(script, f, TRUE) = BodyHeld(script, Top, TRUE) /\ ArgsHeld(f, TRUE) = ArgsHeld(Top, TRUE)
  BY <1>1, <1>3 DEF BodyHeld, ArgsHeld
<1>6. Held(script, f, TRUE) = Held(script, Top, TRUE)
  BY <1>3, <1>5 DEF Held
<1>7. QED
  BY <1>1, <1>2, <1>4, <1>6, TurnsLay DEF f

\* An argument that is no node has no entries.
LEMMA LayNoNode ==
  ASSUME IInv, Lays, ArgLeaf \/ ArgSkipped
  PROVE  Lays'
<1> DEFINE n == Top.i + 1
           f == Moved("args", n)
           K == Len(script.body[Top.node])
<1>1. /\ stack # <<>> /\ Top.at = "args" /\ Top.i < Len(Args) /\ UNCHANGED <<slices, origin>>
      /\ Arg.type # "CS_CELERYSCRIPT"
      /\ stack' = Resume([Top EXCEPT !.i = Top.i + 1]) /\ SameKinds
  <2>1. CASE ArgLeaf
    BY <2>1, KindsPut DEF ArgLeaf, Running, IInv
  <2>2. CASE ArgSkipped
    BY <2>2 DEF ArgSkipped, Running, SameKinds
  <2>3. QED
    BY <2>1, <2>2
<1>2. n \in Nat /\ Top.i \in Nat /\ n - 1 = Top.i
  BY <1>1, TopFields DEF IInv
<1>3. f.node = Top.node /\ f.at = "args" /\ f.i = n /\ f = [Top EXCEPT !.i = Top.i + 1]
  BY <1>1, <1>2, FrameMoves DEF IInv, At
<1>4. Turns("args", n)
  BY <1>1, <1>3 DEF Turns
<1> HIDE DEF f
<1>5. /\ BodyHeld(script, f, TRUE) = K /\ BodyHeld(script, Top, TRUE) = K
      /\ ArgsHeld(f, TRUE) = n /\ ArgsHeld(Top, TRUE) = Top.i
  BY <1>1, <1>3 DEF BodyHeld, ArgsHeld
<1>6. Upto(script, Top.node, K, n) = Upto(script, Top.node, K, Top.i)
  <2>1. WellFormed(script) /\ IsTree(script) /\ Top.node \in Nodes(script)
    BY <1>1, ScriptTree, TopFacts DEF IInv
  <2>2. n \notin NodeArgs(script, Top.node)
    BY <1>1 DEF NodeArgs, Arg, Args
  <2>3. K \in 0..K /\ n \in 1..Len(script.args[Top.node])
    <3>1. Body \in Seq(Nodes(script)) /\ Top.i + 1 \in DOMAIN Args
      BY <1>1, TopFacts, TopFields DEF IInv
    <3>2. Args \in Seq([kind : Nat, type : ArgType, value : Node \cup LeafValue])
      BY <1>1, TopFacts DEF IInv
    <3>3. Len(Body) \in Nat /\ DOMAIN Args = 1..Len(Args)
      BY <3>1, <3>2
    <3>4. Len(Body) \in 0..Len(Body) /\ n \in 1..Len(Args)
      BY <3>1, <3>3
    <3>5. QED
      BY <3>4 DEF Body, Args
  <2> HIDE DEF K, n
  <2>4. \A k \in 0..Len(script.body[Top.node]), m \in 1..Len(script.args[Top.node]) :
          m \notin NodeArgs(script, Top.node) =>
            Upto(script, Top.node, k, m) = Upto(script, Top.node, k, m - 1)
    BY <2>1, UptoIs
  <2>5. Upto(script, Top.node, K, n) = Upto(script, Top.node, K, n - 1)
    BY <2>2, <2>3, <2>4 DEF K
  <2>6. QED
    BY <1>2, <2>5
<1>7. Held(script, f, TRUE) = Held(script, Top, TRUE)
  BY <1>3, <1>5, <1>6 DEF Held
<1>8. QED
  BY <1>1, <1>2, <1>4, <1>7, TurnsLay DEF f

\* The order of a script is one of nodes ...
LEMMA PreorderIs ==
  ASSUME NEW celery \in Scripts
  PROVE  Preorder(celery) = Orders(celery)[celery.root] /\ Preorder(celery) \in Seq(Node)
<1>1. WellFormed(celery) /\ IsTree(celery)
  BY ScriptsAssumption, TreesAssumption
<1>2. celery.root \in Nodes(celery) /\ Nodes(celery) \subseteq Node
  BY <1>1 DEF WellFormed
<1>3. Orders(celery) \in [Nodes(celery) -> Seq(Nodes(celery))]
  BY <1>1, OrdersIs
<1>4. Orders(celery)[celery.root] \in Seq(Nodes(celery))
  BY <1>2, <1>3
<1>5. Orders(celery)[celery.root] \in Seq(Node)
  <2> DEFINE s == Orders(celery)[celery.root]
  <2>1. s \in Seq(Nodes(celery))
    BY <1>4
  <2> HIDE DEF s
  <2>2. s \in Seq(Node)
    BY <1>2, <2>1
  <2>3. QED
    BY <2>2 DEF s
<1>6. QED
  BY <1>5 DEF Preorder

\* ... and so are those of several scripts.
LEMMA PreordersAre ==
  ASSUME NEW ss \in Seq(Scripts)
  PROVE  /\ Preorders(ss) \in Seq(Seq(Node))
         /\ Len(Preorders(ss)) = Len(ss)
         /\ \A k \in 1..Len(ss) : Preorders(ss)[k] = Preorder(ss[k])
<1>1. Len(ss) \in Nat /\ DOMAIN ss = 1..Len(ss) /\ \A k \in 1..Len(ss) : ss[k] \in Scripts
  OBVIOUS
<1>2. \A k \in 1..Len(ss) : Preorder(ss[k]) \in Seq(Node)
  BY <1>1, PreorderIs
<1> DEFINE X == Seq(Node)
           n == Len(ss)
           P == [k \in 1..n |-> Preorder(ss[k])]
<1>3. Preorders(ss) = P
  BY <1>1 DEF Preorders
<1>4. n \in Nat /\ \A k \in 1..n : Preorder(ss[k]) \in X
  BY <1>1, <1>2
<1> HIDE DEF n, X
<1>5. P \in Seq(X) /\ Len(P) = n /\ \A k \in 1..n : P[k] = Preorder(ss[k])
  BY <1>4
<1>6. QED
  BY <1>3, <1>5 DEF X, n

\* The sequence a call has laid down is one of nodes.
LEMMA HeldIs ==
  ASSUME IInv, NEW j \in 1..Len(stack), stack[j].at # "enter", NEW got \in BOOLEAN
  PROVE  /\ Held(script, stack[j], got) \in Seq(Nodes(script))
         /\ stack[j].addr \in 1..heap.here
         /\ stack[j].i \in Nat
         /\ stack[j].node \in Nodes(script)
         /\ stack[j].at \in At
<1> DEFINE f == stack[j]
           K == Len(script.body[f.node])
           M == Len(script.args[f.node])
<1>1. TypeOK /\ History /\ Frames /\ stack # <<>>
  BY DEF IInv
<1>2. FrameOK(f) /\ f.node \in Nodes(script)
  BY <1>1 DEF Frames, TypeOK
<1>3. f \in FrameSet(heap.here)
  BY <1>1, TopFacts
<1> HIDE DEF f
<1>4. f.i \in Nat /\ f.at \in At
  BY <1>3 DEF FrameSet
<1>5. f.addr \in 1..heap.here
  BY <1>2 DEF FrameOK, f
<1>6. WellFormed(script) /\ IsTree(script)
  BY <1>1, ScriptTree
<1>7. K \in Nat /\ M \in Nat
  <2> DEFINE Argument == [kind : Nat, type : ArgType, value : Node \cup LeafValue]
  <2>1. script.body[f.node] \in Seq(Nodes(script)) /\ script.args[f.node] \in Seq(Argument)
    BY <1>2, <1>6 DEF WellFormed
  <2> HIDE DEF Argument
  <2>2. QED
    BY <2>1
<1> HIDE DEF K, M
<1>8. BodyHeld(script, f, got) \in 0..K /\ ArgsHeld(f, got) \in 0..M
  <2>1. /\ f.at = "body" => f.i <= K
        /\ f.at = "bodyReturn" => f.i < K
        /\ f.at = "args" => f.i <= M
        /\ f.at = "argReturn" => f.i < M
    BY <1>2 DEF FrameOK, K, M
  <2>2. f.at \in {"body", "bodyReturn", "args", "argReturn"}
    BY <1>4 DEF At, f
  <2>3. \A i \in Nat : i < K => i \in 0..K /\ i + 1 \in 0..K
    BY <1>7
  <2>4. \A i \in Nat : i < M => i \in 0..M /\ i + 1 \in 0..M
    BY <1>7
  <2>5. \A i \in Nat : (i <= K => i \in 0..K) /\ (i <= M => i \in 0..M)
    BY <1>7
  <2>6. 0 \in 0..M /\ K \in 0..K
    BY <1>7
  <2>7. BodyHeld(script, f, got) \in 0..K
    BY <1>4, <2>1, <2>2, <2>3, <2>5, <2>6 DEF BodyHeld, K
  <2>8. ArgsHeld(f, got) \in 0..M
    BY <1>4, <2>1, <2>2, <2>4, <2>5, <2>6 DEF ArgsHeld
  <2>9. QED
    BY <2>7, <2>8
<1>9. Held(script, f, got) \in Seq(Nodes(script))
  <2>1. \A k \in 0..K, m \in 0..M : Upto(script, f.node, k, m) \in Seq(Nodes(script))
    BY <1>2, <1>6, UptoIs DEF K, M
  <2>2. QED
    BY <1>8, <2>1 DEF Held
<1>10. QED
  BY <1>2, <1>4, <1>5, <1>9 DEF f

\* The child that returns completes what its caller had laid down.
LEMMA HeldMore ==
  ASSUME IInv, NEW j \in 1..Len(stack), stack[j].at \in {"bodyReturn", "argReturn"}
  PROVE  /\ Pending(stack[j]) \in Nodes(script)
         /\ Held(script, stack[j], TRUE) =
              Held(script, stack[j], FALSE) \o Orders(script)[Pending(stack[j])]
<1> DEFINE f == stack[j]
           n == f.i + 1
           O == Orders(script)
           K == Len(script.body[f.node])
           M == Len(script.args[f.node])
<1>1. f.i \in Nat /\ f.node \in Nodes(script)
  BY HeldIs
<1>2. FrameOK(f) /\ stack # <<>>
  BY DEF IInv, Frames
<1> HIDE DEF f
<1>3. WellFormed(script) /\ IsTree(script)
  BY <1>2, ScriptTree
<1>4. Pending(f) \in Nodes(script)
  <2>1. Pending(f) \in ChildrenOf(script, f.node)
    BY <1>1, <1>2, PendingBelow DEF f
  <2>2. QED
    BY <1>1, <1>3, <2>1, ChildrenAreNodes
<1>5. /\ DOMAIN script.args[f.node] = 1..M /\ K \in Nat /\ M \in Nat
  <2> DEFINE Argument == [kind : Nat, type : ArgType, value : Node \cup LeafValue]
  <2>1. script.body[f.node] \in Seq(Nodes(script)) /\ script.args[f.node] \in Seq(Argument)
    BY <1>1, <1>3 DEF WellFormed
  <2> HIDE DEF Argument
  <2>2. QED
    BY <2>1
<1>6. /\ \A k \in 1..K : Upto(script, f.node, k, 0) = Upto(script, f.node, k - 1, 0) \o O[script.body[f.node][k]]
      /\ \A k \in 0..K, m \in 1..M :
           Upto(script, f.node, k, m) =
             IF m \in NodeArgs(script, f.node)
             THEN Upto(script, f.node, k, m - 1) \o O[script.args[f.node][m].value]
             ELSE Upto(script, f.node, k, m - 1)
  BY <1>1, <1>3, UptoIs
<1> HIDE DEF K, M, O
<1>7. n - 1 = f.i /\ \A l \in Nat : f.i < l => n \in 1..l
  BY <1>1
<1>8. CASE f.at = "bodyReturn"
  <2>1. n \in 1..K /\ Pending(f) = script.body[f.node][n]
    BY <1>2, <1>5, <1>7, <1>8 DEF FrameOK, Pending, K
  <2>2. Held(script, f, TRUE) = Upto(script, f.node, n, 0) /\ Held(script, f, FALSE) = Upto(script, f.node, n - 1, 0)
    BY <1>7, <1>8 DEF Held, BodyHeld, ArgsHeld
  <2> HIDE DEF n
  <2>3. QED
    BY <1>4, <1>6, <2>1, <2>2 DEF f, O
<1>9. CASE f.at = "argReturn"
  <2>1. /\ n \in 1..M /\ Pending(f) = script.args[f.node][n].value
        /\ n \in NodeArgs(script, f.node)
    <3>1. n \in 1..M /\ script.args[f.node][n].type = "CS_CELERYSCRIPT"
      BY <1>2, <1>5, <1>7, <1>9 DEF FrameOK, M
    <3>2. QED
      BY <1>5, <1>9, <3>1 DEF NodeArgs, Pending
  <2>2. Held(script, f, TRUE) = Upto(script, f.node, K, n) /\ Held(script, f, FALSE) = Upto(script, f.node, K, n - 1)
    BY <1>7, <1>9 DEF Held, BodyHeld, ArgsHeld, K
  <2>3. K \in 0..K
    BY <1>5
  <2> HIDE DEF n
  <2>4. QED
    BY <1>4, <1>6, <2>1, <2>2, <2>3 DEF f, O
<1>10. QED
  BY <1>8, <1>9 DEF f

\* A call that returns has laid down its node with all there is below it.
LEMMA ReturnLies ==
  ASSUME IInv, Layout, Return
  PROVE  /\ Top.node \in Nodes(script) /\ Top.at # "enter" /\ Top.addr \in 1..heap.here
         /\ Lies(origin, Orders(script)[Top.node], Top.addr - 1, heap.here)
<1>1. stack # <<>> /\ Top.at = "args" /\ Top.i = Len(Args)
  BY DEF Return, Running
<1>2. Len(stack) \in 1..Len(stack) /\ Top = stack[Len(stack)]
  BY <1>1, TopFacts DEF IInv, Top
<1>3. WellFormed(script) /\ IsTree(script) /\ Top.node \in Nodes(script)
  BY <1>1, ScriptTree, TopFacts DEF IInv
<1>4. Top.addr \in 1..heap.here
  BY <1>1, <1>2, HeldIs
<1>5. Held(script, Top, TRUE) = Orders(script)[Top.node]
  <2>1. BodyHeld(script, Top, TRUE) = Len(script.body[Top.node])
        /\ ArgsHeld(Top, TRUE) = Len(script.args[Top.node])
    BY <1>1 DEF BodyHeld, ArgsHeld, Args
  <2>2. Upto(script, Top.node, Len(script.body[Top.node]), Len(script.args[Top.node]))
          = Orders(script)[Top.node]
    BY <1>3, UptoIs
  <2>3. QED
    BY <2>1, <2>2 DEF Held
<1>6. Lies(origin, Held(script, Top, TRUE), Top.addr - 1, heap.here)
  <2>1. LaidAt(script, origin, stack, heap.here, Len(stack))
    BY <1>2 DEF Layout
  <2>2. (Len(stack) = Len(stack)) = TRUE
    OBVIOUS
  <2>3. Until(stack, heap.here, Len(stack)) = heap.here
    BY DEF Until
  <2> DEFINE d == Len(stack)
  <2>4. stack[d] = Top /\ (d = d) = TRUE
    BY DEF Top
  <2>5. LaidAt(script, origin, stack, heap.here, d) /\ Until(stack, heap.here, d) = heap.here /\ d = Len(stack)
    BY <2>1, <2>3
  <2> HIDE DEF d
  <2>6. QED
    BY <1>1, <2>4, <2>5 DEF LaidAt
<1>7. QED
  BY <1>1, <1>3, <1>4, <1>5, <1>6

\* A call that returns has laid down the whole order of its node, which is what the
\* call below it, or the list of finished scripts, was waiting for.
LEMMA LayReturn == IInv /\ Tracks /\ Lays /\ Return => Lays'
<1> SUFFICES ASSUME IInv, Tracks, Lays, Return PROVE Lays'
  OBVIOUS
<1> DEFINE d == Len(stack)
           here == heap.here
           O == Orders(script)[Top.node]
<1>1. /\ stack # <<>> /\ stack' = Front(stack) /\ UNCHANGED <<heap, slices, origin>>
  BY DEF Return, Running
<1>2. TypeOK /\ History /\ Frames /\ slices # <<>> /\ slices \in Seq(Scripts)
  BY <1>1 DEF IInv, TypeOK, History
<1>3. stack \in Seq(FrameSet(here)) /\ Top \in FrameSet(here) /\ d \in Nat \ {0}
  BY <1>1, <1>2, TopFacts
<1>4. /\ Len(stack') = d - 1 /\ stack' \in Seq(FrameSet(here))
      /\ \A j \in 1..(d - 1) : stack'[j] = stack[j]
  BY <1>1, <1>3, StackOps
<1>5. /\ Top.node \in Nodes(script) /\ Top.at # "enter" /\ Top.addr \in 1..here
      /\ Lies(origin, O, Top.addr - 1, here)
  BY ReturnLies DEF Lays
<1>6. WellFormed(script) /\ IsTree(script) /\ Top = stack[d] /\ script = slices[Len(slices)]
  BY <1>1, ScriptTree DEF Top, script
<1>7. O \in Seq(Nodes(script))
  <2>1. Orders(script) \in [Nodes(script) -> Seq(Nodes(script))]
    BY <1>6, OrdersIs
  <2>2. QED
    BY <1>5, <2>1
<1>8. Before(Top, here) = Top.addr - 1 /\ Top.addr - 1 \in Nat
  <2>1. Before(Top, here) = Top.addr - 1
    BY <1>5 DEF Before
  <2>2. here \in Nat
    BY <1>2, TypeFacts
  <2>3. QED
    BY <1>5, <2>1, <2>2
<1>9. /\ Lies(origin, Flat(Preorders(slices))[Finished(stack, slices)], 0, Until(stack, here, 0))
      /\ \A j \in 1..d : LaidAt(script, origin, stack, here, j)
  BY DEF Lays, Layout
<1>10. \A j \in 1..d : j = 1 => stack[j].node = script.root
  BY DEF Tracks, Path
<1>11. \A j \in 1..d : j > 1 => stack[j].node = Pending(stack[j - 1])
  BY DEF Tracks, Path
<1>12. \A j \in 1..d : j < d => stack[j].at \in {"bodyReturn", "argReturn"}
  BY <1>2 DEF Frames
<1> HIDE DEF d, here, O
<1>13. CASE d = 1
  <2> DEFINE n == Len(slices)
             P == Preorders(slices)
  <2>1. /\ P \in Seq(Seq(Node)) /\ Len(P) = n /\ P[n] = Preorder(slices[n])
        /\ n \in Nat \ {0} /\ slices[n] \in Scripts
    <3>1. n \in Nat \ {0} /\ slices[n] \in Scripts /\ n \in 1..n
      BY <1>2
    <3>2. QED
      BY <1>2, <3>1, PreordersAre
  <2>2. P[n] = O
    <3>1. Top.node = script.root
      BY <1>6, <1>10, <1>13
    <3>2. QED
      BY <1>6, <2>1, <3>1, PreorderIs DEF O
  <2> HIDE DEF n, P
  <2>3. /\ Flat(P) \in [0..n -> Seq(Node)]
        /\ Flat(P)[n] = Flat(P)[n - 1] \o P[n]
    <3>1. n \in 1..n
      BY <2>1
    <3>2. QED
      BY <2>1, <3>1, FlatIs
  <2>4. Flat(P)[n - 1] \in Seq(Node) /\ O \in Seq(Node)
    <3>1. n - 1 \in 0..n
      BY <2>1
    <3>2. P[n] \in Seq(Node)
      BY <2>1, PreorderIs
    <3>3. QED
      BY <2>2, <2>3, <3>1, <3>2
  <2>5. stack' = <<>>
    <3>1. Len(stack') = 0
      BY <1>4, <1>13
    <3>2. QED
      BY <1>4, <3>1
  <2>6. Finished(stack, slices) = n - 1 /\ Finished(stack', slices) = n
    BY <1>1, <2>5 DEF Finished, n
  <2>7. Until(stack, here, 0) = Top.addr - 1 /\ Until(stack', here, 0) = here
    <3>1. Len(stack) = d /\ d # 0 /\ 0 + 1 = d /\ Len(stack') = 0
      BY <1>4, <1>13 DEF d
    <3>2. QED
      BY <1>6, <1>8, <3>1 DEF Until
  <2>8. Lies(origin, Flat(P)[n - 1], 0, Top.addr - 1)
    BY <1>9, <2>6, <2>7 DEF P
  <2>9. Lies(origin, Flat(P)[n - 1] \o O, 0, here)
    <3> DEFINE s == Flat(P)[n - 1]
               b == Top.addr - 1
    <3>1. s \in Seq(Node) /\ Lies(origin, s, 0, b) /\ Lies(origin, O, b, here) /\ 0 \in Nat
      BY <1>5, <2>4, <2>8
    <3> HIDE DEF s, b
    <3>2. Lies(origin, s \o O, 0, here)
      BY <2>4, <3>1, LiesOn
    <3>3. QED
      BY <3>2 DEF s
  <2>10. Lies(origin, Flat(P)[Finished(stack', slices)], 0, Until(stack', here, 0))
    BY <2>2, <2>3, <2>6, <2>7, <2>9
  <2>11. \A j \in 1..Len(stack') : FALSE
    BY <1>4, <1>13
  <2>12. Layout'
    BY <1>1, <2>10, <2>11 DEF Layout, P, here
  <2>13. QED
    BY <1>1, <2>12 DEF Lays, KindsKept, ScriptAt, NodeAt
<1>14. CASE d # 1
  <2>1. /\ d - 1 \in 1..d /\ d > 1 /\ d - 1 # d /\ d - 1 # 0 /\ d # 0 /\ (d - 1) + 1 = d /\ d - 1 < d
        /\ d \in 1..d /\ d - 1 \in 1..(d - 1) /\ 1 \in 1..(d - 1)
        /\ \A j \in 1..(d - 1) : j \in 1..d /\ j # d /\ j < d /\ (j # d - 1 => j + 1 \in 1..(d - 1))
    BY <1>3, <1>14
  <2> DEFINE e == d - 1
             f == stack[e]
  <2>2. Len(stack) = d /\ Len(stack') = e
    BY <1>4 DEF d
  <2>3. stack' # <<>>
    <3>1. Len(stack') # 0
      BY <2>1, <2>2
    <3>2. QED
      BY <3>1
  <2>4. Finished(stack', slices) = Finished(stack, slices)
    BY <1>1, <2>3 DEF Finished
  <2>5. Until(stack', here, 0) = Until(stack, here, 0)
    <3>1. stack'[0 + 1] = stack[0 + 1] /\ 0 # e /\ 0 # d
      BY <1>4, <2>1
    <3> HIDE DEF e
    <3>2. QED
      BY <2>2, <3>1 DEF Until
  <2>6. ASSUME NEW j \in 1..e, j # e PROVE LaidAt(script, origin, stack', here, j)
    <3>1. /\ stack'[j] = stack[j] /\ stack'[j + 1] = stack[j + 1]
          /\ j # Len(stack') /\ j # Len(stack) /\ j \in 1..d
      BY <1>4, <2>1, <2>2, <2>6
    <3>2. Until(stack', here, j) = Until(stack, here, j)
      BY <3>1 DEF Until
    <3>3. QED
      BY <1>9, <3>1, <3>2 DEF LaidAt
  <2>7. f.at \in {"bodyReturn", "argReturn"} /\ f.at # "enter"
    BY <1>12, <2>1
  <2>8. Top.node = Pending(f)
    BY <1>6, <1>11, <2>1
  <2>9. /\ Held(script, f, TRUE) = Held(script, f, FALSE) \o O
        /\ Held(script, f, FALSE) \in Seq(Nodes(script))
        /\ f.addr \in 1..here
    <3>1. e \in 1..Len(stack) /\ stack[e] = f
      BY <2>1, <2>2
    <3> HIDE DEF e, f
    <3>2. QED
      BY <2>7, <2>8, <3>1, HeldIs, HeldMore DEF O, here
  <2>10. Lies(origin, Held(script, f, FALSE), f.addr - 1, Top.addr - 1)
    <3>1. LaidAt(script, origin, stack, here, e)
      BY <1>9, <2>1
    <3>2. (e = Len(stack)) = FALSE
      BY <2>1, <2>2
    <3>3. Until(stack, here, e) = Top.addr - 1
      BY <1>6, <1>8, <2>1, <2>2 DEF Until
    <3> HIDE DEF e
    <3>4. QED
      BY <2>7, <3>1, <3>2, <3>3 DEF LaidAt
  <2>11. LaidAt(script, origin, stack', here, e)
    <3>1. stack'[e] = f /\ (e = Len(stack')) = TRUE /\ Until(stack', here, e) = here
      BY <1>4, <2>1, <2>2 DEF Until
    <3> DEFINE s == Held(script, f, FALSE)
               a == f.addr - 1
               b == Top.addr - 1
    <3>2. a \in Nat
      <4>1. here \in Nat
        BY <1>2, TypeFacts DEF here
      <4>2. QED
        BY <2>9, <4>1
    <3>3. s \in Seq(Nodes(script)) /\ Lies(origin, s, a, b) /\ Lies(origin, O, b, here)
      BY <1>5, <2>9, <2>10
    <3>4. Lies(origin, s \o O, a, here)
      <4> HIDE DEF s, a, b
      <4>1. QED
        BY <1>7, <3>2, <3>3, LiesOn
    <3>5. Lies(origin, Held(script, f, TRUE), f.addr - 1, here)
      BY <2>9, <3>4
    <3> HIDE DEF e, f
    <3>6. QED
      BY <3>1, <3>5 DEF LaidAt
  <2>12. \A j \in 1..Len(stack') : LaidAt(script, origin, stack', here, j)
    BY <2>2, <2>6, <2>11
  <2>13. script' = script
    BY <1>1 DEF script
  <2>14. Layout'
    BY <1>1, <1>9, <2>4, <2>5, <2>12, <2>13 DEF Layout, here
  <2>15. QED
    BY <1>1, <2>14 DEF Lays, KindsKept, ScriptAt, NodeAt
<1>15. QED
  BY <1>13, <1>14

\* A new script starts behind the finished ones.
LEMMA LaySlice == IInv /\ Lays /\ Slice => Lays'
<1> SUFFICES ASSUME IInv, Lays, Slice PROVE Lays'
  OBVIOUS
<1>1. PICK celery \in Scripts : /\ slices' = Append(slices, celery)
                                /\ stack' = Call(<<>>, celery.root, 0)
  BY DEF Slice
<1>2. stack = <<>> /\ UNCHANGED <<heap, returned, origin>>
  BY DEF Slice
<1>3. TypeOK /\ slices \in Seq(Scripts)
  BY DEF IInv, History
<1> DEFINE f == [node |-> celery.root, parent |-> 0, addr |-> 0, at |-> "enter", i |-> 0]
           n == Len(slices)
<1>4. Len(stack') = 1 /\ stack'[1] = f /\ f.at = "enter" /\ stack' # <<>>
  BY <1>1 DEF Call
<1> HIDE DEF f
<1>5. /\ slices' \in Seq(Scripts) /\ n \in Nat /\ Len(slices') = n + 1
      /\ \A k \in 1..n : slices'[k] = slices[k]
  BY <1>1, <1>3
<1>6. Finished(stack', slices') = n /\ Finished(stack, slices) = n
  BY <1>2, <1>4, <1>5 DEF Finished
<1>7. Flat(Preorders(slices'))[n] = Flat(Preorders(slices))[n]
  <2> DEFINE P == Preorders(slices)
             Q == Preorders(slices')
  <2>1. /\ P \in Seq(Seq(Node)) /\ Len(P) = n
        /\ Q \in Seq(Seq(Node)) /\ Len(Q) = n + 1
        /\ \A k \in 1..n : P[k] = Preorder(slices[k])
        /\ \A k \in 1..(n + 1) : Q[k] = Preorder(slices'[k])
    BY <1>3, <1>5, PreordersAre
  <2> HIDE DEF P, Q, n
  <2>2. \A k \in 1..n : P[k] = Q[k]
    BY <1>5, <2>1
  <2>3. n <= Len(P) /\ n <= Len(Q)
    BY <1>5, <2>1
  <2>4. Flat(P)[n] = Flat(Q)[n]
    BY <1>5, <2>1, <2>2, <2>3, FlatSame
  <2>5. QED
    BY <2>4 DEF P, Q
<1>8. Until(stack, heap.here, 0) = heap.here /\ Until(stack', heap.here, 0) = heap.here
  <2>1. Until(stack, heap.here, 0) = heap.here
    BY <1>2 DEF Until
  <2>2. 0 # Len(stack') /\ 0 + 1 = 1
    BY <1>4
  <2>3. QED
    BY <1>4, <2>1, <2>2 DEF Until, Before
<1>9. Lies(origin, Flat(Preorders(slices))[n], 0, heap.here)
  BY <1>6, <1>8 DEF Lays, Layout
<1>10. \A j \in 1..Len(stack') : j = 1
  BY <1>4
<1>11. \A celeryScript : LaidAt(celeryScript, origin, stack', heap.here, 1)
  BY <1>4 DEF LaidAt
<1>12. Layout'
  BY <1>2, <1>6, <1>7, <1>8, <1>9, <1>10, <1>11 DEF Layout
<1>13. KindsKept'
  <2>1. \A a \in 1..heap.here : ScriptAt(a)' = ScriptAt(a) /\ NodeAt(a)' = NodeAt(a)
    <3>1. \A a \in 1..heap.here : origin[a].slice \in 1..n
      BY <1>3, TypeFacts
    <3>2. QED
      BY <1>2, <1>5, <3>1 DEF ScriptAt, NodeAt
  <2>2. QED
    BY <1>2, <2>1 DEF Lays, KindsKept
<1>14. QED
  BY <1>12, <1>13 DEF Lays

\* heap_alot gives the new entry the kind of the node, and leaves the others theirs.
LEMMA AllotKinds ==
  ASSUME IInv, Allocate
  PROVE  /\ heap'.entries[heap.here + 1].kind = script.kind[Top.node]
         /\ \A a \in 1..heap.here : heap'.entries[a].kind = heap.entries[a].kind
<1> DEFINE kind == script.kind[Top.node]
           alot == HeapAlot(heap, kind)
           new == heap.here + 1
           kvs == Updated(alot.entries[new].kvs,
                          [key |-> HEAP_PARENT, type |-> "CSH_ADDRESS", value |-> Top.parent])
           entry == EmptyEntry(kind)
<1>1. TypeOK /\ History /\ Frames /\ stack # <<>>
  BY DEF IInv, Allocate, Running
<1>2. IsHeap(heap) /\ heap.here \in Nat /\ heap.heap_size = heap.here + 1 /\ kind \in Nat
  BY <1>1, TypeFacts, TopFacts DEF IsHeap
<1>3. /\ alot.here = new
      /\ alot.entries = [a \in 0..new |-> IF a = new THEN entry ELSE heap.entries[a]]
      /\ alot = [here |-> alot.here, heap_size |-> alot.heap_size, entries |-> alot.entries]
  BY <1>2 DEF HeapAlot
<1>4. heap' = HeapPut(alot, alot.here, "CSH_ADDRESS", HEAP_PARENT, Top.parent)
  BY DEF Allocate
<1> HIDE DEF alot, kind, entry
<1>5. heap' = [alot EXCEPT !.entries[new].kvs = kvs]
  BY <1>3, <1>4 DEF HeapPut
<1> HIDE DEF kvs
<1>6. heap'.entries = [alot.entries EXCEPT ![new] = [alot.entries[new] EXCEPT !.kvs = kvs]]
  BY <1>3, <1>5
<1>7. new \in 0..new /\ \A a \in 1..heap.here : a \in 0..new /\ a # new
  BY <1>2
<1>8. alot.entries[new] = entry /\ \A a \in 1..heap.here : alot.entries[a] = heap.entries[a]
  BY <1>3, <1>7
<1>9. entry = [kind |-> kind, kvs |-> <<>>]
  BY DEF entry, EmptyEntry
<1>10. heap'.entries[new].kind = kind
  <2>1. heap'.entries[new] = [entry EXCEPT !.kvs = kvs]
    BY <1>3, <1>6, <1>7, <1>8
  <2>2. QED
    BY <1>9, <2>1
<1>11. \A a \in 1..heap.here : heap'.entries[a] = heap.entries[a]
  BY <1>3, <1>6, <1>7, <1>8
<1>12. QED
  BY <1>10, <1>11 DEF kind

\* The new entry is the first of its call, and the last in the heap.
LEMMA LayAllocate == IInv /\ Tracks /\ Lays /\ Allocate => Lays'
<1> SUFFICES ASSUME IInv, Tracks, Lays, Allocate PROVE Lays'
  OBVIOUS
<1>1. PICK new : Allots(new)
  BY AllocateAllots
<1> DEFINE d == Len(stack)
           here == heap.here
           f == [Top EXCEPT !.addr = new, !.at = "body"]
<1>2. TypeOK /\ History /\ Frames /\ slices \in Seq(Scripts)
  BY DEF IInv, History
<1>3. /\ new = here + 1 /\ new \in Nat /\ here \in Nat /\ heap'.here = new
      /\ stack # <<>> /\ Top.at = "enter" /\ slices' = slices
      /\ origin'[new] = [slice |-> Len(slices), node |-> Top.node]
      /\ \A a \in 1..here : origin'[a] = origin[a]
      /\ Len(stack') = d /\ stack'[d] = f
      /\ \A j \in 1..(d - 1) : stack'[j] = stack[j]
  BY <1>1, <1>2, TypeFacts DEF Allots
<1>4. /\ d \in Nat \ {0} /\ Top = stack[d] /\ Top.node \in Nodes(script)
      /\ Top \in FrameSet(here) /\ FrameOK(Top)
  BY <1>2, <1>3, TopFacts DEF Top
<1>5. f.at = "body" /\ f.addr = new /\ f.i = 0 /\ f.node = Top.node
  BY <1>3, <1>4 DEF FrameOK, FrameSet
<1>6. WellFormed(script) /\ IsTree(script) /\ script' = script
  BY <1>3, ScriptTree DEF script
<1>7. /\ Lies(origin, Flat(Preorders(slices))[Finished(stack, slices)], 0, Until(stack, here, 0))
      /\ \A j \in 1..d : LaidAt(script, origin, stack, here, j)
  BY DEF Lays, Layout
<1> HIDE DEF f
<1>8. Before(f, new) = here /\ Before(Top, here) = here
  <2>1. new - 1 = here
    BY <1>3
  <2>2. QED
    BY <1>3, <1>5, <2>1 DEF Before
<1>9. \A j \in 1..d : stack[j].at # "enter" => stack[j].addr - 1 \in Nat /\ stack[j].addr - 1 <= here
  <2>1. \A j \in 1..d : FrameOK(stack[j])
    BY <1>2 DEF Frames
  <2>2. \A j \in 1..d : stack[j].at # "enter" => stack[j].addr \in 1..here
    BY <2>1 DEF FrameOK
  <2>3. QED
    BY <1>3, <2>2
<1>10. \A j \in 1..d : j < d => stack[j].at # "enter"
  BY <1>2 DEF Frames
<1> HIDE DEF d, here
<1>11. /\ \A j \in 0..d : j # d => j + 1 \in 1..d /\ j < d /\ (j + 1 = d \/ j + 1 \in 1..(d - 1))
       /\ \A j \in 1..d : j \in 0..d /\ (j = d \/ j \in 1..(d - 1))
       /\ d \in 1..d /\ 0 \in 0..d /\ 0 # d
       /\ \A j \in 1..(d - 1) : j \in 1..d /\ j # d /\ j < d
  BY <1>4
<1>12. Len(stack) = d /\ Len(stack') = d
  BY <1>3 DEF d
\* The calls before the innermost one end where they did.
<1>13. ASSUME NEW j \in 0..d, j # d
       PROVE  Until(stack', new, j) = Until(stack, here, j) /\ Until(stack, here, j) <= here
  <2>1. Until(stack', new, j) = Before(stack'[j + 1], new) /\ Until(stack, here, j) = Before(stack[j + 1], here)
    BY <1>12, <1>13 DEF Until
  <2>2. CASE j + 1 = d
    <3>1. stack'[j + 1] = f /\ stack[j + 1] = Top
      BY <1>3, <1>4, <2>2
    <3>2. here <= here
      BY <1>3
    <3>3. QED
      BY <1>8, <2>1, <3>1, <3>2
  <2>3. CASE j + 1 \in 1..(d - 1)
    <3> DEFINE k == j + 1
    <3>1. k \in 1..(d - 1)
      BY <2>3
    <3> HIDE DEF k
    <3>2. stack'[k] = stack[k] /\ stack[k].at # "enter" /\ stack[k].addr - 1 <= here
      BY <1>3, <1>9, <1>10, <1>11, <3>1
    <3>3. Before(stack'[k], new) = Before(stack[k], here) /\ Before(stack[k], here) <= here
      BY <3>2 DEF Before
    <3>4. QED
      BY <2>1, <3>3 DEF k
  <2>4. QED
    BY <1>11, <1>13, <2>2, <2>3
<1>14. Lies(origin', Flat(Preorders(slices))[Finished(stack', slices)], 0, Until(stack', new, 0))
  <2> DEFINE n == Finished(stack, slices)
             s == Flat(Preorders(slices))[n]
             b == Until(stack, here, 0)
  <2>1. Finished(stack', slices) = n /\ n \in 0..Len(slices)
    <3>1. stack' # <<>>
      <4>1. Len(stack') # 0
        BY <1>11, <1>12
      <4>2. QED
        BY <4>1
    <3>2. Len(slices) \in Nat \ {0}
      BY <1>2, <1>3, TopFacts
    <3>3. QED
      BY <1>3, <3>1, <3>2 DEF Finished
  <2>2. s \in Seq(Node)
    <3>1. Preorders(slices) \in Seq(Seq(Node)) /\ Len(Preorders(slices)) = Len(slices)
      BY <1>2, PreordersAre
    <3>2. Flat(Preorders(slices)) \in [0..Len(slices) -> Seq(Node)]
      BY <3>1, FlatIs
    <3>3. QED
      BY <2>1, <3>2
  <2>3. Lies(origin, s, 0, b) /\ b <= here /\ Until(stack', new, 0) = b
    BY <1>7, <1>11, <1>13
  <2> HIDE DEF s, b
  <2>4. ASSUME NEW p, p = origin' PROVE Lies(p, s, 0, b)
    <3>1. \A k \in 1..here : p[k] = origin[k]
      BY <1>3, <2>4
    <3>2. QED
      BY <1>3, <2>2, <2>3, <3>1, LiesStill
  <2>5. Lies(origin', s, 0, b)
    BY <2>4
  <2>6. QED
    BY <2>1, <2>3, <2>5 DEF s
<1>15. ASSUME NEW j \in 1..(d - 1) PROVE LaidAt(script, origin', stack', new, j)
  <2> DEFINE s == Held(script, stack[j], FALSE)
             a == stack[j].addr - 1
             b == Until(stack, here, j)
  <2>1. j \in 1..d /\ j \in 0..d /\ j # d /\ stack'[j] = stack[j] /\ stack[j].at # "enter"
    BY <1>3, <1>10, <1>11
  <2>2. (j = Len(stack)) = FALSE /\ (j = Len(stack')) = FALSE
    BY <1>12, <2>1
  <2>3. Lies(origin, s, a, b)
    <3>1. LaidAt(script, origin, stack, here, j)
      BY <1>7, <2>1
    <3>2. QED
      BY <2>1, <2>2, <3>1 DEF LaidAt
  <2>4. s \in Seq(Nodes(script))
    <3>1. j \in 1..Len(stack) /\ FALSE \in BOOLEAN
      BY <1>12, <2>1
    <3>2. QED
      BY <2>1, <3>1, HeldIs
  <2>5. a \in Nat /\ b <= here /\ Until(stack', new, j) = b
    BY <1>9, <1>13, <2>1
  <2> HIDE DEF s, a, b
  <2>6. ASSUME NEW p, p = origin' PROVE Lies(p, s, a, b)
    <3>1. \A k \in 1..here : p[k] = origin[k]
      BY <1>3, <2>6
    <3>2. QED
      BY <1>3, <2>3, <2>4, <2>5, <3>1, LiesStill
  <2>7. Lies(origin', s, a, b)
    BY <2>6
  <2>8. QED
    BY <2>1, <2>2, <2>5, <2>7 DEF LaidAt, s, a
<1>16. LaidAt(script, origin', stack', new, d)
  <2>1. (d = Len(stack')) = TRUE /\ Until(stack', new, d) = new
    BY <1>12 DEF Until
  <2>2. Held(script, f, TRUE) = <<Top.node>>
    <3>1. BodyHeld(script, f, TRUE) = 0 /\ ArgsHeld(f, TRUE) = 0
      BY <1>5 DEF BodyHeld, ArgsHeld
    <3>2. Upto(script, Top.node, 0, 0) = <<Top.node>>
      BY <1>4, <1>6, UptoIs
    <3>3. QED
      BY <1>5, <3>1, <3>2 DEF Held
  <2>3. Lies(origin', <<Top.node>>, new - 1, new)
    <3>1. Len(<<Top.node>>) = 1 /\ <<Top.node>>[1] = Top.node
      OBVIOUS
    <3>2. new = (new - 1) + 1
      BY <1>3
    <3>3. \A k \in 1..1 : k = 1
      OBVIOUS
    <3>4. origin'[(new - 1) + 1].node = Top.node
      BY <1>3, <3>2
    <3>5. QED
      BY <3>1, <3>2, <3>3, <3>4 DEF Lies
  <2>4. stack'[d] = f
    BY <1>3
  <2>5. QED
    BY <1>5, <2>1, <2>2, <2>3, <2>4 DEF LaidAt
<1>17. Layout'
  <2>1. \A j \in 1..Len(stack') : LaidAt(script, origin', stack', new, j)
    BY <1>11, <1>12, <1>15, <1>16
  <2>2. QED
    BY <1>3, <1>6, <1>14, <2>1 DEF Layout
<1>18. KindsKept'
  <2>1. /\ heap'.entries[new].kind = script.kind[Top.node]
        /\ \A a \in 1..here : heap'.entries[a].kind = heap.entries[a].kind
    BY <1>3, AllotKinds DEF here
  <2>2. ASSUME NEW a \in 1..here
        PROVE  heap'.entries[a].kind = ScriptAt(a)'.kind[NodeAt(a)']
    <3>1. ScriptAt(a)' = ScriptAt(a) /\ NodeAt(a)' = NodeAt(a)
      BY <1>3 DEF ScriptAt, NodeAt
    <3>2. QED
      BY <2>1, <3>1 DEF Lays, KindsKept, here
  <2>3. ASSUME NEW a, a = new
        PROVE  heap'.entries[a].kind = ScriptAt(a)'.kind[NodeAt(a)']
    <3>1. ScriptAt(a)' = script /\ NodeAt(a)' = Top.node
      BY <1>3, <2>3 DEF ScriptAt, NodeAt, script
    <3>2. QED
      BY <2>1, <2>3, <3>1
  <2>4. \A a \in 1..heap'.here : a = new \/ a \in 1..here
    BY <1>3
  <2>5. QED
    BY <2>2, <2>3, <2>4 DEF KindsKept
<1>19. QED
  BY <1>17, <1>18 DEF Lays

\* The invariant at the start, at every step, and so always.
LEMMA LaysInit == Init => Lays
<1> SUFFICES ASSUME Init PROVE Lays
  OBVIOUS
<1>1. heap.here = 0 /\ 1..heap.here = {}
  BY DEF Init, HeapInit, HeapPut
<1>2. QED
  BY <1>1, LayInit DEF Lays, KindsKept

LEMMA StepLays == IInv /\ Tracks /\ Lays /\ [Next]_vars => Lays'
<1> SUFFICES ASSUME IInv, Tracks, Lays, [Next]_vars PROVE Lays'
  OBVIOUS
<1>1. CASE Slice
  BY <1>1, LaySlice
<1>2. CASE Allocate
  BY <1>2, LayAllocate
<1>3. CASE BodyFirst \/ BodyOther \/ ArgNode
  BY <1>3, LayCalls
<1>4. CASE BodyReturned
  BY <1>4, LayBodyReturned
<1>5. CASE BodyDone
  BY <1>5, LayBodyDone
<1>6. CASE ArgReturned
  BY <1>6, LayArgReturned
<1>7. CASE ArgLeaf \/ ArgSkipped
  BY <1>7, LayNoNode
<1>8. CASE Return
  BY <1>8, LayReturn
<1>9. CASE UNCHANGED vars
  BY <1>9 DEF vars, Lays, Layout, KindsKept, script, ScriptAt, NodeAt
<1>10. QED
  BY <1>1, <1>2, <1>3, <1>4, <1>5, <1>6, <1>7, <1>8, <1>9 DEF Next

LEMMA LaidDown == Spec => [](IInv /\ Tracks /\ Lays)
<1>1. Init => Lays
  BY LaysInit
<1>2. IInv /\ Tracks /\ Lays /\ [Next]_vars => Lays'
  BY StepLays
<1>3. QED
  BY <1>1, <1>2, Tracking, PTL DEF Spec

\* Sliced scripts lie in the heap one behind the other, each in the order of its
\* depth-first traversal, bodies before arguments, with the kinds of their nodes.
THEOREM PreorderLayout == Spec => []LayoutIsPreorder
<1>1. IInv /\ Lays => LayoutIsPreorder
  <2> SUFFICES ASSUME IInv, Lays, Sliced PROVE LayoutIsPreorder
    BY DEF LayoutIsPreorder
  <2> DEFINE n == Len(slices)
             P == Preorders(slices)
             s == Flat(P)[n]
             nodes == [a \in 1..heap.here |-> NodeAt(a)]
  <2>1. slices \in Seq(Scripts) /\ n \in Nat /\ heap.here \in Nat
    <3>1. slices \in Seq(Scripts)
      BY DEF IInv, History
    <3>2. QED
      BY <3>1, TypeFacts DEF IInv
  <2>2. P \in Seq(Seq(Node)) /\ Len(P) = n
    BY <2>1, PreordersAre
  <2>3. FlattenSeq(P) = s /\ s \in Seq(Node)
    <3> HIDE DEF P, n
    <3>1. FlattenSeq(P) = Flat(P)[n] /\ FlattenSeq(P) \in Seq(Node)
      BY <2>2, FlattenIs
    <3>2. QED
      BY <3>1
  <2>4. Lies(origin, s, 0, heap.here)
    <3>1. stack = <<>> /\ Len(stack) = 0
      BY DEF Sliced
    <3>2. Finished(stack, slices) = n /\ Until(stack, heap.here, 0) = heap.here
      BY <3>1 DEF Finished, Until
    <3>3. QED
      BY <3>2 DEF Lays, Layout
  <2> HIDE DEF s
  <2>5. nodes = s
    <3>1. heap.here = Len(s) /\ \A k \in 1..Len(s) : origin[0 + k].node = s[k]
      BY <2>1, <2>3, <2>4 DEF Lies
    <3>2. \A k \in 1..Len(s) : NodeAt(k) = s[k]
      <4>1. \A k \in 1..Len(s) : 0 + k = k
        BY <2>3
      <4>2. QED
        BY <3>1, <4>1 DEF NodeAt
    <3>3. s = [k \in 1..Len(s) |-> s[k]]
      BY <2>3
    <3>4. QED
      BY <3>1, <3>2, <3>3
  <2>6. nodes = FlattenSeq([k \in DOMAIN slices |-> Preorder(slices[k])])
    BY <2>3, <2>5 DEF Preorders
  <2>7. \A a \in 1..heap.here : heap.entries[a].kind = ScriptAt(a).kind[NodeAt(a)]
    BY DEF Lays, KindsKept
  <2>8. QED
    BY <2>6, <2>7 DEF LayoutIsPreorder
<1>2. QED
  BY <1>1, LaidDown, PTL

-----------------------------------------------------------------------------
(* What the entries hold: the invariant *)

LinkKeys == {HEAP_BODY, HEAP_NEXT, HEAP_PARENT}

\* A pair is a link or belongs to an argument.
Known(a, kv) == (kv.key \in LinkKeys /\ kv.type = "CSH_ADDRESS") \/ Displaced(a, kv.key)
KnownPairs == \A a \in 1..heap.here : \A kv \in Pairs(heap, a) : Known(a, kv)

\* Nothing leads on from the NOTHING entry.
ZeroEntry == \A kv \in Pairs(heap, 0) : kv.value = 0

\* The root of every script that is sliced has an entry.
RootAt(k) == \E a \in 1..heap.here : origin[a] = [slice |-> k, node |-> slices[k].root]
RootsKept == \A k \in 1..Finished(stack, slices) : RootAt(k)

Contents == KnownPairs /\ ZeroEntry /\ RootsKept

\* The three pairs of the NOTHING entry are 0.
LEMMA ContentsInit == Init => Contents
<1> SUFFICES ASSUME Init PROVE Contents
  OBVIOUS
<1> DEFINE link(key) == [key |-> key, type |-> "CSH_ADDRESS", value |-> 0]
           bare == [here |-> 0, heap_size |-> 1, entries |-> [a \in {0} |-> EmptyEntry(NOTHING)]]
           parent == HeapPut(bare, 0, "CSH_ADDRESS", HEAP_PARENT, 0)
           body == HeapPut(parent, 0, "CSH_ADDRESS", HEAP_BODY, 0)
           next == HeapPut(body, 0, "CSH_ADDRESS", HEAP_NEXT, 0)
<1>1. heap = next
  BY DEF Init, HeapInit
<1>2. /\ HEAP_PARENT \in Nat /\ HEAP_BODY \in Nat /\ HEAP_NEXT \in Nat
      /\ "CSH_ADDRESS" \in EntryType /\ 0 \in Value /\ 0 \in 0..0
  BY DEF HEAP_PARENT, HEAP_BODY, HEAP_NEXT, EntryType, Value
<1>3. EmptyEntry(NOTHING) \in Entry
  BY DEF EmptyEntry, NOTHING, Entry
<1>4. /\ IsHeap(bare) /\ bare.here = 0 /\ Pairs(bare, 0) = {}
      /\ UniqueIn(bare.entries[0].kvs)
  BY <1>3 DEF IsHeap, Pairs, ToSet, UniqueIn, EmptyEntry
<1> HIDE DEF bare, parent, body, next, link
<1>5. PutDoes(bare, parent, 0, link(HEAP_PARENT))
  BY <1>2, <1>4, PutPairs DEF parent, link
<1>6. IsHeap(parent) /\ parent.here = 0 /\ UniqueIn(parent.entries[0].kvs)
      /\ \A p \in Pairs(parent, 0) : p.value = 0
  BY <1>4, <1>5 DEF PutDoes, link
<1>7. PutDoes(parent, body, 0, link(HEAP_BODY))
  BY <1>2, <1>6, PutPairs DEF body, link
<1>8. IsHeap(body) /\ body.here = 0 /\ UniqueIn(body.entries[0].kvs)
      /\ \A p \in Pairs(body, 0) : p.value = 0
  BY <1>6, <1>7 DEF PutDoes, link
<1>9. PutDoes(body, next, 0, link(HEAP_NEXT))
  BY <1>2, <1>8, PutPairs DEF next, link
<1>10. next.here = 0 /\ \A p \in Pairs(next, 0) : p.value = 0
  BY <1>8, <1>9 DEF PutDoes, link
<1>11. Finished(stack, slices) = 0 /\ 1..heap.here = {} /\ 1..0 = {}
  BY <1>1, <1>10 DEF Init, Finished
<1>12. QED
  BY <1>1, <1>10, <1>11 DEF Contents, KnownPairs, ZeroEntry, RootsKept

\* A call that goes on or calls does not empty the stack.
LEMMA StackStays ==
  ASSUME IInv, stack # <<>>
  PROVE  \A f : Resume(f) # <<>> /\ \A n, p : Call(Resume(f), n, p) # <<>>
<1> SUFFICES ASSUME NEW f, NEW n, NEW p
             PROVE  Resume(f) # <<>> /\ Call(Resume(f), n, p) # <<>>
  OBVIOUS
<1> DEFINE g == [node |-> n, parent |-> p, addr |-> 0, at |-> "enter", i |-> 0]
           F == FrameSet(heap.here) \cup {f, g}
<1>1. stack \in Seq(FrameSet(heap.here)) /\ Len(stack) \in Nat \ {0}
  BY TopFacts DEF IInv
<1>2. Call(Resume(f), n, p) = Append(Resume(f), g)
  BY DEF Call
<1> HIDE DEF g
<1>3. stack \in Seq(F) /\ f \in F /\ g \in F
  BY <1>1
<1> HIDE DEF F
<1>4. Resume(f) \in Seq(F) /\ Len(Resume(f)) = Len(stack)
  BY <1>3, StackOps DEF Resume
<1>5. Resume(f) # <<>>
  BY <1>1, <1>4
<1>6. Append(Resume(f), g) # <<>>
  BY <1>3, <1>4
<1>7. QED
  BY <1>2, <1>5, <1>6

\* Nothing is lost where the heap only grows.
LEMMA ContentsKept ==
  ASSUME TypeOK, History, Contents, Grows, Finished(stack', slices') = Finished(stack, slices),
         Finished(stack, slices) <= Len(slices),
         Pairs(heap', 0) = Pairs(heap, 0),
         \A a \in 1..heap'.here : a \in 1..heap.here \/ \A kv \in Pairs(heap', a) : kv.key \in LinkKeys /\ kv.type = "CSH_ADDRESS",
         \A a \in 1..heap.here : \A kv \in Pairs(heap', a) : kv \in Pairs(heap, a) \/ Known(a, kv)
  PROVE  Contents'
<1>1. ASSUME NEW a \in 1..heap.here, NEW kv \in Pairs(heap', a) PROVE Known(a, kv)'
  <2>1. Known(a, kv)
    BY <1>1 DEF Contents, KnownPairs
  <2>2. \A key : Displaced(a, key)' <=> Displaced(a, key)
    BY EntryKept
  <2>3. QED
    BY <2>1, <2>2 DEF Known
<1>2. KnownPairs'
  <2> SUFFICES ASSUME NEW a \in 1..heap'.here, NEW kv \in Pairs(heap, a)' PROVE Known(a, kv)'
    BY DEF KnownPairs
  <2>1. kv \in Pairs(heap', a)
    BY DEF Pairs
  <2>2. CASE a \in 1..heap.here
    BY <1>1, <2>1, <2>2
  <2>3. CASE a \notin 1..heap.here
    BY <2>1, <2>3 DEF Known
  <2>4. QED
    BY <2>2, <2>3
<1>3. ZeroEntry'
  BY DEF Contents, ZeroEntry, Pairs
<1>4. \A k \in 1..Len(slices) : RootAt(k) => RootAt(k)'
  <2>1. heap.here \in Nat
    BY TypeFacts
  <2>2. \A a \in 1..heap.here : a \in 1..heap'.here /\ origin'[a] = origin[a]
    BY <2>1 DEF Grows
  <2>3. \A k \in 1..Len(slices) : slices'[k] = slices[k]
    BY DEF Grows
  <2>4. QED
    BY <2>2, <2>3 DEF RootAt
<1>5. \A k \in 1..Finished(stack, slices) : k \in 1..Len(slices)
  <2>1. Len(slices) \in Nat /\ Finished(stack, slices) \in Int
    BY DEF History, Finished
  <2>2. QED
    BY <2>1
<1>6. RootsKept'
  BY <1>4, <1>5 DEF Contents, RootsKept
<1>7. QED
  BY <1>2, <1>3, <1>6 DEF Contents

\* Nothing changes where the heap does not.
LEMMA ContentsQuiet ==
  ASSUME IInv, Contents, UNCHANGED <<heap, slices, origin>>, stack # <<>>, stack' # <<>>
  PROVE  Contents'
<1>1. TypeOK /\ History /\ Keeps /\ Grows
  BY QuietKeeps, KeepsGrows DEF IInv
<1>2. Finished(stack', slices') = Finished(stack, slices) /\ Finished(stack, slices) <= Len(slices)
  <2>1. Len(slices) \in Nat
    BY <1>1 DEF History
  <2>2. QED
    BY <2>1 DEF Finished
<1>3. QED
  BY <1>1, <1>2, ContentsKept

\* A pair put into the entry of the innermost call.
LEMMA ContentsPut ==
  ASSUME IInv, Contents, UNCHANGED <<slices, origin>>, stack # <<>>, stack' # <<>>, Top.at # "enter",
         NEW type \in EntryType, NEW key \in Nat, NEW value \in Value,
         heap' = HeapPut(heap, Top.addr, type, key, value),
         (key \in LinkKeys /\ type = "CSH_ADDRESS") \/ Displaced(Top.addr, key)
  PROVE  Contents'
<1> DEFINE adr == Top.addr
           kv == [key |-> key, type |-> type, value |-> value]
<1>1. TypeOK /\ History /\ Frames /\ KeysUnique
  BY DEF IInv
<1>2. adr \in 1..heap.here /\ adr \in Address /\ adr # 0 /\ heap.here \in Nat
  <2>1. FrameOK(Top) /\ heap.here \in Nat /\ Address = 0..heap.here
    BY <1>1, TopFacts, TypeFacts
  <2>2. adr \in 1..heap.here
    BY <2>1 DEF FrameOK
  <2>3. QED
    BY <2>1, <2>2
<1>3. PutsPair(adr, kv)
  BY <1>1, <1>2, PutStep
<1>4. Known(adr, kv)
  BY DEF Known
<1> HIDE DEF adr, kv
<1>5. /\ \A a \in Address : a # adr => Pairs(heap', a) = Pairs(heap, a)
      /\ \A p \in Pairs(heap', adr) : p = kv \/ p \in Pairs(heap, adr)
      /\ heap'.here = heap.here
  BY <1>3 DEF PutsPair
<1>6. Keeps /\ Grows
  <2>1. Keeps
    BY <1>3 DEF PutsPair, Keeps
  <2>2. QED
    BY <1>1, <2>1, KeepsGrows
<1>7. Finished(stack', slices') = Finished(stack, slices) /\ Finished(stack, slices) <= Len(slices)
  <2>1. Len(slices) \in Nat
    BY <1>1 DEF History
  <2>2. QED
    BY <2>1 DEF Finished
<1>8. 0 \in Address /\ \A a \in 1..heap.here : a \in Address
  BY <1>1, <1>2, TypeFacts
<1>9. Pairs(heap', 0) = Pairs(heap, 0)
  BY <1>2, <1>5, <1>8
<1>10. \A a \in 1..heap.here : \A p \in Pairs(heap', a) : p \in Pairs(heap, a) \/ Known(a, p)
  BY <1>4, <1>5, <1>8
<1>11. QED
  BY <1>1, <1>5, <1>6, <1>7, <1>9, <1>10, ContentsKept

\* The turns of the two loops put links and arguments.
LEMMA ContentsTurn ==
  ASSUME IInv, Contents,
         BodyFirst \/ BodyOther \/ BodyReturned \/ BodyDone
           \/ ArgNode \/ ArgReturned \/ ArgLeaf \/ ArgSkipped
  PROVE  Contents'
<1>1. stack # <<>>
  BY DEF BodyFirst, BodyOther, BodyReturned, BodyDone, ArgNode, ArgReturned, ArgLeaf, ArgSkipped, Running
<1>2. \A f : Resume(f) # <<>> /\ \A n, p : Call(Resume(f), n, p) # <<>>
  BY <1>1, StackStays
<1>3. stack' # <<>>
  BY <1>2 DEF BodyFirst, BodyOther, BodyReturned, BodyDone, ArgNode, ArgReturned, ArgLeaf, ArgSkipped
<1>4. TypeOK /\ History /\ Frames /\ Top.addr \in Address /\ returned \in Address
  BY <1>1, TopFields DEF IInv, TypeOK
<1>5. Address \subseteq Nat /\ heap.here \in Nat /\ Address \subseteq Value /\ Nat \subseteq Value
  BY <1>4, TypeFacts DEF Value
<1>6. /\ "CSH_ADDRESS" \in EntryType /\ HEAP_BODY \in Nat /\ HEAP_NEXT \in Nat
      /\ HEAP_BODY \in LinkKeys /\ HEAP_NEXT \in LinkKeys
  BY DEF EntryType, HEAP_BODY, HEAP_NEXT, LinkKeys
<1>7. CASE BodyFirst
  <2> DEFINE value == Top.addr + 1
  <2>1. heap' = HeapPut(heap, Top.addr, "CSH_ADDRESS", HEAP_BODY, value) /\ Top.at # "enter"
        /\ UNCHANGED <<slices, origin>>
    BY <1>7 DEF BodyFirst, Running
  <2>2. value \in Value
    <3>1. Top.addr \in Nat
      BY <1>4, <1>5
    <3>2. value \in Nat
      BY <3>1
    <3>3. QED
      BY <1>5, <3>2
  <2> HIDE DEF value
  <2>3. QED
    BY <1>1, <1>3, <1>6, <2>1, <2>2, ContentsPut
<1>8. CASE BodyReturned
  <2> DEFINE value == IF Top.i = 0 THEN 0 ELSE returned
  <2>1. heap' = HeapPut(heap, Top.addr, "CSH_ADDRESS", HEAP_NEXT, value) /\ Top.at # "enter"
        /\ UNCHANGED <<slices, origin>>
    BY <1>8 DEF BodyReturned, Running
  <2>2. value \in Value
    BY <1>4, <1>5
  <2> HIDE DEF value
  <2>3. QED
    BY <1>1, <1>3, <1>6, <2>1, <2>2, ContentsPut
<1>9. CASE ArgReturned
  <2>1. /\ heap' = HeapPut(heap, Top.addr, "CSH_ADDRESS", Arg.kind, returned) /\ Top.at = "argReturn"
        /\ UNCHANGED <<slices, origin>>
    BY <1>9 DEF ArgReturned, Running
  <2>2. Top.i < Len(Args) /\ Arg.type # "unset"
    <3>1. FrameOK(Top)
      BY <1>1, <1>4, TopFacts
    <3>2. QED
      BY <2>1, <3>1 DEF FrameOK, Args, Arg
  <2>3. Displaced(Top.addr, Arg.kind)
    BY <1>1, <2>1, <2>2, ArgDisplaces
  <2>4. Arg.kind \in Nat /\ returned \in Value
    BY <1>1, <1>4, <1>5, <2>2, TopFields
  <2>5. Top.at # "enter"
    BY <2>1
  <2>6. QED
    BY <1>1, <1>3, <1>6, <2>1, <2>3, <2>4, <2>5, ContentsPut
<1>10. CASE ArgLeaf
  <2> DEFINE type == HeapType(Arg.type)
  <2>1. /\ heap' = HeapPut(heap, Top.addr, type, Arg.kind, Arg.value) /\ Top.at = "args"
        /\ UNCHANGED <<slices, origin>>
        /\ Top.i < Len(Args) /\ Arg.type # "unset"
    BY <1>10 DEF ArgLeaf, Running
  <2>2. type \in EntryType
    BY <1>10 DEF ArgLeaf, HeapType, EntryType
  <2>3. Displaced(Top.addr, Arg.kind)
    BY <1>1, <2>1, ArgDisplaces
  <2>4. Arg.kind \in Nat /\ Arg.value \in Value
    BY <1>1, <1>4, <2>1, TopFields
  <2>5. Top.at # "enter"
    BY <2>1
  <2> HIDE DEF type
  <2>6. QED
    BY <1>1, <1>3, <2>1, <2>2, <2>3, <2>4, <2>5, ContentsPut
<1>11. CASE BodyOther \/ BodyDone \/ ArgNode \/ ArgSkipped
  <2>1. UNCHANGED <<heap, slices, origin>>
    BY <1>11 DEF BodyOther, BodyDone, ArgNode, ArgSkipped
  <2>2. QED
    BY <1>1, <1>3, <2>1, ContentsQuiet
<1>12. QED
  BY <1>7, <1>8, <1>9, <1>10, <1>11

\* A new entry has the link to its parent.
LEMMA ContentsAllocate == IInv /\ Contents /\ Allocate => Contents'
<1> SUFFICES ASSUME IInv, Contents, Allocate PROVE Contents'
  OBVIOUS
<1>1. PICK new : Allots(new)
  BY AllocateAllots
<1>2. TypeOK /\ History /\ heap.here \in Nat /\ Address = 0..heap.here
  BY TypeFacts DEF IInv
<1> DEFINE kv == [key |-> HEAP_PARENT, type |-> "CSH_ADDRESS", value |-> Top.parent]
<1>3. /\ new = heap.here + 1 /\ heap'.here = new /\ slices' = slices /\ stack # <<>>
      /\ \A a \in 1..heap.here : origin'[a] = origin[a]
      /\ Len(stack') = Len(stack)
      /\ AllotsEntry(kv)
  BY <1>1 DEF Allots
<1>4. kv.key = HEAP_PARENT /\ kv.type = "CSH_ADDRESS" /\ HEAP_PARENT \in LinkKeys
  BY DEF LinkKeys
<1> HIDE DEF kv
<1>5. /\ \A a \in Address : Pairs(heap', a) = Pairs(heap, a)
      /\ Pairs(heap', new) = {kv}
  BY <1>3 DEF AllotsEntry, Pairs
<1>6. Grows
  BY <1>2, <1>3 DEF Grows
<1>7. Finished(stack', slices') = Finished(stack, slices) /\ Finished(stack, slices) <= Len(slices)
  <2>1. Len(slices) \in Nat
    BY <1>2 DEF History
  <2>2. stack' # <<>>
    <3>1. Len(stack) \in Nat \ {0}
      BY <1>3, TopFacts DEF IInv
    <3>2. QED
      BY <1>3, <3>1
  <2>3. QED
    BY <1>3, <2>1, <2>2 DEF Finished
<1>8. /\ 0 \in Address /\ \A a \in 1..heap.here : a \in Address
      /\ \A a \in 1..heap'.here : a \in 1..heap.here \/ a = new
  BY <1>2, <1>3
<1>9. \A a \in 1..heap'.here : a \in 1..heap.here \/ \A p \in Pairs(heap', a) : p.key \in LinkKeys /\ p.type = "CSH_ADDRESS"
  BY <1>4, <1>5, <1>8
<1>10. QED
  BY <1>2, <1>5, <1>6, <1>7, <1>8, <1>9, ContentsKept

\* A new script is not finished.
LEMMA ContentsSlice == IInv /\ Contents /\ Slice => Contents'
<1> SUFFICES ASSUME IInv, Contents, Slice PROVE Contents'
  OBVIOUS
<1>1. PICK celery \in Scripts : /\ slices' = Append(slices, celery)
                                /\ stack' = Call(<<>>, celery.root, 0)
  BY DEF Slice
<1>2. stack = <<>> /\ UNCHANGED <<heap, returned, origin>>
  BY DEF Slice
<1>3. TypeOK /\ History /\ slices \in Seq(Scripts) /\ heap.here \in Nat
  BY TypeFacts DEF IInv, History
<1>4. /\ Len(slices) \in Nat /\ Len(slices') = Len(slices) + 1
      /\ \A k \in 1..Len(slices) : slices'[k] = slices[k]
  BY <1>1, <1>3
<1>5. stack' # <<>>
  BY <1>1 DEF Call
<1>6. Finished(stack', slices') = Finished(stack, slices) /\ Finished(stack, slices) <= Len(slices)
  BY <1>2, <1>4, <1>5 DEF Finished
<1>7. Grows
  BY <1>2, <1>3, <1>4 DEF Grows
<1>8. QED
  BY <1>2, <1>3, <1>6, <1>7, ContentsKept

\* The last call to return is that for the root, which then has its entry.
LEMMA ContentsReturn == IInv /\ Tracks /\ Contents /\ Return => Contents'
<1> SUFFICES ASSUME IInv, Tracks, Contents, Return PROVE Contents'
  OBVIOUS
<1> DEFINE d == Len(stack)
           n == Len(slices)
<1>1. stack # <<>> /\ stack' = Front(stack) /\ UNCHANGED <<heap, slices, origin>> /\ Top.at = "args"
  BY DEF Return, Running
<1>2. TypeOK /\ History /\ Frames /\ slices # <<>> /\ n \in Nat \ {0}
  <2>1. TypeOK /\ History /\ Frames /\ slices # <<>>
    BY <1>1 DEF IInv, TypeOK
  <2>2. slices \in Seq(Scripts)
    BY <2>1 DEF History
  <2>3. QED
    BY <2>1, <2>2
<1>3. stack \in Seq(FrameSet(heap.here)) /\ d \in Nat \ {0} /\ FrameOK(Top)
  BY <1>1, <1>2, TopFacts
<1>4. CASE stack' # <<>>
  BY <1>1, <1>4, ContentsQuiet
<1>5. CASE stack' = <<>>
  <2>1. d = 1
    <3> DEFINE F == FrameSet(heap.here)
    <3>1. stack \in Seq(F) /\ Top \in F
      BY <1>1, <1>2, TopFacts
    <3> HIDE DEF F
    <3>2. Len(Front(stack)) = Len(stack) - 1
      BY <1>3, <3>1, StackOps
    <3>3. Len(stack') = 0
      BY <1>5
    <3>4. QED
      BY <1>1, <1>3, <3>2, <3>3
  <2>2. Top.node = script.root
    <3>1. \A j \in 1..d : j = 1 => stack[j].node = script.root
      BY DEF Tracks, Path
    <3>2. Top = stack[d] /\ d \in 1..d
      BY <1>3 DEF Top
    <3>3. QED
      BY <2>1, <3>1, <3>2
  <2>3. RootAt(n)
    <3>1. Top.addr \in 1..heap.here /\ origin[Top.addr] = [slice |-> n, node |-> Top.node]
      BY <1>1, <1>3 DEF FrameOK
    <3>2. QED
      BY <2>2, <3>1 DEF RootAt, script
  <2>4. Finished(stack, slices) = n - 1 /\ Finished(stack', slices) = n
    BY <1>1, <1>5 DEF Finished
  <2> HIDE DEF n
  <2>5. \A k \in 1..n : k = n \/ k \in 1..(n - 1)
    BY <1>2
  <2>6. \A k \in 1..n : RootAt(k)
    BY <2>3, <2>4, <2>5 DEF Contents, RootsKept
  <2>7. \A k : RootAt(k)' <=> RootAt(k)
    BY <1>1 DEF RootAt
  <2>8. RootsKept'
    BY <1>1, <2>4, <2>6, <2>7 DEF RootsKept
  <2>9. KnownPairs' /\ ZeroEntry'
    <3>1. \A a, kv : Known(a, kv)' <=> Known(a, kv)
      BY <1>1 DEF Known, Displaced, PutArgs, ScriptAt, NodeAt
    <3>2. QED
      BY <1>1, <3>1 DEF Contents, KnownPairs, ZeroEntry
  <2>10. QED
    BY <2>8, <2>9 DEF Contents
<1>6. QED
  BY <1>4, <1>5

\* The invariant at every step, and so always.
LEMMA StepContents == IInv /\ Tracks /\ Contents /\ [Next]_vars => Contents'
<1> SUFFICES ASSUME IInv, Tracks, Contents, [Next]_vars PROVE Contents'
  OBVIOUS
<1>1. CASE Slice
  BY <1>1, ContentsSlice
<1>2. CASE Allocate
  BY <1>2, ContentsAllocate
<1>3. CASE BodyFirst \/ BodyOther \/ BodyReturned \/ BodyDone
             \/ ArgNode \/ ArgReturned \/ ArgLeaf \/ ArgSkipped
  BY <1>3, ContentsTurn
<1>4. CASE Return
  BY <1>4, ContentsReturn
<1>5. CASE UNCHANGED vars
  BY <1>5 DEF vars, Contents, KnownPairs, Known, Displaced, PutArgs, ScriptAt, NodeAt,
              ZeroEntry, RootsKept, RootAt
<1>6. QED
  BY <1>1, <1>2, <1>3, <1>4, <1>5 DEF Next

LEMMA ContentsHold == Spec => [](IInv /\ Tracks /\ Contents)
<1>1. Init => Contents
  BY ContentsInit
<1>2. IInv /\ Tracks /\ Contents /\ [Next]_vars => Contents'
  BY StepContents
<1>3. QED
  BY <1>1, <1>2, Tracking, PTL DEF Spec

-----------------------------------------------------------------------------
(* Walks: what is reached in n rounds, and two walks side by side *)

\* From first, in n rounds, by the elements next gives for those reached so far.
Spreads(f, n, next, first) ==
  /\ f[0] = {first}
  /\ \A k \in 1..n : f[k] = f[k - 1] \cup UNION { next[x] : x \in f[k - 1] }

\* There is such a walk, and it stays in X.
LEMMA SpreadExists ==
  ASSUME NEW n \in Nat, NEW X, NEW next \in [X -> SUBSET X], NEW first \in X
  PROVE  \E f \in [0..n -> SUBSET X] : Spreads(f, n, next, first)
<1> DEFINE Y == SUBSET X
           More(S) == S \cup UNION { next[x] : x \in S }
           step == [k \in 1..n |-> [S \in Y |-> More(S)]]
           one == {first}
<1>1. \A S \in Y : More(S) \in Y
  OBVIOUS
<1>2. one \in Y /\ \A k \in 0..n : k # 0 => k \in 1..n /\ k - 1 \in 0..n
  OBVIOUS
<1> HIDE DEF Y, More, one
<1>3. step \in [1..n -> [Y -> Y]]
  BY <1>1
<1>4. \A k \in 1..n : \A S \in Y : step[k][S] = More(S)
  OBVIOUS
<1> HIDE DEF step
<1>5. PICK f \in [0..n -> Y] : Iterated(f, n, one, step)
  BY <1>2, <1>3, Iterates
<1>6. \A k \in 0..n : f[k] = IF k = 0 THEN one ELSE step[k][f[k - 1]]
  BY <1>5 DEF Iterated
<1>7. 0 \in 0..n /\ \A k \in 1..n : k \in 0..n /\ k # 0 /\ k - 1 \in 0..n
  OBVIOUS
<1>8. f[0] = one /\ \A k \in 1..n : f[k] = More(f[k - 1])
  BY <1>4, <1>5, <1>6, <1>7
<1>9. QED
  BY <1>5, <1>8 DEF Spreads, More, one, Y

\* S has the places of T, and no more than zero besides.
Match(S, T, Ok, place, zero) ==
  /\ T \subseteq Ok
  /\ \A m \in T : place[m] \in S
  /\ \A x \in S : x = zero \/ \E m \in T : x = place[m]

\* Two walks, f and g, with a place in the first for the elements of Ok: from the
\* place of an element next leads to the places of those link gives, or to zero.
Alike(n, next, f, link, g, Ok, place, zero, root) ==
  /\ Spreads(f, n, next, place[root]) /\ Spreads(g, n, link, root)
  /\ root \in Ok /\ next[zero] \subseteq {zero}
  /\ \A m \in Ok : \A x \in next[place[m]] : x = zero \/ \E p \in link[m] : x = place[p]
  /\ \A m \in Ok : \A p \in link[m] : p \in Ok /\ place[p] \in next[place[m]]
  /\ \A m \in Ok : place[m] # zero

\* Then, after as many rounds, one has reached the places of what the other has.
LEMMA SpreadsMatch ==
  ASSUME NEW n \in Nat, NEW next, NEW f, NEW link, NEW g, NEW Ok, NEW place, NEW zero, NEW root,
         Alike(n, next, f, link, g, Ok, place, zero, root)
  PROVE  f[n] \ {zero} = { place[m] : m \in g[n] } /\ g[n] \subseteq Ok
<1> DEFINE M(k) == Match(f[k], g[k], Ok, place, zero)
           Good == { k \in 0..n : M(k) }
<1>1. 0 \in Good
  <2>1. f[0] = {place[root]} /\ g[0] = {root} /\ 0 \in 0..n
    BY DEF Alike, Spreads
  <2>2. QED
    BY <2>1 DEF Alike, Match
<1>2. ASSUME NEW k \in 1..n, k - 1 \in Good PROVE k \in Good
  <2> DEFINE S == f[k - 1]
             T == g[k - 1]
  <2>1. /\ f[k] = S \cup UNION { next[x] : x \in S }
        /\ g[k] = T \cup UNION { link[m] : m \in T }
    BY DEF Alike, Spreads
  <2>2. /\ T \subseteq Ok
        /\ \A m \in T : place[m] \in S
        /\ \A x \in S : x = zero \/ \E m \in T : x = place[m]
    BY <1>2 DEF Match
  <2> HIDE DEF S, T
  <2>3. /\ g[k] \subseteq Ok
        /\ next[zero] \subseteq {zero}
        /\ \A m \in Ok : \A x \in next[place[m]] : x = zero \/ \E p \in link[m] : x = place[p]
        /\ \A m \in Ok : \A p \in link[m] : place[p] \in next[place[m]]
    BY <2>1, <2>2 DEF Alike
  <2>4. \A m \in g[k] : place[m] \in f[k]
    <3> SUFFICES ASSUME NEW p \in g[k] PROVE place[p] \in f[k]
      OBVIOUS
    <3>1. CASE p \in T
      BY <2>1, <2>2, <3>1
    <3>2. CASE p \notin T
      <4>1. PICK m \in T : p \in link[m]
        BY <2>1, <3>2
      <4>2. place[m] \in S /\ place[p] \in next[place[m]]
        BY <2>2, <2>3, <4>1
      <4>3. QED
        BY <2>1, <4>2
    <3>3. QED
      BY <3>1, <3>2
  <2>5. \A x \in f[k] : x = zero \/ \E m \in g[k] : x = place[m]
    <3> SUFFICES ASSUME NEW y \in f[k], y # zero PROVE \E m \in g[k] : y = place[m]
      OBVIOUS
    <3>1. CASE y \in S
      BY <2>1, <2>2, <3>1
    <3>2. CASE y \notin S
      <4>1. PICK x \in S : y \in next[x]
        BY <2>1, <3>2
      <4>2. x # zero
        BY <2>3, <4>1
      <4>3. PICK m \in T : x = place[m]
        BY <2>2, <4>2
      <4>4. PICK p \in link[m] : y = place[p]
        BY <2>2, <2>3, <4>1, <4>3
      <4>5. p \in g[k]
        BY <2>1, <4>3, <4>4
      <4>6. QED
        BY <4>4, <4>5
    <3>3. QED
      BY <3>1, <3>2
  <2>6. M(k)
    BY <2>3, <2>4, <2>5 DEF Match
  <2>7. k \in 0..n
    OBVIOUS
  <2>8. QED
    BY <2>6, <2>7
<1>3. \A k \in 0..n : k \in Good
  <2> HIDE DEF Good
  <2>1. QED
    BY <1>1, <1>2, CountUp
<1>4. n \in 0..n
  OBVIOUS
<1>5. Match(f[n], g[n], Ok, place, zero)
  BY <1>3, <1>4
<1>6. QED
  BY <1>5 DEF Match, Alike

-----------------------------------------------------------------------------
(* The links out of an entry, once all is sliced *)

Way(kv) == kv.type = "CSH_ADDRESS" /\ kv.key # HEAP_PARENT

\* An entry has one pair for a key.
LEMMA OneOfKey ==
  ASSUME KeysUnique, NEW a \in Address, NEW kv \in Pairs(heap, a), NEW p \in Pairs(heap, a),
         kv.key = p.key
  PROVE  kv = p
<1>1. PICK i \in DOMAIN heap.entries[a].kvs : kv = heap.entries[a].kvs[i]
  BY DEF Pairs, ToSet
<1>2. PICK j \in DOMAIN heap.entries[a].kvs : p = heap.entries[a].kvs[j]
  BY DEF Pairs, ToSet
<1>3. i = j
  BY <1>1, <1>2 DEF KeysUnique
<1>4. QED
  BY <1>1, <1>2, <1>3

\* Arguments with numbers of their own displace no link.
LEMMA NoneDisplaced ==
  ASSUME NEW a, OwnNumbers(ArgsOf(a)), NEW key \in LinkKeys
  PROVE  ~Displaced(a, key)
BY DEF Displaced, PutArgs, OwnNumbers, ArgsOf, LinkKeys

\* The first and the last item of a body stay linked, and so do the arguments.
LEMMA StayLinked ==
  ASSUME TypeOK, Placed, NEW a \in 1..heap.here, IsTree(ScriptAt(a))
  PROVE  /\ BodyOf(a) # <<>> =>
              /\ BodyOf(a)[1] \in Linked(ScriptAt(a), NodeAt(a))
              /\ BodyOf(a)[Len(BodyOf(a))] \in Linked(ScriptAt(a), NodeAt(a))
         /\ \A i \in NodeArgs(ScriptAt(a), NodeAt(a)) :
              ArgsOf(a)[i].value \in Linked(ScriptAt(a), NodeAt(a))
         /\ \A m \in Linked(ScriptAt(a), NodeAt(a)) :
              \/ BodyOf(a) # <<>> /\ m = BodyOf(a)[1]
              \/ Len(BodyOf(a)) > 1 /\ m = BodyOf(a)[Len(BodyOf(a))]
              \/ \E i \in NodeArgs(ScriptAt(a), NodeAt(a)) : m = ArgsOf(a)[i].value
<1> DEFINE body == BodyOf(a)
           len == Len(body)
           middle == { body[i] : i \in 2..(len - 1) }
           arguments == { ArgsOf(a)[i].value : i \in NodeArgs(ScriptAt(a), NodeAt(a)) }
<1>1. body \in Seq(Nodes(ScriptAt(a))) /\ NodeAt(a) \in Nodes(ScriptAt(a))
  BY ArgsOfSeq DEF Placed
<1>2. len \in Nat /\ DOMAIN body = 1..len /\ (body # <<>> => len # 0)
  BY <1>1
<1>3. Linked(ScriptAt(a), NodeAt(a)) = (ToSet(body) \cup arguments) \ middle
  BY DEF Linked, ChildrenOf, BodyOf, ArgsOf
<1>4. /\ \A i, j \in 1..len : body[i] = body[j] => i = j
      /\ \A x \in arguments : x \notin ToSet(body)
  BY <1>1, <1>2 DEF IsTree, BodyOf, ArgsOf
<1>5. ToSet(body) = { body[i] : i \in 1..len } /\ (len # 0 => body # <<>>)
  BY <1>2 DEF ToSet
<1> HIDE DEF body, len
<1>6. /\ \A i \in 2..(len - 1) : i \in 1..len /\ i # 1 /\ i # len
      /\ \A i \in 1..len : i = 1 \/ (i = len /\ len > 1) \/ i \in 2..(len - 1)
      /\ len # 0 => 1 \in 1..len /\ len \in 1..len
  BY <1>2
<1>7. middle \subseteq ToSet(body)
  BY <1>5, <1>6
<1>8. ASSUME body # <<>> PROVE body[1] \in ToSet(body) \ middle /\ body[len] \in ToSet(body) \ middle
  <2>1. body[1] \in ToSet(body) /\ body[len] \in ToSet(body)
    BY <1>2, <1>5, <1>6, <1>8
  <2>2. body[1] \notin middle
    BY <1>2, <1>4, <1>6, <1>8
  <2>3. body[len] \notin middle
    BY <1>2, <1>4, <1>6, <1>8
  <2>4. QED
    BY <2>1, <2>2, <2>3
<1>9. ASSUME NEW m \in ToSet(body) \ middle
      PROVE  (body # <<>> /\ m = body[1]) \/ (len > 1 /\ m = body[len])
  <2>1. PICK i \in 1..len : m = body[i]
    BY <1>5
  <2>2. i = 1 \/ (i = len /\ len > 1)
    BY <1>6, <2>1
  <2>3. body # <<>>
    <3>1. len # 0
      BY <1>2, <2>1
    <3>2. QED
      BY <1>5, <3>1
  <2>4. QED
    BY <2>1, <2>2, <2>3
<1>10. QED
  BY <1>3, <1>4, <1>7, <1>8, <1>9 DEF body, len

\* A link leads nowhere or to the entry of a child that stays linked ...
LEMMA LinksLeadOn ==
  ASSUME IInv, Tracks, Contents, Sliced, NEW a \in 1..heap.here,
         OwnNumbers(ArgsOf(a)), IsTree(ScriptAt(a)),
         NEW kv \in Pairs(heap, a), Way(kv)
  PROVE  kv.value = 0 \/ \E m \in Linked(ScriptAt(a), NodeAt(a)) : EntryFor(a, m, kv.value)
<1> DEFINE body == BodyOf(a)
           linked == Linked(ScriptAt(a), NodeAt(a))
<1>1. TypeOK /\ KeysUnique /\ Placed /\ stack = <<>>
  BY DEF IInv, Tracks, Sliced
<1>2. /\ body # <<>> => body[1] \in linked /\ body[Len(body)] \in linked
      /\ \A i \in NodeArgs(ScriptAt(a), NodeAt(a)) : ArgsOf(a)[i].value \in linked
  BY <1>1, StayLinked
<1>3. /\ NextSoFar(a, Len(body)) /\ ArgsSoFar(a, Len(ArgsOf(a)))
  BY <1>1 DEF Tracks, LinksSoFar, LinkedSoFar
<1>4. body \in Seq(Nodes(ScriptAt(a))) /\ PutArgs(a) \subseteq 1..Len(ArgsOf(a))
      /\ ArgsOf(a) \in Seq([kind : Nat, type : ArgType, value : Node \cup LeafValue])
  BY <1>1, ArgsOfSeq
<1>5. \A key \in LinkKeys : ~Displaced(a, key)
  BY NoneDisplaced
<1>6. a \in Address /\ heap.here \in Nat
  BY <1>1, TypeFacts
<1>7. CASE kv.key = HEAP_BODY
  <2>1. ~Displaced(a, HEAP_BODY)
    BY <1>5 DEF LinkKeys
  <2>2. /\ body # <<>> /\ kv.value = a + 1
        /\ a < heap.here => origin[a + 1] = [slice |-> origin[a].slice, node |-> Head(body)]
        /\ a = heap.here => AboutToAllocate(a)
    BY <1>7, <2>1 DEF IInv, Predicted
  <2>3. a < heap.here /\ a + 1 \in 1..heap.here
    <3>1. ~AboutToAllocate(a)
      BY <1>1 DEF AboutToAllocate, Running
    <3>2. a # heap.here
      BY <2>2, <3>1
    <3>3. QED
      BY <1>6, <3>2
  <2>4. Head(body) = body[1]
    BY <1>4, <2>2
  <2>5. EntryFor(a, body[1], kv.value)
    BY <2>2, <2>3, <2>4 DEF EntryFor
  <2>6. QED
    BY <1>2, <2>2, <2>5
<1>8. CASE kv.key = HEAP_NEXT
  <2>1. ~Displaced(a, HEAP_NEXT)
    BY <1>5 DEF LinkKeys
  <2>2. /\ Len(body) # 0
        /\ IF Len(body) = 1 THEN kv.value = 0 ELSE EntryFor(a, body[Len(body)], kv.value)
    BY <1>3, <1>8, <2>1 DEF NextSoFar
  <2>3. body # <<>>
    BY <2>2
  <2>4. QED
    BY <1>2, <2>2, <2>3
<1>9. CASE kv.key \notin LinkKeys
  <2>1. PICK i \in PutArgs(a) : ArgsOf(a)[i].kind = kv.key
    BY <1>9 DEF Contents, KnownPairs, Known, Displaced, ArgsOf
  <2>2. \A j \in PutArgs(a) : ArgsOf(a)[j].kind = ArgsOf(a)[i].kind => j = i
    BY DEF OwnNumbers, PutArgs, ArgsOf
  <2>3. i \in 1..Len(ArgsOf(a)) /\ i <= Len(ArgsOf(a)) /\ i <= i
    BY <1>4
  <2>4. PICK p \in Pairs(heap, a) : Leads(a, ArgsOf(a)[i], p)
    <3>1. \A j \in PutArgs(a) : j <= Len(ArgsOf(a)) /\ ArgsOf(a)[j].kind = ArgsOf(a)[i].kind => j <= i
      BY <2>2, <2>3
    <3>2. QED
      BY <1>3, <2>3, <3>1 DEF ArgsSoFar
  <2>5. p = kv
    <3>1. p.key = kv.key
      BY <2>1, <2>4 DEF Leads
    <3>2. QED
      BY <1>1, <1>6, <3>1, OneOfKey
  <2>6. ArgsOf(a)[i].type \in ArgType /\ ArgsOf(a)[i].type # "unset"
    <3>1. ArgsOf(a)[i].type \in ArgType
      <4> DEFINE Argument == [kind : Nat, type : ArgType, value : Node \cup LeafValue]
      <4>1. ArgsOf(a) \in Seq(Argument)
        BY <1>4
      <4>2. ArgsOf(a)[i] \in Argument
        <5> HIDE DEF Argument
        <5>1. QED
          BY <2>3, <4>1
      <4>3. QED
        BY <4>2
    <3>2. QED
      BY <3>1 DEF PutArgs, ArgsOf
  <2>7. ArgsOf(a)[i].type = "CS_CELERYSCRIPT"
    <3> SUFFICES ASSUME ArgsOf(a)[i].type # "CS_CELERYSCRIPT" PROVE FALSE
      OBVIOUS
    <3>1. HeapType(ArgsOf(a)[i].type) = "CSH_ADDRESS"
      BY <2>4, <2>5 DEF Leads, Way
    <3>2. ArgsOf(a)[i].type \in {"CS_STRING", "CS_BOOL", "CS_NUMBER"}
      BY <2>6 DEF ArgType
    <3>3. QED
      BY <3>1, <3>2 DEF HeapType
  <2>8. EntryFor(a, ArgsOf(a)[i].value, kv.value)
    BY <2>4, <2>5, <2>7 DEF Leads
  <2>9. i \in NodeArgs(ScriptAt(a), NodeAt(a))
    BY <2>7 DEF NodeArgs, PutArgs, ArgsOf
  <2>10. QED
    BY <1>2, <2>8, <2>9
<1>10. QED
  BY <1>7, <1>8, <1>9 DEF Way, LinkKeys

\* ... and every one of those is led to.
LEMMA LinkedAreLed ==
  ASSUME IInv, Tracks, Contents, Sliced, NEW a \in 1..heap.here,
         OwnNumbers(ArgsOf(a)), IsTree(ScriptAt(a)),
         NEW m \in Linked(ScriptAt(a), NodeAt(a))
  PROVE  \E kv \in Pairs(heap, a) : Way(kv) /\ EntryFor(a, m, kv.value)
<1> DEFINE body == BodyOf(a)
<1>1. TypeOK /\ KeysUnique /\ Placed /\ stack = <<>>
  BY DEF IInv, Tracks, Sliced
<1>2. \/ body # <<>> /\ m = body[1]
      \/ Len(body) > 1 /\ m = body[Len(body)]
      \/ \E i \in NodeArgs(ScriptAt(a), NodeAt(a)) : m = ArgsOf(a)[i].value
  BY <1>1, StayLinked
<1>3. /\ NextSoFar(a, Len(body)) /\ ArgsSoFar(a, Len(ArgsOf(a)))
  BY <1>1 DEF Tracks, LinksSoFar, LinkedSoFar
<1>4. body \in Seq(Nodes(ScriptAt(a))) /\ PutArgs(a) \subseteq 1..Len(ArgsOf(a))
  BY <1>1, ArgsOfSeq
<1>5. \A key \in LinkKeys : ~Displaced(a, key)
  BY NoneDisplaced
<1>6. \A kv \in Pairs(heap, a) : kv.key \in LinkKeys => kv.type = "CSH_ADDRESS"
  <2>1. \A kv \in Pairs(heap, a) : Known(a, kv)
    BY DEF Contents, KnownPairs
  <2>2. QED
    BY <1>5, <2>1 DEF Known
<1>7. CASE body # <<>> /\ m = body[1]
  <2>1. PICK kv \in Pairs(heap, a) : kv.key = HEAP_BODY
    <3>1. ~(Running("body") /\ Top.i = 0 /\ Top.addr = a)
      BY <1>1 DEF Running
    <3>2. QED
      BY <1>7, <3>1 DEF IInv, Present
  <2>2. HEAP_BODY # HEAP_PARENT /\ HEAP_BODY \in LinkKeys
    BY DEF HEAP_BODY, HEAP_PARENT, LinkKeys
  <2>3. Way(kv)
    BY <1>6, <2>1, <2>2 DEF Way
  <2>4. /\ kv.value = a + 1
        /\ a < heap.here => origin[a + 1] = [slice |-> origin[a].slice, node |-> Head(body)]
        /\ a = heap.here => AboutToAllocate(a)
    <3>1. ~Displaced(a, HEAP_BODY)
      BY <1>5, <2>2
    <3>2. QED
      BY <2>1, <3>1 DEF IInv, Predicted
  <2>5. a < heap.here /\ a + 1 \in 1..heap.here
    <3>1. ~AboutToAllocate(a)
      BY <1>1 DEF AboutToAllocate, Running
    <3>2. a # heap.here /\ heap.here \in Nat
      BY <1>1, <2>4, <3>1, TypeFacts
    <3>3. QED
      BY <3>2
  <2>6. Head(body) = m
    BY <1>4, <1>7
  <2>7. EntryFor(a, m, kv.value)
    BY <2>4, <2>5, <2>6 DEF EntryFor
  <2>8. QED
    BY <2>3, <2>7
<1>8. CASE Len(body) > 1 /\ m = body[Len(body)]
  <2>1. Len(body) # 0 /\ Len(body) # 1
    BY <1>4, <1>8
  <2>2. HEAP_NEXT # HEAP_PARENT /\ HEAP_NEXT \in LinkKeys
    BY DEF HEAP_NEXT, HEAP_PARENT, LinkKeys
  <2>3. PICK kv \in Pairs(heap, a) : kv.key = HEAP_NEXT /\ EntryFor(a, m, kv.value)
    <3>1. ~Displaced(a, HEAP_NEXT)
      BY <1>5, <2>2
    <3>2. QED
      BY <1>3, <1>8, <2>1, <3>1 DEF NextSoFar
  <2>4. Way(kv)
    BY <1>6, <2>2, <2>3 DEF Way
  <2>5. QED
    BY <2>3, <2>4
<1>9. CASE \E i \in NodeArgs(ScriptAt(a), NodeAt(a)) : m = ArgsOf(a)[i].value
  <2>1. PICK i \in NodeArgs(ScriptAt(a), NodeAt(a)) : m = ArgsOf(a)[i].value
    BY <1>9
  <2>2. i \in PutArgs(a) /\ i \in DOMAIN ArgsOf(a) /\ ArgsOf(a)[i].type = "CS_CELERYSCRIPT"
    BY <2>1 DEF NodeArgs, PutArgs, ArgsOf
  <2>3. \A j \in PutArgs(a) : ArgsOf(a)[j].kind = ArgsOf(a)[i].kind => j = i
    BY <2>2 DEF OwnNumbers, PutArgs, ArgsOf
  <2>4. i \in 1..Len(ArgsOf(a)) /\ i <= Len(ArgsOf(a)) /\ i <= i
    BY <1>4, <2>2
  <2>5. PICK kv \in Pairs(heap, a) : Leads(a, ArgsOf(a)[i], kv)
    <3>1. \A j \in PutArgs(a) : j <= Len(ArgsOf(a)) /\ ArgsOf(a)[j].kind = ArgsOf(a)[i].kind => j <= i
      BY <2>3, <2>4
    <3>2. QED
      BY <1>3, <2>2, <2>4, <3>1 DEF ArgsSoFar
  <2>6. kv.key # HEAP_PARENT
    BY <2>2, <2>5 DEF Leads, OwnNumbers
  <2>7. QED
    BY <2>1, <2>2, <2>5, <2>6 DEF Leads, Way
<1>10. QED
  BY <1>2, <1>7, <1>8, <1>9

-----------------------------------------------------------------------------
(* The two walks of ReachableFromRoot *)

\* The addresses an entry leads to, and the children of a node that stay linked.
Leading == [a \in Address |-> { kv.value : kv \in { p \in Pairs(heap, a) : Way(p) } }]
Linking(celery) == [n \in Nodes(celery) |-> Linked(celery, n)]

\* ReachableFrom is a walk over the addresses ...
LEMMA ReachableIs ==
  ASSUME IInv, Sliced, NEW a \in Address
  PROVE  \E f \in [0..heap.here -> SUBSET Address] :
           Spreads(f, heap.here, Leading, a) /\ ReachableFrom(a) = f[heap.here]
<1> DEFINE n == heap.here
           A == Address
           next == Leading
           one == {a}
           Solves(f) == f = [k \in 0..n |-> IF k = 0 THEN one ELSE Follow(f[k - 1])]
<1>1. TypeOK /\ NoDangling /\ n \in Nat
  BY TypeFacts DEF IInv
<1>2. next \in [A -> SUBSET A]
  <2> SUFFICES ASSUME NEW b \in Address, NEW kv \in Pairs(heap, b), Way(kv) PROVE kv.value \in Address
    BY DEF Leading
  <2>1. ~AboutToAllocate(b)
    BY DEF AboutToAllocate, Running, Sliced
  <2>2. QED
    BY <1>1, <2>1 DEF NoDangling, Way
<1>3. \A S \in SUBSET A : Follow(S) = S \cup UNION { next[x] : x \in S }
  BY DEF Follow, Leading, Way
<1>4. ReachableFrom(a) = (CHOOSE f : Solves(f))[n]
  BY DEF ReachableFrom
<1> HIDE DEF n, next, A, one
<1>5. a \in A
  BY DEF A
<1>6. PICK f \in [0..n -> SUBSET A] : Spreads(f, n, next, a)
  BY <1>1, <1>2, <1>5, SpreadExists
<1>7. \A k \in 0..n : k # 0 => k \in 1..n /\ k - 1 \in 0..n
  BY <1>1
<1>8. 0 \in 0..n /\ n \in 0..n /\ \A k \in 1..n : k \in 0..n /\ k # 0 /\ k - 1 \in 0..n
  BY <1>1
<1>9. \A k \in 0..n : f[k] = IF k = 0 THEN one ELSE Follow(f[k - 1])
  <2>1. f[0] = one /\ \A k \in 1..n : f[k] = f[k - 1] \cup UNION { next[x] : x \in f[k - 1] }
    BY <1>6 DEF Spreads, one
  <2>2. \A k \in 1..n : f[k] = Follow(f[k - 1])
    BY <1>3, <1>6, <1>8, <2>1
  <2>3. QED
    BY <1>7, <2>1, <2>2
<1>10. Solves(f)
  <2>1. f = [k \in 0..n |-> f[k]]
    BY <1>6
  <2>2. QED
    BY <1>9, <2>1
<1> DEFINE g == CHOOSE h : Solves(h)
<1>11. Solves(g)
  BY <1>10
<1> HIDE DEF g
<1>12. \A k \in 0..n : g[k] = IF k = 0 THEN one ELSE Follow(g[k - 1])
  BY <1>11
<1> DEFINE Good == { k \in 0..n : g[k] = f[k] }
<1>13. 0 \in Good
  BY <1>8, <1>9, <1>12
<1>14. \A k \in 1..n : k - 1 \in Good => k \in Good
  BY <1>8, <1>9, <1>12
<1>15. \A k \in 0..n : k \in Good
  <2> HIDE DEF Good
  <2>1. QED
    BY <1>1, <1>13, <1>14, CountUp
<1>16. g[n] = f[n]
  BY <1>8, <1>15
<1>17. QED
  BY <1>4, <1>6, <1>16 DEF g, n, A, next

\* ... and LinkedFromRoot one over the nodes of a script.
LEMMA LinkedFromRootIs ==
  ASSUME TypeOK, NEW celery, WellFormed(celery)
  PROVE  \E g \in [0..heap.here -> SUBSET Nodes(celery)] :
           /\ Spreads(g, heap.here, Linking(celery), celery.root)
           /\ LinkedFromRoot(celery) = g[heap.here]
<1> DEFINE n == heap.here
           N == Nodes(celery)
           next == Linking(celery)
           one == {celery.root}
           More(S) == S \cup UNION { Linked(celery, node) : node \in S }
           Solves(f) == f = [k \in 0..n |-> IF k = 0 THEN one ELSE More(f[k - 1])]
<1>1. n \in Nat
  BY TypeFacts
<1>2. next \in [N -> SUBSET N]
  BY ChildrenAreNodes DEF Linking, Linked
<1>3. \A S \in SUBSET N : More(S) = S \cup UNION { next[x] : x \in S }
  BY DEF Linking
<1>4. LinkedFromRoot(celery) = (CHOOSE f : Solves(f))[n]
  BY DEF LinkedFromRoot
<1>5. celery.root \in N
  BY DEF WellFormed
<1> HIDE DEF n, next, N, one, More
<1>6. PICK f \in [0..n -> SUBSET N] : Spreads(f, n, next, celery.root)
  BY <1>1, <1>2, <1>5, SpreadExists
<1>7. \A k \in 0..n : k # 0 => k \in 1..n /\ k - 1 \in 0..n
  BY <1>1
<1>8. 0 \in 0..n /\ n \in 0..n /\ \A k \in 1..n : k \in 0..n /\ k # 0 /\ k - 1 \in 0..n
  BY <1>1
<1>9. \A k \in 0..n : f[k] = IF k = 0 THEN one ELSE More(f[k - 1])
  <2>1. f[0] = one /\ \A k \in 1..n : f[k] = f[k - 1] \cup UNION { next[x] : x \in f[k - 1] }
    BY <1>6 DEF Spreads, one
  <2>2. \A k \in 1..n : f[k] = More(f[k - 1])
    BY <1>3, <1>6, <1>8, <2>1
  <2>3. QED
    BY <1>7, <2>1, <2>2
<1>10. Solves(f)
  <2>1. f = [k \in 0..n |-> f[k]]
    BY <1>6
  <2>2. QED
    BY <1>9, <2>1
<1> DEFINE g == CHOOSE h : Solves(h)
<1>11. Solves(g)
  BY <1>10
<1> HIDE DEF g
<1>12. \A k \in 0..n : g[k] = IF k = 0 THEN one ELSE More(g[k - 1])
  BY <1>11
<1> DEFINE Good == { k \in 0..n : g[k] = f[k] }
<1>13. 0 \in Good
  BY <1>8, <1>9, <1>12
<1>14. \A k \in 1..n : k - 1 \in Good => k \in Good
  BY <1>8, <1>9, <1>12
<1>15. \A k \in 0..n : k \in Good
  <2> HIDE DEF Good
  <2>1. QED
    BY <1>1, <1>13, <1>14, CountUp
<1>16. g[n] = f[n]
  BY <1>8, <1>15
<1>17. QED
  BY <1>4, <1>6, <1>16 DEF g, n, N, next

EntryOf(k, node) == CHOOSE a \in 1..heap.here : origin[a] = [slice |-> k, node |-> node]
WithEntry(k) == { n \in Nodes(slices[k]) :
                    \E a \in 1..heap.here : origin[a] = [slice |-> k, node |-> n] }

\* The links of a script's entries go where the tree does.
LEMMA WaysAreChildren ==
  ASSUME IInv, Tracks, Contents, Sliced, NEW k \in DOMAIN slices,
         \A n \in Nodes(slices[k]) : OwnNumbers(slices[k].args[n])
  PROVE  /\ \A m \in WithEntry(k) :
              /\ EntryOf(k, m) \in 1..heap.here
              /\ \A x \in Leading[EntryOf(k, m)] :
                   x = 0 \/ \E p \in Linked(slices[k], m) : p \in WithEntry(k) /\ x = EntryOf(k, p)
              /\ \A p \in Linked(slices[k], m) :
                   p \in WithEntry(k) /\ EntryOf(k, p) \in Leading[EntryOf(k, m)]
         /\ Leading[0] \subseteq {0}
         /\ slices[k].root \in WithEntry(k)
<1> DEFINE celery == slices[k]
<1>1. TypeOK /\ Placed /\ Once /\ stack = <<>> /\ slices \in Seq(Scripts)
  BY DEF IInv, Tracks, Sliced, History
<1>2. celery \in Scripts /\ k \in 1..Len(slices)
  BY <1>1
<1>3. WellFormed(celery) /\ IsTree(celery)
  BY <1>2, ScriptsAssumption, TreesAssumption
<1>4. \A m \in WithEntry(k) : /\ EntryOf(k, m) \in 1..heap.here
                              /\ origin[EntryOf(k, m)] = [slice |-> k, node |-> m]
  BY DEF WithEntry, EntryOf
<1>5. ASSUME NEW p \in Nodes(celery), NEW b \in 1..heap.here,
             origin[b] = [slice |-> k, node |-> p]
      PROVE  p \in WithEntry(k) /\ b = EntryOf(k, p)
  <2>1. p \in WithEntry(k)
    BY <1>5 DEF WithEntry
  <2>2. QED
    BY <1>1, <1>4, <1>5, <2>1 DEF Once
<1>6. \A m \in Nodes(celery) : Linked(celery, m) \subseteq Nodes(celery)
  BY <1>3, ChildrenAreNodes DEF Linked
<1>7. heap.here \in Nat /\ 0 \in Address /\ \A a \in 1..heap.here : a \in Address
  BY <1>1, TypeFacts
<1>8. \A a \in Address : Leading[a] = { kv.value : kv \in { p \in Pairs(heap, a) : Way(p) } }
  BY DEF Leading
<1>9. ASSUME NEW m \in WithEntry(k)
      PROVE  /\ \A x \in Leading[EntryOf(k, m)] :
                  x = 0 \/ \E p \in Linked(celery, m) : p \in WithEntry(k) /\ x = EntryOf(k, p)
             /\ \A p \in Linked(celery, m) :
                  p \in WithEntry(k) /\ EntryOf(k, p) \in Leading[EntryOf(k, m)]
  <2>1. PICK a \in 1..heap.here : a = EntryOf(k, m) /\ origin[a] = [slice |-> k, node |-> m]
    BY <1>4
  <2>2. /\ ScriptAt(a) = celery /\ NodeAt(a) = m /\ ArgsOf(a) = celery.args[m]
        /\ origin[a].slice = k /\ m \in Nodes(celery)
    BY <2>1 DEF ScriptAt, NodeAt, ArgsOf, WithEntry
  <2>3. OwnNumbers(ArgsOf(a)) /\ IsTree(ScriptAt(a))
    BY <1>3, <2>2
  <2>4. \A p \in Linked(celery, m) : \A b : EntryFor(a, p, b) => p \in WithEntry(k) /\ b = EntryOf(k, p)
    BY <1>5, <1>6, <2>2 DEF EntryFor
  <2>5. Leading[a] = { kv.value : kv \in { p \in Pairs(heap, a) : Way(p) } }
    BY <1>7, <1>8
  <2>6. ASSUME NEW x \in Leading[a]
        PROVE  x = 0 \/ \E p \in Linked(celery, m) : p \in WithEntry(k) /\ x = EntryOf(k, p)
    <3>1. PICK kv \in Pairs(heap, a) : Way(kv) /\ x = kv.value
      BY <2>5
    <3>2. kv.value = 0 \/ \E p \in Linked(celery, m) : EntryFor(a, p, kv.value)
      BY <2>2, <2>3, <3>1, LinksLeadOn
    <3>3. QED
      BY <2>4, <3>1, <3>2
  <2>7. ASSUME NEW p \in Linked(celery, m)
        PROVE  p \in WithEntry(k) /\ EntryOf(k, p) \in Leading[a]
    <3>1. PICK kv \in Pairs(heap, a) : Way(kv) /\ EntryFor(a, p, kv.value)
      BY <2>2, <2>3, LinkedAreLed
    <3>2. p \in WithEntry(k) /\ kv.value = EntryOf(k, p)
      BY <2>4, <3>1
    <3>3. QED
      BY <2>5, <3>1, <3>2
  <2>8. QED
    BY <2>1, <2>6, <2>7
<1>10. Leading[0] \subseteq {0}
  BY <1>7, <1>8 DEF Contents, ZeroEntry
<1>11. celery.root \in WithEntry(k)
  <2>1. RootAt(k)
    BY <1>1, <1>2 DEF Contents, RootsKept, Finished
  <2>2. celery.root \in Nodes(celery)
    BY <1>3 DEF WellFormed
  <2>3. QED
    BY <2>1, <2>2 DEF RootAt, WithEntry
<1>12. QED
  BY <1>4, <1>9, <1>10, <1>11

\* From the entry of a script's root a reader gets to the entries of the nodes
\* that stay linked all the way down, and to no others, where the arguments of the
\* script have numbers of their own.
THEOREM ReachedFromRoot == Spec => []ReachableFromRoot
<1>1. IInv /\ Tracks /\ Contents => ReachableFromRoot
  <2> SUFFICES ASSUME IInv, Tracks, Contents, Sliced, NEW k \in DOMAIN slices,
                      \A n \in Nodes(slices[k]) : OwnNumbers(slices[k].args[n])
               PROVE  ReachableFrom(EntryOf(k, slices[k].root)) \ {0}
                        = { EntryOf(k, node) : node \in LinkedFromRoot(slices[k]) }
    BY DEF ReachableFromRoot, EntryOf
  <2> DEFINE celery == slices[k]
             Ok == WithEntry(k)
             place == [m \in Ok |-> EntryOf(k, m)]
  <2>1. TypeOK /\ slices \in Seq(Scripts)
    BY DEF IInv, History
  <2>2. WellFormed(celery)
    <3>1. celery \in Scripts
      BY <2>1
    <3>2. QED
      BY <3>1, ScriptsAssumption
  <2>3. /\ \A m \in Ok :
             /\ EntryOf(k, m) \in 1..heap.here
             /\ \A x \in Leading[EntryOf(k, m)] :
                  x = 0 \/ \E p \in Linked(celery, m) : p \in Ok /\ x = EntryOf(k, p)
             /\ \A p \in Linked(celery, m) :
                  p \in Ok /\ EntryOf(k, p) \in Leading[EntryOf(k, m)]
        /\ Leading[0] \subseteq {0}
        /\ celery.root \in Ok
    BY WaysAreChildren
  <2>4. heap.here \in Nat /\ \A a \in 1..heap.here : a \in Address /\ a # 0
    BY <2>1, TypeFacts
  <2>5. place \in [Ok -> Address] /\ \A m \in Ok : place[m] = EntryOf(k, m)
    BY <2>3, <2>4
  <2>6. \A m \in Ok : Linking(celery)[m] = Linked(celery, m)
    BY DEF Linking, WithEntry
  <2> HIDE DEF place
  <2>7. /\ \A m \in Ok : place[m] # 0
        /\ \A m \in Ok : \A x \in Leading[place[m]] :
             x = 0 \/ \E p \in Linking(celery)[m] : x = place[p]
        /\ \A m \in Ok : \A p \in Linking(celery)[m] : p \in Ok /\ place[p] \in Leading[place[m]]
    BY <2>3, <2>4, <2>5, <2>6
  <2>8. place[celery.root] \in Address
    BY <2>3, <2>5
  <2>9. PICK f \in [0..heap.here -> SUBSET Address] :
          /\ Spreads(f, heap.here, Leading, place[celery.root])
          /\ ReachableFrom(place[celery.root]) = f[heap.here]
    BY <2>8, ReachableIs
  <2>10. PICK g \in [0..heap.here -> SUBSET Nodes(celery)] :
           /\ Spreads(g, heap.here, Linking(celery), celery.root)
           /\ LinkedFromRoot(celery) = g[heap.here]
    BY <2>1, <2>2, LinkedFromRootIs
  <2>11. /\ f[heap.here] \ {0} = { place[m] : m \in g[heap.here] }
         /\ g[heap.here] \subseteq Ok
    <3>1. Alike(heap.here, Leading, f, Linking(celery), g, Ok, place, 0, celery.root)
      BY <2>3, <2>7, <2>9, <2>10 DEF Alike
    <3>2. QED
      BY <2>4, <3>1, SpreadsMatch
  <2>12. place[celery.root] = EntryOf(k, celery.root)
    BY <2>3, <2>5
  <2>13. { place[m] : m \in g[heap.here] } = { EntryOf(k, m) : m \in g[heap.here] }
    BY <2>5, <2>11
  <2>14. QED
    BY <2>9, <2>10, <2>11, <2>12, <2>13
<1>2. QED
  BY <1>1, ContentsHold, PTL

=============================================================================
