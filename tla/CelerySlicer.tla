---------------------------- MODULE CelerySlicer ----------------------------
(***************************************************************************)
(* celery_slicer.c: slice() walks a CeleryScript depth first, the body of  *)
(* a node before its arguments, allocates a heap entry for every node and  *)
(* links the entries by address.  The C recursion is a stack of frames     *)
(* here, one action per step of slicer_allocate and its two loops; an      *)
(* address a caller stores before or after the call is stored in the same  *)
(* order here.                                                             *)
(*                                                                         *)
(* A script is a table: script.kind, script.body and script.args map each  *)
(* node to its kind, its body and its arguments.  An argument of type      *)
(* CS_CELERYSCRIPT has a node as its value.                                *)
(***************************************************************************)
EXTENDS CeleryHeap

CONSTANTS
  Scripts,     \* the scripts slice() may be given
  Node,        \* the nodes of those scripts
  LeafValue,   \* the values of arguments that are no nodes
  MaxSlices    \* bound: how many scripts are sliced into one heap

ArgType == {"CS_STRING", "CS_BOOL", "CS_NUMBER", "CS_CELERYSCRIPT", "unset"}

Nodes(script) == DOMAIN script.kind

\* json_to_celery_script leaves the type of a null or array argument unset:
\* "unset" stands for a leftover that is none of the four enumerators, and a
\* leftover that is one of them is an argument of that type.
WellFormed(script) ==
  /\ Nodes(script) \subseteq Node
  /\ script.root \in Nodes(script)
  /\ script.kind \in [Nodes(script) -> Nat]
  /\ script.body \in [Nodes(script) -> Seq(Nodes(script))]
  /\ DOMAIN script.args = Nodes(script)
  /\ \A n \in Nodes(script) :
       script.args[n] \in Seq([kind : Nat, type : ArgType, value : Node \cup LeafValue])
  /\ \A n \in Nodes(script) : \A i \in 1..Len(script.args[n]) :
       script.args[n][i].type = "CS_CELERYSCRIPT" => script.args[n][i].value \in Nodes(script)

\* The arguments that are nodes, by index, and the nodes in the body or the
\* arguments of a node.
NodeArgs(script, n) == { i \in DOMAIN script.args[n] : script.args[n][i].type = "CS_CELERYSCRIPT" }
ChildrenOf(script, n) ==
  ToSet(script.body[n]) \cup { script.args[n][i].value : i \in NodeArgs(script, n) }

\* json_to_celery_script makes a node for each object it reads, in the one place
\* the object is in: no node is in two places, the root is in none, and every node
\* is below it.  (Left out: a leftover type of CS_CELERYSCRIPT, whose value is a
\* leftover too.)
IsTree(script) ==
  /\ \A n \in Nodes(script) :
       /\ script.root \notin ChildrenOf(script, n)
       /\ \A m \in Nodes(script) \ {n} : ChildrenOf(script, n) \cap ChildrenOf(script, m) = {}
       /\ \A i, j \in DOMAIN script.body[n] : script.body[n][i] = script.body[n][j] => i = j
       /\ \A i, j \in NodeArgs(script, n) :
            script.args[n][i].value = script.args[n][j].value => i = j
       /\ \A i \in NodeArgs(script, n) : script.args[n][i].value \notin ToSet(script.body[n])
  /\ IsFiniteSet(Nodes(script))
  /\ \A S \in SUBSET Nodes(script) :
       script.root \in S /\ (\A n \in S : ChildrenOf(script, n) \subseteq S) => S = Nodes(script)

ASSUME ScriptsAssumption == \A script \in Scripts : WellFormed(script)
ASSUME TreesAssumption == \A script \in Scripts : IsTree(script)
ASSUME MaxSlicesAssumption == MaxSlices \in Nat

VARIABLES
  heap,
  stack,     \* the calls of slicer_allocate in progress, the innermost last
  returned,  \* the address the last finished call returned
  slices,    \* history: the scripts given to slice()
  origin     \* history: origin[a] is the slice and the node entry a was made for

vars == <<heap, stack, returned, slices, origin>>

Top == stack[Len(stack)]
script == slices[Len(slices)]

\* Replaces the innermost frame, and calls slicer_allocate from it.
Resume(frame) == [stack EXCEPT ![Len(stack)] = frame]
Call(frames, node, parent) ==
  Append(frames, [node |-> node, parent |-> parent, addr |-> 0, at |-> "enter", i |-> 0])

Running(at) == stack # <<>> /\ Top.at = at

Init == /\ heap = HeapInit
        /\ stack = <<>>
        /\ returned = 0
        /\ slices = <<>>
        /\ origin = <<>>

\* Mutants: the parent of a root is the entry before it; the heap is made anew.
SliceParentHere ==
  /\ stack = <<>>
  /\ Len(slices) < MaxSlices
  /\ \E celery \in Scripts :
       /\ slices' = Append(slices, celery)
       /\ stack' = Call(<<>>, celery.root, heap.here)
  /\ UNCHANGED <<heap, returned, origin>>

SliceFreshHeap ==
  /\ stack = <<>>
  /\ Len(slices) < MaxSlices
  /\ \E celery \in Scripts :
       /\ slices' = Append(slices, celery)
       /\ stack' = Call(<<>>, celery.root, 0)
  /\ heap' = HeapInit
  /\ origin' = <<>>
  /\ UNCHANGED returned

\* slice(celery, heap): the root's parent is the NOTHING entry.
Slice ==
  /\ stack = <<>>
  /\ Len(slices) < MaxSlices
  /\ \E celery \in Scripts :
       /\ slices' = Append(slices, celery)
       /\ stack' = Call(<<>>, celery.root, 0)
  /\ UNCHANGED <<heap, returned, origin>>

\* Mutants: the arguments are walked before the body; the parent is the entry
\* before this one.
AllocateArgsFirst ==
  /\ Running("enter")
  /\ LET allotted == HeapAlot(heap, script.kind[Top.node])
     IN /\ heap' = HeapPut(allotted, allotted.here, "CSH_ADDRESS", HEAP_PARENT, Top.parent)
        /\ stack' = Resume([Top EXCEPT !.addr = allotted.here,
                              !.at = IF script.args[Top.node] # <<>> THEN "args" ELSE "body"])
  /\ origin' = Append(origin, [slice |-> Len(slices), node |-> Top.node])
  /\ UNCHANGED <<returned, slices>>

AllocateParentBefore ==
  /\ Running("enter")
  /\ LET allotted == HeapAlot(heap, script.kind[Top.node])
     IN /\ heap' = HeapPut(allotted, allotted.here, "CSH_ADDRESS", HEAP_PARENT, heap.here)
        /\ stack' = Resume([Top EXCEPT !.addr = allotted.here, !.at = "body"])
  /\ origin' = Append(origin, [slice |-> Len(slices), node |-> Top.node])
  /\ UNCHANGED <<returned, slices>>

\* heap_alot and the HEAP_PARENT link.
Allocate ==
  /\ Running("enter")
  /\ LET allotted == HeapAlot(heap, script.kind[Top.node])
     IN /\ heap' = HeapPut(allotted, allotted.here, "CSH_ADDRESS", HEAP_PARENT, Top.parent)
        /\ stack' = Resume([Top EXCEPT !.addr = allotted.here, !.at = "body"])
  /\ origin' = Append(origin, [slice |-> Len(slices), node |-> Top.node])
  /\ UNCHANGED <<returned, slices>>

-----------------------------------------------------------------------------
(* slicer_iterate_over_body *)

Body == script.body[Top.node]

\* Mutant: the address is taken one entry too far.
BodyFirstOffByOne ==
  /\ Running("body")
  /\ Top.i = 0
  /\ Top.i < Len(Body)
  /\ heap' = HeapPut(heap, Top.addr, "CSH_ADDRESS", HEAP_BODY, heap.heap_size + 1)
  /\ stack' = Call(Resume([Top EXCEPT !.at = "bodyReturn"]), Body[Top.i + 1], Top.addr)
  /\ UNCHANGED <<returned, slices, origin>>

\* The address of the first child is stored before the child is allocated.
BodyFirst ==
  /\ Running("body")
  /\ Top.i = 0
  /\ Top.i < Len(Body)
  /\ heap' = HeapPut(heap, Top.addr, "CSH_ADDRESS", HEAP_BODY, Top.addr + 1)
  /\ stack' = Call(Resume([Top EXCEPT !.at = "bodyReturn"]), Body[Top.i + 1], Top.addr)
  /\ UNCHANGED <<returned, slices, origin>>

BodyOther ==
  /\ Running("body")
  /\ Top.i > 0
  /\ Top.i < Len(Body)
  /\ stack' = Call(Resume([Top EXCEPT !.at = "bodyReturn"]), Body[Top.i + 1], Top.addr)
  /\ UNCHANGED <<heap, returned, slices, origin>>

\* Mutants: HEAP_NEXT is 0 for every child; it is put on the child that just
\* returned.
BodyReturnedZero ==
  /\ Running("bodyReturn")
  /\ heap' = HeapPut(heap, Top.addr, "CSH_ADDRESS", HEAP_NEXT, 0)
  /\ stack' = Resume([Top EXCEPT !.at = "body", !.i = @ + 1])
  /\ UNCHANGED <<returned, slices, origin>>

BodyReturnedToChild ==
  /\ Running("bodyReturn")
  /\ heap' = HeapPut(heap, returned, "CSH_ADDRESS", HEAP_NEXT,
                     IF Top.i = 0 THEN 0 ELSE returned)
  /\ stack' = Resume([Top EXCEPT !.at = "body", !.i = @ + 1])
  /\ UNCHANGED <<returned, slices, origin>>

\* HEAP_NEXT goes to the node whose body this is, whichever child returned.
BodyReturned ==
  /\ Running("bodyReturn")
  /\ heap' = HeapPut(heap, Top.addr, "CSH_ADDRESS", HEAP_NEXT,
                     IF Top.i = 0 THEN 0 ELSE returned)
  /\ stack' = Resume([Top EXCEPT !.at = "body", !.i = @ + 1])
  /\ UNCHANGED <<returned, slices, origin>>

BodyDone ==
  /\ Running("body")
  /\ Top.i = Len(Body)
  /\ stack' = Resume([Top EXCEPT !.at = "args", !.i = 0])
  /\ UNCHANGED <<heap, returned, slices, origin>>

-----------------------------------------------------------------------------
(* slicer_iterate_over_args *)

Args == script.args[Top.node]
Arg == Args[Top.i + 1]

\* celery_arg_type_t and celery_heap_entry_type_t number these alike.
HeapType(type) == CASE type = "CS_STRING" -> "CSH_STRING"
                    [] type = "CS_BOOL"   -> "CSH_BOOL"
                    [] type = "CS_NUMBER" -> "CSH_NUMBER"

ArgNode ==
  /\ Running("args")
  /\ Top.i < Len(Args)
  /\ Arg.type = "CS_CELERYSCRIPT"
  /\ stack' = Call(Resume([Top EXCEPT !.at = "argReturn"]), Arg.value, Top.addr)
  /\ UNCHANGED <<heap, returned, slices, origin>>

\* Mutant: the address stored is the newest one, not the one returned.
ArgReturnedHere ==
  /\ Running("argReturn")
  /\ heap' = HeapPut(heap, Top.addr, "CSH_ADDRESS", Arg.kind, heap.here)
  /\ stack' = Resume([Top EXCEPT !.at = "args", !.i = @ + 1])
  /\ UNCHANGED <<returned, slices, origin>>

\* The address is stored after the call, under the number of the argument.
ArgReturned ==
  /\ Running("argReturn")
  /\ heap' = HeapPut(heap, Top.addr, "CSH_ADDRESS", Arg.kind, returned)
  /\ stack' = Resume([Top EXCEPT !.at = "args", !.i = @ + 1])
  /\ UNCHANGED <<returned, slices, origin>>

ArgLeaf ==
  /\ Running("args")
  /\ Top.i < Len(Args)
  /\ Arg.type \in {"CS_STRING", "CS_BOOL", "CS_NUMBER"}
  /\ heap' = HeapPut(heap, Top.addr, HeapType(Arg.type), Arg.kind, Arg.value)
  /\ stack' = Resume([Top EXCEPT !.i = @ + 1])
  /\ UNCHANGED <<returned, slices, origin>>

ArgSkipped ==
  /\ Running("args")
  /\ Top.i < Len(Args)
  /\ Arg.type = "unset"
  /\ stack' = Resume([Top EXCEPT !.i = @ + 1])
  /\ UNCHANGED <<heap, returned, slices, origin>>

Return ==
  /\ Running("args")
  /\ Top.i = Len(Args)
  /\ returned' = Top.addr
  /\ stack' = Front(stack)
  /\ UNCHANGED <<heap, slices, origin>>

-----------------------------------------------------------------------------
Next == \/ Slice \/ Allocate
        \/ BodyFirst \/ BodyOther \/ BodyReturned \/ BodyDone
        \/ ArgNode \/ ArgReturned \/ ArgLeaf \/ ArgSkipped \/ Return

Spec == Init /\ [][Next]_vars

-----------------------------------------------------------------------------
(* Properties *)

Address == 0..heap.here

At == {"enter", "body", "bodyReturn", "args", "argReturn"}

Value == Nat \cup Node \cup LeafValue
KeyValue == [key : Nat, type : EntryType, value : Value]
Entry == [kind : Nat, kvs : Seq(KeyValue)]

TypeOK ==
  /\ heap \in [here : Nat, heap_size : Nat, entries : [Address -> Entry]]
  /\ heap.heap_size = heap.here + 1
  /\ \A k \in 1..Len(slices) : WellFormed(slices[k])
  /\ Len(slices) <= MaxSlices
  /\ stack # <<>> => slices # <<>>
  /\ stack \in Seq([node : Node, parent : Address, addr : Address, at : At, i : Nat])
  /\ \A j \in 1..Len(stack) : stack[j].node \in Nodes(script)
  /\ returned \in Address
  /\ origin \in Seq([slice : 1..Len(slices), node : Node])
  /\ Len(origin) = heap.here

\* heap_put searches before it appends, so no entry ever has a key twice and a
\* reader that takes the first match sees the last value put.
KeysUnique ==
  \A a \in Address : \A i, j \in DOMAIN heap.entries[a].kvs :
    heap.entries[a].kvs[i].key = heap.entries[a].kvs[j].key => i = j

\* Every stored address is that of an entry, except the one of a first child
\* the slicer is about to allocate: slicer_iterate_over_body stores addr + 1
\* ahead of the call, and nothing may be allocated in between.
AboutToAllocate(a) == Running("enter") /\ Top.parent = a /\ a = heap.here

NoDangling ==
  \A a \in Address : \A kv \in Pairs(heap, a) :
    kv.type = "CSH_ADDRESS" =>
      \/ kv.value \in Address
      \/ AboutToAllocate(a) /\ kv.key = HEAP_BODY /\ kv.value = heap.here + 1

\* What entry a was made for, and the entry made for a node.
ScriptAt(a) == slices[origin[a].slice]
NodeAt(a) == origin[a].node
Home(a, node) ==
  CHOOSE b \in Address \ {0} : origin[b] = [slice |-> origin[a].slice, node |-> node]

\* The arguments of entry a that reach the heap, as indices, and whether one of
\* them has the number of a link: such an argument displaces the link.
PutArgs(a) ==
  { i \in DOMAIN ScriptAt(a).args[NodeAt(a)] : ScriptAt(a).args[NodeAt(a)][i].type # "unset" }
Displaced(a, key) == \E i \in PutArgs(a) : ScriptAt(a).args[NodeAt(a)][i].kind = key

Sliced == stack = <<>>

\* HEAP_BODY of a node is the next entry, which is made for the first item of
\* its body, and every sliced node with a body has it: the prediction in
\* slicer_iterate_over_body is right because bodies are walked before arguments.
BodyLink ==
  \A a \in Address \ {0} : ~Displaced(a, HEAP_BODY) =>
    LET body == ScriptAt(a).body[NodeAt(a)]
        next == [slice |-> origin[a].slice, node |-> Head(body)]
    IN /\ \A kv \in Pairs(heap, a) : kv.key = HEAP_BODY =>
            /\ body # <<>>
            /\ kv.value = a + 1
            /\ a < heap.here => origin[a + 1] = next
       /\ Sliced /\ body # <<>> => \E kv \in Pairs(heap, a) : kv.key = HEAP_BODY

\* HEAP_NEXT of a node is about its own body: 0 for one child, the entry of the
\* last child for more.  No child ever links to its sibling.
NextLink ==
  Sliced => \A a \in Address \ {0} :
    LET body == ScriptAt(a).body[NodeAt(a)]
    IN ~Displaced(a, HEAP_NEXT) =>
         ValuesOf(heap, a, HEAP_NEXT) = IF body = <<>> THEN {}
                                        ELSE IF Len(body) = 1 THEN {0}
                                        ELSE {Home(a, Last(body))}

\* HEAP_PARENT of an entry is the entry whose script node has this one in its
\* body or arguments, and 0 for a root, unless a "locals" argument displaced it.
ParentLink ==
  Sliced => \A a \in Address \ {0} :
    LET celery  == ScriptAt(a)
        parents == { p \in Nodes(celery) : NodeAt(a) \in ChildrenOf(celery, p) }
    IN ~Displaced(a, HEAP_PARENT) =>
         ValuesOf(heap, a, HEAP_PARENT) =
           IF parents = {} THEN {0} ELSE { Home(a, p) : p \in parents }

\* The last argument put under a number is what the entry holds there, with its
\* type: later arguments displace earlier ones of the same number, which all
\* unknown names share, and every argument displaces a link of its number.
ArgLink ==
  Sliced => \A a \in Address \ {0} :
    LET args == ScriptAt(a).args[NodeAt(a)]
    IN \A i \in PutArgs(a) :
         (\A j \in PutArgs(a) : args[j].kind = args[i].kind => j <= i) =>
           \E kv \in Pairs(heap, a) :
             /\ kv.key = args[i].kind
             /\ IF args[i].type = "CS_CELERYSCRIPT"
                THEN kv.type = "CSH_ADDRESS" /\ kv.value = Home(a, args[i].value)
                ELSE kv.type = HeapType(args[i].type) /\ kv.value = args[i].value

\* Once a script is sliced, every entry says where its node is in it.
LinksLead == NextLink /\ ParentLink /\ ArgLink

\* The order of depth-first traversal, bodies before arguments, from each node.
Orders(celery) ==
  LET order[n \in Nodes(celery)] ==
        <<n>> \o FlattenSeq([i \in DOMAIN celery.body[n] |-> order[celery.body[n][i]]])
              \o FlattenSeq([i \in DOMAIN celery.args[n] |->
                              IF i \in NodeArgs(celery, n) THEN order[celery.args[n][i].value]
                                                           ELSE <<>>])
  IN order
Preorder(celery) == Orders(celery)[celery.root]

\* The scripts lie in the heap one after the other, every node once, in that
\* order and with its kind.
LayoutIsPreorder ==
  Sliced =>
    /\ [a \in 1..heap.here |-> NodeAt(a)]
         = FlattenSeq([k \in DOMAIN slices |-> Preorder(slices[k])])
    /\ \A a \in 1..heap.here : heap.entries[a].kind = ScriptAt(a).kind[NodeAt(a)]

\* The entries a reader can get to from entry a by following addresses, the
\* links to parents aside.
Follow(S) ==
  LET links(a) == { kv \in Pairs(heap, a) : kv.type = "CSH_ADDRESS" /\ kv.key # HEAP_PARENT }
  IN S \cup UNION { { kv.value : kv \in links(a) } : a \in S }
ReachableFrom(a) ==
  LET closure[n \in 0..heap.here] == IF n = 0 THEN {a} ELSE Follow(closure[n - 1])
  IN closure[heap.here]

\* Arguments of a node that keep clear of each other and of the links.
OwnNumbers(args) ==
  \A i, j \in DOMAIN args :
    /\ args[i].kind = args[j].kind => i = j
    /\ args[i].kind \notin {HEAP_BODY, HEAP_NEXT, HEAP_PARENT}

\* The children that stay linked, and the nodes they lead to from the root: the
\* items between the first and the last of a body have no address anywhere.
Linked(celery, node) ==
  LET body == celery.body[node]
  IN ChildrenOf(celery, node) \ { body[i] : i \in 2..(Len(body) - 1) }
LinkedFromRoot(celery) ==
  LET grow[n \in 0..heap.here] ==
        IF n = 0 THEN {celery.root}
        ELSE grow[n - 1] \cup UNION { Linked(celery, node) : node \in grow[n - 1] }
  IN grow[heap.here]

\* What a reader can walk to from the root of a script, whose arguments have
\* numbers of their own, is exactly the nodes that are not, and are not under,
\* a middle item of a body of three or more.
ReachableFromRoot ==
  Sliced => \A k \in DOMAIN slices :
    (\A n \in Nodes(slices[k]) : OwnNumbers(slices[k].args[n])) =>
      LET entryOf(node) == CHOOSE a \in 1..heap.here : origin[a] = [slice |-> k, node |-> node]
      IN ReachableFrom(entryOf(slices[k].root)) \ {0}
           = { entryOf(node) : node \in LinkedFromRoot(slices[k]) }

=============================================================================
