--------------------------- MODULE MCCelerySlicer ---------------------------
(* CelerySlicer on every script of a bounded number of items: each item after *)
(* the root is a body item, a node argument, a plain argument or an argument   *)
(* of unset type of an earlier node, under an argument number of its own or    *)
(* one that collides.                                                          *)
EXTENDS CelerySlicer

CONSTANTS
  MaxItems,   \* bound: nodes and plain arguments of a script
  Keys        \* the argument numbers to try

Places == {[as |-> "body", key |-> 0]} \cup [as : {"node", "leaf", "unset"}, key : Keys]

\* An item hangs on an earlier one, and only nodes have items of their own.
Shapes(n) ==
  { shape \in [2..n -> [under : 1..(n - 1), place : Places]] :
      \A k \in 2..n :
        /\ shape[k].under < k
        /\ shape[k].under # 1 => shape[shape[k].under].place.as \in {"body", "node"} }

ScriptOf(shape) ==
  LET n == Cardinality(DOMAIN shape) + 1
      nodes == {1} \cup { k \in 2..n : shape[k].place.as \in {"body", "node"} }
      items(p, as) == SetToSortSeq({ k \in 2..n : shape[k].under = p /\ shape[k].place.as \in as }, <)
      argType(k) == CASE shape[k].place.as = "node"  -> "CS_CELERYSCRIPT"
                      [] shape[k].place.as = "leaf"  -> "CS_NUMBER"
                      [] shape[k].place.as = "unset" -> "unset"
  IN [root |-> 1,
      kind |-> [p \in nodes |-> 10 + p],
      body |-> [p \in nodes |-> items(p, {"body"})],
      args |-> [p \in nodes |->
                  LET is == items(p, {"node", "leaf", "unset"})
                  IN [i \in DOMAIN is |-> [kind  |-> shape[is[i]].place.key,
                                           type  |-> argType(is[i]),
                                           value |-> is[i]]]]]

MCScripts == { ScriptOf(shape) : shape \in UNION { Shapes(n) : n \in 1..MaxItems } }
MCNode == 1..MaxItems

\* Bound: two scripts, the second sliced into the heap of the first, have at
\* most MaxItems items between them.
Size(celery) ==
  Cardinality(Nodes(celery)
              \cup UNION { { arg.value : arg \in ToSet(celery.args[n]) } : n \in Nodes(celery) })
SmallTwice ==
  /\ slices # <<>> /\ stack = <<>> => Size(slices[1]) < MaxItems
  /\ Len(slices) = 2 => Size(slices[1]) + Size(slices[2]) <= MaxItems

=============================================================================
