---------------------------- MODULE CeleryScript ----------------------------
(***************************************************************************)
(* celery_script.c: the script read from a cJSON tree.  A place in the     *)
(* trees read so far is the number of a tree and the path of indices in    *)
(* it; a script names its nodes, and points to its strings, by their       *)
(* places.                                                                 *)
(***************************************************************************)
EXTENDS Corpus, CJsonCompare

\* The first index of a place is the number of its tree.
ItemAt(trees, place) == FoldLeft(LAMBDA item, i : item.kids[i], trees[Head(place)], Tail(place))

\* The places of the children of a member: GetObjectItem, GetArraySize and
\* GetArrayItem do not ask whether either is an array or an object.
ChildPlaces(trees, place, member) ==
  LET i == PlaceOf(ItemAt(trees, place), Bytes(member), FALSE)
  IN IF i = 0 THEN <<>>
     ELSE [k \in DOMAIN ItemAt(trees, place).kids[i].kids |-> place \o <<i, k>>]

\* The items json_to_celery_script is called with, from one of them on.
RECURSIVE NodePlaces(_, _)
NodePlaces(trees, place) ==
  LET below == ToSet(ChildPlaces(trees, place, "body"))
               \cup {q \in ToSet(ChildPlaces(trees, place, "args")) : ItemAt(trees, q).type = "object"}
  IN {place} \cup UNION {NodePlaces(trees, q) : q \in below}

\* The name look-ups are given NULL for a node without a string as its kind, and
\* for an argument in an array: strcmp fails on it.
Kinds(trees, place) ==
  {v \in GetObjectItem(ItemAt(trees, place), Bytes("kind"), FALSE) : v.type = "string"}
Readable(trees, root) ==
  /\ ItemAt(trees, root) # NULL
  /\ \A p \in NodePlaces(trees, root) :
       /\ Kinds(trees, p) # {}
       /\ \A q \in ToSet(ChildPlaces(trees, p, "args")) : ItemAt(trees, q).name # NULL

\* A boolean is the valueint that the parser sets for true; nothing is set for
\* null and arrays.
ArgOf(trees, place) ==
  LET itm == ItemAt(trees, place)
      Argument(type, value) == [kind |-> arg_name_from_string(itm.name), type |-> type, value |-> value]
  IN CASE itm.type \in {"true", "false"} -> Argument("CS_BOOL", <<IF itm.type = "true" THEN 1 ELSE 0>>)
       [] itm.type = "number"            -> Argument("CS_NUMBER", itm.value)
       [] itm.type = "string"            -> Argument("CS_STRING", place)
       [] itm.type = "object"            -> Argument("CS_CELERYSCRIPT", place)
       [] OTHER                          -> Argument("unset", <<>>)

json_to_celery_script(trees, root) ==
  LET nodes == NodePlaces(trees, root)
  IN [root |-> root,
      kind |-> [p \in nodes |-> node_name_from_string((CHOOSE v \in Kinds(trees, p) : TRUE).value)],
      body |-> [p \in nodes |-> ChildPlaces(trees, p, "body")],
      args |-> [p \in nodes |-> LET places == ChildPlaces(trees, p, "args")
                                IN [k \in DOMAIN places |-> ArgOf(trees, places[k])]]]

\* The places of the strings that a script points to.
StringPlaces(celery) ==
  {arg.value : arg \in {g \in UNION {ToSet(celery.args[p]) : p \in DOMAIN celery.args} :
                          g.type = "CS_STRING"}}

\* Mutant: the tree is given back as cJSON.h asks, with its strings.
StringsFreedWithTree(celery) == StringPlaces(celery)

\* The strings of a script that go when buffer_to_celery_script gives the tree
\* to cJSON_free, which frees the root item alone.
StringsFreed(celery) == {}
=============================================================================
