------------------------------- MODULE CJson -------------------------------
(***************************************************************************)
(* The items of cJSON.c: the create, add, reference, detach, insert,       *)
(* replace, duplicate and delete operations on next, prev and child        *)
(* pointers, called by a client in any order cJSON.h allows: it adds and   *)
(* deletes only items it holds, adds none below itself, and changes        *)
(* nothing through a reference.                                            *)
(*                                                                         *)
(* A call given NULL or a negative index changes nothing, nor does one     *)
(* whose malloc fails: they are stuttering steps, but for AddLost,         *)
(* AddReferenceLost and the replacement by name.  An index is the item it  *)
(* leads to.                                                               *)
(***************************************************************************)
EXTENDS Integers, SequencesExt

CONSTANTS
  Items,    \* the addresses an item can have
  Names,    \* the keys of objects
  Fold,     \* the key in lower case
  Texts,    \* whether the items made have a valuestring: a subset of BOOLEAN
  NULL,
  MaxArray,       \* bound: the length of the arrays the CreateArray functions make
  MaxReferences   \* bound: the references there are at a time

ASSUME FoldAssumption == Fold \in [Names -> Names]
ASSUME NullAssumption == NULL \notin Items \cup Names
ASSUME TextsAssumption == Texts \subseteq BOOLEAN
ASSUME BoundsAssumption == MaxArray \in Nat /\ MaxReferences \in Nat

VARIABLES
  live,               \* the items allocated and not freed
  next, prev, child,  \* NULL in memory that is not allocated
  info,               \* name and flags: a reference, a constant name, a valuestring
  blocks,             \* how many strings are allocated
  held,               \* history: the items the client has to attach or delete
  lost                \* history: items no pointer leads to any more

vars == <<live, next, prev, child, info, blocks, held, lost>>

Maybe(S) == S \cup {NULL}

Info == [name : Maybe(Names), ref : BOOLEAN, const : BOOLEAN, text : BOOLEAN]
Blank == [name |-> NULL, ref |-> FALSE, const |-> FALSE, text |-> FALSE]

\* What the loop over next meets from an item on: the least set that holds it
\* and is closed under next.
From(first) ==
  { i \in live : \A S \in SUBSET live :
                   (first \in S /\ \A s \in S : next[s] \in Maybe(S)) => i \in S }

Children(p) == IF child[p] = NULL THEN {} ELSE From(child[p])

\* Mutant: children are freed through a reference too.
FreedThroughReference(item) ==
  { i \in live :
      \A S \in SUBSET live :
        (item \in S /\ \A s \in S : {next[s], child[s]} \subseteq Maybe(S)) => i \in S }

\* cJSON_Delete: the item, its later siblings, and what is below them, but not
\* through a reference.
Freed(item) ==
  { i \in live :
      \A S \in SUBSET live :
        (item \in S /\ \A s \in S : /\ next[s] \in Maybe(S)
                                    /\ ~info[s].ref => child[s] \in Maybe(S)) => i \in S }

\* The same for an item taken out of its list.
Tree(item) == {item} \cup IF info[item].ref \/ child[item] = NULL THEN {} ELSE Freed(child[item])

\* The string blocks cJSON_Delete frees with an item.
Owned(i) == (IF i.name # NULL /\ ~i.const THEN 1 ELSE 0) + (IF i.text /\ ~i.ref THEN 1 ELSE 0)

BlocksOf(S) == MapThenSumSet(LAMBDA i : Owned(info[i]), S)

Init == /\ live = {} /\ held = {} /\ lost = {}
        /\ next = [i \in Items |-> NULL]
        /\ prev = [i \in Items |-> NULL]
        /\ child = [i \in Items |-> NULL]
        /\ info = [i \in Items |-> Blank]
        /\ blocks = 0

-----------------------------------------------------------------------------
(* The pointers *)

\* get_object_item: the first item of that name.  Without case a NULL name is
\* no name; with case, strcmp is given it.
Matches(item, name, case) ==
  IF case THEN info[item].name = name
          ELSE info[item].name # NULL /\ Fold[info[item].name] = Fold[name]

GetObjectItem(object, name, case) ==
  { x \in Children(object) :
      /\ Matches(x, name, case)
      /\ \A y \in Children(object) \ {x} : Matches(y, name, case) => x \notin From(y) }

Named(object) == \A x \in Children(object) : info[x].name # NULL

\* add_item_to_array: behind the last child.  A reference made on the way
\* has got the child pointer of its original first.
AppendTo(array, item, first) ==
  LET adopted == [child EXCEPT ![item] = first]
  IN IF child[array] = NULL
     THEN child' = [adopted EXCEPT ![array] = item] /\ UNCHANGED <<next, prev>>
     ELSE \E last \in Children(array) :
            /\ next[last] = NULL
            /\ next' = [next EXCEPT ![last] = item]
            /\ prev' = [prev EXCEPT ![item] = last]
            /\ child' = adopted

\* Mutant: the item behind keeps its prev.
UnlinkPrevKept(parent, item, freed) ==
  /\ next' = [x \in Items |-> IF x \in freed \cup {item} THEN NULL
                              ELSE IF x = prev[item] THEN next[item] ELSE next[x]]
  /\ prev' = [x \in Items |-> IF x \in freed \cup {item} THEN NULL ELSE prev[x]]
  /\ child' = [x \in Items |-> IF x \in freed THEN NULL
                               ELSE IF x = parent /\ child[x] = item THEN next[item] ELSE child[x]]

\* cJSON_DetachItemViaPointer, and what is freed after it.
Unlink(parent, item, freed) ==
  /\ next' = [x \in Items |-> IF x \in freed \cup {item} THEN NULL
                              ELSE IF x = prev[item] THEN next[item] ELSE next[x]]
  /\ prev' = [x \in Items |-> IF x \in freed \cup {item} THEN NULL
                              ELSE IF x = next[item] THEN prev[item] ELSE prev[x]]
  /\ child' = [x \in Items |-> IF x \in freed THEN NULL
                               ELSE IF x = parent /\ child[x] = item THEN next[item] ELSE child[x]]

\* Mutant: behind the item the index leads to.
InsertAfter(array, after, newitem) ==
  /\ next' = [next EXCEPT ![newitem] = next[after], ![after] = newitem]
  /\ prev' = [x \in Items |-> IF x = newitem THEN after
                              ELSE IF x = next[after] THEN newitem ELSE prev[x]]
  /\ UNCHANGED child

\* cJSON_InsertItemInArray.
InsertBefore(array, after, newitem) ==
  /\ next' = [x \in Items |-> IF x = newitem THEN after
                              ELSE IF x = prev[after] THEN newitem ELSE next[x]]
  /\ prev' = [prev EXCEPT ![newitem] = prev[after], ![after] = newitem]
  /\ child' = [child EXCEPT ![array] = IF @ = after THEN newitem ELSE @]

\* Mutant: the parent still points to the first child that was replaced.
SubstituteParentKept(parent, item, replacement, freed) ==
  /\ next' = [x \in Items |-> IF x \in freed THEN NULL
                              ELSE IF x = replacement THEN next[item]
                              ELSE IF x = prev[item] THEN replacement ELSE next[x]]
  /\ prev' = [x \in Items |-> IF x \in freed THEN NULL
                              ELSE IF x = replacement THEN prev[item]
                              ELSE IF x = next[item] THEN replacement ELSE prev[x]]
  /\ child' = [x \in Items |-> IF x \in freed THEN NULL ELSE child[x]]

\* cJSON_ReplaceItemViaPointer.
Substitute(parent, item, replacement, freed) ==
  /\ next' = [x \in Items |-> IF x \in freed THEN NULL
                              ELSE IF x = replacement THEN next[item]
                              ELSE IF x = prev[item] THEN replacement ELSE next[x]]
  /\ prev' = [x \in Items |-> IF x \in freed THEN NULL
                              ELSE IF x = replacement THEN prev[item]
                              ELSE IF x = next[item] THEN replacement ELSE prev[x]]
  /\ child' = [x \in Items |-> IF x \in freed THEN NULL
                               ELSE IF x = parent /\ child[x] = item THEN replacement ELSE child[x]]

\* What cJSON_Delete does to the rest of the memory.
Free(freed) ==
  /\ live' = live \ freed
  /\ blocks' = blocks - BlocksOf(freed)
  /\ info' = [i \in Items |-> IF i \in freed THEN Blank ELSE info[i]]

-----------------------------------------------------------------------------
(* The operations *)

\* The client's part: what it adds is its own, and not around the array.
Adds(array, item) == item \in held /\ array \in live \ Tree(item) /\ ~info[array].ref

MoreReferences == Cardinality({i \in live : info[i].ref}) < MaxReferences

\* The Create functions: an item, a string, or one that refers to children or
\* to a string.
Create ==
  \E i \in Items \ live, text \in Texts, ref \in BOOLEAN :
    \E first \in IF ref /\ ~text THEN Maybe(live) ELSE {NULL} :
      /\ ref => MoreReferences
      /\ live' = live \cup {i}
      /\ child' = [child EXCEPT ![i] = first]
      /\ info' = [info EXCEPT ![i] = [Blank EXCEPT !.ref = ref, !.text = text]]
      /\ blocks' = blocks + IF text /\ ~ref THEN 1 ELSE 0
      /\ held' = held \cup {i}
      /\ UNCHANGED <<next, prev, lost>>

\* The CreateArray functions link their items themselves.
CreateArray ==
  \E n \in 1..MaxArray, text \in Texts :
    \E a \in Injection(0..n, Items \ live) :
      /\ live' = live \cup Range(a)
      /\ child' = [child EXCEPT ![a[0]] = a[1]]
      /\ next' = [i \in Items |-> IF \E k \in 1..n-1 : a[k] = i
                                  THEN a[1 + CHOOSE k \in 1..n-1 : a[k] = i] ELSE next[i]]
      /\ prev' = [i \in Items |-> IF \E k \in 2..n : a[k] = i
                                  THEN a[(CHOOSE k \in 2..n : a[k] = i) - 1] ELSE prev[i]]
      /\ info' = [i \in Items |-> IF \E k \in 1..n : a[k] = i
                                  THEN [Blank EXCEPT !.text = text] ELSE info[i]]
      /\ blocks' = blocks + IF text THEN n ELSE 0
      /\ held' = held \cup {a[0]}
      /\ UNCHANGED lost

AddItemToArray ==
  \E array \in live, item \in held :
    /\ Adds(array, item)
    /\ AppendTo(array, item, child[item])
    /\ held' = held \ {item}
    /\ UNCHANGED <<live, info, blocks, lost>>

\* Mutant: a constant key is taken for an allocated one.
OldKeyConstant(item) == IF info[item].name # NULL THEN 1 ELSE 0

\* The key a named item gives back when it is renamed.
OldKey(item) == IF info[item].name # NULL /\ ~info[item].const THEN 1 ELSE 0

AddItemToObject ==
  \E object \in live, item \in held, name \in Names, constant \in BOOLEAN :
    /\ Adds(object, item)
    /\ AppendTo(object, item, child[item])
    /\ info' = [info EXCEPT ![item].name = name, ![item].const = constant]
    /\ blocks' = blocks - OldKey(item) + IF constant THEN 0 ELSE 1
    /\ held' = held \ {item}
    /\ UNCHANGED <<live, lost>>

\* The key cannot be copied: the item is in no object, and the caller is not told.
AddLost ==
  \E item \in held :
    /\ Names # {}
    /\ held' = held \ {item}
    /\ lost' = lost \cup {item}
    /\ UNCHANGED <<live, next, prev, child, info, blocks>>

\* The functions that create an item and add it under a name.
AddNewToObject ==
  \E object \in live, i \in Items \ live, name \in Names, text \in Texts :
    /\ ~info[object].ref
    /\ live' = live \cup {i}
    /\ AppendTo(object, i, NULL)
    /\ info' = [info EXCEPT ![i] = [Blank EXCEPT !.name = name, !.text = text]]
    /\ blocks' = blocks + 1 + IF text THEN 1 ELSE 0
    /\ UNCHANGED <<held, lost>>

\* AddItemReferenceToArray and ToObject: a copy of the item that owns neither
\* its children nor its string.  With no name it keeps the flag of a constant one.
AddReference ==
  \E array, item \in live, i \in Items \ live, name \in Maybe(Names) :
    /\ ~info[array].ref /\ MoreReferences
    /\ live' = live \cup {i}
    /\ AppendTo(array, i, child[item])
    /\ info' = [info EXCEPT ![i] = [info[item] EXCEPT !.name = name, !.ref = TRUE,
                                                      !.const = @ /\ name = NULL]]
    /\ blocks' = blocks + IF name = NULL THEN 0 ELSE 1
    /\ UNCHANGED <<held, lost>>

\* The reference is made, its name cannot be: nobody deletes the reference.
AddReferenceLost ==
  \E item \in live, i \in Items \ live :
    /\ MoreReferences
    /\ live' = live \cup {i}
    /\ child' = [child EXCEPT ![i] = child[item]]
    /\ info' = [info EXCEPT ![i] = [info[item] EXCEPT !.name = NULL, !.ref = TRUE]]
    /\ lost' = lost \cup {i}
    /\ UNCHANGED <<next, prev, blocks, held>>

\* The Detach functions, whether they are given the item or find it by its
\* index or name, and the Delete functions that go with them.
Detach ==
  \E parent \in live :
    /\ ~info[parent].ref
    /\ \E item \in Children(parent) :
         /\ Unlink(parent, item, {})
         /\ held' = held \cup {item}
    /\ UNCHANGED <<live, info, blocks, lost>>

DeleteItem ==
  \E parent \in live :
    /\ ~info[parent].ref
    /\ \E item \in Children(parent) : Unlink(parent, item, Tree(item)) /\ Free(Tree(item))
    /\ UNCHANGED <<held, lost>>

InsertAtItem(array, after, newitem) ==
  /\ Adds(array, newitem)
  /\ InsertBefore(array, after, newitem)
  /\ held' = held \ {newitem}
  /\ UNCHANGED <<live, info, blocks, lost>>

Insert ==
  \E array \in live, newitem \in held :
    \E after \in Children(array) : InsertAtItem(array, after, newitem)

Replace ==
  \E parent \in live, replacement \in held :
    /\ Adds(parent, replacement)
    /\ \E item \in Children(parent) :
         Substitute(parent, item, replacement, Tree(item)) /\ Free(Tree(item))
    /\ held' = held \ {replacement}
    /\ UNCHANGED lost

\* Mutant: an item that has a name keeps it.
RenamedOnce(item, name, of) ==
  [of EXCEPT ![item].name = IF @ = NULL THEN name ELSE @, ![item].const = FALSE]

\* replace_item_in_object renames the replacement first.  Without an item of
\* that name nothing else happens, and the caller is not told.
Renamed(item, name, of) == [of EXCEPT ![item].name = name, ![item].const = FALSE]

\* The key is the name, or NULL if it cannot be copied.
ReplaceNamed(object, name, case, key, replacement) ==
  /\ Adds(object, replacement)
  /\ case => Named(object)
  /\ \E item \in GetObjectItem(object, name, case) :
       LET freed == Tree(item)
       IN /\ Substitute(object, item, replacement, freed)
          /\ live' = live \ freed
          /\ blocks' = blocks - OldKey(replacement) + (IF key = NULL THEN 0 ELSE 1)
                              - BlocksOf(freed)
          /\ info' = Renamed(replacement, key,
                             [i \in Items |-> IF i \in freed THEN Blank ELSE info[i]])
  /\ held' = held \ {replacement}
  /\ UNCHANGED lost

ReplaceInObject ==
  \E object \in live, replacement \in held, name \in Names, case \in BOOLEAN :
    \E key \in {name, NULL} : ReplaceNamed(object, name, case, key, replacement)

ReplaceInObjectMissed ==
  \E object \in live, replacement \in held, name \in Names, case \in BOOLEAN :
    /\ Adds(object, replacement)
    /\ case => Named(object)
    /\ GetObjectItem(object, name, case) = {}
    /\ \E key \in {name, NULL} :
         /\ info' = Renamed(replacement, key, info)
         /\ blocks' = blocks - OldKey(replacement) + IF key = NULL THEN 0 ELSE 1
    /\ held' = held \ {replacement}
    /\ lost' = lost \cup {replacement}
    /\ UNCHANGED <<live, next, prev, child>>

Delete ==
  \E item \in held :
    LET freed == Freed(item)
        Kept(f) == [i \in Items |-> IF i \in freed THEN NULL ELSE f[i]]
    IN /\ Free(freed)
       /\ next' = Kept(next) /\ prev' = Kept(prev) /\ child' = Kept(child)
       /\ held' = held \ {item}
       /\ UNCHANGED lost

\* What cJSON_Duplicate visits: the item, and below it everything, through
\* references too.
Visited(item, recurse) ==
  { i \in live :
      \A S \in SUBSET live :
        (/\ item \in S
         /\ \A s \in S : /\ s # item => next[s] \in Maybe(S)
                         /\ s # item \/ recurse => child[s] \in Maybe(S)) => i \in S }

\* The client duplicates what is a tree and has all of its items.
Leads(i, j, item) == (i # item /\ next[i] = j) \/ child[i] = j
Whole(S, item) ==
  \A i \in S : /\ child[i] \in Maybe(S)
               /\ i # item => next[i] \in Maybe(S) /\ (next[i] # NULL => next[i] # child[i])
               /\ ~Leads(i, item, item)
               /\ \A j, k \in S : Leads(j, i, item) /\ Leads(k, i, item) => j = k

Duplicate ==
  \E item \in live, recurse \in BOOLEAN :
    LET S == Visited(item, recurse)
    IN /\ recurse => Whole(S, item)
       /\ \E copy \in Injection(S, Items \ live) :
            LET Of(i) == CHOOSE s \in S : copy[s] = i
                Copy(p) == IF p \in S THEN copy[p] ELSE NULL
                Before(i) == {s \in S \ {item} : next[s] = Of(i)}
            IN /\ live' = live \cup Range(copy)
               /\ next' = [i \in Items |-> IF i \notin Range(copy) THEN next[i]
                                           ELSE IF Of(i) = item THEN NULL ELSE Copy(next[Of(i)])]
               /\ prev' = [i \in Items |-> IF i \notin Range(copy) THEN prev[i]
                                           ELSE IF Before(i) = {} THEN NULL
                                           ELSE copy[CHOOSE s \in Before(i) : TRUE]]
               /\ child' = [i \in Items |-> IF i \notin Range(copy) THEN child[i]
                                            ELSE IF ~recurse THEN NULL ELSE Copy(child[Of(i)])]
               /\ info' = [i \in Items |-> IF i \in Range(copy)
                                           THEN [info[Of(i)] EXCEPT !.ref = FALSE] ELSE info[i]]
               /\ blocks' = blocks + Cardinality({s \in S : info[s].text})
                                   + Cardinality({s \in S : OldKey(s) = 1})
               /\ held' = held \cup {copy[item]}
               /\ UNCHANGED lost

Next == \/ Create \/ CreateArray \/ AddItemToArray \/ AddItemToObject \/ AddNewToObject
        \/ AddLost \/ AddReference \/ AddReferenceLost \/ Detach \/ DeleteItem \/ Insert
        \/ Replace \/ ReplaceInObject \/ ReplaceInObjectMissed \/ Delete \/ Duplicate

Spec == Init /\ [][Next]_vars

-----------------------------------------------------------------------------
(* Properties *)

TypeOK ==
  /\ live \in SUBSET Items
  /\ next \in [Items -> Maybe(Items)]
  /\ prev \in [Items -> Maybe(Items)]
  /\ child \in [Items -> Maybe(Items)]
  /\ info \in [Items -> Info]
  /\ blocks \in Nat
  /\ held \in SUBSET live
  /\ lost \in SUBSET live

\* Lists are linked both ways, begin with an item that has no prev, and no item
\* is the child of two parents; no pointer but one of a reference leads to freed
\* memory.
Linked ==
  /\ \A i, j \in live : next[i] = j <=> prev[j] = i
  /\ \A p \in live : ~info[p].ref /\ child[p] # NULL => prev[child[p]] = NULL
  /\ \A p, q \in live : ~info[p].ref /\ ~info[q].ref /\ child[p] = child[q] /\ child[p] # NULL => p = q
  /\ \A i \in live : /\ next[i] \in Maybe(live)
                     /\ prev[i] \in Maybe(live)
                     /\ ~info[i].ref => child[i] \in Maybe(live)

\* Every item is below exactly one item that the client holds or that is lost:
\* deleting what it holds frees everything but the lost, and nothing twice.
Divided ==
  /\ live = UNION { Freed(r) : r \in held \cup lost }
  /\ \A r, s \in held \cup lost : r # s => Freed(r) \cap Freed(s) = {}

\* With that, every string block belongs to one item.
OneOwner == Divided /\ blocks = BlocksOf(live)

\* After a replacement by name, that name leads to the replacement, and every
\* name that differs in more than case leads where it led before.
ReplacedIsFound ==
  [][\A object \in live, new \in held, name \in Names, case \in BOOLEAN :
       ReplaceNamed(object, name, case, name, new) =>
         /\ GetObjectItem(object, name, case)' = {new}
         /\ \A other \in Names : Fold[other] # Fold[name] =>
              GetObjectItem(object, other, FALSE)' = GetObjectItem(object, other, FALSE)]_vars

\* The items from a pointer on, as a sequence.
Sequence[i \in Maybe(Items)] == IF i = NULL THEN <<>> ELSE <<i>> \o Sequence[next[i]]

\* cJSON_InsertItemInArray shifts the item at its index and those behind it to
\* the right.
InsertShifts ==
  [][\A array \in live, new \in held : \A after \in Children(array) :
       InsertAtItem(array, after, new) =>
         LET before == Sequence[child[array]]
             at == CHOOSE k \in DOMAIN before : before[k] = after
         IN Sequence[child[array]]' = InsertAt(before, at, new)]_vars

\* With the sequences of children for the pointers, each call does to the forest
\* what cJSON.h says.
Abstract == INSTANCE JsonTree WITH
  kids <- [i \in live |-> IF info[i].ref THEN <<>> ELSE Sequence[child[i]]]

ImplementsTree == Abstract!Spec
=============================================================================
