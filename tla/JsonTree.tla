------------------------------ MODULE JsonTree ------------------------------
(***************************************************************************)
(* What cJSON.h promises of arrays and objects: a forest of items, each    *)
(* with the sequence of its children, that a client builds, rearranges and *)
(* takes down.  CJson implements it with next, prev and child pointers.    *)
(***************************************************************************)
EXTENDS Integers, SequencesExt

CONSTANT Items

VARIABLES
  kids,  \* the children of every item there is, in order
  held   \* the items in no list, which are the client's to delete

Init == kids = <<>> /\ held = {}

Fresh == Items \ DOMAIN kids

\* The items at and below an item: the least set closed under children.
Subtree(i) ==
  { x \in DOMAIN kids :
      \A S \in SUBSET DOMAIN kids :
        (i \in S /\ \A s \in S : ToSet(kids[s]) \subseteq S) => x \in S }

\* The forest kept to some items, and with some items and their children added.
Keep(tree, S) == [x \in S |-> tree[x]]
With(tree, more) == [x \in DOMAIN tree \cup DOMAIN more |->
                       IF x \in DOMAIN more THEN more[x] ELSE tree[x]]

\* New items come as one tree, which the client holds.
New ==
  LET made == DOMAIN kids' \ DOMAIN kids
  IN \E root \in made : /\ kids' = With(kids, Keep(kids', made))
                        /\ made = Subtree(root)'
                        /\ held' = held \cup {root}

\* A held item, or a new one, becomes the k-th child.
Put(p, k, i) ==
  /\ kids' = [With(kids, [x \in {i} \ DOMAIN kids |-> <<>>]) EXCEPT ![p] = InsertAt(@, k, i)]
  /\ held' = held \ {i}

Detach(p, k) ==
  /\ kids' = [kids EXCEPT ![p] = RemoveAt(@, k)]
  /\ held' = held \cup {kids[p][k]}

DeleteItem(p, k) ==
  LET gone == Subtree(kids[p][k])
  IN /\ kids' = Keep([kids EXCEPT ![p] = RemoveAt(@, k)], DOMAIN kids \ gone)
     /\ UNCHANGED held

Replace(p, k, i) ==
  LET gone == Subtree(kids[p][k])
  IN /\ kids' = Keep([kids EXCEPT ![p] = ReplaceAt(@, k, i)], DOMAIN kids \ gone)
     /\ held' = held \ {i}

Delete(i) ==
  /\ kids' = Keep(kids, DOMAIN kids \ Subtree(i))
  /\ held' = held \ {i}

\* A held item is given away to an operation that does nothing with it, or one
\* is made and never handed out.
Lose == \/ \E i \in held : held' = held \ {i} /\ UNCHANGED kids
        \/ \E i \in Fresh : kids' = With(kids, [x \in {i} |-> <<>>]) /\ UNCHANGED held

Next ==
  \/ New
  \/ \E p \in DOMAIN kids :
       \/ \E k \in 1..Len(kids[p])+1, i \in held \cup Fresh : Put(p, k, i)
       \/ \E k \in 1..Len(kids[p]) : \/ Detach(p, k)
                                     \/ DeleteItem(p, k)
                                     \/ \E i \in held : Replace(p, k, i)
  \/ \E i \in held : Delete(i)
  \/ Lose

Spec == Init /\ [][Next]_<<kids, held>>
=============================================================================
