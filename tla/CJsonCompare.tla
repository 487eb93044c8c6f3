---------------------------- MODULE CJsonCompare ----------------------------
(***************************************************************************)
(* cJSON_Compare, and the look-up of the members of an object by name.     *)
(***************************************************************************)
EXTENDS JsonText

ToLower(s) == [i \in DOMAIN s |-> IF s[i] \in Code["A"]..Code["Z"] THEN s[i] + 32 ELSE s[i]]

\* Without case, NULL is no name; strcmp must not be given it.
SameName(a, b, caseSensitive) ==
  IF caseSensitive THEN a = b ELSE a # NULL /\ b # NULL /\ ToLower(a) = ToLower(b)

\* get_object_item: the place of the first member of that name, 0 without an
\* object, a name or such a member.
PlaceOf(object, name, caseSensitive) ==
  IF NULL \in {object, name} THEN 0
  ELSE SelectInSeq(object.kids, LAMBDA kid : SameName(name, kid.name, caseSensitive))
GetObjectItem(object, name, caseSensitive) ==
  LET i == PlaceOf(object, name, caseSensitive) IN IF i = 0 THEN {} ELSE {object.kids[i]}

\* Numbers are equal as doubles: zero has no sign here.
SameDouble(c, d) == c = d \/ {c, d} = {Zero(1), Zero(-1)}

RECURSIVE Compare(_, _, _)

\* Mutant: the second object may have more members than the first.
SameMembersOneWay(a, b, caseSensitive) ==
  \A i \in DOMAIN a.kids : \E m \in GetObjectItem(b, a.kids[i].name, caseSensitive) :
    Compare(a.kids[i], m, caseSensitive)

\* Every member of each has one of its name in the other, and equals it.
SameMembers(a, b, caseSensitive) ==
  /\ \A i \in DOMAIN a.kids : \E m \in GetObjectItem(b, a.kids[i].name, caseSensitive) :
       Compare(a.kids[i], m, caseSensitive)
  /\ \A i \in DOMAIN b.kids : \E m \in GetObjectItem(a, b.kids[i].name, caseSensitive) :
       Compare(b.kids[i], m, caseSensitive)

\* Two items at different addresses: a text without bytes, NULL, equals none.
Compare(a, b, caseSensitive) ==
  /\ a # NULL /\ b # NULL
  /\ a.type = b.type
  /\ CASE a.type \in {"false", "true", "null"} -> TRUE
       [] a.type = "number"                    -> SameDouble(a.value, b.value)
       [] a.type \in {"string", "raw"}         -> NULL \notin {a.value, b.value} /\ a.value = b.value
       [] a.type = "array"                     ->
            /\ Len(a.kids) = Len(b.kids)
            /\ \A i \in DOMAIN a.kids : Compare(a.kids[i], b.kids[i], caseSensitive)
       [] a.type = "object"                    -> SameMembers(a, b, caseSensitive)
       [] OTHER                                -> FALSE
=============================================================================
