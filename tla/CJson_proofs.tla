----------------------------- MODULE CJson_proofs -----------------------------
(***************************************************************************)
(* Proofs, for any set of items, that the pointers of cJSON.c stay linked, *)
(* and that every item is below exactly one that the client holds or that  *)
(* is lost.  The lemmas of the first part are about pointers as values: a  *)
(* root is put into a list, an item is taken out of one, a root is freed   *)
(* with all below it, and two forests are taken together.  An operation of *)
(* cJSON.c is one of these steps, or a few of them.                        *)
(***************************************************************************)
EXTENDS CJson, WellFoundedInduction, TLAPS

USE NullAssumption

-----------------------------------------------------------------------------
(* Forests *)

\* The items in L are linked by nx, pv and oc, the child pointers they own.
Pointers(L, nx, pv, oc) ==
  /\ L \subseteq Items
  /\ nx \in [Items -> Maybe(Items)]
  /\ pv \in [Items -> Maybe(Items)]
  /\ oc \in [Items -> Maybe(Items)]
  /\ \A i \in Items \ L : nx[i] = NULL /\ pv[i] = NULL /\ oc[i] = NULL
  /\ \A i \in L : nx[i] \in Maybe(L) /\ pv[i] \in Maybe(L) /\ oc[i] \in Maybe(L)
  /\ \A i, j \in L : nx[i] = j <=> pv[j] = i
  /\ \A p \in L : oc[p] # NULL => pv[oc[p]] = NULL
  /\ \A p, q \in L : oc[p] = oc[q] /\ oc[p] # NULL => p = q

\* No pointer leads to a root.
AreRoots(R, L, nx, pv, oc) ==
  \A r \in R : nx[r] = NULL /\ pv[r] = NULL /\ \A p \in L : oc[p] # r

\* Every other item has a predecessor, and there are no cycles: in any set of
\* items one has no predecessor in the set.
Rooted(L, pv, oc, R) == \A i \in L \ R : pv[i] # NULL \/ \E p \in L : oc[p] = i
Grounded(L, pv, oc) ==
  \A S \in SUBSET L : S # {} => \E s \in S : pv[s] \notin S /\ \A p \in S : oc[p] # s

Forest(L, nx, pv, oc, R) ==
  /\ R \subseteq L
  /\ Pointers(L, nx, pv, oc)
  /\ AreRoots(R, L, nx, pv, oc)
  /\ Rooted(L, pv, oc, R)
  /\ Grounded(L, pv, oc)

\* T is r and what is below it: it is closed under the pointers, but for those
\* to the siblings of r, and one of them leads to each of its items but r.
Subtree(T, r, nx, oc) ==
  /\ r \in T
  /\ \A x \in T : oc[x] \in Maybe(T) /\ (x # r => nx[x] \in Maybe(T))
  /\ \A y \in T \ {r} : (\E x \in T \ {r} : nx[x] = y) \/ (\E p \in T : oc[p] = y)

\* A root is put between p and n below a, which is not below the root.
LEMMA Attach ==
  ASSUME NEW L, NEW nx, NEW pv, NEW oc, NEW R, Forest(L, nx, pv, oc, R),
         NEW r \in R, NEW a \in L, NEW p \in Maybe(L), NEW n \in Maybe(L),
         p # NULL => nx[p] = n,
         n # NULL => pv[n] = p,
         p = NULL => oc[a] = n,
         p \notin R, n \notin R,
         NEW T \in SUBSET L, Subtree(T, r, nx, oc), a \notin T, p \notin T
  PROVE  Forest(L,
                [x \in Items |-> IF x = r THEN n ELSE IF x = p THEN r ELSE nx[x]],
                [x \in Items |-> IF x = r THEN p ELSE IF x = n THEN r ELSE pv[x]],
                [x \in Items |-> IF x = a /\ p = NULL THEN r ELSE oc[x]],
                R \ {r})
<1> DEFINE nx2 == [x \in Items |-> IF x = r THEN n ELSE IF x = p THEN r ELSE nx[x]]
           pv2 == [x \in Items |-> IF x = r THEN p ELSE IF x = n THEN r ELSE pv[x]]
           oc2 == [x \in Items |-> IF x = a /\ p = NULL THEN r ELSE oc[x]]
<1>1. /\ L \subseteq Items /\ NULL \notin Items /\ r \in L /\ r # NULL /\ a # r /\ p # r
      /\ nx[r] = NULL /\ pv[r] = NULL /\ \A q \in L : oc[q] # r /\ nx[q] # r
      /\ n # r
  BY DEF Forest, Pointers, AreRoots, Maybe, Subtree
<1>2. /\ \A x \in L : nx2[x] = IF x = r THEN n ELSE IF x = p THEN r ELSE nx[x]
      /\ \A x \in L : pv2[x] = IF x = r THEN p ELSE IF x = n THEN r ELSE pv[x]
      /\ \A x \in L : oc2[x] = IF x = a /\ p = NULL THEN r ELSE oc[x]
      /\ nx2 \in [Items -> Maybe(Items)]
      /\ pv2 \in [Items -> Maybe(Items)]
      /\ oc2 \in [Items -> Maybe(Items)]
      /\ \A x \in Items \ L : nx2[x] = NULL /\ pv2[x] = NULL /\ oc2[x] = NULL
  BY <1>1 DEF Forest, Pointers, Maybe
<1> HIDE DEF nx2, pv2, oc2
<1>3. \A i \in L : nx2[i] \in Maybe(L) /\ pv2[i] \in Maybe(L) /\ oc2[i] \in Maybe(L)
  BY <1>1, <1>2 DEF Forest, Pointers, Maybe
<1>4. \A i, j \in L : nx2[i] = j <=> pv2[j] = i
  BY <1>1, <1>2 DEF Forest, Pointers, Maybe
<1>5. \A q \in L : oc2[q] # NULL => pv2[oc2[q]] = NULL
  BY <1>1, <1>2 DEF Forest, Pointers, Maybe
<1>6. \A q, s \in L : oc2[q] = oc2[s] /\ oc2[q] # NULL => q = s
  BY <1>1, <1>2 DEF Forest, Pointers, Maybe
<1>7. Pointers(L, nx2, pv2, oc2)
  BY <1>1, <1>2, <1>3, <1>4, <1>5, <1>6 DEF Pointers
<1>8. AreRoots(R \ {r}, L, nx2, pv2, oc2)
  <2> SUFFICES ASSUME NEW q \in R, q # r
               PROVE  nx2[q] = NULL /\ pv2[q] = NULL /\ \A s \in L : oc2[s] # q
    BY DEF AreRoots
  <2>1. q \in L /\ q # p /\ q # n
    BY DEF Forest
  <2>2. nx[q] = NULL /\ pv[q] = NULL /\ \A s \in L : oc[s] # q
    BY DEF Forest, AreRoots
  <2>3. QED
    BY <2>1, <2>2, <1>2
<1>9. Rooted(L, pv2, oc2, R \ {r})
  <2> SUFFICES ASSUME NEW i \in L, i \notin R \/ i = r
               PROVE  pv2[i] # NULL \/ \E q \in L : oc2[q] = i
    BY DEF Rooted
  <2>1. CASE i = r
    BY <2>1, <1>1, <1>2
  <2>2. CASE i = n /\ i # r
    BY <2>2, <1>1, <1>2
  <2>3. CASE i # n /\ i # r
    BY <2>3, <1>1, <1>2 DEF Forest, Rooted
  <2>4. QED
    BY <2>1, <2>2, <2>3
<1>10. Grounded(L, pv2, oc2)
  <2> SUFFICES ASSUME NEW S \in SUBSET L, S # {}
               PROVE  \E s \in S : pv2[s] \notin S /\ \A q \in S : oc2[q] # s
    BY DEF Grounded
  <2>1. CASE r \notin S
    <3>1. PICK s \in S : pv[s] \notin S /\ \A q \in S : oc[q] # s
      BY DEF Forest, Grounded
    <3>2. QED
      BY <2>1, <3>1, <1>1, <1>2
  <2>2. CASE r \in S /\ S \subseteq T
    BY <2>2, <1>1, <1>2
  <2>3. CASE r \in S /\ S \ T # {}
    <3>1. PICK s \in S \ T : pv[s] \notin S \ T /\ \A q \in S \ T : oc[q] # s
      BY <2>3 DEF Forest, Grounded
    <3>2. /\ pv[s] \notin T
          /\ \A q \in T : oc[q] # s
      BY <3>1, <1>1 DEF Forest, Pointers, Subtree, Maybe
    <3>3. /\ pv[s] \notin S /\ (\A q \in S : oc[q] # s) /\ s \in L /\ s # r
      BY <3>1, <3>2 DEF Subtree
    <3>4. CASE s # n
      BY <3>3, <3>4, <1>1, <1>2
    <3>5. CASE s = n
      BY <2>3, <3>3, <3>5, <1>1, <1>2
    <3>6. QED
      BY <3>4, <3>5
  <2>4. QED
    BY <2>1, <2>2, <2>3
<1>11. Forest(L, nx2, pv2, oc2, R \ {r})
  BY <1>7, <1>8, <1>9, <1>10 DEF Forest
<1>12. QED
  BY <1>11 DEF nx2, pv2, oc2

\* An item is taken out of the list of a.
LEMMA TakeOut ==
  ASSUME NEW L, NEW nx, NEW pv, NEW oc, NEW R, Forest(L, nx, pv, oc, R),
         NEW item \in L, NEW a \in L, item \notin R,
         pv[item] = NULL => oc[a] = item
  PROVE  Forest(L,
                [x \in Items |-> IF x = item THEN NULL
                                 ELSE IF x = pv[item] THEN nx[item] ELSE nx[x]],
                [x \in Items |-> IF x = item THEN NULL
                                 ELSE IF x = nx[item] THEN pv[item] ELSE pv[x]],
                [x \in Items |-> IF x = a /\ oc[x] = item THEN nx[item] ELSE oc[x]],
                R \cup {item})
<1> DEFINE p == pv[item]
           n == nx[item]
           nx2 == [x \in Items |-> IF x = item THEN NULL ELSE IF x = p THEN n ELSE nx[x]]
           pv2 == [x \in Items |-> IF x = item THEN NULL ELSE IF x = n THEN p ELSE pv[x]]
           oc2 == [x \in Items |-> IF x = a /\ oc[x] = item THEN n ELSE oc[x]]
<1>1. /\ L \subseteq Items /\ NULL \notin Items /\ R \subseteq L
      /\ p \in Maybe(L) /\ n \in Maybe(L)
      /\ p # NULL => nx[p] = item
      /\ n # NULL => pv[n] = item
      /\ oc[a] = item => p = NULL
      /\ \A q \in L : oc[q] = item => q = a
      /\ p = NULL => oc[a] = item
  BY DEF Forest, Pointers, Maybe
<1>2. p # item /\ n # item
  <2>1. PICK s \in {item} : pv[s] \notin {item}
    BY DEF Forest, Grounded
  <2>2. QED
    BY <1>1, <2>1 DEF Maybe
<1>3. /\ \A x \in L : nx2[x] = IF x = item THEN NULL ELSE IF x = p THEN n ELSE nx[x]
      /\ \A x \in L : pv2[x] = IF x = item THEN NULL ELSE IF x = n THEN p ELSE pv[x]
      /\ \A x \in L : oc2[x] = IF x = a /\ oc[x] = item THEN n ELSE oc[x]
      /\ nx2 \in [Items -> Maybe(Items)]
      /\ pv2 \in [Items -> Maybe(Items)]
      /\ oc2 \in [Items -> Maybe(Items)]
      /\ \A x \in Items \ L : nx2[x] = NULL /\ pv2[x] = NULL /\ oc2[x] = NULL
  BY <1>1 DEF Forest, Pointers, Maybe
<1>4. Pointers(L, nx, pv, oc) /\ AreRoots(R, L, nx, pv, oc) /\ Rooted(L, pv, oc, R)
      /\ Grounded(L, pv, oc)
  BY DEF Forest
<1> HIDE DEF nx2, pv2, oc2, p, n
<1>5. \A i \in L : nx2[i] \in Maybe(L) /\ pv2[i] \in Maybe(L) /\ oc2[i] \in Maybe(L)
  BY <1>1, <1>3, <1>4 DEF Pointers, Maybe
<1>6. \A i, j \in L : nx2[i] = j <=> pv2[j] = i
  BY <1>1, <1>2, <1>3, <1>4 DEF Pointers, Maybe, p, n
<1>7. \A q \in L : oc2[q] # NULL => pv2[oc2[q]] = NULL
  BY <1>1, <1>2, <1>3, <1>4 DEF Pointers, Maybe
<1>8. \A q, s \in L : oc2[q] = oc2[s] /\ oc2[q] # NULL => q = s
  BY <1>1, <1>2, <1>3, <1>4 DEF Pointers, Maybe
<1>9. Pointers(L, nx2, pv2, oc2)
  BY <1>1, <1>3, <1>5, <1>6, <1>7, <1>8 DEF Pointers
<1>10. AreRoots(R \cup {item}, L, nx2, pv2, oc2)
  <2>1. nx2[item] = NULL /\ pv2[item] = NULL /\ \A s \in L : oc2[s] # item
    BY <1>1, <1>2, <1>3
  <2>2. ASSUME NEW q \in R
        PROVE  nx2[q] = NULL /\ pv2[q] = NULL /\ \A s \in L : oc2[s] # q
    <3>1. nx[q] = NULL /\ pv[q] = NULL /\ (\A s \in L : oc[s] # q) /\ q \in L /\ q # item /\ q # NULL
      BY <1>1, <1>4 DEF AreRoots
    <3>2. q # n /\ q # p
      BY <3>1, <1>1
    <3>3. QED
      BY <3>1, <3>2, <1>3
  <2>3. QED
    BY <2>1, <2>2 DEF AreRoots
<1>11. Rooted(L, pv2, oc2, R \cup {item})
  <2> SUFFICES ASSUME NEW i \in L, i \notin R, i # item
               PROVE  pv2[i] # NULL \/ \E q \in L : oc2[q] = i
    BY DEF Rooted
  <2>1. CASE i = n
    BY <2>1, <1>1, <1>3
  <2>2. CASE i # n
    BY <2>2, <1>1, <1>3, <1>4 DEF Rooted
  <2>3. QED
    BY <2>1, <2>2
<1>12. Grounded(L, pv2, oc2)
  <2> SUFFICES ASSUME NEW S \in SUBSET L, S # {}
               PROVE  \E s \in S : pv2[s] \notin S /\ \A q \in S : oc2[q] # s
    BY DEF Grounded
  <2>1. NULL \notin S
    BY <1>1
  <2>2. CASE item \in S \/ n \notin S
    <3>1. PICK s \in S : pv[s] \notin S /\ \A q \in S : oc[q] # s
      BY <1>4 DEF Grounded
    <3>2. s # n
      BY <2>2, <3>1, <1>1
    <3>3. CASE s = item
      BY <3>3, <2>1, <1>1, <1>2, <1>3
    <3>4. CASE s # item
      BY <3>1, <3>2, <3>4, <1>1, <1>3
    <3>5. QED
      BY <3>3, <3>4
  <2>3. CASE item \notin S /\ n \in S
    <3>1. PICK s \in S \cup {item} : /\ pv[s] \notin S \cup {item}
                                     /\ \A q \in S \cup {item} : oc[q] # s
      BY <1>4 DEF Grounded
    <3>2. CASE s = item
      <4>1. p \notin S /\ oc[a] = item => a \notin S
        BY <3>1, <3>2, <1>1 DEF p
      <4>2. pv2[n] = p
        BY <2>3, <1>3
      <4>3. \A q \in S : oc[q] # n
        BY <2>3, <1>1, <1>4 DEF Pointers
      <4>4. \A q \in S : oc2[q] # n
        BY <4>1, <4>3, <1>3, <3>1, <3>2
      <4>5. p \notin S
        BY <3>1, <3>2 DEF p
      <4>6. QED
        BY <2>3, <4>2, <4>4, <4>5
    <3>3. CASE s # item
      <4>1. s \in S /\ s # n
        BY <3>1, <3>3, <2>3, <1>1
      <4>2. QED
        BY <4>1, <3>1, <3>3, <1>3
    <3>4. QED
      BY <3>2, <3>3
  <2>4. QED
    BY <2>2, <2>3
<1>13. R \cup {item} \subseteq L
  BY <1>1
<1>14. Forest(L, nx2, pv2, oc2, R \cup {item})
  BY <1>9, <1>10, <1>11, <1>12, <1>13 DEF Forest
<1>15. QED
  BY <1>14 DEF nx2, pv2, oc2, p, n

\* No pointer from the items below r leads to r, and none from outside below r.
LEMMA Outside ==
  ASSUME NEW L, NEW nx, NEW pv, NEW oc, NEW R, Forest(L, nx, pv, oc, R),
         NEW r \in L, NEW T \in SUBSET L, Subtree(T, r, nx, oc)
  PROVE  /\ pv[r] \notin T /\ nx[r] \notin T
         /\ \A x \in T : oc[x] # r /\ nx[x] # r
         /\ \A x \in L \ T : (nx[x] \in T => nx[x] = r) /\ (oc[x] \in T => oc[x] = r)
<1>1. /\ L \subseteq Items /\ NULL \notin Items /\ NULL \notin T
      /\ Pointers(L, nx, pv, oc) /\ Grounded(L, pv, oc)
  BY DEF Forest, Pointers
<1>2. PICK s \in T : pv[s] \notin T /\ \A p \in T : oc[p] # s
  BY <1>1 DEF Grounded, Subtree
<1>3. s = r
  BY <1>1, <1>2 DEF Subtree, Pointers
<1>4. \A x \in T : nx[x] # r
  BY <1>1, <1>2, <1>3 DEF Pointers
<1>5. nx[r] \notin T
  <2> SUFFICES ASSUME nx[r] \in T PROVE FALSE
    OBVIOUS
  <2>1. nx[r] \in T \ {r} /\ pv[nx[r]] = r
    BY <1>1, <1>4 DEF Pointers
  <2>2. CASE \E x \in T \ {r} : nx[x] = nx[r]
    BY <2>1, <2>2, <1>1 DEF Pointers
  <2>3. CASE \E p \in T : oc[p] = nx[r]
    BY <2>1, <2>3, <1>1 DEF Pointers
  <2>4. QED
    BY <2>1, <2>2, <2>3 DEF Subtree
<1>6. \A x \in L \ T : (nx[x] \in T => nx[x] = r) /\ (oc[x] \in T => oc[x] = r)
  BY <1>1 DEF Subtree, Pointers
<1>7. QED
  BY <1>2, <1>3, <1>4, <1>5, <1>6

\* A root is freed with all that is below it.
LEMMA FreeRoot ==
  ASSUME NEW L, NEW nx, NEW pv, NEW oc, NEW R, Forest(L, nx, pv, oc, R),
         NEW r \in R, NEW T \in SUBSET L, Subtree(T, r, nx, oc)
  PROVE  Forest(L \ T,
                [x \in Items |-> IF x \in T THEN NULL ELSE nx[x]],
                [x \in Items |-> IF x \in T THEN NULL ELSE pv[x]],
                [x \in Items |-> IF x \in T THEN NULL ELSE oc[x]],
                R \ {r})
<1> DEFINE M == L \ T
           nx2 == [x \in Items |-> IF x \in T THEN NULL ELSE nx[x]]
           pv2 == [x \in Items |-> IF x \in T THEN NULL ELSE pv[x]]
           oc2 == [x \in Items |-> IF x \in T THEN NULL ELSE oc[x]]
<1>1. /\ L \subseteq Items /\ NULL \notin Items /\ R \subseteq L /\ r \in L
      /\ Pointers(L, nx, pv, oc) /\ AreRoots(R, L, nx, pv, oc) /\ Rooted(L, pv, oc, R)
      /\ Grounded(L, pv, oc)
      /\ nx[r] = NULL /\ pv[r] = NULL /\ \A x \in L : nx[x] # r /\ oc[x] # r
  BY DEF Forest, Pointers, AreRoots
<1>2. /\ \A x \in L \ T : nx[x] \notin T /\ oc[x] \notin T
      /\ \A x \in T : nx[x] \in Maybe(T) /\ oc[x] \in Maybe(T)
  BY <1>1, Outside DEF Subtree, Maybe
<1>3. \A x \in L \ T : pv[x] \notin T
  BY <1>1, <1>2 DEF Pointers, Maybe
<1>4. /\ M \subseteq Items /\ \A x \in M : x \in L /\ x \notin T
      /\ \A x \in M : nx2[x] = nx[x] /\ pv2[x] = pv[x] /\ oc2[x] = oc[x]
      /\ nx2 \in [Items -> Maybe(Items)]
      /\ pv2 \in [Items -> Maybe(Items)]
      /\ oc2 \in [Items -> Maybe(Items)]
      /\ \A x \in Items \ M : nx2[x] = NULL /\ pv2[x] = NULL /\ oc2[x] = NULL
  BY <1>1 DEF Pointers, Maybe
<1>5. \A i \in L : i \in M \/ i \in T
  OBVIOUS
<1> HIDE DEF M, nx2, pv2, oc2
<1>6. \A x \in M : nx2[x] \in Maybe(M) /\ pv2[x] \in Maybe(M) /\ oc2[x] \in Maybe(M)
  BY <1>1, <1>2, <1>3, <1>4, <1>5 DEF Pointers, Maybe, M
<1>7. \A i, j \in M : nx2[i] = j <=> pv2[j] = i
  BY <1>1, <1>4 DEF Pointers
<1>8. \A p \in M : oc2[p] # NULL => pv2[oc2[p]] = NULL
  BY <1>1, <1>4, <1>6 DEF Pointers, Maybe
<1>9. \A p, q \in M : oc2[p] = oc2[q] /\ oc2[p] # NULL => p = q
  BY <1>1, <1>4 DEF Pointers
<1>10. Pointers(M, nx2, pv2, oc2)
  BY <1>4, <1>6, <1>7, <1>8, <1>9 DEF Pointers
<1>11. R \ {r} \subseteq M
  <2> SUFFICES ASSUME NEW q \in R, q # r, q \in T PROVE FALSE
    BY <1>1, <1>5
  <2>1. (\E x \in T : nx[x] = q) \/ (\E x \in T : oc[x] = q)
    BY DEF Subtree
  <2>2. pv[q] = NULL /\ q \in L /\ \A x \in L : oc[x] # q
    BY <1>1 DEF AreRoots
  <2>3. QED
    BY <2>1, <2>2, <1>1 DEF Pointers
<1>12. AreRoots(R \ {r}, M, nx2, pv2, oc2)
  BY <1>1, <1>4, <1>11 DEF AreRoots
<1>13. Rooted(M, pv2, oc2, R \ {r})
  <2> SUFFICES ASSUME NEW i \in M, i \notin R \/ i = r
               PROVE  pv2[i] # NULL \/ \E p \in M : oc2[p] = i
    BY DEF Rooted
  <2>1. i \in L /\ i \notin T /\ i \notin R /\ i # NULL
    BY <1>1, <1>4 DEF Subtree
  <2>2. CASE pv[i] # NULL
    BY <2>2, <1>4
  <2>3. CASE \E p \in L : oc[p] = i
    <3>1. PICK p \in L : oc[p] = i
      BY <2>3
    <3>2. p \in M
      BY <3>1, <2>1, <1>2, <1>5 DEF Maybe
    <3>3. QED
      BY <3>1, <3>2, <1>4
  <2>4. QED
    BY <2>1, <2>2, <2>3, <1>1 DEF Rooted
<1>14. Grounded(M, pv2, oc2)
  <2> SUFFICES ASSUME NEW S \in SUBSET M, S # {}
               PROVE  \E s \in S : pv2[s] \notin S /\ \A q \in S : oc2[q] # s
    BY DEF Grounded
  <2>1. S \in SUBSET L
    BY <1>4
  <2>2. PICK s \in S : pv[s] \notin S /\ \A q \in S : oc[q] # s
    BY <2>1, <1>1 DEF Grounded
  <2>3. QED
    BY <2>2, <1>4
<1>15. Forest(M, nx2, pv2, oc2, R \ {r})
  BY <1>10, <1>11, <1>12, <1>13, <1>14 DEF Forest
<1>16. QED
  BY <1>15 DEF M, nx2, pv2, oc2

\* Two forests with no item in common are one.
LEMMA Unite ==
  ASSUME NEW L, NEW nx, NEW pv, NEW oc, NEW R, Forest(L, nx, pv, oc, R),
         NEW M, NEW nx1, NEW pv1, NEW oc1, NEW Q, Forest(M, nx1, pv1, oc1, Q),
         L \cap M = {}
  PROVE  Forest(L \cup M,
                [x \in Items |-> IF x \in M THEN nx1[x] ELSE nx[x]],
                [x \in Items |-> IF x \in M THEN pv1[x] ELSE pv[x]],
                [x \in Items |-> IF x \in M THEN oc1[x] ELSE oc[x]],
                R \cup Q)
<1> DEFINE B == L \cup M
           nx2 == [x \in Items |-> IF x \in M THEN nx1[x] ELSE nx[x]]
           pv2 == [x \in Items |-> IF x \in M THEN pv1[x] ELSE pv[x]]
           oc2 == [x \in Items |-> IF x \in M THEN oc1[x] ELSE oc[x]]
<1>1. /\ L \subseteq Items /\ M \subseteq Items /\ NULL \notin Items
      /\ R \subseteq L /\ Q \subseteq M
      /\ Pointers(L, nx, pv, oc) /\ AreRoots(R, L, nx, pv, oc) /\ Rooted(L, pv, oc, R)
      /\ Grounded(L, pv, oc)
      /\ Pointers(M, nx1, pv1, oc1) /\ AreRoots(Q, M, nx1, pv1, oc1) /\ Rooted(M, pv1, oc1, Q)
      /\ Grounded(M, pv1, oc1)
  BY DEF Forest, Pointers
<1>2. /\ B \subseteq Items /\ \A x \in B : x \in L \/ x \in M
      /\ \A x \in L : x \in B /\ x \notin M /\ nx2[x] = nx[x] /\ pv2[x] = pv[x] /\ oc2[x] = oc[x]
      /\ \A x \in M : x \in B /\ x \notin L /\ nx2[x] = nx1[x] /\ pv2[x] = pv1[x] /\ oc2[x] = oc1[x]
      /\ nx2 \in [Items -> Maybe(Items)]
      /\ pv2 \in [Items -> Maybe(Items)]
      /\ oc2 \in [Items -> Maybe(Items)]
      /\ \A x \in Items \ B : nx2[x] = NULL /\ pv2[x] = NULL /\ oc2[x] = NULL
  BY <1>1 DEF Pointers, Maybe
<1> HIDE DEF B, nx2, pv2, oc2
<1>3. /\ \A x \in L : nx2[x] \in Maybe(L) /\ pv2[x] \in Maybe(L) /\ oc2[x] \in Maybe(L)
      /\ \A x \in M : nx2[x] \in Maybe(M) /\ pv2[x] \in Maybe(M) /\ oc2[x] \in Maybe(M)
  BY <1>1, <1>2 DEF Pointers
<1>4. \A x \in B : nx2[x] \in Maybe(B) /\ pv2[x] \in Maybe(B) /\ oc2[x] \in Maybe(B)
  BY <1>2, <1>3 DEF Maybe
<1>5. \A i, j \in B : nx2[i] = j <=> pv2[j] = i
  BY <1>1, <1>2, <1>3 DEF Pointers, Maybe
<1>6. \A p \in B : oc2[p] # NULL => pv2[oc2[p]] = NULL
  BY <1>1, <1>2, <1>3 DEF Pointers, Maybe
<1>7. \A p, q \in B : oc2[p] = oc2[q] /\ oc2[p] # NULL => p = q
  BY <1>1, <1>2, <1>3 DEF Pointers, Maybe
<1>8. Pointers(B, nx2, pv2, oc2)
  BY <1>2, <1>4, <1>5, <1>6, <1>7 DEF Pointers
<1>9. AreRoots(R \cup Q, B, nx2, pv2, oc2)
  BY <1>1, <1>2, <1>3 DEF AreRoots, Maybe
<1>10. Rooted(B, pv2, oc2, R \cup Q)
  BY <1>1, <1>2 DEF Rooted
<1>11. Grounded(B, pv2, oc2)
  <2> SUFFICES ASSUME NEW S \in SUBSET B, S # {}
               PROVE  \E s \in S : pv2[s] \notin S /\ \A q \in S : oc2[q] # s
    BY DEF Grounded
  <2>1. CASE S \cap L # {}
    <3>1. PICK s \in S \cap L : pv[s] \notin S \cap L /\ \A q \in S \cap L : oc[q] # s
      BY <2>1, <1>1 DEF Grounded
    <3>2. QED
      BY <3>1, <1>1, <1>2, <1>3 DEF Maybe
  <2>2. CASE S \cap L = {}
    <3>1. S \in SUBSET M
      BY <2>2, <1>2
    <3>2. PICK s \in S : pv1[s] \notin S /\ \A q \in S : oc1[q] # s
      BY <3>1, <1>1 DEF Grounded
    <3>3. QED
      BY <3>1, <3>2, <1>2
  <2>3. QED
    BY <2>1, <2>2
<1>12. Forest(B, nx2, pv2, oc2, R \cup Q)
  BY <1>1, <1>2, <1>8, <1>9, <1>10, <1>11 DEF Forest
<1>13. QED
  BY <1>12 DEF B, nx2, pv2, oc2

\* An item that was not there is one more root.
LEMMA NewRoot ==
  ASSUME NEW L, NEW nx, NEW pv, NEW oc, NEW R, Forest(L, nx, pv, oc, R),
         NEW i \in Items \ L
  PROVE  Forest(L \cup {i}, nx, pv, oc, R \cup {i})
<1> DEFINE B == L \cup {i}
<1>1. /\ L \subseteq Items /\ i \in Items /\ i \notin L /\ NULL \notin Items /\ R \subseteq L
      /\ Pointers(L, nx, pv, oc) /\ AreRoots(R, L, nx, pv, oc) /\ Rooted(L, pv, oc, R)
      /\ Grounded(L, pv, oc)
      /\ nx[i] = NULL /\ pv[i] = NULL /\ oc[i] = NULL
  BY DEF Forest, Pointers
<1>2. /\ B \subseteq Items /\ i \in B /\ L \subseteq B
      /\ \A x \in B : x # i => x \in L
      /\ \A x \in Items \ B : x \in Items \ L
  BY <1>1
<1> HIDE DEF B
<1>3. Pointers(B, nx, pv, oc)
  <2>1. \A x \in B : nx[x] \in Maybe(B) /\ pv[x] \in Maybe(B) /\ oc[x] \in Maybe(B)
    BY <1>1, <1>2 DEF Pointers, Maybe
  <2>2. \A x \in L : nx[x] # i /\ pv[x] # i /\ oc[x] # i
    BY <1>1 DEF Pointers, Maybe
  <2>3. \A x, y \in B : nx[x] = y <=> pv[y] = x
    BY <2>2, <1>1, <1>2 DEF Pointers
  <2>4. \A p \in B : oc[p] # NULL => pv[oc[p]] = NULL
    BY <1>1, <1>2 DEF Pointers
  <2>5. \A p, q \in B : oc[p] = oc[q] /\ oc[p] # NULL => p = q
    BY <1>1, <1>2 DEF Pointers
  <2>6. QED
    BY <2>1, <2>3, <2>4, <2>5, <1>1, <1>2 DEF Pointers
<1>4. AreRoots(R \cup {i}, B, nx, pv, oc)
  BY <1>1, <1>2 DEF AreRoots, Pointers, Maybe
<1>5. Rooted(B, pv, oc, R \cup {i})
  BY <1>1, <1>2 DEF Rooted
<1>6. Grounded(B, pv, oc)
  <2> SUFFICES ASSUME NEW S \in SUBSET B, S # {}
               PROVE  \E s \in S : pv[s] \notin S /\ \A q \in S : oc[q] # s
    BY DEF Grounded
  <2>1. NULL \notin S
    BY <1>1, <1>2
  <2>2. CASE S \subseteq {i}
    BY <2>1, <2>2, <1>1
  <2>3. CASE ~(S \subseteq {i})
    <3>1. S \cap L # {}
      BY <2>3, <1>2
    <3>2. PICK s \in S \cap L : pv[s] \notin S \cap L /\ \A q \in S \cap L : oc[q] # s
      BY <3>1, <1>1 DEF Grounded
    <3>3. pv[s] \notin S
      BY <3>2, <2>1, <1>1, <1>2 DEF Pointers, Maybe
    <3>4. \A q \in S : oc[q] # s
      BY <3>2, <1>1, <1>2
    <3>5. QED
      BY <3>2, <3>3, <3>4
  <2>4. QED
    BY <2>2, <2>3
<1>7. Forest(B, nx, pv, oc, R \cup {i})
  BY <1>1, <1>2, <1>3, <1>4, <1>5, <1>6 DEF Forest
<1>8. QED
  BY <1>7 DEF B

\* Of some numbers one is the least.
LEMMA LeastOf ==
  ASSUME NEW S, S \subseteq Nat, S # {}
  PROVE  \E x \in S : \A y \in S : x <= y
<1>1. \E x \in S : \A y \in S : ~(<<y, x>> \in OpToRel(<, Nat))
  BY WFMin, NatLessThanWellFounded
<1>2. PICK x \in S : \A y \in S : ~(<<y, x>> \in OpToRel(<, Nat))
  BY <1>1
<1>3. ASSUME NEW y \in S PROVE x <= y
  <2>1. ~(y < x)
    BY <1>2 DEF OpToRel
  <2>2. QED
    BY <2>1
<1>4. QED
  BY <1>3

\* An item and a list of n below it.
LEMMA Chain ==
  ASSUME NEW n \in Nat \ {0}, NEW M \in SUBSET Items, NEW a \in [0..n -> M],
         \A x \in M : \E k \in 0..n : a[k] = x,
         \A j, k \in 0..n : a[j] = a[k] => j = k,
         NEW nx \in [Items -> Maybe(Items)], NEW pv \in [Items -> Maybe(Items)],
         NEW oc \in [Items -> Maybe(Items)],
         \A x \in Items \ M : nx[x] = NULL /\ pv[x] = NULL /\ oc[x] = NULL,
         \A k \in 0..n : nx[a[k]] = IF k = 0 \/ k = n THEN NULL ELSE a[k + 1],
         \A k \in 0..n : pv[a[k]] = IF k < 2 THEN NULL ELSE a[k - 1],
         \A k \in 0..n : oc[a[k]] = IF k = 0 THEN a[1] ELSE NULL
  PROVE  Forest(M, nx, pv, oc, {a[0]})
<1>1. /\ n \in Nat /\ n >= 1 /\ 0 \in 0..n /\ 1 \in 0..n
      /\ \A k \in 0..n : k \in Nat /\ k <= n
      /\ \A k \in 0..n : k # n => k + 1 \in 0..n
      /\ \A k \in 0..n : k >= 2 => k - 1 \in 0..n
      /\ \A k \in 0..n : a[k] \in M /\ a[k] # NULL
  OBVIOUS
<1>2. \A x \in M : nx[x] \in Maybe(M) /\ pv[x] \in Maybe(M) /\ oc[x] \in Maybe(M)
  BY <1>1 DEF Maybe
<1>3. \A j, k \in 0..n : nx[a[j]] = a[k] <=> pv[a[k]] = a[j]
  <2> SUFFICES ASSUME NEW j \in 0..n, NEW k \in 0..n
               PROVE  nx[a[j]] = a[k] <=> pv[a[k]] = a[j]
    OBVIOUS
  <2>1. nx[a[j]] = a[k] <=> (j # 0 /\ j # n /\ j + 1 = k)
    BY <1>1
  <2>2. pv[a[k]] = a[j] <=> (~(k < 2) /\ k - 1 = j)
    BY <1>1
  <2>3. QED
    BY <2>1, <2>2, <1>1
<1>4. \A i, j \in M : nx[i] = j <=> pv[j] = i
  BY <1>3
<1>5. \A p \in M : oc[p] # NULL => p = a[0] /\ oc[p] = a[1]
  BY <1>1
<1>6. \A p \in M : oc[p] # NULL => pv[oc[p]] = NULL
  BY <1>1, <1>5
<1>7. Pointers(M, nx, pv, oc)
  BY <1>2, <1>4, <1>5, <1>6 DEF Pointers
<1>8. AreRoots({a[0]}, M, nx, pv, oc)
  BY <1>1, <1>5 DEF AreRoots
<1>9. Rooted(M, pv, oc, {a[0]})
  <2> SUFFICES ASSUME NEW i \in M, i # a[0]
               PROVE  pv[i] # NULL \/ \E p \in M : oc[p] = i
    BY DEF Rooted
  <2>1. PICK k \in 0..n : a[k] = i
    OBVIOUS
  <2>2. k # 0
    BY <2>1
  <2>3. CASE k = 1
    BY <2>1, <2>3, <1>1
  <2>4. CASE k # 1
    BY <2>1, <2>2, <2>4, <1>1
  <2>5. QED
    BY <2>3, <2>4
<1>10. Grounded(M, pv, oc)
  <2> SUFFICES ASSUME NEW S \in SUBSET M, S # {}
               PROVE  \E s \in S : pv[s] \notin S /\ \A q \in S : oc[q] # s
    BY DEF Grounded
  <2> DEFINE K == {k \in Nat : k \in 0..n /\ a[k] \in S}
  <2>1. K # {} /\ K \in SUBSET Nat
    <3>1. PICK k \in 0..n : a[k] \in S
      OBVIOUS
    <3>2. k \in K
      BY <3>1, <1>1
    <3>3. QED
      BY <3>2
  <2>2. PICK k \in K : \A j \in K : k <= j
    BY <2>1, LeastOf
  <2>3. k \in 0..n /\ a[k] \in S
    OBVIOUS
  <2>4. \A j \in 0..n : a[j] \in S => k <= j
    BY <2>2, <1>1
  <2> HIDE DEF K
  <2>5. pv[a[k]] \notin S
    <3>1. CASE k < 2
      BY <3>1, <2>3
    <3>2. CASE ~(k < 2)
      <4>1. k - 1 \in 0..n /\ ~(k <= k - 1) /\ pv[a[k]] = a[k - 1]
        BY <3>2, <2>3, <1>1
      <4>2. QED
        BY <4>1, <2>4
    <3>3. QED
      BY <3>1, <3>2
  <2>6. \A q \in S : oc[q] # a[k]
    <3> SUFFICES ASSUME NEW q \in S, oc[q] = a[k] PROVE FALSE
      OBVIOUS
    <3>1. q = a[0] /\ a[k] = a[1]
      BY <2>3, <1>1, <1>5
    <3>2. k = 1 /\ k <= 0
      BY <3>1, <2>3, <2>4, <1>1
    <3>3. QED
      BY <3>2
  <2>7. QED
    BY <2>3, <2>5, <2>6
<1>11. QED
  BY <1>1, <1>7, <1>8, <1>9, <1>10 DEF Forest

\* A forest is copied item by item.
LEMMA Copied ==
  ASSUME NEW L, NEW nx, NEW pv, NEW oc, NEW R, Forest(L, nx, pv, oc, R),
         NEW M \in SUBSET Items, NEW copy \in [L -> M],
         \A x \in M : \E s \in L : copy[s] = x,
         \A s, t \in L : copy[s] = copy[t] => s = t,
         NEW nx2 \in [Items -> Maybe(Items)], NEW pv2 \in [Items -> Maybe(Items)],
         NEW oc2 \in [Items -> Maybe(Items)],
         \A x \in Items \ M : nx2[x] = NULL /\ pv2[x] = NULL /\ oc2[x] = NULL,
         \A s \in L : nx2[copy[s]] = IF nx[s] = NULL THEN NULL ELSE copy[nx[s]],
         \A s \in L : pv2[copy[s]] = IF pv[s] = NULL THEN NULL ELSE copy[pv[s]],
         \A s \in L : oc2[copy[s]] = IF oc[s] = NULL THEN NULL ELSE copy[oc[s]]
  PROVE  Forest(M, nx2, pv2, oc2, {copy[r] : r \in R})
<1> DEFINE Q == {copy[r] : r \in R}
<1>1. /\ L \subseteq Items /\ NULL \notin Items /\ R \subseteq L
      /\ Pointers(L, nx, pv, oc) /\ AreRoots(R, L, nx, pv, oc) /\ Rooted(L, pv, oc, R)
      /\ Grounded(L, pv, oc)
      /\ \A s \in L : copy[s] \in M /\ copy[s] # NULL
      /\ \A s \in L : nx[s] \in Maybe(L) /\ pv[s] \in Maybe(L) /\ oc[s] \in Maybe(L)
  BY DEF Forest, Pointers
<1>2. Q \subseteq M /\ (\A r \in R : copy[r] \in Q) /\ \A x \in Q : \E r \in R : x = copy[r]
  BY <1>1
<1> HIDE DEF Q
<1>3. \A s, t \in L : /\ nx2[copy[s]] = copy[t] <=> nx[s] = t
                      /\ pv2[copy[s]] = copy[t] <=> pv[s] = t
                      /\ oc2[copy[s]] = copy[t] <=> oc[s] = t
  BY <1>1 DEF Maybe
<1>4. \A s \in L : /\ nx2[copy[s]] = NULL <=> nx[s] = NULL
                   /\ pv2[copy[s]] = NULL <=> pv[s] = NULL
                   /\ oc2[copy[s]] = NULL <=> oc[s] = NULL
  BY <1>1 DEF Maybe
<1>5. \A x \in M : nx2[x] \in Maybe(M) /\ pv2[x] \in Maybe(M) /\ oc2[x] \in Maybe(M)
  BY <1>1 DEF Maybe
<1>6. \A i, j \in M : nx2[i] = j <=> pv2[j] = i
  <2> SUFFICES ASSUME NEW s \in L, NEW t \in L
               PROVE  nx2[copy[s]] = copy[t] <=> pv2[copy[t]] = copy[s]
    OBVIOUS
  <2>1. QED
    BY <1>1, <1>3 DEF Pointers
<1>7. \A p \in M : oc2[p] # NULL => pv2[oc2[p]] = NULL
  <2> SUFFICES ASSUME NEW s \in L, oc2[copy[s]] # NULL
               PROVE  pv2[oc2[copy[s]]] = NULL
    OBVIOUS
  <2>1. oc[s] \in L /\ oc2[copy[s]] = copy[oc[s]] /\ pv[oc[s]] = NULL
    BY <1>1, <1>4 DEF Pointers, Maybe
  <2>2. QED
    BY <2>1, <1>4
<1>8. \A p, q \in M : oc2[p] = oc2[q] /\ oc2[p] # NULL => p = q
  <2> SUFFICES ASSUME NEW s \in L, NEW t \in L,
                      oc2[copy[s]] = oc2[copy[t]], oc2[copy[s]] # NULL
               PROVE  copy[s] = copy[t]
    OBVIOUS
  <2>1. oc[s] \in L /\ oc2[copy[s]] = copy[oc[s]]
    BY <1>1, <1>4 DEF Maybe
  <2> DEFINE u == oc[s]
  <2>2. u \in L /\ oc2[copy[t]] = copy[u]
    BY <2>1
  <2> HIDE DEF u
  <2>3. oc[t] = u
    BY <2>2, <1>3
  <2>4. QED
    BY <2>1, <2>3, <1>1 DEF Pointers, u
<1>9. Pointers(M, nx2, pv2, oc2)
  BY <1>5, <1>6, <1>7, <1>8 DEF Pointers
<1>10. AreRoots(Q, M, nx2, pv2, oc2)
  <2> SUFFICES ASSUME NEW r \in R
               PROVE  /\ nx2[copy[r]] = NULL /\ pv2[copy[r]] = NULL
                      /\ \A p \in M : oc2[p] # copy[r]
    BY <1>2 DEF AreRoots
  <2>1. r \in L /\ nx[r] = NULL /\ pv[r] = NULL /\ \A p \in L : oc[p] # r
    BY <1>1 DEF AreRoots
  <2>2. \A p \in L : oc2[copy[p]] # copy[r]
    BY <2>1, <1>3
  <2>3. QED
    BY <2>1, <2>2, <1>4
<1>11. Rooted(M, pv2, oc2, Q)
  <2> SUFFICES ASSUME NEW s \in L, copy[s] \notin Q
               PROVE  pv2[copy[s]] # NULL \/ \E p \in M : oc2[p] = copy[s]
    BY DEF Rooted
  <2>1. s \notin R
    BY <1>2
  <2>2. CASE pv[s] # NULL
    BY <2>2, <1>4
  <2>3. CASE \E p \in L : oc[p] = s
    BY <2>3, <1>1, <1>3
  <2>4. QED
    BY <2>1, <2>2, <2>3, <1>1 DEF Rooted
<1>12. Grounded(M, pv2, oc2)
  <2> SUFFICES ASSUME NEW S \in SUBSET M, S # {}
               PROVE  \E s \in S : pv2[s] \notin S /\ \A q \in S : oc2[q] # s
    BY DEF Grounded
  <2> DEFINE O == {s \in L : copy[s] \in S}
  <2>1. O \in SUBSET L /\ O # {} /\ \A s \in L : s \in O <=> copy[s] \in S
    OBVIOUS
  <2> HIDE DEF O
  <2>2. PICK s \in O : pv[s] \notin O /\ \A q \in O : oc[q] # s
    BY <2>1, <1>1 DEF Grounded
  <2>3. pv2[copy[s]] \notin S
    BY <2>1, <2>2, <1>1 DEF Maybe
  <2>4. \A q \in S : oc2[q] # copy[s]
    BY <2>1, <2>2, <1>3
  <2>5. QED
    BY <2>1, <2>2, <2>3, <2>4
<1>13. Forest(M, nx2, pv2, oc2, Q)
  BY <1>2, <1>9, <1>10, <1>11, <1>12 DEF Forest
<1>14. QED
  BY <1>13 DEF Q

-----------------------------------------------------------------------------
(* The items *)

\* The child pointers the items own: a reference owns none.
Own == [i \in Items |-> IF info[i].ref THEN NULL ELSE child[i]]

Roots == held \cup lost

\* The inductive invariant: the pointers make a forest of the live items, its
\* roots are those the client holds and the lost ones, and there is nothing in
\* memory that is not allocated.
Inductive ==
  /\ next \in [Items -> Maybe(Items)]
  /\ prev \in [Items -> Maybe(Items)]
  /\ child \in [Items -> Maybe(Items)]
  /\ info \in [Items -> Info]
  /\ \A i \in Items \ live : info[i] = Blank
  /\ held \cap lost = {}
  /\ Forest(live, next, prev, Own, Roots)

\* What the forest says of the pointers of the items.
LEMMA Facts ==
  ASSUME Inductive
  PROVE  /\ live \subseteq Items /\ NULL \notin Items /\ NULL \notin live /\ Roots \subseteq live
         /\ Pointers(live, next, prev, Own) /\ AreRoots(Roots, live, next, prev, Own)
         /\ Rooted(live, prev, Own, Roots) /\ Grounded(live, prev, Own)
         /\ \A x \in live : Own[x] = IF info[x].ref THEN NULL ELSE child[x]
         /\ \A x \in live : next[x] \in Maybe(live) /\ prev[x] \in Maybe(live) /\ Own[x] \in Maybe(live)
         /\ \A x \in Items : Own[x] = IF info[x].ref THEN NULL ELSE child[x]
  BY DEF Inductive, Forest, Pointers, Own

\* What cJSON_Delete frees is closed under the pointers it follows, one of them
\* leads to each item of it but the first, and there is no smaller such set.
LEMMA FreedSet ==
  ASSUME Inductive, NEW item \in live
  PROVE  /\ Freed(item) \subseteq live /\ item \in Freed(item)
         /\ \A x \in Freed(item) : next[x] \in Maybe(Freed(item)) /\ Own[x] \in Maybe(Freed(item))
         /\ \A y \in Freed(item) \ {item} : \E x \in Freed(item) : next[x] = y \/ Own[x] = y
<1> DEFINE F == Freed(item)
           Shut(S) == item \in S /\ \A s \in S : /\ next[s] \in Maybe(S)
                                                 /\ ~info[s].ref => child[s] \in Maybe(S)
<1>1. /\ live \subseteq Items /\ NULL \notin live
      /\ \A x \in live : Own[x] = IF info[x].ref THEN NULL ELSE child[x]
      /\ \A x \in live : next[x] \in Maybe(live) /\ Own[x] \in Maybe(live)
  BY Facts
<1>2. Shut(live)
  BY <1>1
<1>3. \A i : i \in F <=> i \in live /\ \A S \in SUBSET live : Shut(S) => i \in S
  BY DEF Freed
<1> HIDE DEF F
<1>4. F \subseteq live /\ item \in F
  BY <1>3
<1>5. ASSUME NEW x \in F PROVE next[x] \in Maybe(F) /\ Own[x] \in Maybe(F)
  <2>1. x \in live /\ \A S \in SUBSET live : Shut(S) => x \in S
    BY <1>3
  <2>2. \A S \in SUBSET live : Shut(S) => next[x] \in Maybe(S) /\ Own[x] \in Maybe(S)
    BY <2>1, <1>1 DEF Maybe
  <2>3. next[x] \in Maybe(live) /\ Own[x] \in Maybe(live)
    BY <2>1, <1>1
  <2> HIDE DEF Shut
  <2>4. next[x] # NULL => next[x] \in F
    BY <2>2, <2>3, <1>1, <1>3 DEF Maybe
  <2>5. Own[x] # NULL => Own[x] \in F
    BY <2>2, <2>3, <1>1, <1>3 DEF Maybe
  <2>6. QED
    BY <2>4, <2>5 DEF Maybe
<1>6. ASSUME NEW y \in F \ {item} PROVE \E x \in F : next[x] = y \/ Own[x] = y
  <2> SUFFICES ASSUME \A x \in F : next[x] # y /\ Own[x] # y PROVE FALSE
    OBVIOUS
  <2> DEFINE S == F \ {y}
  <2>1. S \in SUBSET live /\ y \notin S
    BY <1>4
  <2>2. item \in S
    BY <1>4
  <2>3. \A s \in S : next[s] \in Maybe(S) /\ Own[s] \in Maybe(S)
    BY <1>5 DEF Maybe
  <2> HIDE DEF S
  <2>4. Shut(S)
    BY <1>1, <2>1, <2>2, <2>3 DEF Maybe
  <2> HIDE DEF Shut
  <2>5. QED
    BY <1>3, <2>1, <2>4
<1>7. QED
  BY <1>4, <1>5, <1>6 DEF F

\* An item taken out of its list is a subtree with what is below it.
LEMMA TreeBelow ==
  ASSUME Inductive, NEW item \in live
  PROVE  Tree(item) \subseteq live /\ Subtree(Tree(item), item, next, Own)
<1>1. /\ NULL \notin live /\ Pointers(live, next, prev, Own) /\ Grounded(live, prev, Own)
      /\ Own[item] = (IF info[item].ref THEN NULL ELSE child[item])
      /\ Own[item] \in Maybe(live)
  BY Facts
<1>2. CASE Own[item] = NULL
  <2>1. Tree(item) = {item}
    BY <1>1, <1>2 DEF Tree
  <2>2. QED
    BY <2>1, <1>2 DEF Subtree, Maybe
<1>3. CASE Own[item] # NULL
  <2> DEFINE c == Own[item]
             F == Freed(c)
             T == {item} \cup F
  <2>1. c \in live /\ c # NULL /\ Tree(item) = T
    BY <1>1, <1>3 DEF Tree, Maybe
  <2>2. /\ F \subseteq live /\ c \in F
        /\ \A x \in F : next[x] \in Maybe(F) /\ Own[x] \in Maybe(F)
        /\ \A y \in F \ {c} : \E x \in F : next[x] = y \/ Own[x] = y
    BY <2>1, FreedSet
  <2> HIDE DEF F
  <2>3. item \notin F
    <3> SUFFICES ASSUME item \in F PROVE FALSE
      OBVIOUS
    <3>1. PICK s \in F : prev[s] \notin F /\ \A q \in F : Own[q] # s
      BY <1>1, <2>2 DEF Grounded
    <3>2. s # c /\ s \in live
      BY <3>1, <2>2
    <3>3. PICK x \in F : next[x] = s
      BY <3>1, <3>2, <2>2
    <3>4. prev[s] = x
      BY <3>2, <3>3, <2>2, <1>1 DEF Pointers
    <3>5. QED
      BY <3>1, <3>4
  <2>4. \A x \in T : Own[x] \in Maybe(T) /\ (x # item => next[x] \in Maybe(T))
    BY <2>2 DEF Maybe
  <2>5. \A y \in T \ {item} : (\E x \in T \ {item} : next[x] = y) \/ (\E p \in T : Own[p] = y)
    BY <2>2, <2>3
  <2>6. T \subseteq live /\ item \in T
    BY <2>2
  <2> HIDE DEF T
  <2>7. QED
    BY <2>1, <2>4, <2>5, <2>6 DEF Subtree
<1>4. QED
  BY <1>2, <1>3

\* The children are those the loop over next meets.
LEMMA ChildSet ==
  ASSUME Inductive, NEW p \in live, ~info[p].ref, NEW item \in Children(p)
  PROVE  /\ Children(p) \subseteq live
         /\ Own[p] = child[p] /\ child[p] # NULL /\ child[p] \in live
         /\ child[p] \in Children(p)
         /\ \A x \in Children(p) : next[x] \in Maybe(Children(p))
         /\ \A S \in SUBSET live :
              child[p] \in S /\ (\A s \in S : next[s] \in Maybe(S)) => Children(p) \subseteq S
<1> DEFINE c == child[p]
           C == Children(p)
           Shut(S) == c \in S /\ \A s \in S : next[s] \in Maybe(S)
<1>1. /\ NULL \notin live /\ Own[p] = c /\ Own[p] \in Maybe(live)
      /\ \A x \in live : next[x] \in Maybe(live)
  BY Facts
<1>2. c # NULL
  BY DEF Children
<1>3. c \in live
  BY <1>1, <1>2 DEF Maybe
<1>4. \A i : i \in C <=> i \in live /\ \A S \in SUBSET live : Shut(S) => i \in S
  BY <1>2 DEF Children, From
<1> HIDE DEF C
<1>5. C \subseteq live /\ c \in C
  BY <1>3, <1>4
<1>6. ASSUME NEW x \in C PROVE next[x] \in Maybe(C)
  <2>1. x \in live /\ \A S \in SUBSET live : Shut(S) => x \in S
    BY <1>4
  <2>2. \A S \in SUBSET live : Shut(S) => next[x] \in Maybe(S)
    BY <2>1
  <2>3. next[x] \in Maybe(live)
    BY <2>1, <1>1
  <2> HIDE DEF Shut
  <2>4. next[x] # NULL => next[x] \in C
    BY <2>2, <2>3, <1>1, <1>4 DEF Maybe
  <2>5. QED
    BY <2>4 DEF Maybe
<1>7. \A S \in SUBSET live : Shut(S) => C \subseteq S
  BY <1>4
<1>8. QED
  BY <1>1, <1>2, <1>3, <1>5, <1>6, <1>7 DEF C

\* A child is the first or has a sibling before it, and it is no root.
LEMMA ChildFacts ==
  ASSUME Inductive, NEW p \in live, ~info[p].ref, NEW item \in Children(p)
  PROVE  /\ item \in live /\ item \notin Roots
         /\ prev[item] = NULL => Own[p] = item
         /\ prev[item] # NULL =>
              prev[item] \in live /\ prev[item] \notin Roots /\ next[prev[item]] = item
         /\ next[item] # NULL =>
              next[item] \in live /\ next[item] \notin Roots /\ prev[next[item]] = item
<1> DEFINE C == Children(p)
           S == {x \in C : x = child[p] \/ prev[x] # NULL}
<1>1. /\ C \subseteq live /\ Own[p] = child[p] /\ child[p] # NULL /\ child[p] \in live /\ child[p] \in C
      /\ \A x \in C : next[x] \in Maybe(C)
      /\ \A Z \in SUBSET live :
              child[p] \in Z /\ (\A s \in Z : next[s] \in Maybe(Z)) => C \subseteq Z
  BY ChildSet
<1>2. /\ NULL \notin live /\ Pointers(live, next, prev, Own) /\ AreRoots(Roots, live, next, prev, Own)
      /\ \A x \in live : next[x] \in Maybe(live) /\ prev[x] \in Maybe(live)
  BY Facts
<1>3. item \in C
  OBVIOUS
<1> HIDE DEF C
<1>4. S \in SUBSET live /\ child[p] \in S
  BY <1>1
<1>5. \A s \in S : next[s] \in Maybe(S)
  BY <1>1, <1>2 DEF Pointers, Maybe
<1>6. item \in S
  BY <1>1, <1>3, <1>4, <1>5
<1>7. item \in live /\ (prev[item] = NULL => Own[p] = item) /\ item \notin Roots
  BY <1>1, <1>2, <1>6 DEF AreRoots
<1>8. ASSUME prev[item] # NULL
      PROVE  prev[item] \in live /\ next[prev[item]] = item /\ prev[item] \notin Roots
  BY <1>2, <1>7, <1>8 DEF Pointers, AreRoots, Maybe
<1>9. ASSUME next[item] # NULL
      PROVE  next[item] \in live /\ prev[next[item]] = item /\ next[item] \notin Roots
  BY <1>2, <1>7, <1>9 DEF Pointers, AreRoots, Maybe
<1>10. QED
  BY <1>7, <1>8, <1>9

\* The children of what is not below a root are not below it, nor are the items
\* before and behind them.
LEMMA ChildOutside ==
  ASSUME Inductive, NEW r \in Roots, NEW T \in SUBSET live, Subtree(T, r, next, Own),
         NEW p \in live \ T, ~info[p].ref, NEW item \in Children(p)
  PROVE  item \notin T /\ prev[item] \notin T /\ next[item] \notin T
<1> DEFINE C == Children(p)
           S == C \ T
<1>1. /\ C \subseteq live /\ Own[p] = child[p] /\ child[p] # NULL /\ child[p] \in live /\ child[p] \in C
      /\ \A x \in C : next[x] \in Maybe(C)
      /\ \A Z \in SUBSET live :
              child[p] \in Z /\ (\A s \in Z : next[s] \in Maybe(Z)) => C \subseteq Z
  BY ChildSet
<1>2. /\ NULL \notin live /\ Pointers(live, next, prev, Own) /\ AreRoots(Roots, live, next, prev, Own)
      /\ Roots \subseteq live
      /\ \A x \in live : next[x] \in Maybe(live) /\ prev[x] \in Maybe(live)
      /\ Forest(live, next, prev, Own, Roots)
  BY Facts DEF Inductive
<1>3. /\ \A x \in live \ T : (next[x] \in T => next[x] = r) /\ (Own[x] \in T => Own[x] = r)
      /\ next[r] = NULL /\ \A x \in live : next[x] # r /\ Own[x] # r
  BY <1>2, Outside DEF AreRoots, Pointers
<1>4. item \in C
  OBVIOUS
<1> HIDE DEF C
<1>5. S \in SUBSET live /\ child[p] \in S
  BY <1>1, <1>3
<1>6. \A s \in S : next[s] \in Maybe(S)
  BY <1>1, <1>3 DEF Maybe
<1>7. item \notin T /\ next[item] \notin T
  BY <1>1, <1>3, <1>4, <1>5, <1>6
<1>8. prev[item] \notin T
  BY <1>1, <1>2, <1>3, <1>4, <1>7 DEF Pointers, Subtree, Maybe
<1>9. QED
  BY <1>7, <1>8

\* A parent is not below its child, nor are the items before and behind the child.
LEMMA ParentOutside ==
  ASSUME Inductive, NEW p \in live, ~info[p].ref, NEW item \in Children(p)
  PROVE  p \notin Tree(item) /\ prev[item] \notin Tree(item) /\ next[item] \notin Tree(item)
<1> DEFINE C == Children(p)
           T == Tree(item)
           S == C \cap (T \ {item})
<1>1. /\ C \subseteq live /\ Own[p] = child[p] /\ child[p] # NULL /\ child[p] \in live /\ child[p] \in C
      /\ \A x \in C : next[x] \in Maybe(C)
      /\ \A Z \in SUBSET live :
              child[p] \in Z /\ (\A s \in Z : next[s] \in Maybe(Z)) => C \subseteq Z
  BY ChildSet
<1>2. item \in C /\ item \in live
  BY <1>1
<1>3. T \in SUBSET live /\ Subtree(T, item, next, Own)
  BY <1>2, TreeBelow
<1> HIDE DEF C, T
<1>4. Forest(live, next, prev, Own, Roots)
  BY DEF Inductive
<1>5. /\ prev[item] \notin T /\ next[item] \notin T
      /\ \A x \in T : Own[x] # item /\ next[x] # item
  BY <1>2, <1>3, <1>4, Outside
<1>6. p \notin T
  <2> SUFFICES ASSUME p \in T PROVE FALSE
    OBVIOUS
  <2>1. S \in SUBSET live /\ child[p] \in S
    BY <1>1, <1>3, <1>5 DEF Subtree, Maybe
  <2>2. \A s \in S : next[s] \in Maybe(S)
    BY <1>1, <1>3, <1>5 DEF Subtree, Maybe
  <2>3. QED
    BY <1>1, <1>2, <2>1, <2>2
<1>7. QED
  BY <1>5, <1>6 DEF T

-----------------------------------------------------------------------------
(* The operations *)

\* A subtree has its root in it, so a root that is taken from the client is not
\* among the others.
LEMMA RootTaken ==
  ASSUME Inductive, NEW r \in held
  PROVE  /\ r \in live /\ r \in Roots /\ r \notin lost
         /\ (held \ {r}) \cup lost = Roots \ {r}
         /\ (held \ {r}) \cap lost = {}
         /\ (held \ {r}) \cup (lost \cup {r}) = Roots
         /\ (held \ {r}) \cap (lost \cup {r}) = {}
<1>1. held \cap lost = {} /\ Roots \subseteq live
  BY Facts DEF Inductive
<1>2. QED
  BY <1>1 DEF Roots

\* The same set of items, pointers and roots: nothing changes but names.
LEMMA SamePointers ==
  ASSUME Inductive, UNCHANGED <<live, next, prev, child>>,
         info' \in [Items -> Info],
         \A x \in Items : info'[x].ref = info[x].ref,
         \A x \in Items \ live : info'[x] = Blank,
         held' \cap lost' = {}, Roots' = Roots
  PROVE  Inductive'
<1>1. Own' = Own
  BY DEF Own
<1>2. Forest(live', next', prev', Own', Roots')
  BY <1>1 DEF Inductive
<1>3. QED
  BY <1>2 DEF Inductive

\* add_item_to_array puts a root behind the last child.
LEMMA PutLast ==
  ASSUME Inductive, NEW array \in live, ~info[array].ref,
         NEW L, live \subseteq L, NEW R, Forest(L, next, prev, Own, R),
         NEW r \in R, NEW T \in SUBSET L, Subtree(T, r, next, Own),
         array \notin T, \A x \in Children(array) : x \notin T /\ x \notin R,
         NEW first \in Maybe(Items), AppendTo(array, r, first)
  PROVE  /\ Forest(L, next', prev',
                   [x \in Items |-> IF x = array /\ child[array] = NULL THEN r ELSE Own[x]],
                   R \ {r})
         /\ child' = [x \in Items |-> IF x = r THEN first
                                      ELSE IF x = array /\ child[array] = NULL THEN r
                                      ELSE child[x]]
         /\ next' \in [Items -> Maybe(Items)]
         /\ prev' \in [Items -> Maybe(Items)]
         /\ child' \in [Items -> Maybe(Items)]
<1>1. /\ live \subseteq Items /\ NULL \notin Items /\ Own[array] = child[array]
      /\ next \in [Items -> Maybe(Items)] /\ prev \in [Items -> Maybe(Items)]
      /\ child \in [Items -> Maybe(Items)]
      /\ L \subseteq Items /\ r \in L /\ r \in Items /\ array # r
      /\ next[r] = NULL /\ prev[r] = NULL
  <2>1. live \subseteq Items /\ NULL \notin Items /\ Own[array] = child[array]
    BY Facts
  <2>2. L \subseteq Items /\ r \in L /\ next[r] = NULL /\ prev[r] = NULL
    BY DEF Forest, Pointers, AreRoots
  <2>3. array # r
    BY DEF Subtree
  <2>4. QED
    BY <2>1, <2>2, <2>3 DEF Inductive
<1>2. NULL \notin L /\ NULL \in Maybe(L)
  BY <1>1 DEF Maybe
<1> DEFINE oc2 == [x \in Items |-> IF x = array /\ child[array] = NULL THEN r ELSE Own[x]]
<1>3. CASE child[array] = NULL
  <2> DEFINE nx2 == [x \in Items |-> IF x = r THEN NULL ELSE IF x = NULL THEN r ELSE next[x]]
             pv2 == [x \in Items |-> IF x = r THEN NULL ELSE IF x = NULL THEN r ELSE prev[x]]
             oc3 == [x \in Items |-> IF x = array /\ NULL = NULL THEN r ELSE Own[x]]
  <2>1. R \subseteq L
    BY DEF Forest
  <2>2. Forest(L, nx2, pv2, oc3, R \ {r})
    BY <1>1, <1>2, <1>3, <2>1, Attach
  <2>3. nx2 = next /\ pv2 = prev /\ oc3 = oc2
    BY <1>1, <1>3
  <2>4. next' = next /\ prev' = prev
    BY <1>3 DEF AppendTo
  <2>5. child' = [x \in Items |-> IF x = r THEN first ELSE IF x = array THEN r ELSE child[x]]
    BY <1>1, <1>3 DEF AppendTo
  <2> HIDE DEF nx2, pv2, oc2, oc3
  <2>6. Forest(L, next', prev', oc2, R \ {r})
    BY <2>2, <2>3, <2>4
  <2>7. child' \in [Items -> Maybe(Items)]
    BY <2>5, <1>1 DEF Maybe
  <2>8. QED
    BY <1>1, <1>3, <2>4, <2>5, <2>6, <2>7 DEF oc2
<1>4. CASE child[array] # NULL
  <2>1. PICK last \in Children(array) :
            /\ next[last] = NULL
            /\ next' = [next EXCEPT ![last] = r]
            /\ prev' = [prev EXCEPT ![r] = last]
            /\ child' = [child EXCEPT ![r] = first]
    BY <1>4 DEF AppendTo
  <2>2. last \in live /\ last \in L /\ last \notin R /\ last \notin T /\ last # NULL
    BY <1>1, ChildFacts
  <2> DEFINE nx2 == [x \in Items |-> IF x = r THEN NULL ELSE IF x = last THEN r ELSE next[x]]
             pv2 == [x \in Items |-> IF x = r THEN last ELSE IF x = NULL THEN r ELSE prev[x]]
             oc3 == [x \in Items |-> IF x = array /\ last = NULL THEN r ELSE Own[x]]
  <2>3. R \subseteq L /\ last \in Maybe(L)
    BY <2>2 DEF Forest, Maybe
  <2>4. Forest(L, nx2, pv2, oc3, R \ {r})
    BY <1>1, <1>2, <2>1, <2>2, <2>3, Attach
  <2>5. nx2 = next' /\ pv2 = prev' /\ oc3 = oc2
    BY <1>1, <1>4, <2>1, <2>2
  <2>6. next' \in [Items -> Maybe(Items)] /\ prev' \in [Items -> Maybe(Items)]
    BY <1>1, <2>1, <2>2 DEF Maybe
  <2>7. child' = [x \in Items |-> IF x = r THEN first ELSE child[x]]
    BY <1>1, <2>1
  <2>8. child' \in [Items -> Maybe(Items)]
    BY <2>7, <1>1 DEF Maybe
  <2> HIDE DEF nx2, pv2, oc2, oc3
  <2>9. QED
    BY <1>4, <2>4, <2>5, <2>6, <2>7, <2>8 DEF oc2
<1>5. QED
  BY <1>3, <1>4

\* What the client adds is put behind the last child, with what is below it.
LEMMA AppendHeld ==
  ASSUME Inductive, NEW array \in live, NEW item \in held, Adds(array, item),
         AppendTo(array, item, child[item])
  PROVE  /\ Forest(live, next', prev',
                   [x \in Items |-> IF info[x].ref THEN NULL ELSE child'[x]], Roots \ {item})
         /\ next' \in [Items -> Maybe(Items)]
         /\ prev' \in [Items -> Maybe(Items)]
         /\ child' \in [Items -> Maybe(Items)]
<1>1. /\ item \in live /\ item \in Roots /\ live \subseteq Items /\ NULL \notin Items
      /\ child \in [Items -> Maybe(Items)] /\ child[item] \in Maybe(Items)
      /\ ~info[array].ref /\ array \notin Tree(item)
      /\ Forest(live, next, prev, Own, Roots)
      /\ \A x \in Items : Own[x] = IF info[x].ref THEN NULL ELSE child[x]
  BY Facts, RootTaken DEF Inductive, Adds
<1>2. Tree(item) \in SUBSET live /\ Subtree(Tree(item), item, next, Own)
  BY <1>1, TreeBelow
<1>3. \A x \in Children(array) : x \notin Tree(item) /\ x \notin Roots
  BY <1>1, <1>2, ChildOutside, ChildFacts
<1> DEFINE oc2 == [x \in Items |-> IF x = array /\ child[array] = NULL THEN item ELSE Own[x]]
<1>4. /\ Forest(live, next', prev', oc2, Roots \ {item})
      /\ child' = [x \in Items |-> IF x = item THEN child[item]
                                   ELSE IF x = array /\ child[array] = NULL THEN item
                                   ELSE child[x]]
      /\ next' \in [Items -> Maybe(Items)]
      /\ prev' \in [Items -> Maybe(Items)]
      /\ child' \in [Items -> Maybe(Items)]
  BY <1>1, <1>2, <1>3, PutLast
<1>5. array # item
  BY <1>1, <1>2 DEF Subtree
<1>6. oc2 = [x \in Items |-> IF info[x].ref THEN NULL ELSE child'[x]]
  BY <1>1, <1>4, <1>5
<1> HIDE DEF oc2
<1>7. QED
  BY <1>4, <1>6

\* An item made on the way is put behind the last child.
LEMMA AppendNew ==
  ASSUME Inductive, NEW array \in live, ~info[array].ref, NEW i \in Items \ live,
         NEW first \in Maybe(Items), AppendTo(array, i, first)
  PROVE  /\ Forest(live \cup {i}, next', prev',
                   [x \in Items |-> IF x = i \/ info[x].ref THEN NULL ELSE child'[x]], Roots)
         /\ next' \in [Items -> Maybe(Items)]
         /\ prev' \in [Items -> Maybe(Items)]
         /\ child' \in [Items -> Maybe(Items)]
<1> DEFINE L == live \cup {i}
           R == Roots \cup {i}
           T == {i}
<1>1. /\ live \subseteq Items /\ NULL \notin Items /\ Roots \subseteq live
      /\ next[i] = NULL /\ Own[i] = NULL
      /\ Forest(live, next, prev, Own, Roots)
      /\ \A x \in Items : Own[x] = IF info[x].ref THEN NULL ELSE child[x]
  BY Facts DEF Inductive, Pointers
<1>2. Forest(L, next, prev, Own, R)
  BY <1>1, NewRoot
<1>3. Subtree(T, i, next, Own)
  BY <1>1 DEF Subtree, Maybe
<1>4. /\ array \notin T /\ T \in SUBSET L /\ live \subseteq L /\ i \in R
      /\ \A x \in Children(array) : x \notin T /\ x \notin R
  BY ChildFacts
<1>5. R \ {i} = Roots
  BY <1>1
<1> HIDE DEF R, T, L
<1> DEFINE oc2 == [x \in Items |-> IF x = array /\ child[array] = NULL THEN i ELSE Own[x]]
<1>6. /\ Forest(L, next', prev', oc2, R \ {i})
      /\ child' = [x \in Items |-> IF x = i THEN first
                                   ELSE IF x = array /\ child[array] = NULL THEN i
                                   ELSE child[x]]
      /\ next' \in [Items -> Maybe(Items)]
      /\ prev' \in [Items -> Maybe(Items)]
      /\ child' \in [Items -> Maybe(Items)]
  BY <1>2, <1>3, <1>4, PutLast
<1>7. oc2 = [x \in Items |-> IF x = i \/ info[x].ref THEN NULL ELSE child'[x]]
  BY <1>1, <1>6
<1> HIDE DEF oc2
<1>8. QED
  BY <1>5, <1>6, <1>7 DEF L

\* The Create functions.
LEMMA CreateStep == ASSUME Inductive, Create PROVE Inductive'
<1>1. PICK i \in Items \ live, text \in Texts, ref \in BOOLEAN :
        \E first \in IF ref /\ ~text THEN Maybe(live) ELSE {NULL} :
          /\ live' = live \cup {i}
          /\ child' = [child EXCEPT ![i] = first]
          /\ info' = [info EXCEPT ![i] = [Blank EXCEPT !.ref = ref, !.text = text]]
          /\ held' = held \cup {i}
          /\ UNCHANGED <<next, prev, lost>>
  BY DEF Create
<1>2. PICK first \in IF ref /\ ~text THEN Maybe(live) ELSE {NULL} :
          /\ live' = live \cup {i}
          /\ child' = [child EXCEPT ![i] = first]
          /\ info' = [info EXCEPT ![i] = [Blank EXCEPT !.ref = ref, !.text = text]]
          /\ held' = held \cup {i}
          /\ UNCHANGED <<next, prev, lost>>
  BY <1>1
<1>3. /\ live \subseteq Items /\ NULL \notin Items /\ Roots \subseteq live
      /\ Forest(live, next, prev, Own, Roots)
      /\ next \in [Items -> Maybe(Items)] /\ prev \in [Items -> Maybe(Items)]
      /\ child \in [Items -> Maybe(Items)] /\ info \in [Items -> Info]
      /\ \A x \in Items \ live : info[x] = Blank
      /\ held \cap lost = {}
      /\ \A x \in Items : Own[x] = IF info[x].ref THEN NULL ELSE child[x]
      /\ Own[i] = NULL
  BY Facts DEF Inductive, Pointers
<1>4. first \in Maybe(Items) /\ (~ref => first = NULL)
  BY <1>3 DEF Maybe
<1>5. /\ [Blank EXCEPT !.ref = ref, !.text = text] \in Info
      /\ [Blank EXCEPT !.ref = ref, !.text = text].ref = ref
  BY TextsAssumption DEF Blank, Info, Maybe
<1>6. /\ info' \in [Items -> Info] /\ child' \in [Items -> Maybe(Items)]
      /\ \A x \in Items \ live' : info'[x] = Blank
  BY <1>2, <1>3, <1>4, <1>5
<1>7. Own' = Own
  <2>1. info'[i].ref = ref /\ child'[i] = first
    BY <1>2, <1>3, <1>5
  <2>2. \A x \in Items : x # i => info'[x] = info[x] /\ child'[x] = child[x]
    BY <1>2, <1>3
  <2>3. \A x \in Items : Own[x] = IF info'[x].ref THEN NULL ELSE child'[x]
    BY <2>1, <2>2, <1>3, <1>4
  <2>4. Own' = [x \in Items |-> IF info'[x].ref THEN NULL ELSE child'[x]]
    BY DEF Own
  <2>5. Own = [x \in Items |-> Own[x]]
    BY DEF Own
  <2>6. QED
    BY <2>3, <2>4, <2>5
<1>8. Roots' = Roots \cup {i} /\ held' \cap lost' = {}
  BY <1>2, <1>3 DEF Roots
<1>9. Forest(live \cup {i}, next, prev, Own, Roots \cup {i})
  BY <1>3, NewRoot
<1>10. Forest(live', next', prev', Own', Roots')
  BY <1>2, <1>7, <1>8, <1>9
<1>11. QED
  BY <1>2, <1>3, <1>6, <1>8, <1>10 DEF Inductive

\* cJSON_AddItemToArray and its like, with and without a name.
LEMMA AddStep ==
  ASSUME Inductive, NEW array \in live, NEW item \in held, Adds(array, item),
         AppendTo(array, item, child[item]), held' = held \ {item}, UNCHANGED <<live, lost>>,
         info' \in [Items -> Info], \A x \in Items : info'[x].ref = info[x].ref,
         \A x \in Items \ live : info'[x] = Blank
  PROVE  Inductive'
<1>1. Roots' = Roots \ {item} /\ held' \cap lost' = {}
  BY RootTaken DEF Roots
<1>2. Own' = [x \in Items |-> IF info[x].ref THEN NULL ELSE child'[x]]
  BY DEF Own
<1>3. /\ Forest(live, next', prev', Own', Roots \ {item})
      /\ next' \in [Items -> Maybe(Items)]
      /\ prev' \in [Items -> Maybe(Items)]
      /\ child' \in [Items -> Maybe(Items)]
  BY <1>2, AppendHeld
<1>4. Forest(live', next', prev', Own', Roots')
  BY <1>1, <1>3
<1>5. QED
  BY <1>1, <1>3, <1>4 DEF Inductive

\* cJSON_AddItemToArray.
LEMMA AddItemToArrayStep == ASSUME Inductive, AddItemToArray PROVE Inductive'
<1>1. PICK array \in live, item \in held :
        /\ Adds(array, item)
        /\ AppendTo(array, item, child[item])
        /\ held' = held \ {item}
        /\ UNCHANGED <<live, info, lost>>
  BY DEF AddItemToArray
<1>2. info \in [Items -> Info] /\ \A x \in Items \ live : info[x] = Blank
  BY DEF Inductive
<1>3. QED
  BY <1>1, <1>2, AddStep

\* The names when an item has a new one.
NewNameOf(item, name, constant) == [info EXCEPT ![item].name = name, ![item].const = constant]

\* A new name is the business of no pointer.
LEMMA NewName ==
  ASSUME Inductive, NEW item \in live, NEW name \in Maybe(Names), NEW constant \in BOOLEAN
  PROVE  LET new == NewNameOf(item, name, constant) IN
         /\ new \in [Items -> Info]
         /\ \A x \in Items : new[x].ref = info[x].ref
         /\ \A x \in Items \ live : new[x] = Blank
         /\ \A x \in Items : x # item => new[x] = info[x]
<1>1. /\ info \in [Items -> Info] /\ live \subseteq Items
      /\ \A x \in Items \ live : info[x] = Blank
  BY Facts DEF Inductive
<1>2. info[item] \in Info /\ item \in Items
  BY <1>1
<1> DEFINE new == NewNameOf(item, name, constant)
<1>3. new = [info EXCEPT ![item] = [info[item] EXCEPT !.name = name, !.const = constant]]
  BY <1>1, <1>2 DEF Info, NewNameOf
<1> DEFINE of == [info[item] EXCEPT !.name = name, !.const = constant]
<1>4. of \in Info /\ of.ref = info[item].ref
  BY <1>2 DEF Info
<1> HIDE DEF of
<1>5. new = [info EXCEPT ![item] = of]
  BY <1>3 DEF of
<1>6. QED
  BY <1>1, <1>2, <1>4, <1>5

\* cJSON_AddItemToObject and its variant for constant keys.
LEMMA AddItemToObjectStep == ASSUME Inductive, AddItemToObject PROVE Inductive'
<1>1. PICK object \in live, item \in held, name \in Names, constant \in BOOLEAN :
        /\ Adds(object, item)
        /\ AppendTo(object, item, child[item])
        /\ info' = [info EXCEPT ![item].name = name, ![item].const = constant]
        /\ held' = held \ {item}
        /\ UNCHANGED <<live, lost>>
  BY DEF AddItemToObject
<1>2. item \in live /\ name \in Maybe(Names)
  BY RootTaken DEF Maybe
<1> DEFINE new == NewNameOf(item, name, constant)
<1>3. /\ new \in [Items -> Info] /\ \A x \in Items : new[x].ref = info[x].ref
      /\ \A x \in Items \ live : new[x] = Blank
  BY <1>2, NewName
<1>4. info' = new
  BY <1>1 DEF NewNameOf
<1> HIDE DEF new
<1>5. QED
  BY <1>1, <1>3, <1>4, AddStep

\* An item whose key cannot be copied.
LEMMA AddLostStep == ASSUME Inductive, AddLost PROVE Inductive'
<1>1. PICK item \in held : /\ held' = held \ {item}
                           /\ lost' = lost \cup {item}
                           /\ UNCHANGED <<live, next, prev, child, info>>
  BY DEF AddLost
<1>2. Roots' = Roots /\ held' \cap lost' = {}
  BY <1>1, RootTaken DEF Roots
<1>3. info \in [Items -> Info] /\ \A x \in Items \ live : info[x] = Blank
  BY DEF Inductive
<1>4. QED
  BY <1>1, <1>2, <1>3, SamePointers

\* An item made on the way is added: a leaf, or a reference.
LEMMA AddMadeStep ==
  ASSUME Inductive, NEW array \in live, ~info[array].ref, NEW i \in Items \ live,
         NEW first \in Maybe(Items), AppendTo(array, i, first),
         live' = live \cup {i}, UNCHANGED <<held, lost>>,
         NEW of \in Info, info' = [info EXCEPT ![i] = of], of.ref \/ first = NULL
  PROVE  Inductive'
<1>1. /\ live \subseteq Items /\ held \cap lost = {}
      /\ info \in [Items -> Info] /\ \A x \in Items \ live : info[x] = Blank
      /\ child \in [Items -> Maybe(Items)]
  BY Facts DEF Inductive
<1>2. info' \in [Items -> Info] /\ \A x \in Items \ live' : info'[x] = Blank
  BY <1>1
<1>3. child'[i] = first
  <2>1. i # array
    OBVIOUS
  <2>2. CASE child[array] = NULL
    BY <2>1, <2>2, <1>1 DEF AppendTo
  <2>3. CASE child[array] # NULL
    BY <2>3, <1>1 DEF AppendTo
  <2>4. QED
    BY <2>2, <2>3
<1>4. Own' = [x \in Items |-> IF x = i \/ info[x].ref THEN NULL ELSE child'[x]]
  <2>1. \A x \in Items : (IF info'[x].ref THEN NULL ELSE child'[x])
                         = IF x = i \/ info[x].ref THEN NULL ELSE child'[x]
    BY <1>1, <1>3
  <2>2. Own' = [x \in Items |-> IF info'[x].ref THEN NULL ELSE child'[x]]
    BY DEF Own
  <2>3. QED
    BY <2>1, <2>2
<1>5. /\ Forest(live \cup {i}, next', prev', Own', Roots)
      /\ next' \in [Items -> Maybe(Items)]
      /\ prev' \in [Items -> Maybe(Items)]
      /\ child' \in [Items -> Maybe(Items)]
  BY <1>4, AppendNew
<1>6. Roots' = Roots
  BY DEF Roots
<1>7. Forest(live', next', prev', Own', Roots')
  BY <1>5, <1>6
<1>8. QED
  BY <1>1, <1>2, <1>5, <1>7 DEF Inductive

\* The functions that create an item and add it under a name.
LEMMA AddNewToObjectStep == ASSUME Inductive, AddNewToObject PROVE Inductive'
<1>1. PICK object \in live, i \in Items \ live, name \in Names, text \in Texts :
        /\ ~info[object].ref
        /\ live' = live \cup {i}
        /\ AppendTo(object, i, NULL)
        /\ info' = [info EXCEPT ![i] = [Blank EXCEPT !.name = name, !.text = text]]
        /\ UNCHANGED <<held, lost>>
  BY DEF AddNewToObject
<1>2. [Blank EXCEPT !.name = name, !.text = text] \in Info
  BY TextsAssumption DEF Blank, Info, Maybe
<1>3. NULL \in Maybe(Items)
  BY DEF Maybe
<1>4. QED
  BY <1>1, <1>2, <1>3, AddMadeStep

\* A reference added to an array or an object.
LEMMA AddReferenceStep == ASSUME Inductive, AddReference PROVE Inductive'
<1>1. PICK array \in live, item \in live, i \in Items \ live, name \in Maybe(Names) :
        /\ ~info[array].ref
        /\ live' = live \cup {i}
        /\ AppendTo(array, i, child[item])
        /\ info' = [info EXCEPT ![i] = [info[item] EXCEPT !.name = name, !.ref = TRUE,
                                                          !.const = @ /\ name = NULL]]
        /\ UNCHANGED <<held, lost>>
  BY DEF AddReference
<1> DEFINE of == [info[item] EXCEPT !.name = name, !.ref = TRUE, !.const = @ /\ name = NULL]
<1>2. child[item] \in Maybe(Items) /\ info[item] \in Info
  BY Facts DEF Inductive
<1>3. of \in Info /\ of.ref
  BY <1>2 DEF Info
<1> HIDE DEF of
<1>4. info' = [info EXCEPT ![i] = of]
  BY <1>1 DEF of
<1>5. QED
  BY <1>1, <1>2, <1>3, <1>4, AddMadeStep

\* A reference whose name cannot be copied.
LEMMA AddReferenceLostStep == ASSUME Inductive, AddReferenceLost PROVE Inductive'
<1>1. PICK item \in live, i \in Items \ live :
        /\ live' = live \cup {i}
        /\ child' = [child EXCEPT ![i] = child[item]]
        /\ info' = [info EXCEPT ![i] = [info[item] EXCEPT !.name = NULL, !.ref = TRUE]]
        /\ lost' = lost \cup {i}
        /\ UNCHANGED <<next, prev, held>>
  BY DEF AddReferenceLost
<1> DEFINE of == [info[item] EXCEPT !.name = NULL, !.ref = TRUE]
<1>2. /\ live \subseteq Items /\ NULL \notin Items /\ Roots \subseteq live
      /\ Forest(live, next, prev, Own, Roots)
      /\ next \in [Items -> Maybe(Items)] /\ prev \in [Items -> Maybe(Items)]
      /\ child \in [Items -> Maybe(Items)] /\ info \in [Items -> Info]
      /\ \A x \in Items \ live : info[x] = Blank
      /\ held \cap lost = {}
      /\ \A x \in Items : Own[x] = IF info[x].ref THEN NULL ELSE child[x]
      /\ Own[i] = NULL
  BY Facts DEF Inductive, Pointers
<1>3. of \in Info /\ of.ref
  <2>1. info[item] \in Info /\ NULL \in Maybe(Names)
    BY <1>2 DEF Maybe
  <2>2. QED
    BY <2>1 DEF Info
<1> HIDE DEF of
<1>4. info' = [info EXCEPT ![i] = of]
  BY <1>1 DEF of
<1>5. /\ info' \in [Items -> Info] /\ child' \in [Items -> Maybe(Items)]
      /\ \A x \in Items \ live' : info'[x] = Blank
  BY <1>1, <1>2, <1>3, <1>4
<1>6. Own' = Own
  <2>1. info'[i].ref /\ \A x \in Items : x # i => info'[x] = info[x] /\ child'[x] = child[x]
    BY <1>1, <1>2, <1>3, <1>4
  <2>2. \A x \in Items : Own[x] = IF info'[x].ref THEN NULL ELSE child'[x]
    BY <2>1, <1>2
  <2>3. Own' = [x \in Items |-> IF info'[x].ref THEN NULL ELSE child'[x]]
    BY DEF Own
  <2>4. Own = [x \in Items |-> Own[x]]
    BY DEF Own
  <2>5. QED
    BY <2>2, <2>3, <2>4
<1>7. Roots' = Roots \cup {i} /\ held' \cap lost' = {}
  BY <1>1, <1>2 DEF Roots
<1>8. Forest(live \cup {i}, next, prev, Own, Roots \cup {i})
  BY <1>2, NewRoot
<1>9. Forest(live', next', prev', Own', Roots')
  BY <1>1, <1>6, <1>7, <1>8
<1>10. QED
  BY <1>1, <1>2, <1>5, <1>7, <1>9 DEF Inductive

\* The pointers when an item is out of the list of p.
NextOut(item) == [x \in Items |-> IF x = item THEN NULL
                                  ELSE IF x = prev[item] THEN next[item] ELSE next[x]]
PrevOut(item) == [x \in Items |-> IF x = item THEN NULL
                                  ELSE IF x = next[item] THEN prev[item] ELSE prev[x]]
OwnOut(p, item) == [x \in Items |-> IF x = p /\ Own[x] = item THEN next[item] ELSE Own[x]]

\* It is a root then.
LEMMA Unlinked ==
  ASSUME Inductive, NEW p \in live, ~info[p].ref, NEW item \in Children(p)
  PROVE  /\ Forest(live, NextOut(item), PrevOut(item), OwnOut(p, item), Roots \cup {item})
         /\ NextOut(item) \in [Items -> Maybe(Items)]
         /\ PrevOut(item) \in [Items -> Maybe(Items)]
         /\ OwnOut(p, item) \in [Items -> Maybe(Items)]
<1>1. /\ item \in live /\ item \notin Roots /\ (prev[item] = NULL => Own[p] = item)
      /\ Forest(live, next, prev, Own, Roots)
  BY ChildFacts DEF Inductive
<1>2. Forest(live, NextOut(item), PrevOut(item), OwnOut(p, item), Roots \cup {item})
  BY <1>1, TakeOut DEF NextOut, PrevOut, OwnOut
<1>3. QED
  BY <1>2 DEF Forest, Pointers

\* What is below another item is not touched.
LEMMA StillBelow ==
  ASSUME Inductive, NEW p \in live, ~info[p].ref, NEW item \in Children(p),
         NEW r \in live, NEW T \in SUBSET live, Subtree(T, r, next, Own),
         p \notin T, prev[item] \notin T, r = item \/ item \notin T
  PROVE  Subtree(T, r, NextOut(item), OwnOut(p, item))
<1>1. live \subseteq Items
  BY Facts
<1>2. /\ \A x \in T : x # item => NextOut(item)[x] = next[x]
      /\ \A x \in T : OwnOut(p, item)[x] = Own[x]
  BY <1>1 DEF NextOut, OwnOut
<1>3. \A x \in T : x # r => x # item
  OBVIOUS
<1>4. QED
  BY <1>2, <1>3 DEF Subtree

\* The Detach functions.
LEMMA DetachStep == ASSUME Inductive, Detach PROVE Inductive'
<1>1. PICK p \in live : /\ ~info[p].ref
                        /\ \E item \in Children(p) : /\ Unlink(p, item, {})
                                                     /\ held' = held \cup {item}
                        /\ UNCHANGED <<live, info, lost>>
  BY DEF Detach
<1>2. PICK item \in Children(p) : Unlink(p, item, {}) /\ held' = held \cup {item}
  BY <1>1
<1>3. /\ Forest(live, NextOut(item), PrevOut(item), OwnOut(p, item), Roots \cup {item})
      /\ NextOut(item) \in [Items -> Maybe(Items)]
      /\ PrevOut(item) \in [Items -> Maybe(Items)]
  BY <1>1, Unlinked
<1>4. /\ item \in live /\ item \notin Roots
      /\ next[item] \in Maybe(Items)
      /\ child \in [Items -> Maybe(Items)] /\ info \in [Items -> Info]
      /\ \A x \in Items \ live : info[x] = Blank
      /\ held \cap lost = {}
      /\ Own[p] = child[p]
      /\ \A x \in Items : Own[x] = IF info[x].ref THEN NULL ELSE child[x]
  BY <1>1, Facts, ChildFacts, ChildSet DEF Inductive
<1>5. /\ next' = NextOut(item) /\ prev' = PrevOut(item)
      /\ child' = [x \in Items |-> IF x = p /\ child[x] = item THEN next[item] ELSE child[x]]
  BY <1>2 DEF Unlink, NextOut, PrevOut
<1>6. child' \in [Items -> Maybe(Items)]
  BY <1>4, <1>5
<1>7. Own' = OwnOut(p, item)
  <2>1. Own' = [x \in Items |-> IF info[x].ref THEN NULL ELSE child'[x]]
    BY <1>1 DEF Own
  <2>2. \A x \in Items : (IF info[x].ref THEN NULL ELSE child'[x])
                         = IF x = p /\ Own[x] = item THEN next[item] ELSE Own[x]
    BY <1>1, <1>4, <1>5
  <2>3. QED
    BY <2>1, <2>2 DEF OwnOut
<1>8. Roots' = Roots \cup {item} /\ held' \cap lost' = {}
  BY <1>1, <1>2, <1>4 DEF Roots
<1>9. Forest(live', next', prev', Own', Roots')
  BY <1>1, <1>3, <1>5, <1>7, <1>8
<1>10. QED
  BY <1>1, <1>3, <1>4, <1>5, <1>6, <1>8, <1>9 DEF Inductive

\* What is freed is blank.
LEMMA FreeInfo ==
  ASSUME Inductive, NEW T \in SUBSET live, NEW new \in [Items -> Info],
         \A x \in Items : new[x].ref = info[x].ref, \A x \in Items \ live : new[x] = Blank,
         live' = live \ T, info' = [i \in Items |-> IF i \in T THEN Blank ELSE new[i]]
  PROVE  /\ info' \in [Items -> Info]
         /\ \A x \in Items \ live' : info'[x] = Blank
         /\ \A x \in T : ~info'[x].ref
         /\ \A x \in Items \ T : info'[x].ref = info[x].ref
<1>1. Blank \in Info /\ ~Blank.ref
  BY DEF Blank, Info, Maybe
<1>2. T \subseteq Items
  BY Facts
<1>3. QED
  BY <1>1, <1>2

\* The Delete functions for arrays and objects.
LEMMA DeleteItemStep == ASSUME Inductive, DeleteItem PROVE Inductive'
<1>1. PICK p \in live :
        /\ ~info[p].ref
        /\ \E item \in Children(p) : Unlink(p, item, Tree(item)) /\ Free(Tree(item))
        /\ UNCHANGED <<held, lost>>
  BY DEF DeleteItem
<1>2. PICK item \in Children(p) : Unlink(p, item, Tree(item)) /\ Free(Tree(item))
  BY <1>1
<1> DEFINE T == Tree(item)
<1>3. /\ item \in live /\ item \notin Roots
      /\ next[item] \in Maybe(Items)
      /\ child \in [Items -> Maybe(Items)] /\ info \in [Items -> Info]
      /\ \A x \in Items \ live : info[x] = Blank
      /\ held \cap lost = {}
      /\ Own[p] = child[p] /\ NULL \notin Items
      /\ \A x \in Items : Own[x] = IF info[x].ref THEN NULL ELSE child[x]
  BY <1>1, Facts, ChildFacts, ChildSet DEF Inductive
<1>4. /\ T \in SUBSET live /\ Subtree(T, item, next, Own)
      /\ p \notin T /\ prev[item] \notin T /\ next[item] \notin T
  BY <1>1, <1>3, TreeBelow, ParentOutside
<1>5. Forest(live, NextOut(item), PrevOut(item), OwnOut(p, item), Roots \cup {item})
  BY <1>1, Unlinked
<1>6. Subtree(T, item, NextOut(item), OwnOut(p, item)) /\ item \in T
  BY <1>1, <1>3, <1>4, StillBelow DEF Subtree
<1>7. /\ next' = [x \in Items |-> IF x \in T \cup {item} THEN NULL
                                  ELSE IF x = prev[item] THEN next[item] ELSE next[x]]
      /\ prev' = [x \in Items |-> IF x \in T \cup {item} THEN NULL
                                  ELSE IF x = next[item] THEN prev[item] ELSE prev[x]]
      /\ child' = [x \in Items |-> IF x \in T THEN NULL
                                   ELSE IF x = p /\ child[x] = item THEN next[item] ELSE child[x]]
      /\ live' = live \ T
      /\ info' = [i \in Items |-> IF i \in T THEN Blank ELSE info[i]]
  BY <1>2 DEF Unlink, Free
<1> HIDE DEF T
<1> DEFINE nx2 == [x \in Items |-> IF x \in T THEN NULL ELSE NextOut(item)[x]]
           pv2 == [x \in Items |-> IF x \in T THEN NULL ELSE PrevOut(item)[x]]
           oc2 == [x \in Items |-> IF x \in T THEN NULL ELSE OwnOut(p, item)[x]]
<1>8. Forest(live \ T, nx2, pv2, oc2, (Roots \cup {item}) \ {item})
  BY <1>4, <1>5, <1>6, FreeRoot
<1>9. next' = nx2 /\ prev' = pv2
  BY <1>6, <1>7 DEF NextOut, PrevOut
<1>10. /\ info' \in [Items -> Info]
       /\ \A x \in Items \ live' : info'[x] = Blank
       /\ \A x \in T : ~info'[x].ref
       /\ \A x \in Items \ T : info'[x].ref = info[x].ref
  BY <1>3, <1>4, <1>7, FreeInfo
<1>11. Own' = oc2
  <2>1. Own' = [x \in Items |-> IF info'[x].ref THEN NULL ELSE child'[x]]
    BY DEF Own
  <2>2. ASSUME NEW x \in Items, x \in T
        PROVE  (IF info'[x].ref THEN NULL ELSE child'[x]) = NULL
    BY <2>2, <1>7
  <2>3. ASSUME NEW x \in Items, x \notin T
        PROVE  (IF info'[x].ref THEN NULL ELSE child'[x]) = OwnOut(p, item)[x]
    BY <2>3, <1>1, <1>3, <1>7, <1>10 DEF OwnOut
  <2>4. QED
    BY <2>1, <2>2, <2>3
<1>12. child' \in [Items -> Maybe(Items)]
  BY <1>3, <1>7 DEF Maybe
<1>13. Roots' = (Roots \cup {item}) \ {item} /\ held' \cap lost' = {}
  BY <1>1, <1>3 DEF Roots
<1> HIDE DEF nx2, pv2, oc2
<1>14. Forest(live', next', prev', Own', Roots')
  BY <1>7, <1>8, <1>9, <1>11, <1>13
<1>15. next' \in [Items -> Maybe(Items)] /\ prev' \in [Items -> Maybe(Items)]
  BY <1>8, <1>9 DEF Forest, Pointers
<1>16. QED
  BY <1>10, <1>12, <1>13, <1>14, <1>15 DEF Inductive

\* cJSON_InsertItemInArray.
LEMMA InsertStep == ASSUME Inductive, Insert PROVE Inductive'
<1>1. PICK p \in live, r \in held : \E after \in Children(p) : InsertAtItem(p, after, r)
  BY DEF Insert
<1>2. PICK after \in Children(p) : /\ Adds(p, r)
                                   /\ InsertBefore(p, after, r)
                                   /\ held' = held \ {r}
                                   /\ UNCHANGED <<live, info, lost>>
  BY <1>1 DEF InsertAtItem
<1> DEFINE T == Tree(r)
           b == prev[after]
<1>3. /\ r \in live /\ r \in Roots /\ live \subseteq Items /\ NULL \notin Items /\ NULL \notin live
      /\ ~info[p].ref /\ p \notin T
      /\ next \in [Items -> Maybe(Items)] /\ prev \in [Items -> Maybe(Items)]
      /\ child \in [Items -> Maybe(Items)] /\ info \in [Items -> Info]
      /\ \A x \in Items \ live : info[x] = Blank
      /\ Forest(live, next, prev, Own, Roots)
      /\ \A x \in Items : Own[x] = IF info[x].ref THEN NULL ELSE child[x]
      /\ Roots' = Roots \ {r} /\ held' \cap lost' = {}
  BY <1>2, Facts, RootTaken DEF Inductive, Adds, Roots
<1>4. T \in SUBSET live /\ Subtree(T, r, next, Own) /\ r \in T
  BY <1>3, TreeBelow DEF Subtree
<1>5. /\ after \in live /\ after \notin Roots /\ after # NULL
      /\ b = NULL => Own[p] = after
      /\ b # NULL => b \in live /\ b \notin Roots /\ next[b] = after
  BY <1>3, ChildFacts
<1>6. b \notin T
  BY <1>3, <1>4, ChildOutside
<1>7. b \in Maybe(live) /\ after \in Maybe(live) /\ b \notin Roots /\ p # r /\ prev[after] = b
  BY <1>3, <1>4, <1>5 DEF Maybe, Forest
<1>8. Own[p] = after => b = NULL
  BY <1>3, <1>5 DEF Forest, Pointers
<1>9. /\ next' = [x \in Items |-> IF x = r THEN after ELSE IF x = b THEN r ELSE next[x]]
      /\ prev' = [x \in Items |-> IF x = r THEN b ELSE IF x = after THEN r ELSE prev[x]]
      /\ child' = [x \in Items |-> IF x = p /\ Own[p] = after THEN r ELSE child[x]]
  <2>1. r # after
    BY <1>3, <1>5
  <2>2. next' = [x \in Items |-> IF x = r THEN after ELSE IF x = b THEN r ELSE next[x]]
    BY <1>2 DEF InsertBefore
  <2>3. prev' = [x \in Items |-> IF x = r THEN b ELSE IF x = after THEN r ELSE prev[x]]
    BY <2>1, <1>2, <1>3 DEF InsertBefore
  <2>4. child' = [x \in Items |-> IF x = p /\ Own[p] = after THEN r ELSE child[x]]
    BY <1>2, <1>3 DEF InsertBefore
  <2>5. QED
    BY <2>2, <2>3, <2>4
<1> HIDE DEF T, b
<1> DEFINE oc2 == [x \in Items |-> IF x = p /\ b = NULL THEN r ELSE Own[x]]
<1>10. Forest(live, next', prev', oc2, Roots \ {r})
  BY <1>3, <1>4, <1>5, <1>6, <1>7, <1>9, Attach
<1>11. Own' = oc2
  <2>1. Own' = [x \in Items |-> IF info[x].ref THEN NULL ELSE child'[x]]
    BY <1>2 DEF Own
  <2>2. b = NULL <=> Own[p] = after
    BY <1>5, <1>8
  <2>3. \A x \in Items : (IF info[x].ref THEN NULL ELSE child'[x])
                         = IF x = p /\ b = NULL THEN r ELSE Own[x]
    BY <2>2, <1>3, <1>9
  <2>4. QED
    BY <2>1, <2>3
<1>12. child' \in [Items -> Maybe(Items)]
  BY <1>3, <1>9 DEF Maybe
<1> HIDE DEF oc2
<1>13. Forest(live', next', prev', Own', Roots')
  BY <1>2, <1>3, <1>10, <1>11
<1>14. next' \in [Items -> Maybe(Items)] /\ prev' \in [Items -> Maybe(Items)]
  BY <1>10 DEF Forest, Pointers
<1>15. QED
  BY <1>2, <1>3, <1>12, <1>13, <1>14 DEF Inductive

\* cJSON_ReplaceItemViaPointer, with the cJSON_Delete that ends it: one item is
\* taken out, the other put in its place, and the first freed.
LEMMA Substituted ==
  ASSUME Inductive, NEW p \in live, NEW r \in held, Adds(p, r), NEW item \in Children(p),
         Substitute(p, item, r, Tree(item))
  PROVE  /\ Forest(live \ Tree(item), next', prev',
                   [x \in Items |-> IF x \in Tree(item) \/ info[x].ref THEN NULL ELSE child'[x]],
                   Roots \ {r})
         /\ child' \in [Items -> Maybe(Items)]
         /\ \A x \in Tree(item) : child'[x] = NULL
         /\ r \notin Tree(item) /\ Tree(item) \in SUBSET live
<1> DEFINE D == Tree(item)
           T == Tree(r)
           b == prev[item]
           c == next[item]
           nx2 == NextOut(item)
           pv2 == PrevOut(item)
           oc2 == OwnOut(p, item)
           R2 == Roots \cup {item}
           nx3 == [x \in Items |-> IF x = r THEN c ELSE IF x = b THEN r ELSE nx2[x]]
           pv3 == [x \in Items |-> IF x = r THEN b ELSE IF x = c THEN r ELSE pv2[x]]
           oc3 == [x \in Items |-> IF x = p /\ b = NULL THEN r ELSE oc2[x]]
           nx4 == [x \in Items |-> IF x \in D THEN NULL ELSE nx3[x]]
           pv4 == [x \in Items |-> IF x \in D THEN NULL ELSE pv3[x]]
           oc4 == [x \in Items |-> IF x \in D THEN NULL ELSE oc3[x]]
<1>1. /\ r \in live /\ r \in Roots /\ live \subseteq Items /\ NULL \notin Items /\ NULL \notin live
      /\ ~info[p].ref /\ p \notin T
      /\ AreRoots(Roots, live, next, prev, Own) /\ Pointers(live, next, prev, Own)
      /\ child \in [Items -> Maybe(Items)]
      /\ \A x \in Items : Own[x] = IF info[x].ref THEN NULL ELSE child[x]
  BY Facts, RootTaken DEF Inductive, Adds
<1>2. T \in SUBSET live /\ Subtree(T, r, next, Own) /\ r \in T
  BY <1>1, TreeBelow DEF Subtree
<1>3. /\ item \in live /\ item \notin Roots
      /\ b = NULL => Own[p] = item
      /\ b # NULL => b \in live /\ b \notin Roots /\ next[b] = item
      /\ c # NULL => c \in live /\ c \notin Roots /\ prev[c] = item
  BY <1>1, ChildFacts
<1>4. /\ D \in SUBSET live /\ Subtree(D, item, next, Own) /\ item \in D
      /\ p \notin D /\ b \notin D /\ c \notin D
  BY <1>1, <1>3, TreeBelow, ParentOutside DEF Subtree
<1>5. item \notin T /\ b \notin T
  BY <1>1, <1>2, ChildOutside
<1>6. r \notin D /\ r # item
  BY <1>1, <1>3, <1>4 DEF Subtree, AreRoots, Pointers
<1>7. Forest(live, nx2, pv2, oc2, R2)
  BY <1>1, Unlinked
<1>8. Subtree(T, r, nx2, oc2)
  BY <1>1, <1>2, <1>5, StillBelow
<1>9. Subtree(D, item, nx2, oc2)
  BY <1>1, <1>3, <1>4, StillBelow
<1>10. Own[p] = item => b = NULL
  BY <1>1, <1>3 DEF Pointers
<1> HIDE DEF D, T, b, c
<1>11. /\ b # NULL => nx2[b] = c
       /\ c # NULL => pv2[c] = b
       /\ b = NULL => oc2[p] = c
  BY <1>1, <1>3, <1>4 DEF NextOut, PrevOut, OwnOut, b, c
<1>12. /\ b \in Maybe(live) /\ c \in Maybe(live) /\ b \notin R2 /\ c \notin R2 /\ r \in R2
  <2>1. NULL \notin Roots
    BY <1>1, Facts
  <2>2. b # item /\ c # item
    BY <1>4
  <2>3. b \notin Roots /\ c \notin Roots
    BY <2>1, <1>3 DEF b, c
  <2>4. b \in Maybe(live) /\ c \in Maybe(live)
    BY <1>3 DEF Maybe, b, c
  <2>5. QED
    BY <2>2, <2>3, <2>4, <1>1
<1>13. /\ nx2 = [x \in Items |-> IF x = item THEN NULL ELSE IF x = b THEN c ELSE next[x]]
       /\ pv2 = [x \in Items |-> IF x = item THEN NULL ELSE IF x = c THEN b ELSE prev[x]]
       /\ oc2 = [x \in Items |-> IF x = p /\ Own[x] = item THEN c ELSE Own[x]]
  BY DEF NextOut, PrevOut, OwnOut, b, c
<1> HIDE DEF nx2, pv2, oc2, R2
<1>14. Forest(live, nx3, pv3, oc3, R2 \ {r})
  BY <1>1, <1>2, <1>5, <1>7, <1>8, <1>11, <1>12, Attach
<1>15. Subtree(D, item, nx3, oc3)
  <2>1. \A x \in D : x \in Items /\ nx3[x] = nx2[x] /\ oc3[x] = oc2[x]
    BY <1>1, <1>4, <1>6
  <2> HIDE DEF nx3, oc3
  <2>2. QED
    BY <2>1, <1>9 DEF Subtree
<1>16. item \in R2 \ {r}
  BY <1>6 DEF R2
<1>17. Forest(live \ D, nx4, pv4, oc4, (R2 \ {r}) \ {item})
  <2> HIDE DEF nx3, pv3, oc3
  <2>1. QED
    BY <1>4, <1>14, <1>15, <1>16, FreeRoot
<1>18. (R2 \ {r}) \ {item} = Roots \ {r}
  BY <1>3 DEF R2
<1>19. /\ next' = [x \in Items |-> IF x \in D THEN NULL
                                   ELSE IF x = r THEN c
                                   ELSE IF x = b THEN r ELSE next[x]]
       /\ prev' = [x \in Items |-> IF x \in D THEN NULL
                                   ELSE IF x = r THEN b
                                   ELSE IF x = c THEN r ELSE prev[x]]
       /\ child' = [x \in Items |-> IF x \in D THEN NULL
                                    ELSE IF x = p /\ child[x] = item THEN r ELSE child[x]]
  BY DEF Substitute, D, b, c
<1>20. next' = nx4 /\ prev' = pv4
  BY <1>4, <1>13, <1>19
<1>21. oc4 = [x \in Items |-> IF x \in D \/ info[x].ref THEN NULL ELSE child'[x]]
  <2>1. ASSUME NEW x \in Items, x \notin D
        PROVE  oc3[x] = IF info[x].ref THEN NULL ELSE child'[x]
    <3>1. CASE x = p
      BY <2>1, <3>1, <1>1, <1>3, <1>10, <1>13, <1>19
    <3>2. CASE x # p
      BY <2>1, <3>2, <1>1, <1>13, <1>19
    <3>3. QED
      BY <3>1, <3>2
  <2> HIDE DEF oc3
  <2>2. QED
    BY <2>1
<1>22. child' \in [Items -> Maybe(Items)] /\ \A x \in D : child'[x] = NULL
  BY <1>1, <1>4, <1>19 DEF Maybe
<1> HIDE DEF nx4, pv4, oc4
<1>23. Forest(live \ D, next', prev',
              [x \in Items |-> IF x \in D \/ info[x].ref THEN NULL ELSE child'[x]], Roots \ {r})
  BY <1>17, <1>18, <1>20, <1>21
<1>24. QED
  BY <1>4, <1>6, <1>22, <1>23 DEF D

\* The Replace functions, with and without a name.
LEMMA SubstituteStep ==
  ASSUME Inductive, NEW p \in live, NEW r \in held, Adds(p, r), NEW item \in Children(p),
         Substitute(p, item, r, Tree(item)), live' = live \ Tree(item),
         NEW new \in [Items -> Info],
         \A x \in Items : new[x].ref = info[x].ref, \A x \in Items \ live : new[x] = Blank,
         info' = [i \in Items |-> IF i \in Tree(item) THEN Blank ELSE new[i]],
         held' = held \ {r}, lost' = lost
  PROVE  Inductive'
<1> DEFINE D == Tree(item)
           oc2 == [x \in Items |-> IF x \in D \/ info[x].ref THEN NULL ELSE child'[x]]
<1>1. /\ Forest(live \ D, next', prev', oc2, Roots \ {r})
      /\ child' \in [Items -> Maybe(Items)]
      /\ \A x \in D : child'[x] = NULL
      /\ D \in SUBSET live
  BY Substituted
<1>2. live' = live \ D /\ info' = [i \in Items |-> IF i \in D THEN Blank ELSE new[i]]
  OBVIOUS
<1> HIDE DEF D
<1>3. /\ info' \in [Items -> Info]
      /\ \A x \in Items \ live' : info'[x] = Blank
      /\ \A x \in D : ~info'[x].ref
      /\ \A x \in Items \ D : info'[x].ref = info[x].ref
  BY <1>1, <1>2, FreeInfo
<1>4. Own' = oc2
  <2>1. Own' = [x \in Items |-> IF info'[x].ref THEN NULL ELSE child'[x]]
    BY DEF Own
  <2>2. \A x \in Items : (IF info'[x].ref THEN NULL ELSE child'[x])
                         = IF x \in D \/ info[x].ref THEN NULL ELSE child'[x]
    BY <1>1, <1>3
  <2>3. QED
    BY <2>1, <2>2
<1>5. Roots' = Roots \ {r} /\ held' \cap lost' = {}
  BY RootTaken DEF Roots
<1> HIDE DEF oc2
<1>6. Forest(live', next', prev', Own', Roots')
  BY <1>1, <1>2, <1>4, <1>5
<1>7. next' \in [Items -> Maybe(Items)] /\ prev' \in [Items -> Maybe(Items)]
  BY <1>1 DEF Forest, Pointers
<1>8. QED
  BY <1>1, <1>3, <1>5, <1>6, <1>7 DEF Inductive

\* The Replace functions for arrays.
LEMMA ReplaceStep == ASSUME Inductive, Replace PROVE Inductive'
<1>1. PICK p \in live, r \in held :
        /\ Adds(p, r)
        /\ \E item \in Children(p) : Substitute(p, item, r, Tree(item)) /\ Free(Tree(item))
        /\ held' = held \ {r}
        /\ UNCHANGED lost
  BY DEF Replace
<1>2. PICK item \in Children(p) : Substitute(p, item, r, Tree(item)) /\ Free(Tree(item))
  BY <1>1
<1>3. /\ live' = live \ Tree(item)
      /\ info' = [i \in Items |-> IF i \in Tree(item) THEN Blank ELSE info[i]]
  BY <1>2 DEF Free
<1>4. info \in [Items -> Info] /\ \A x \in Items \ live : info[x] = Blank
  BY DEF Inductive
<1>5. QED
  BY <1>1, <1>2, <1>3, <1>4, SubstituteStep

\* The Replace functions for objects: the replacement has a new name too.
LEMMA ReplaceInObjectStep == ASSUME Inductive, ReplaceInObject PROVE Inductive'
<1>1. PICK p \in live, r \in held, name \in Names, case \in BOOLEAN :
        \E key \in {name, NULL} : ReplaceNamed(p, name, case, key, r)
  BY DEF ReplaceInObject
<1>2. PICK key \in {name, NULL} : ReplaceNamed(p, name, case, key, r)
  BY <1>1
<1>3. PICK item \in GetObjectItem(p, name, case) :
        /\ Substitute(p, item, r, Tree(item))
        /\ live' = live \ Tree(item)
        /\ info' = Renamed(r, key, [i \in Items |-> IF i \in Tree(item) THEN Blank ELSE info[i]])
  BY <1>2 DEF ReplaceNamed
<1>4. Adds(p, r) /\ held' = held \ {r} /\ lost' = lost
  BY <1>2 DEF ReplaceNamed
<1>5. item \in Children(p)
  BY DEF GetObjectItem
<1>6. r \notin Tree(item) /\ Tree(item) \subseteq live
  BY <1>3, <1>4, <1>5, Substituted
<1>7. r \in live /\ live \subseteq Items /\ info \in [Items -> Info]
  BY Facts, RootTaken DEF Inductive
<1> DEFINE new == NewNameOf(r, key, FALSE)
<1>8. key \in Maybe(Names)
  BY DEF Maybe
<1>9. /\ new \in [Items -> Info] /\ \A x \in Items : new[x].ref = info[x].ref
      /\ \A x \in Items \ live : new[x] = Blank
      /\ \A x \in Items : x # r => new[x] = info[x]
  BY <1>7, <1>8, NewName
<1>10. new[r] = [info[r] EXCEPT !.name = key, !.const = FALSE]
  <2>1. info[r] \in Info
    BY <1>7
  <2>2. QED
    BY <2>1, <1>7 DEF NewNameOf, Info
<1> DEFINE T == Tree(item)
           freed == [i \in Items |-> IF i \in T THEN Blank ELSE info[i]]
<1>11. info' = [freed EXCEPT ![r].name = key, ![r].const = FALSE]
  BY <1>3 DEF Renamed
<1> HIDE DEF new, T
<1>12. freed[r] = info[r] /\ info[r] \in Info
  BY <1>6, <1>7 DEF T
<1>13. info' = [freed EXCEPT ![r] = new[r]]
  BY <1>7, <1>10, <1>11, <1>12 DEF Info
<1>14. info' = [i \in Items |-> IF i \in T THEN Blank ELSE new[i]]
  <2>1. r \notin T
    BY <1>6 DEF T
  <2>2. \A x \in Items : info'[x] = IF x \in T THEN Blank ELSE new[x]
    BY <2>1, <1>9, <1>13
  <2>3. info' = [x \in Items |-> info'[x]]
    BY <1>13
  <2>4. QED
    BY <2>2, <2>3
<1>15. QED
  BY <1>3, <1>4, <1>5, <1>9, <1>14, SubstituteStep DEF T

\* A replacement under a name that is not there.
LEMMA ReplaceInObjectMissedStep == ASSUME Inductive, ReplaceInObjectMissed PROVE Inductive'
<1>1. PICK r \in held, name \in Names :
        /\ \E key \in {name, NULL} : info' = Renamed(r, key, info)
        /\ held' = held \ {r}
        /\ lost' = lost \cup {r}
        /\ UNCHANGED <<live, next, prev, child>>
  BY DEF ReplaceInObjectMissed
<1>2. PICK key \in {name, NULL} : info' = Renamed(r, key, info)
  BY <1>1
<1>3. Roots' = Roots /\ held' \cap lost' = {} /\ r \in live
  BY <1>1, RootTaken DEF Roots
<1> DEFINE new == NewNameOf(r, key, FALSE)
<1>4. key \in Maybe(Names)
  BY DEF Maybe
<1>5. /\ new \in [Items -> Info] /\ \A x \in Items : new[x].ref = info[x].ref
      /\ \A x \in Items \ live : new[x] = Blank
  BY <1>3, <1>4, NewName
<1>6. info' = new
  BY <1>2 DEF NewNameOf, Renamed
<1> HIDE DEF new
<1>7. QED
  BY <1>1, <1>3, <1>5, <1>6, SamePointers

\* cJSON_Delete.
LEMMA DeleteStep == ASSUME Inductive, Delete PROVE Inductive'
<1>1. PICK r \in held :
        LET freed == Freed(r)
            Kept(f) == [i \in Items |-> IF i \in freed THEN NULL ELSE f[i]]
        IN /\ Free(freed)
           /\ next' = Kept(next) /\ prev' = Kept(prev) /\ child' = Kept(child)
           /\ held' = held \ {r}
           /\ UNCHANGED lost
  BY DEF Delete
<1> DEFINE D == Freed(r)
           nx2 == [x \in Items |-> IF x \in D THEN NULL ELSE next[x]]
           pv2 == [x \in Items |-> IF x \in D THEN NULL ELSE prev[x]]
           oc2 == [x \in Items |-> IF x \in D THEN NULL ELSE Own[x]]
<1>2. /\ live' = live \ D
      /\ info' = [i \in Items |-> IF i \in D THEN Blank ELSE info[i]]
      /\ next' = nx2 /\ prev' = pv2
      /\ child' = [x \in Items |-> IF x \in D THEN NULL ELSE child[x]]
      /\ held' = held \ {r} /\ lost' = lost
  BY <1>1 DEF Free
<1>3. /\ r \in live /\ r \in Roots /\ NULL \notin live /\ NULL \notin Items
      /\ Forest(live, next, prev, Own, Roots)
      /\ AreRoots(Roots, live, next, prev, Own)
      /\ info \in [Items -> Info] /\ \A x \in Items \ live : info[x] = Blank
      /\ child \in [Items -> Maybe(Items)]
      /\ \A x \in Items : Own[x] = IF info[x].ref THEN NULL ELSE child[x]
  BY Facts, RootTaken DEF Inductive
<1>4. D \in SUBSET live /\ Subtree(D, r, next, Own)
  <2>1. /\ D \subseteq live /\ r \in D
        /\ \A x \in D : next[x] \in Maybe(D) /\ Own[x] \in Maybe(D)
        /\ \A y \in D \ {r} : \E x \in D : next[x] = y \/ Own[x] = y
    BY <1>3, FreedSet
  <2> HIDE DEF D
  <2>2. next[r] = NULL
    BY <1>3 DEF AreRoots
  <2>3. \A y \in D \ {r} : (\E x \in D \ {r} : next[x] = y) \/ (\E p \in D : Own[p] = y)
    BY <2>1, <2>2, <1>3
  <2>4. QED
    BY <2>1, <2>3 DEF Subtree
<1> HIDE DEF D
<1>5. Forest(live \ D, nx2, pv2, oc2, Roots \ {r})
  BY <1>3, <1>4, FreeRoot
<1>6. /\ info' \in [Items -> Info]
      /\ \A x \in Items \ live' : info'[x] = Blank
      /\ \A x \in D : ~info'[x].ref
      /\ \A x \in Items \ D : info'[x].ref = info[x].ref
  BY <1>2, <1>3, <1>4, FreeInfo
<1>7. Own' = oc2
  <2>1. Own' = [x \in Items |-> IF info'[x].ref THEN NULL ELSE child'[x]]
    BY DEF Own
  <2>2. \A x \in Items : (IF info'[x].ref THEN NULL ELSE child'[x])
                         = IF x \in D THEN NULL ELSE Own[x]
    BY <1>2, <1>3, <1>6
  <2>3. QED
    BY <2>1, <2>2
<1>8. child' \in [Items -> Maybe(Items)]
  BY <1>2, <1>3 DEF Maybe
<1>9. Roots' = Roots \ {r} /\ held' \cap lost' = {}
  BY <1>2, RootTaken DEF Roots
<1> HIDE DEF nx2, pv2, oc2
<1>10. Forest(live', next', prev', Own', Roots')
  BY <1>2, <1>5, <1>7, <1>9
<1>11. next' \in [Items -> Maybe(Items)] /\ prev' \in [Items -> Maybe(Items)]
  BY <1>2, <1>5 DEF Forest, Pointers
<1>12. QED
  BY <1>6, <1>8, <1>9, <1>10, <1>11 DEF Inductive

\* Items that are made at once are a forest of their own.
LEMMA MadeStep ==
  ASSUME Inductive, NEW M \in SUBSET (Items \ live), NEW nx, NEW pv, NEW oc, NEW Q,
         Forest(M, nx, pv, oc, Q),
         \A x \in Items : next'[x] = IF x \in M THEN nx[x] ELSE next[x],
         \A x \in Items : prev'[x] = IF x \in M THEN pv[x] ELSE prev[x],
         \A x \in Items : child'[x] = IF x \in M THEN oc[x] ELSE child[x],
         next' \in [Items -> Maybe(Items)], prev' \in [Items -> Maybe(Items)],
         child' \in [Items -> Maybe(Items)], info' \in [Items -> Info],
         \A x \in M : ~info'[x].ref, \A x \in Items \ M : info'[x] = info[x],
         live' = live \cup M, held' = held \cup Q, lost' = lost
  PROVE  Inductive'
<1> DEFINE nx2 == [x \in Items |-> IF x \in M THEN nx[x] ELSE next[x]]
           pv2 == [x \in Items |-> IF x \in M THEN pv[x] ELSE prev[x]]
           oc2 == [x \in Items |-> IF x \in M THEN oc[x] ELSE Own[x]]
<1>1. /\ live \subseteq Items /\ NULL \notin Items /\ Roots \subseteq live
      /\ Forest(live, next, prev, Own, Roots)
      /\ \A x \in Items \ live : info[x] = Blank
      /\ held \cap lost = {} /\ live \cap M = {}
      /\ \A x \in Items : Own[x] = IF info[x].ref THEN NULL ELSE child[x]
  BY Facts DEF Inductive
<1>2. Forest(live \cup M, nx2, pv2, oc2, Roots \cup Q)
  BY <1>1, Unite
<1>3. next' = nx2 /\ prev' = pv2
  <2>1. next' = [x \in Items |-> next'[x]] /\ prev' = [x \in Items |-> prev'[x]]
    OBVIOUS
  <2>2. QED
    BY <2>1
<1>4. Own' = oc2
  <2>1. Own' = [x \in Items |-> IF info'[x].ref THEN NULL ELSE child'[x]]
    BY DEF Own
  <2>2. \A x \in Items : (IF info'[x].ref THEN NULL ELSE child'[x])
                         = IF x \in M THEN oc[x] ELSE Own[x]
    BY <1>1
  <2>3. QED
    BY <2>1, <2>2
<1>5. Q \subseteq M
  BY DEF Forest
<1>6. Roots' = Roots \cup Q /\ held' \cap lost' = {}
  BY <1>1, <1>5 DEF Roots
<1>7. \A x \in Items \ live' : info'[x] = Blank
  BY <1>1
<1> HIDE DEF nx2, pv2, oc2
<1>8. Forest(live', next', prev', Own', Roots')
  BY <1>2, <1>3, <1>4, <1>6
<1>9. QED
  BY <1>6, <1>7, <1>8 DEF Inductive

\* The index of an item of an injection.
LEMMA ChooseIndex ==
  ASSUME NEW S, NEW a, \A j, k \in S : a[j] = a[k] => j = k, NEW K \in SUBSET S, NEW k \in K
  PROVE  (CHOOSE j \in K : a[j] = a[k]) = k
<1>1. \E j \in K : a[j] = a[k]
  OBVIOUS
<1>2. QED
  BY <1>1

\* The CreateArray functions.
LEMMA CreateArrayStep == ASSUME Inductive, CreateArray PROVE Inductive'
<1>1. PICK n \in 1..MaxArray, text \in Texts :
        \E a \in Injection(0..n, Items \ live) :
          /\ live' = live \cup Range(a)
          /\ child' = [child EXCEPT ![a[0]] = a[1]]
          /\ next' = [i \in Items |-> IF \E k \in 1..n-1 : a[k] = i
                                      THEN a[1 + CHOOSE k \in 1..n-1 : a[k] = i] ELSE next[i]]
          /\ prev' = [i \in Items |-> IF \E k \in 2..n : a[k] = i
                                      THEN a[(CHOOSE k \in 2..n : a[k] = i) - 1] ELSE prev[i]]
          /\ info' = [i \in Items |-> IF \E k \in 1..n : a[k] = i
                                      THEN [Blank EXCEPT !.text = text] ELSE info[i]]
          /\ blocks' = blocks + IF text THEN n ELSE 0
          /\ held' = held \cup {a[0]}
          /\ UNCHANGED lost
  BY DEF CreateArray
<1>2. PICK a \in Injection(0..n, Items \ live) :
          /\ live' = live \cup Range(a)
          /\ child' = [child EXCEPT ![a[0]] = a[1]]
          /\ next' = [i \in Items |-> IF \E k \in 1..n-1 : a[k] = i
                                      THEN a[1 + CHOOSE k \in 1..n-1 : a[k] = i] ELSE next[i]]
          /\ prev' = [i \in Items |-> IF \E k \in 2..n : a[k] = i
                                      THEN a[(CHOOSE k \in 2..n : a[k] = i) - 1] ELSE prev[i]]
          /\ info' = [i \in Items |-> IF \E k \in 1..n : a[k] = i
                                      THEN [Blank EXCEPT !.text = text] ELSE info[i]]
          /\ held' = held \cup {a[0]}
          /\ UNCHANGED lost
  BY <1>1
<1> DEFINE M == Range(a)
<1>3. n \in Nat \ {0}
  BY BoundsAssumption
<1>4. /\ a \in [0..n -> Items \ live]
      /\ \A j, k \in 0..n : a[j] = a[k] => j = k
  BY DEF Injection, IsInjective
<1>5. /\ M \in SUBSET (Items \ live) /\ M \in SUBSET Items /\ a \in [0..n -> M]
      /\ \A x \in M : \E k \in 0..n : a[k] = x
      /\ \A k \in 0..n : a[k] \in M
  BY <1>4 DEF Range
<1> HIDE DEF M
<1>6. /\ live \subseteq Items /\ NULL \notin Items
      /\ next \in [Items -> Maybe(Items)] /\ prev \in [Items -> Maybe(Items)]
      /\ child \in [Items -> Maybe(Items)] /\ info \in [Items -> Info]
      /\ \A x \in Items \ live : info[x] = Blank
      /\ \A x \in Items \ live : next[x] = NULL /\ prev[x] = NULL /\ Own[x] = NULL
      /\ \A x \in Items : Own[x] = IF info[x].ref THEN NULL ELSE child[x]
  BY Facts DEF Inductive, Pointers
<1>7. \A x \in Items \ live : child[x] = NULL
  BY <1>6 DEF Blank
<1>8. /\ n \in Nat /\ n >= 1 /\ 0 \in 0..n /\ 1 \in 0..n /\ n \in 0..n
      /\ \A k \in 0..n : k \in Nat /\ k <= n
      /\ \A k \in 1..n-1 : k \in 0..n /\ k + 1 \in 0..n /\ k # 0 /\ k # n /\ 1 + k = k + 1
      /\ \A k \in 2..n : k \in 0..n /\ k - 1 \in 0..n /\ ~(k < 2)
      /\ \A k \in 1..n : k \in 0..n /\ k # 0
      /\ \A k \in 0..n : k # 0 /\ k # n => k \in 1..n-1
      /\ \A k \in 0..n : ~(k < 2) => k \in 2..n
      /\ \A k \in 0..n : k # 0 => k \in 1..n
      /\ 1..n-1 \in SUBSET (0..n) /\ 2..n \in SUBSET (0..n)
  BY <1>3
<1>9. \A k \in 0..n : next'[a[k]] = IF k = 0 \/ k = n THEN NULL ELSE a[k + 1]
  <2> SUFFICES ASSUME NEW k \in 0..n
               PROVE  next'[a[k]] = IF k = 0 \/ k = n THEN NULL ELSE a[k + 1]
    OBVIOUS
  <2>1. /\ a[k] \in Items /\ a[k] \in Items \ live
        /\ next'[a[k]] = IF \E j \in 1..n-1 : a[j] = a[k]
                         THEN a[1 + CHOOSE j \in 1..n-1 : a[j] = a[k]] ELSE next[a[k]]
    BY <1>2, <1>4, <1>5
  <2>2. CASE k = 0 \/ k = n
    <3>1. ~\E j \in 1..n-1 : a[j] = a[k]
      BY <2>2, <1>4, <1>8
    <3>2. QED
      BY <3>1, <2>1, <2>2, <1>6
  <2>3. CASE ~(k = 0 \/ k = n)
    <3>1. k \in 1..n-1
      BY <2>3, <1>8
    <3>2. (CHOOSE j \in 1..n-1 : a[j] = a[k]) = k
      BY <3>1, <1>4, <1>8, ChooseIndex
    <3>3. (\E j \in 1..n-1 : a[j] = a[k]) /\ 1 + k = k + 1
      BY <3>1, <1>8
    <3>4. QED
      BY <3>2, <3>3, <2>1, <2>3
  <2>4. QED
    BY <2>2, <2>3
<1>10. \A k \in 0..n : prev'[a[k]] = IF k < 2 THEN NULL ELSE a[k - 1]
  <2> SUFFICES ASSUME NEW k \in 0..n
               PROVE  prev'[a[k]] = IF k < 2 THEN NULL ELSE a[k - 1]
    OBVIOUS
  <2>1. /\ a[k] \in Items /\ a[k] \in Items \ live
        /\ prev'[a[k]] = IF \E j \in 2..n : a[j] = a[k]
                         THEN a[(CHOOSE j \in 2..n : a[j] = a[k]) - 1] ELSE prev[a[k]]
    BY <1>2, <1>4, <1>5
  <2>2. CASE k < 2
    <3>1. ~\E j \in 2..n : a[j] = a[k]
      BY <2>2, <1>4, <1>8
    <3>2. QED
      BY <3>1, <2>1, <2>2, <1>6
  <2>3. CASE ~(k < 2)
    <3>1. k \in 2..n
      BY <2>3, <1>8
    <3>2. (CHOOSE j \in 2..n : a[j] = a[k]) = k
      BY <3>1, <1>4, <1>8, ChooseIndex
    <3>3. \E j \in 2..n : a[j] = a[k]
      BY <3>1
    <3>4. QED
      BY <3>2, <3>3, <2>1, <2>3
  <2>4. QED
    BY <2>2, <2>3
<1>11. \A k \in 0..n : child'[a[k]] = IF k = 0 THEN a[1] ELSE NULL
  BY <1>2, <1>4, <1>6, <1>7, <1>8
<1>12. \A x \in Items \ M : next'[x] = next[x] /\ prev'[x] = prev[x] /\ child'[x] = child[x]
                            /\ info'[x] = info[x]
  <2> SUFFICES ASSUME NEW x \in Items \ M
               PROVE  next'[x] = next[x] /\ prev'[x] = prev[x] /\ child'[x] = child[x]
                      /\ info'[x] = info[x]
    OBVIOUS
  <2>1. \A k \in 0..n : a[k] # x
    BY <1>5
  <2>2. /\ ~\E k \in 1..n-1 : a[k] = x
        /\ ~\E k \in 2..n : a[k] = x
        /\ ~\E k \in 1..n : a[k] = x
        /\ a[0] # x
    BY <2>1, <1>8
  <2>3. QED
    BY <2>2, <1>2, <1>6
<1>13. \A x \in M : info'[x] \in Info /\ ~info'[x].ref
  <2> SUFFICES ASSUME NEW x \in M PROVE info'[x] \in Info /\ ~info'[x].ref
    OBVIOUS
  <2>1. x \in Items /\ x \notin live /\ info[x] = Blank
    BY <1>5, <1>6
  <2>2. info'[x] = [Blank EXCEPT !.text = text] \/ info'[x] = Blank
    BY <2>1, <1>2
  <2>3. [Blank EXCEPT !.text = text] \in Info /\ ~[Blank EXCEPT !.text = text].ref
    BY TextsAssumption DEF Blank, Info, Maybe
  <2>4. Blank \in Info /\ ~Blank.ref
    BY DEF Blank, Info, Maybe
  <2>5. QED
    BY <2>2, <2>3, <2>4
<1>14. info' \in [Items -> Info]
  <2>1. \A x \in Items : info'[x] \in Info
    BY <1>6, <1>12, <1>13
  <2>2. info' = [x \in Items |-> info'[x]]
    BY <1>2
  <2>3. QED
    BY <2>1, <2>2
<1>15. /\ \A k \in 0..n : /\ next'[a[k]] \in Maybe(Items)
                          /\ prev'[a[k]] \in Maybe(Items)
                          /\ child'[a[k]] \in Maybe(Items)
  <2>1. \A k \in 0..n : a[k] \in Items
    BY <1>4
  <2>2. \A k \in 0..n : /\ ~(k = 0 \/ k = n) => k + 1 \in 0..n
                        /\ ~(k < 2) => k - 1 \in 0..n
    BY <1>8
  <2>3. QED
    BY <2>1, <2>2, <1>8, <1>9, <1>10, <1>11 DEF Maybe
<1>16. /\ next' \in [Items -> Maybe(Items)] /\ prev' \in [Items -> Maybe(Items)]
       /\ child' \in [Items -> Maybe(Items)]
  <2>1. \A x \in Items : /\ next'[x] \in Maybe(Items)
                         /\ prev'[x] \in Maybe(Items)
                         /\ child'[x] \in Maybe(Items)
    BY <1>5, <1>6, <1>12, <1>15
  <2>2. /\ next' = [x \in Items |-> next'[x]] /\ prev' = [x \in Items |-> prev'[x]]
        /\ child' = [x \in Items |-> child'[x]]
    BY <1>2, <1>6
  <2>3. QED
    BY <2>1, <2>2
<1> DEFINE nx == [x \in Items |-> IF x \in M THEN next'[x] ELSE NULL]
           pv == [x \in Items |-> IF x \in M THEN prev'[x] ELSE NULL]
           oc == [x \in Items |-> IF x \in M THEN child'[x] ELSE NULL]
<1>17. /\ nx \in [Items -> Maybe(Items)] /\ pv \in [Items -> Maybe(Items)]
       /\ oc \in [Items -> Maybe(Items)]
  BY <1>16 DEF Maybe
<1>18. /\ \A x \in Items \ M : nx[x] = NULL /\ pv[x] = NULL /\ oc[x] = NULL
       /\ \A x \in M : nx[x] = next'[x] /\ pv[x] = prev'[x] /\ oc[x] = child'[x]
  BY <1>5
<1> HIDE DEF nx, pv, oc
<1>19. /\ \A k \in 0..n : nx[a[k]] = IF k = 0 \/ k = n THEN NULL ELSE a[k + 1]
       /\ \A k \in 0..n : pv[a[k]] = IF k < 2 THEN NULL ELSE a[k - 1]
       /\ \A k \in 0..n : oc[a[k]] = IF k = 0 THEN a[1] ELSE NULL
  BY <1>5, <1>9, <1>10, <1>11, <1>18
<1>20. Forest(M, nx, pv, oc, {a[0]})
  BY <1>3, <1>4, <1>5, <1>17, <1>18, <1>19, Chain
<1>21. /\ \A x \in Items : next'[x] = IF x \in M THEN nx[x] ELSE next[x]
       /\ \A x \in Items : prev'[x] = IF x \in M THEN pv[x] ELSE prev[x]
       /\ \A x \in Items : child'[x] = IF x \in M THEN oc[x] ELSE child[x]
  BY <1>12, <1>18
<1>22. live' = live \cup M /\ held' = held \cup {a[0]} /\ lost' = lost
  BY <1>2 DEF M
<1>23. (\A x \in M : ~info'[x].ref) /\ \A x \in Items \ M : info'[x] = info[x]
  BY <1>12, <1>13
<1> DEFINE Q == {a[0]}
<1>24. Forest(M, nx, pv, oc, Q) /\ held' = held \cup Q
  BY <1>20, <1>22
<1> HIDE DEF Q
<1>25. QED
  BY <1>5, <1>14, <1>16, <1>21, <1>22, <1>23, <1>24, MadeStep

\* A least set with one pointer to each item but the first is a forest of one
\* root.
LEMMA LeastIsForest ==
  ASSUME NEW S \in SUBSET Items, NEW item \in S,
         NEW nx \in [Items -> Maybe(Items)], NEW pv \in [Items -> Maybe(Items)],
         NEW oc \in [Items -> Maybe(Items)],
         \A x \in Items \ S : nx[x] = NULL /\ pv[x] = NULL /\ oc[x] = NULL,
         \A x \in S : nx[x] \in Maybe(S) /\ pv[x] \in Maybe(S) /\ oc[x] \in Maybe(S),
         \A i, j \in S : nx[i] = j <=> pv[j] = i,
         \A x \in S : nx[x] # NULL => nx[x] # oc[x],
         \A x \in S : nx[x] # item /\ oc[x] # item,
         \A i, j, k \in S : (nx[j] = i \/ oc[j] = i) /\ (nx[k] = i \/ oc[k] = i) => j = k,
         nx[item] = NULL,
         \A Z \in SUBSET S :
           item \in Z /\ (\A z \in Z : nx[z] \in Maybe(Z) /\ oc[z] \in Maybe(Z)) => Z = S
  PROVE  Forest(S, nx, pv, oc, {item})
<1>1. NULL \notin S
  OBVIOUS
<1>2. \A p \in S : oc[p] # NULL => pv[oc[p]] = NULL
  <2> SUFFICES ASSUME NEW p \in S, oc[p] # NULL, pv[oc[p]] # NULL PROVE FALSE
    OBVIOUS
  <2> DEFINE y == oc[p]
             s == pv[y]
  <2>1. y \in S /\ s \in S
    BY DEF Maybe
  <2>2. nx[s] = y
    BY <2>1
  <2>3. s = p
    BY <2>1, <2>2
  <2>4. QED
    BY <2>1, <2>2, <2>3, <1>1
<1>3. \A p, q \in S : oc[p] = oc[q] /\ oc[p] # NULL => p = q
  <2> SUFFICES ASSUME NEW p \in S, NEW q \in S, oc[p] = oc[q], oc[p] # NULL PROVE p = q
    OBVIOUS
  <2> DEFINE y == oc[p]
  <2>1. y \in S /\ oc[p] = y /\ oc[q] = y
    BY DEF Maybe
  <2> HIDE DEF y
  <2>2. QED
    BY <2>1
<1>4. Pointers(S, nx, pv, oc)
  BY <1>2, <1>3 DEF Pointers
<1>5. AreRoots({item}, S, nx, pv, oc)
  BY DEF AreRoots, Maybe
<1>6. Rooted(S, pv, oc, {item})
  <2> SUFFICES ASSUME NEW i \in S, i # item, pv[i] = NULL, \A p \in S : oc[p] # i
               PROVE  FALSE
    BY DEF Rooted
  <2> DEFINE Z == S \ {i}
  <2>1. Z \in SUBSET S /\ item \in Z /\ Z # S
    OBVIOUS
  <2>2. \A z \in Z : nx[z] # i /\ oc[z] # i
    BY <1>1
  <2>3. \A z \in Z : nx[z] \in Maybe(Z) /\ oc[z] \in Maybe(Z)
    BY <2>2 DEF Maybe
  <2> HIDE DEF Z
  <2>4. QED
    BY <2>1, <2>3
<1>7. Grounded(S, pv, oc)
  <2> SUFFICES ASSUME NEW X \in SUBSET S, X # {},
                      \A s \in X : pv[s] \in X \/ \E q \in X : oc[q] = s
               PROVE  FALSE
    BY DEF Grounded
  <2> DEFINE Z == S \ X
  <2>1. \A s \in X : \E q \in X : nx[q] = s \/ oc[q] = s
    OBVIOUS
  <2>2. item \notin X
    BY <2>1
  <2>3. Z \in SUBSET S /\ item \in Z /\ Z # S
    BY <2>2
  <2>4. ASSUME NEW z \in Z, NEW s \in X, nx[z] = s \/ oc[z] = s PROVE FALSE
    <3>1. PICK q \in X : nx[q] = s \/ oc[q] = s
      BY <2>1
    <3>2. q = z
      BY <2>4, <3>1
    <3>3. QED
      BY <3>1, <3>2
  <2>5. \A z \in Z : nx[z] \in Maybe(Z) /\ oc[z] \in Maybe(Z)
    BY <2>4 DEF Maybe
  <2> HIDE DEF Z
  <2>6. QED
    BY <2>3, <2>5
<1>8. QED
  BY <1>4, <1>5, <1>6, <1>7 DEF Forest

\* The pointers cJSON_Duplicate follows.
NextIn(S, item) == [x \in Items |-> IF x \in S \ {item} THEN next[x] ELSE NULL]
Behind(S, item, x) == {s \in S \ {item} : next[s] = x}
PrevIn(S, item) == [x \in Items |-> IF x \notin S \/ Behind(S, item, x) = {} THEN NULL
                                    ELSE CHOOSE s \in Behind(S, item, x) : TRUE]
ChildIn(S, recurse) == [x \in Items |-> IF x \in S /\ recurse THEN child[x] ELSE NULL]

\* What cJSON_Duplicate visits is a tree.
LEMMA VisitedForest ==
  ASSUME Inductive, NEW item \in live, NEW recurse \in BOOLEAN,
         NEW S, S = Visited(item, recurse), recurse => Whole(S, item)
  PROVE  /\ S \subseteq live
         /\ Forest(S, NextIn(S, item), PrevIn(S, item), ChildIn(S, recurse), {item})
<1> DEFINE Shut(Z) == /\ item \in Z
                      /\ \A s \in Z : /\ s # item => next[s] \in Maybe(Z)
                                      /\ s # item \/ recurse => child[s] \in Maybe(Z)
           nx == NextIn(S, item)
           pv == PrevIn(S, item)
           oc == ChildIn(S, recurse)
<1>1. /\ live \subseteq Items /\ NULL \notin Items /\ NULL \notin live
      /\ next \in [Items -> Maybe(Items)] /\ child \in [Items -> Maybe(Items)]
  BY Facts DEF Inductive
<1>2. \A i : i \in S <=> i \in live /\ \A Z \in SUBSET live : Shut(Z) => i \in Z
  BY DEF Visited
<1>3. S \subseteq live /\ S \in SUBSET Items /\ item \in S
  BY <1>1, <1>2
<1>4. \A Z \in SUBSET live : Shut(Z) => S \subseteq Z
  BY <1>2
<1>5. ~recurse => S = {item}
  <2>1. ~recurse => Shut({item})
    OBVIOUS
  <2> HIDE DEF Shut
  <2>2. QED
    BY <2>1, <1>3, <1>4
<1>6. /\ \A x \in Items : nx[x] = IF x \in S /\ x # item THEN next[x] ELSE NULL
      /\ \A x \in Items : oc[x] = IF x \in S /\ recurse THEN child[x] ELSE NULL
      /\ \A x \in Items \ S : nx[x] = NULL /\ pv[x] = NULL /\ oc[x] = NULL
      /\ nx \in [Items -> Maybe(Items)] /\ oc \in [Items -> Maybe(Items)]
  BY <1>1 DEF NextIn, PrevIn, ChildIn, Maybe
<1>7. nx[item] = NULL
  BY <1>1, <1>6
<1> HIDE DEF nx, pv, oc
<1>8. \A x \in S : nx[x] \in Maybe(S) /\ oc[x] \in Maybe(S)
  BY <1>3, <1>5, <1>6 DEF Whole, Maybe
<1>9. \A x \in S : nx[x] # NULL => nx[x] # oc[x]
  BY <1>3, <1>5, <1>6 DEF Whole
<1>10. \A i, j \in S : nx[i] = j \/ oc[i] = j => recurse /\ Leads(i, j, item)
  BY <1>1, <1>3, <1>5, <1>6 DEF Leads
<1>11. \A x \in S : nx[x] # item /\ oc[x] # item
  BY <1>3, <1>10 DEF Whole
<1>12. \A i, j, k \in S : (nx[j] = i \/ oc[j] = i) /\ (nx[k] = i \/ oc[k] = i) => j = k
  BY <1>10 DEF Whole
<1>13. ASSUME NEW Z \in SUBSET S, item \in Z,
              \A z \in Z : nx[z] \in Maybe(Z) /\ oc[z] \in Maybe(Z)
       PROVE  Z = S
  <2>1. CASE recurse
    <3>1. \A z \in Z : /\ z # item => next[z] = nx[z]
                       /\ child[z] = oc[z]
      BY <2>1, <1>3, <1>6
    <3>2. Shut(Z)
      BY <3>1, <1>13
    <3> HIDE DEF Shut
    <3>3. QED
      BY <3>2, <1>3, <1>4
  <2>2. CASE ~recurse
    BY <2>2, <1>5, <1>13
  <2>3. QED
    BY <2>1, <2>2
<1>14. \A x \in S : pv[x] = IF Behind(S, item, x) = {} THEN NULL
                            ELSE CHOOSE s \in Behind(S, item, x) : TRUE
  BY <1>3 DEF pv, PrevIn
<1>15. \A x, s \in S : s \in Behind(S, item, x) <=> nx[s] = x
  BY <1>1, <1>3, <1>6 DEF Behind
<1>16. ASSUME NEW x \in S PROVE /\ pv[x] \in Maybe(S)
                                /\ \A i \in S : nx[i] = x <=> pv[x] = i
  <2>1. Behind(S, item, x) \subseteq S
    BY DEF Behind
  <2>2. CASE Behind(S, item, x) = {}
    <3>1. pv[x] = NULL
      BY <2>2, <1>14
    <3>2. QED
      BY <3>1, <2>2, <1>1, <1>3, <1>15 DEF Maybe
  <2>3. CASE Behind(S, item, x) # {}
    <3>1. pv[x] \in Behind(S, item, x)
      BY <2>3, <1>14
    <3>2. pv[x] \in S /\ nx[pv[x]] = x
      BY <3>1, <2>1, <1>15
    <3>3. \A i \in S : nx[i] = x => i = pv[x]
      BY <3>2, <1>12
    <3>4. QED
      BY <3>2, <3>3 DEF Maybe
  <2>4. QED
    BY <2>2, <2>3
<1>17. pv \in [Items -> Maybe(Items)]
  <2>1. \A x \in Items : pv[x] \in Maybe(Items)
    BY <1>3, <1>6, <1>16 DEF Maybe
  <2>2. pv = [x \in Items |-> pv[x]]
    BY DEF pv, PrevIn
  <2>3. QED
    BY <2>1, <2>2
<1>18. Forest(S, nx, pv, oc, {item})
  BY <1>3, <1>6, <1>7, <1>8, <1>9, <1>11, <1>12, <1>13, <1>16, <1>17, LeastIsForest
<1>19. QED
  BY <1>3, <1>18 DEF nx, pv, oc

\* cJSON_Duplicate.
LEMMA DuplicateStep == ASSUME Inductive, Duplicate PROVE Inductive'
<1>1. PICK item \in live, recurse \in BOOLEAN :
        LET S == Visited(item, recurse)
        IN /\ recurse => Whole(S, item)
           /\ \E copy \in Injection(S, Items \ live) :
                LET Of(i) == CHOOSE s \in S : copy[s] = i
                    Copy(p) == IF p \in S THEN copy[p] ELSE NULL
                    Before(i) == {s \in S \ {item} : next[s] = Of(i)}
                IN /\ live' = live \cup Range(copy)
                   /\ next' = [i \in Items |-> IF i \notin Range(copy) THEN next[i]
                                               ELSE IF Of(i) = item THEN NULL ELSE Copy(next[Of(i)])]
                   /\ prev' = [i \in Items |-> IF i \notin Range(copy) THEN prev[i]
                                               ELSE IF Before(i) = {} THEN NULL
                                               ELSE copy[CHOOSE s \in Before(i) : TRUE]]
                   /\ child' = [i \in Items |-> IF i \notin Range(copy) THEN child[i]
                                                ELSE IF ~recurse THEN NULL ELSE Copy(child[Of(i)])]
                   /\ info' = [i \in Items |-> IF i \in Range(copy)
                                               THEN [info[Of(i)] EXCEPT !.ref = FALSE] ELSE info[i]]
                   /\ blocks' = blocks + Cardinality({s \in S : info[s].text})
                                       + Cardinality({s \in S : OldKey(s) = 1})
                   /\ held' = held \cup {copy[item]}
                   /\ UNCHANGED lost
  BY DEF Duplicate
<1> DEFINE S == Visited(item, recurse)
<1>2. recurse => Whole(S, item)
  BY <1>1
<1>3. PICK copy \in Injection(S, Items \ live) :
        LET Of(i) == CHOOSE s \in S : copy[s] = i
            Copy(p) == IF p \in S THEN copy[p] ELSE NULL
            Before(i) == {s \in S \ {item} : next[s] = Of(i)}
        IN /\ live' = live \cup Range(copy)
           /\ next' = [i \in Items |-> IF i \notin Range(copy) THEN next[i]
                                       ELSE IF Of(i) = item THEN NULL ELSE Copy(next[Of(i)])]
           /\ prev' = [i \in Items |-> IF i \notin Range(copy) THEN prev[i]
                                       ELSE IF Before(i) = {} THEN NULL
                                       ELSE copy[CHOOSE s \in Before(i) : TRUE]]
           /\ child' = [i \in Items |-> IF i \notin Range(copy) THEN child[i]
                                        ELSE IF ~recurse THEN NULL ELSE Copy(child[Of(i)])]
           /\ info' = [i \in Items |-> IF i \in Range(copy)
                                       THEN [info[Of(i)] EXCEPT !.ref = FALSE] ELSE info[i]]
           /\ held' = held \cup {copy[item]}
           /\ UNCHANGED lost
  BY <1>1
<1>4. /\ S \subseteq live
      /\ Forest(S, NextIn(S, item), PrevIn(S, item), ChildIn(S, recurse), {item})
  BY <1>2, VisitedForest
<1> HIDE DEF S
<1> DEFINE M == Range(copy)
           nx == NextIn(S, item)
           pv == PrevIn(S, item)
           oc == ChildIn(S, recurse)
           Of(i) == CHOOSE s \in S : copy[s] = i
           Copy(p) == IF p \in S THEN copy[p] ELSE NULL
           Before(i) == {s \in S \ {item} : next[s] = Of(i)}
<1>5. /\ copy \in [S -> Items \ live]
      /\ \A s, t \in S : copy[s] = copy[t] => s = t
  BY DEF Injection, IsInjective
<1>6. /\ M \in SUBSET (Items \ live) /\ M \in SUBSET Items /\ copy \in [S -> M]
      /\ \A x \in M : \E s \in S : copy[s] = x
      /\ \A s \in S : copy[s] \in M
  BY <1>5 DEF Range
<1>7. /\ live' = live \cup M /\ held' = held \cup {copy[item]} /\ lost' = lost
      /\ next' = [i \in Items |-> IF i \notin M THEN next[i]
                                  ELSE IF Of(i) = item THEN NULL ELSE Copy(next[Of(i)])]
      /\ prev' = [i \in Items |-> IF i \notin M THEN prev[i]
                                  ELSE IF Before(i) = {} THEN NULL
                                  ELSE copy[CHOOSE s \in Before(i) : TRUE]]
      /\ child' = [i \in Items |-> IF i \notin M THEN child[i]
                                   ELSE IF ~recurse THEN NULL ELSE Copy(child[Of(i)])]
      /\ info' = [i \in Items |-> IF i \in M THEN [info[Of(i)] EXCEPT !.ref = FALSE] ELSE info[i]]
  BY <1>3
<1>8. \A s \in S : Of(copy[s]) = s
  BY <1>5
<1> HIDE DEF Of
<1>9. ASSUME NEW s \in S PROVE Before(copy[s]) = Behind(S, item, s)
  <2>1. Of(copy[s]) = s
    BY <1>8
  <2>2. QED
    BY <2>1 DEF Behind
<1>10. /\ live \subseteq Items /\ NULL \notin Items
       /\ next \in [Items -> Maybe(Items)] /\ prev \in [Items -> Maybe(Items)]
       /\ child \in [Items -> Maybe(Items)] /\ info \in [Items -> Info]
  BY Facts DEF Inductive
<1> HIDE DEF M, Before
<1>11. /\ item \in S
       /\ \A s \in S : nx[s] \in Maybe(S) /\ pv[s] \in Maybe(S) /\ oc[s] \in Maybe(S)
  BY <1>4 DEF Forest, Pointers
<1>12. \A s \in S : /\ nx[s] = IF s = item THEN NULL ELSE next[s]
                    /\ pv[s] = IF Behind(S, item, s) = {} THEN NULL
                               ELSE CHOOSE t \in Behind(S, item, s) : TRUE
                    /\ oc[s] = IF recurse THEN child[s] ELSE NULL
  BY <1>4, <1>10 DEF NextIn, PrevIn, ChildIn
<1>13. \A s \in S : next'[copy[s]] = IF nx[s] = NULL THEN NULL ELSE copy[nx[s]]
  <2> SUFFICES ASSUME NEW s \in S
               PROVE  next'[copy[s]] = IF nx[s] = NULL THEN NULL ELSE copy[nx[s]]
    OBVIOUS
  <2>1. next'[copy[s]] = IF s = item THEN NULL ELSE Copy(next[s])
    BY <1>6, <1>7, <1>8
  <2>2. NULL \notin S
    BY <1>4, <1>10
  <2>3. nx[s] = (IF s = item THEN NULL ELSE next[s]) /\ nx[s] \in Maybe(S)
    BY <1>11, <1>12
  <2> HIDE DEF nx
  <2>4. QED
    BY <2>1, <2>2, <2>3 DEF Maybe
<1>14. \A s \in S : prev'[copy[s]] = IF pv[s] = NULL THEN NULL ELSE copy[pv[s]]
  <2> SUFFICES ASSUME NEW s \in S
               PROVE  prev'[copy[s]] = IF pv[s] = NULL THEN NULL ELSE copy[pv[s]]
    OBVIOUS
  <2> DEFINE B == Behind(S, item, s)
  <2>1. prev'[copy[s]] = IF B = {} THEN NULL ELSE copy[CHOOSE t \in B : TRUE]
    <3>1. /\ copy[s] \in Items /\ copy[s] \in M
          /\ prev'[copy[s]] = IF Before(copy[s]) = {} THEN NULL
                              ELSE copy[CHOOSE t \in Before(copy[s]) : TRUE]
      BY <1>6, <1>7
    <3>2. QED
      BY <3>1, <1>9
  <2>2. pv[s] = IF B = {} THEN NULL ELSE CHOOSE t \in B : TRUE
    BY <1>12
  <2>3. B \subseteq S /\ NULL \notin S
    BY <1>4, <1>10 DEF Behind
  <2> HIDE DEF B, pv
  <2>4. CASE B = {}
    BY <2>1, <2>2, <2>4
  <2>5. CASE B # {}
    <3>1. (CHOOSE t \in B : TRUE) \in B
      BY <2>5
    <3>2. pv[s] # NULL /\ pv[s] = CHOOSE t \in B : TRUE
      BY <3>1, <2>2, <2>3, <2>5
    <3>3. QED
      BY <3>2, <2>1, <2>5
  <2>6. QED
    BY <2>4, <2>5
<1>15. \A s \in S : child'[copy[s]] = IF oc[s] = NULL THEN NULL ELSE copy[oc[s]]
  <2> SUFFICES ASSUME NEW s \in S
               PROVE  child'[copy[s]] = IF oc[s] = NULL THEN NULL ELSE copy[oc[s]]
    OBVIOUS
  <2>1. child'[copy[s]] = IF ~recurse THEN NULL ELSE Copy(child[s])
    BY <1>6, <1>7, <1>8
  <2>2. NULL \notin S
    BY <1>4, <1>10
  <2>3. oc[s] = (IF recurse THEN child[s] ELSE NULL) /\ oc[s] \in Maybe(S)
    BY <1>11, <1>12
  <2> HIDE DEF oc
  <2>4. QED
    BY <2>1, <2>2, <2>3 DEF Maybe
<1> HIDE DEF nx, pv, oc, Copy
<1>16. \A x \in Items \ M : /\ next'[x] = next[x] /\ prev'[x] = prev[x] /\ child'[x] = child[x]
                            /\ info'[x] = info[x]
  BY <1>7
<1>17. \A s \in S : info'[copy[s]] \in Info /\ ~info'[copy[s]].ref
  <2> SUFFICES ASSUME NEW s \in S PROVE info'[copy[s]] \in Info /\ ~info'[copy[s]].ref
    OBVIOUS
  <2>1. info'[copy[s]] = [info[s] EXCEPT !.ref = FALSE]
    BY <1>6, <1>7, <1>8
  <2>2. info[s] \in Info
    BY <1>4, <1>10
  <2>3. QED
    BY <2>1, <2>2 DEF Info
<1>18. /\ \A x \in M : /\ next'[x] \in Maybe(M) /\ prev'[x] \in Maybe(M) /\ child'[x] \in Maybe(M)
                       /\ info'[x] \in Info /\ ~info'[x].ref
  <2> SUFFICES ASSUME NEW s \in S
               PROVE  /\ next'[copy[s]] \in Maybe(M) /\ prev'[copy[s]] \in Maybe(M)
                      /\ child'[copy[s]] \in Maybe(M)
                      /\ info'[copy[s]] \in Info /\ ~info'[copy[s]].ref
    BY <1>6
  <2>1. QED
    BY <1>6, <1>11, <1>13, <1>14, <1>15, <1>17 DEF Maybe
<1>19. /\ next' \in [Items -> Maybe(Items)] /\ prev' \in [Items -> Maybe(Items)]
       /\ child' \in [Items -> Maybe(Items)] /\ info' \in [Items -> Info]
  <2>1. \A x \in Items : /\ next'[x] \in Maybe(Items) /\ prev'[x] \in Maybe(Items)
                         /\ child'[x] \in Maybe(Items) /\ info'[x] \in Info
    BY <1>6, <1>10, <1>16, <1>18 DEF Maybe
  <2>2. /\ next' = [x \in Items |-> next'[x]] /\ prev' = [x \in Items |-> prev'[x]]
        /\ child' = [x \in Items |-> child'[x]] /\ info' = [x \in Items |-> info'[x]]
    BY <1>7
  <2>3. QED
    BY <2>1, <2>2
<1> DEFINE nx2 == [x \in Items |-> IF x \in M THEN next'[x] ELSE NULL]
           pv2 == [x \in Items |-> IF x \in M THEN prev'[x] ELSE NULL]
           oc2 == [x \in Items |-> IF x \in M THEN child'[x] ELSE NULL]
<1>20. /\ nx2 \in [Items -> Maybe(Items)] /\ pv2 \in [Items -> Maybe(Items)]
       /\ oc2 \in [Items -> Maybe(Items)]
  BY <1>19 DEF Maybe
<1>21. /\ \A x \in Items \ M : nx2[x] = NULL /\ pv2[x] = NULL /\ oc2[x] = NULL
       /\ \A x \in M : nx2[x] = next'[x] /\ pv2[x] = prev'[x] /\ oc2[x] = child'[x]
  BY <1>6
<1> HIDE DEF nx2, pv2, oc2
<1>22. /\ \A s \in S : nx2[copy[s]] = IF nx[s] = NULL THEN NULL ELSE copy[nx[s]]
       /\ \A s \in S : pv2[copy[s]] = IF pv[s] = NULL THEN NULL ELSE copy[pv[s]]
       /\ \A s \in S : oc2[copy[s]] = IF oc[s] = NULL THEN NULL ELSE copy[oc[s]]
  BY <1>6, <1>13, <1>14, <1>15, <1>21
<1> DEFINE R == {item}
           Q == {copy[r] : r \in R}
<1>23. Forest(S, nx, pv, oc, R)
  BY <1>4 DEF nx, pv, oc
<1>24. held' = held \cup Q
  BY <1>7
<1> HIDE DEF R
<1>25. Forest(M, nx2, pv2, oc2, Q)
  BY <1>5, <1>6, <1>20, <1>21, <1>22, <1>23, Copied
<1> HIDE DEF Q
<1>26. /\ \A x \in Items : next'[x] = IF x \in M THEN nx2[x] ELSE next[x]
       /\ \A x \in Items : prev'[x] = IF x \in M THEN pv2[x] ELSE prev[x]
       /\ \A x \in Items : child'[x] = IF x \in M THEN oc2[x] ELSE child[x]
  BY <1>16, <1>21
<1>27. (\A x \in M : ~info'[x].ref) /\ \A x \in Items \ M : info'[x] = info[x]
  BY <1>16, <1>18
<1>28. live' = live \cup M /\ lost' = lost
  BY <1>7
<1>29. QED
  BY <1>6, <1>19, <1>24, <1>25, <1>26, <1>27, <1>28, MadeStep

-----------------------------------------------------------------------------
(* The theorems *)

\* In the beginning there is no item.
LEMMA InitInductive == ASSUME Init PROVE Inductive
<1>1. /\ live = {} /\ held = {} /\ lost = {}
      /\ next = [i \in Items |-> NULL] /\ prev = [i \in Items |-> NULL]
      /\ child = [i \in Items |-> NULL] /\ info = [i \in Items |-> Blank]
  BY DEF Init
<1>2. Blank \in Info /\ ~Blank.ref
  BY DEF Blank, Info, Maybe
<1>3. Roots = {} /\ \A i \in Items : Own[i] = NULL
  BY <1>1, <1>2 DEF Roots, Own
<1>4. /\ next \in [Items -> Maybe(Items)] /\ prev \in [Items -> Maybe(Items)]
      /\ child \in [Items -> Maybe(Items)] /\ Own \in [Items -> Maybe(Items)]
      /\ info \in [Items -> Info] /\ \A i \in Items : info[i] = Blank
  BY <1>1, <1>2 DEF Own, Maybe
<1>5. Forest(live, next, prev, Own, Roots)
  BY <1>1, <1>3, <1>4 DEF Forest, Pointers, AreRoots, Rooted, Grounded
<1>6. QED
  BY <1>1, <1>4, <1>5 DEF Inductive

\* Every operation keeps the forest.
LEMMA NextInductive == ASSUME Inductive, [Next]_vars PROVE Inductive'
<1>1. CASE Create
  BY <1>1, CreateStep
<1>2. CASE CreateArray
  BY <1>2, CreateArrayStep
<1>3. CASE AddItemToArray
  BY <1>3, AddItemToArrayStep
<1>4. CASE AddItemToObject
  BY <1>4, AddItemToObjectStep
<1>5. CASE AddNewToObject
  BY <1>5, AddNewToObjectStep
<1>6. CASE AddLost
  BY <1>6, AddLostStep
<1>7. CASE AddReference
  BY <1>7, AddReferenceStep
<1>8. CASE AddReferenceLost
  BY <1>8, AddReferenceLostStep
<1>9. CASE Detach
  BY <1>9, DetachStep
<1>10. CASE DeleteItem
  BY <1>10, DeleteItemStep
<1>11. CASE Insert
  BY <1>11, InsertStep
<1>12. CASE Replace
  BY <1>12, ReplaceStep
<1>13. CASE ReplaceInObject
  BY <1>13, ReplaceInObjectStep
<1>14. CASE ReplaceInObjectMissed
  BY <1>14, ReplaceInObjectMissedStep
<1>15. CASE Delete
  BY <1>15, DeleteStep
<1>16. CASE Duplicate
  BY <1>16, DuplicateStep
<1>17. CASE UNCHANGED vars
  <2>1. UNCHANGED <<live, next, prev, child, info, held, lost>>
    BY <1>17 DEF vars
  <2>2. Own' = Own /\ Roots' = Roots
    BY <2>1 DEF Own, Roots
  <2>3. Forest(live', next', prev', Own', Roots')
    BY <2>1, <2>2 DEF Inductive
  <2>4. QED
    BY <2>1, <2>3 DEF Inductive
<1>18. QED
  BY <1>1, <1>2, <1>3, <1>4, <1>5, <1>6, <1>7, <1>8, <1>9, <1>10, <1>11, <1>12, <1>13,
     <1>14, <1>15, <1>16, <1>17 DEF Next

\* After any calls the pointers of cJSON.c make a forest: whatever the client
\* adds, takes out, replaces, duplicates and deletes.
THEOREM Forested == Spec => []Inductive
<1>1. Init => Inductive
  BY InitInductive
<1>2. Inductive /\ [Next]_vars => Inductive'
  BY NextInductive
<1>3. QED
  BY <1>1, <1>2, PTL DEF Spec

\* Lists are linked both ways, an item has one parent, and no pointer cJSON_Delete
\* follows leads to freed memory.
THEOREM PointersLinked == Spec => []Linked
<1>1. Inductive => Linked
  <2> SUFFICES ASSUME Inductive PROVE Linked
    OBVIOUS
  <2>1. /\ NULL \notin live /\ Pointers(live, next, prev, Own)
        /\ \A x \in live : Own[x] = IF info[x].ref THEN NULL ELSE child[x]
        /\ \A x \in live : next[x] \in Maybe(live) /\ prev[x] \in Maybe(live) /\ Own[x] \in Maybe(live)
    BY Facts
  <2>2. \A i, j \in live : next[i] = j <=> prev[j] = i
    BY <2>1 DEF Pointers
  <2>3. \A p \in live : ~info[p].ref /\ child[p] # NULL => prev[child[p]] = NULL
    BY <2>1 DEF Pointers
  <2>4. \A p, q \in live :
          ~info[p].ref /\ ~info[q].ref /\ child[p] = child[q] /\ child[p] # NULL => p = q
    BY <2>1 DEF Pointers
  <2>5. \A i \in live : /\ next[i] \in Maybe(live) /\ prev[i] \in Maybe(live)
                        /\ ~info[i].ref => child[i] \in Maybe(live)
    BY <2>1
  <2>6. QED
    BY <2>2, <2>3, <2>4, <2>5 DEF Linked
<1>2. QED
  BY <1>1, Forested, PTL

\* Deleting all that the client holds and what is lost would free every item, and
\* none of them twice.
THEOREM ItemsOwned == Spec => []Divided
<1> DEFINE Owned1 == live = UNION {Freed(r) : r \in held \cup lost}
           Owned2 == \A r, s \in held \cup lost : r # s => Freed(r) \cap Freed(s) = {}
<1>1. Inductive => Divided
  <2> SUFFICES ASSUME Inductive PROVE Owned1 /\ Owned2
    BY DEF Divided
  <2>1. /\ NULL \notin live /\ Roots \subseteq live /\ Roots = held \cup lost
        /\ Pointers(live, next, prev, Own) /\ AreRoots(Roots, live, next, prev, Own)
        /\ Rooted(live, prev, Own, Roots) /\ Grounded(live, prev, Own)
    BY Facts DEF Roots
  <2>2. \A r \in Roots :
          /\ Freed(r) \subseteq live /\ r \in Freed(r)
          /\ \A x \in Freed(r) : next[x] \in Maybe(Freed(r)) /\ Own[x] \in Maybe(Freed(r))
          /\ \A y \in Freed(r) \ {r} : \E x \in Freed(r) : next[x] = y \/ Own[x] = y
    BY <2>1, FreedSet
  <2>3. Owned1
    <3> DEFINE X == live \ UNION {Freed(r) : r \in Roots}
    <3>1. ASSUME X # {} PROVE FALSE
      <4>1. X \in SUBSET live
        OBVIOUS
      <4>2. PICK s \in X : prev[s] \notin X /\ \A q \in X : Own[q] # s
        <5> HIDE DEF X
        <5>1. QED
          BY <3>1, <4>1, <2>1 DEF Grounded
      <4>3. s \in live /\ s \notin Roots
        BY <2>2
      <4>4. PICK q \in live : (next[q] = s \/ Own[q] = s) /\ q \notin X
        <5> HIDE DEF X
        <5>1. CASE prev[s] # NULL
          BY <5>1, <4>2, <4>3, <2>1 DEF Pointers, Maybe
        <5>2. CASE \E p \in live : Own[p] = s
          BY <5>2, <4>2, <4>3
        <5>3. QED
          BY <5>1, <5>2, <4>3, <2>1 DEF Rooted
      <4>5. PICK r \in Roots : q \in Freed(r)
        BY <4>4
      <4>6. s \in Freed(r)
        BY <4>3, <4>4, <4>5, <2>1, <2>2 DEF Maybe
      <4>7. QED
        BY <4>6
    <3>2. UNION {Freed(r) : r \in Roots} \subseteq live
      BY <2>2
    <3>3. QED
      BY <3>1, <3>2, <2>1
  <2>4. Owned2
    <3> SUFFICES ASSUME NEW r \in Roots, NEW s \in Roots, r # s,
                        Freed(r) \cap Freed(s) # {}
                 PROVE  FALSE
      BY <2>1
    <3> DEFINE X == Freed(r) \cap Freed(s)
    <3>1. X \in SUBSET live /\ X # {}
      BY <2>2
    <3>2. PICK x \in X : prev[x] \notin X /\ \A q \in X : Own[q] # x
      <4> HIDE DEF X
      <4>1. QED
        BY <3>1, <2>1 DEF Grounded
    <3>3. x \in Freed(r) /\ x \in Freed(s) /\ x \in live /\ x # NULL
      BY <3>1, <2>1
    <3>4. ASSUME NEW y \in live, NEW z \in live, next[y] = x \/ Own[y] = x,
                 next[z] = x \/ Own[z] = x
          PROVE  y = z
      BY <3>3, <3>4, <2>1 DEF Pointers
    <3>5. CASE x # r /\ x # s
      <4>1. PICK y \in Freed(r) : next[y] = x \/ Own[y] = x
        BY <3>3, <3>5, <2>2
      <4>2. PICK z \in Freed(s) : next[z] = x \/ Own[z] = x
        BY <3>3, <3>5, <2>2
      <4>3. y = z
        BY <3>4, <4>1, <4>2, <2>2
      <4>4. y \in X /\ y \in live
        BY <4>3, <2>2
      <4>5. QED
        BY <3>2, <3>3, <4>1, <4>4, <2>1 DEF Pointers
    <3>6. CASE x = r
      <4>1. PICK z \in Freed(s) : next[z] = r \/ Own[z] = r
        BY <3>3, <3>6, <2>2
      <4>2. QED
        BY <4>1, <3>3, <3>6, <2>1, <2>2 DEF AreRoots, Pointers
    <3>7. CASE x = s
      <4>1. PICK z \in Freed(r) : next[z] = s \/ Own[z] = s
        BY <3>3, <3>7, <2>2
      <4>2. QED
        BY <4>1, <3>3, <3>7, <2>1, <2>2 DEF AreRoots, Pointers
    <3>8. QED
      BY <3>5, <3>6, <3>7
  <2>5. QED
    BY <2>3, <2>4
<1>2. QED
  BY <1>1, Forested, PTL
===============================================================================
