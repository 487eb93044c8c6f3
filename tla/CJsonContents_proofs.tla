-------------------------- MODULE CJsonContents_proofs --------------------------
(***************************************************************************)
(* Proofs, for any set of items, about what the items hold.  First, that   *)
(* the string blocks allocated are those of the live items, each counted   *)
(* with one of them.  The number of blocks is a sum over a set, which the  *)
(* library gives as a fold: a recursive function on the subsets.  The      *)
(* first part shows that there is such a function, and what it does to one *)
(* item more, to two sets, to an image; the second, what each operation    *)
(* does to the sum.                                                        *)
(*                                                                         *)
(* With that the set of live items is finite, so every list ends and is a  *)
(* sequence.  The rest shows what the operations do to the lists: a        *)
(* replacement by name is found under that name, an insertion shifts the   *)
(* items behind it, and each call is a step of JsonTree.                   *)
(***************************************************************************)
EXTENDS CJson_proofs, FiniteSetTheorems

-----------------------------------------------------------------------------
(* Induction, with sets for predicates *)

\* What holds of no item, and of one item more if it holds of fewer, holds of all.
LEMMA SetInduction ==
  ASSUME NEW S, IsFiniteSet(S), NEW Good,
         {} \in Good,
         \A T \in SUBSET S : \A x \in S \ T : T \in Good => T \cup {x} \in Good
  PROVE  S \in Good
<1> DEFINE Bad == {n \in Nat : \E T \in SUBSET S : Cardinality(T) = n /\ T \notin Good}
<1> SUFFICES ASSUME S \notin Good PROVE FALSE
  OBVIOUS
<1>1. Bad # {} /\ Bad \subseteq Nat
  BY FS_CardinalityType
<1>2. PICK n \in Bad : \A m \in Bad : n <= m
  <2> HIDE DEF Bad
  <2>1. QED
    BY <1>1, LeastOf
<1>3. PICK T \in SUBSET S : Cardinality(T) = n /\ T \notin Good
  BY <1>2
<1>4. PICK x \in T : TRUE
  BY <1>3
<1>5. IsFiniteSet(T) /\ n \in Nat
  BY <1>1, <1>2, FS_Subset
<1>6. /\ Cardinality(T \ {x}) = n - 1
      /\ n - 1 \in Nat
  <2>1. IsFiniteSet(T \ {x}) /\ Cardinality(T \ {x}) = n - 1
    BY <1>3, <1>5, FS_RemoveElement
  <2>2. Cardinality(T \ {x}) \in Nat
    BY <2>1, FS_CardinalityType
  <2>3. QED
    BY <2>1, <2>2
<1>7. T \ {x} \in Good
  BY <1>2, <1>5, <1>6
<1>8. (T \ {x}) \cup {x} = T /\ T \ {x} \in SUBSET S /\ x \in S \ (T \ {x})
  OBVIOUS
<1>9. QED
  BY <1>3, <1>7, <1>8

\* The same for natural numbers.
LEMMA NumberInduction ==
  ASSUME NEW Good, 0 \in Good, \A n \in Nat : n \in Good => n + 1 \in Good
  PROVE  \A n \in Nat : n \in Good
<1> DEFINE Bad == Nat \ Good
<1> SUFFICES ASSUME Bad # {} PROVE FALSE
  OBVIOUS
<1>1. PICK n \in Bad : \A m \in Bad : n <= m
  <2>1. Bad \subseteq Nat
    OBVIOUS
  <2> HIDE DEF Bad
  <2>2. QED
    BY <2>1, LeastOf
<1>2. n # 0 /\ n - 1 \in Nat /\ (n - 1) + 1 = n
  BY <1>1
<1>3. QED
  BY <1>1, <1>2

-----------------------------------------------------------------------------
(* Sums over sets *)

Pick(s) == CHOOSE x \in s : TRUE

\* The recursive function of MapThenFoldSet, with the weights w, and its value.
Folded(f, w, S) ==
  f = [s \in SUBSET S |-> IF s = {} THEN 0 ELSE w[Pick(s)] + f[s \ {Pick(s)}]]
Total(w, S) == (CHOOSE f : Folded(f, w, S))[S]

\* There is such a function.
LEMMA FoldExists ==
  ASSUME NEW S, IsFiniteSet(S), NEW w, \A x \in S : w[x] \in Nat
  PROVE  \E f \in [SUBSET S -> Nat] : Folded(f, w, S)
<1> DEFINE Rule(f, s) == IF s = {} THEN 0 ELSE w[Pick(s)] + f[s \ {Pick(s)}]
           Good == {n \in Nat : \E f \in [SUBSET S -> Nat] :
                      \A s \in SUBSET S : Cardinality(s) <= n => f[s] = Rule(f, s)}
<1>1. \A s \in SUBSET S : s # {} => Pick(s) \in s /\ w[Pick(s)] \in Nat /\ s \ {Pick(s)} \in SUBSET S
  BY DEF Pick
<1>2. \A s \in SUBSET S : IsFiniteSet(s) /\ Cardinality(s) \in Nat
  BY FS_Subset, FS_CardinalityType
<1>3. \A s \in SUBSET S : s # {} => Cardinality(s \ {Pick(s)}) = Cardinality(s) - 1
  BY <1>1, <1>2, FS_RemoveElement
<1>4. \A s \in SUBSET S : Cardinality(s) <= 0 => s = {}
  BY <1>2, FS_EmptySet
<1>5. 0 \in Good
  <2>1. [s \in SUBSET S |-> 0] \in [SUBSET S -> Nat]
    OBVIOUS
  <2>2. QED
    BY <2>1, <1>4
<1>6. ASSUME NEW n \in Nat, n \in Good PROVE n + 1 \in Good
  <2>1. PICK f \in [SUBSET S -> Nat] : \A s \in SUBSET S : Cardinality(s) <= n => f[s] = Rule(f, s)
    BY <1>6
  <2> DEFINE g == [s \in SUBSET S |-> IF Cardinality(s) <= n THEN f[s] ELSE Rule(f, s)]
  <2>2. g \in [SUBSET S -> Nat]
    BY <1>1
  <2>3. ASSUME NEW s \in SUBSET S, Cardinality(s) <= n + 1 PROVE g[s] = Rule(g, s)
    <3>1. g[s] = Rule(f, s)
      BY <2>1
    <3>2. CASE s = {}
      BY <3>1, <3>2
    <3>3. CASE s # {}
      <4>1. s \ {Pick(s)} \in SUBSET S /\ Cardinality(s \ {Pick(s)}) <= n
        BY <3>3, <2>3, <1>1, <1>2, <1>3
      <4>2. g[s \ {Pick(s)}] = f[s \ {Pick(s)}]
        BY <4>1
      <4>3. QED
        BY <3>1, <4>2
    <3>4. QED
      BY <3>2, <3>3
  <2> HIDE DEF g, Rule
  <2>4. QED
    BY <2>2, <2>3
<1>7. Cardinality(S) \in Good
  <2> HIDE DEF Good
  <2>1. QED
    BY <1>5, <1>6, NumberInduction, FS_CardinalityType
<1>8. PICK f \in [SUBSET S -> Nat] : \A s \in SUBSET S : Cardinality(s) <= Cardinality(S) => f[s] = Rule(f, s)
  BY <1>7
<1>9. \A s \in SUBSET S : Cardinality(s) <= Cardinality(S)
  BY FS_Subset
<1>10. f = [s \in SUBSET S |-> Rule(f, s)]
  BY <1>8, <1>9
<1>11. QED
  BY <1>10 DEF Folded

\* Where two such functions are both defined they agree.
LEMMA FoldUnique ==
  ASSUME NEW S, IsFiniteSet(S), NEW w, NEW A, NEW B, S \in SUBSET A, S \in SUBSET B,
         NEW f, NEW g, Folded(f, w, A), Folded(g, w, B)
  PROVE  f[S] = g[S]
<1> DEFINE Bad == {n \in Nat : \E T \in SUBSET S : Cardinality(T) = n /\ f[T] # g[T]}
<1> SUFFICES ASSUME f[S] # g[S] PROVE FALSE
  OBVIOUS
<1>1. Bad # {} /\ Bad \subseteq Nat
  BY FS_CardinalityType
<1>2. PICK n \in Bad : \A m \in Bad : n <= m
  <2> HIDE DEF Bad
  <2>1. QED
    BY <1>1, LeastOf
<1>3. PICK T \in SUBSET S : Cardinality(T) = n /\ f[T] # g[T]
  BY <1>2
<1>4. /\ f[T] = IF T = {} THEN 0 ELSE w[Pick(T)] + f[T \ {Pick(T)}]
      /\ g[T] = IF T = {} THEN 0 ELSE w[Pick(T)] + g[T \ {Pick(T)}]
  <2>1. T \in SUBSET A /\ T \in SUBSET B
    OBVIOUS
  <2>2. QED
    BY <2>1 DEF Folded
<1>5. T # {} /\ Pick(T) \in T /\ f[T \ {Pick(T)}] # g[T \ {Pick(T)}]
  BY <1>3, <1>4 DEF Pick
<1>6. IsFiniteSet(T) /\ n \in Nat
  BY <1>1, <1>2, FS_Subset
<1>7. /\ Cardinality(T \ {Pick(T)}) = n - 1
      /\ n - 1 \in Nat
  <2>1. IsFiniteSet(T \ {Pick(T)}) /\ Cardinality(T \ {Pick(T)}) = n - 1
    BY <1>3, <1>5, <1>6, FS_RemoveElement
  <2>2. Cardinality(T \ {Pick(T)}) \in Nat
    BY <2>1, FS_CardinalityType
  <2>3. QED
    BY <2>1, <2>2
<1>8. n - 1 \in Bad
  BY <1>5, <1>7
<1>9. QED
  BY <1>2, <1>6, <1>8

\* The total is what any of these functions gives.
LEMMA TotalFold ==
  ASSUME NEW A, IsFiniteSet(A), NEW w, \A x \in A : w[x] \in Nat, NEW S \in SUBSET A,
         NEW f, Folded(f, w, A)
  PROVE  Total(w, S) = f[S]
<1>1. IsFiniteSet(S) /\ \A x \in S : w[x] \in Nat
  BY FS_Subset
<1>2. \E g : Folded(g, w, S)
  BY <1>1, FoldExists
<1> DEFINE g == CHOOSE g : Folded(g, w, S)
<1>3. Folded(g, w, S) /\ Total(w, S) = g[S]
  BY <1>2 DEF Total
<1> HIDE DEF g
<1>4. QED
  BY <1>1, <1>3, FoldUnique

\* Nothing weighs nothing, and one item more adds its weight.
LEMMA TotalNone == ASSUME NEW w PROVE Total(w, {}) = 0
<1>1. PICK f : Folded(f, w, {})
  BY FoldExists, FS_EmptySet
<1>2. f[{}] = 0
  BY <1>1 DEF Folded
<1>3. QED
  BY <1>1, <1>2, TotalFold, FS_EmptySet

LEMMA TotalNat ==
  ASSUME NEW S, IsFiniteSet(S), NEW w, \A x \in S : w[x] \in Nat
  PROVE  Total(w, S) \in Nat
<1>1. PICK f \in [SUBSET S -> Nat] : Folded(f, w, S)
  BY FoldExists
<1>2. Total(w, S) = f[S]
  BY <1>1, TotalFold
<1>3. QED
  BY <1>2

LEMMA TotalMore ==
  ASSUME NEW S, IsFiniteSet(S), NEW w, \A x \in S : w[x] \in Nat, NEW x, x \notin S, w[x] \in Nat
  PROVE  Total(w, S \cup {x}) = w[x] + Total(w, S)
<1> DEFINE A == S \cup {x}
<1>1. IsFiniteSet(A) /\ \A y \in A : w[y] \in Nat
  BY FS_AddElement
<1>2. PICK f \in [SUBSET A -> Nat] : Folded(f, w, A)
  BY <1>1, FoldExists
<1> HIDE DEF A
<1> DEFINE Good == {n \in Nat : \A T \in SUBSET A : Cardinality(T) = n =>
                                  \A y \in T : f[T] = w[y] + f[T \ {y}]}
<1>3. ASSUME NEW T \in SUBSET A
      PROVE  /\ IsFiniteSet(T) /\ Cardinality(T) \in Nat
             /\ \A y \in T : Cardinality(T \ {y}) = Cardinality(T) - 1
  BY <1>1, FS_Subset, FS_CardinalityType, FS_RemoveElement
<1>4. 0 \in Good
  BY <1>3, FS_EmptySet
<1>5. ASSUME NEW n \in Nat, n \in Good PROVE n + 1 \in Good
  <2>1. SUFFICES ASSUME NEW T \in SUBSET A, Cardinality(T) = n + 1, NEW y \in T
                 PROVE  f[T] = w[y] + f[T \ {y}]
    OBVIOUS
  <2> DEFINE p == Pick(T)
  <2>2. p \in T
    BY DEF Pick
  <2>3. f[T] = w[p] + f[T \ {p}]
    BY <1>2 DEF Folded
  <2> HIDE DEF p
  <2>4. CASE p = y
    BY <2>3, <2>4
  <2>5. CASE p # y
    <3>1. /\ T \ {p} \in SUBSET A /\ y \in T \ {p} /\ Cardinality(T \ {p}) = n
          /\ T \ {y} \in SUBSET A /\ p \in T \ {y} /\ Cardinality(T \ {y}) = n
      BY <2>1, <2>2, <2>5, <1>3
    <3>2. f[T \ {p}] = w[y] + f[(T \ {p}) \ {y}] /\ f[T \ {y}] = w[p] + f[(T \ {y}) \ {p}]
      BY <3>1, <1>5
    <3>3. (T \ {p}) \ {y} = (T \ {y}) \ {p} /\ (T \ {p}) \ {y} \in SUBSET A
      OBVIOUS
    <3>4. w[p] \in Nat /\ w[y] \in Nat /\ f[(T \ {p}) \ {y}] \in Nat
      BY <3>3, <2>2, <1>1
    <3>5. f[T \ {y}] = w[p] + f[(T \ {p}) \ {y}]
      BY <3>2, <3>3
    <3>6. f[T] = w[p] + (w[y] + f[(T \ {p}) \ {y}])
      BY <2>3, <3>2
    <3>7. QED
      BY <3>4, <3>5, <3>6
  <2>6. QED
    BY <2>4, <2>5
<1>6. Cardinality(A) \in Good
  <2> HIDE DEF Good
  <2>1. QED
    BY <1>3, <1>4, <1>5, NumberInduction
<1>7. f[A] = w[x] + f[A \ {x}]
  BY <1>6 DEF A
<1>8. A \ {x} = S /\ S \in SUBSET A
  BY DEF A
<1>9. Total(w, A) = f[A] /\ Total(w, S) = f[S]
  BY <1>1, <1>2, <1>8, TotalFold
<1>10. QED
  BY <1>7, <1>8, <1>9 DEF A

\* Two sets with no item in common.
LEMMA TotalUnion ==
  ASSUME NEW A, NEW B, IsFiniteSet(A), IsFiniteSet(B), A \cap B = {},
         NEW w, \A x \in A \cup B : w[x] \in Nat
  PROVE  Total(w, A \cup B) = Total(w, A) + Total(w, B)
<1> DEFINE Good == {T \in SUBSET B : Total(w, A \cup T) = Total(w, A) + Total(w, T)}
<1>1. ASSUME NEW T \in SUBSET B
      PROVE  /\ IsFiniteSet(T) /\ IsFiniteSet(A \cup T)
             /\ Total(w, T) \in Nat /\ Total(w, A) \in Nat
  <2>1. IsFiniteSet(T)
    BY FS_Subset
  <2>2. IsFiniteSet(A \cup T)
    BY <2>1, FS_Union
  <2>3. QED
    BY <2>1, <2>2, TotalNat
<1>2. {} \in Good
  BY <1>1, TotalNone
<1>3. ASSUME NEW T \in SUBSET B, NEW x \in B \ T, T \in Good PROVE T \cup {x} \in Good
  <2>1. Total(w, T \cup {x}) = w[x] + Total(w, T)
    BY <1>1, TotalMore
  <2>2. Total(w, (A \cup T) \cup {x}) = w[x] + Total(w, A \cup T)
    BY <1>1, TotalMore
  <2>3. (A \cup T) \cup {x} = A \cup (T \cup {x}) /\ T \cup {x} \in SUBSET B /\ w[x] \in Nat
    OBVIOUS
  <2>4. Total(w, A \cup T) = Total(w, A) + Total(w, T)
    BY <1>3
  <2>5. QED
    BY <2>1, <2>2, <2>3, <2>4, <1>1
<1>4. B \in Good
  <2> HIDE DEF Good
  <2>1. QED
    BY <1>2, <1>3, SetInduction
<1>5. QED
  BY <1>4

\* Only the weights of the items matter.
LEMMA TotalSame ==
  ASSUME NEW S, NEW u, NEW w, \A x \in S : u[x] = w[x]
  PROVE  Total(u, S) = Total(w, S)
<1>1. \A s \in SUBSET S : s # {} => u[Pick(s)] = w[Pick(s)]
  BY DEF Pick
<1>2. ASSUME NEW f PROVE Folded(f, u, S) <=> Folded(f, w, S)
  <2>1. [s \in SUBSET S |-> IF s = {} THEN 0 ELSE u[Pick(s)] + f[s \ {Pick(s)}]]
        = [s \in SUBSET S |-> IF s = {} THEN 0 ELSE w[Pick(s)] + f[s \ {Pick(s)}]]
    BY <1>1
  <2>2. QED
    BY <2>1 DEF Folded
<1>3. (CHOOSE f : Folded(f, u, S)) = CHOOSE f : Folded(f, w, S)
  BY <1>2
<1>4. QED
  BY <1>3 DEF Total

\* An image under an injection.
LEMMA TotalImage ==
  ASSUME NEW S, IsFiniteSet(S), NEW u, NEW w, NEW c,
         \A s, t \in S : c[s] = c[t] => s = t,
         \A s \in S : u[s] \in Nat /\ w[c[s]] = u[s]
  PROVE  IsFiniteSet({c[s] : s \in S}) /\ Total(w, {c[s] : s \in S}) = Total(u, S)
<1> DEFINE Image(T) == {c[s] : s \in T}
           Good == {T \in SUBSET S : IsFiniteSet(Image(T)) /\ Total(w, Image(T)) = Total(u, T)}
<1>1. {} \in Good
  <2>1. Image({}) = {}
    OBVIOUS
  <2>2. QED
    BY <2>1, TotalNone, FS_EmptySet
<1>2. ASSUME NEW T \in SUBSET S, NEW x \in S \ T, T \in Good PROVE T \cup {x} \in Good
  <2>1. Image(T \cup {x}) = Image(T) \cup {c[x]} /\ c[x] \notin Image(T)
    OBVIOUS
  <2>2. /\ \A y \in Image(T) : w[y] \in Nat
        /\ w[c[x]] = u[x] /\ u[x] \in Nat
        /\ T \cup {x} \in SUBSET S
        /\ IsFiniteSet(Image(T)) /\ Total(w, Image(T)) = Total(u, T)
    BY <1>2
  <2>3. IsFiniteSet(T)
    BY FS_Subset
  <2>4. Total(u, T \cup {x}) = u[x] + Total(u, T)
    BY <2>3, TotalMore
  <2> HIDE DEF Image
  <2>5. Total(w, Image(T) \cup {c[x]}) = w[c[x]] + Total(w, Image(T))
    BY <2>1, <2>2, TotalMore
  <2>6. IsFiniteSet(Image(T) \cup {c[x]})
    BY <2>2, FS_AddElement
  <2>7. QED
    BY <2>1, <2>2, <2>4, <2>5, <2>6
<1>3. S \in Good
  <2> HIDE DEF Good
  <2>1. QED
    BY <1>1, <1>2, SetInduction
<1>4. QED
  BY <1>3

\* Where an item weighs one for each of two sets it is in.
LEMMA TotalCount ==
  ASSUME NEW S, IsFiniteSet(S), NEW P \in SUBSET S, NEW Q \in SUBSET S, NEW w,
         \A x \in S : w[x] = (IF x \in P THEN 1 ELSE 0) + (IF x \in Q THEN 1 ELSE 0)
  PROVE  Total(w, S) = Cardinality(P) + Cardinality(Q)
<1> DEFINE Good == {T \in SUBSET S : Total(w, T) = Cardinality(T \cap P) + Cardinality(T \cap Q)}
<1>1. ASSUME NEW T \in SUBSET S
      PROVE  /\ IsFiniteSet(T)
             /\ IsFiniteSet(T \cap P) /\ IsFiniteSet(T \cap Q)
             /\ Cardinality(T \cap P) \in Nat /\ Cardinality(T \cap Q) \in Nat
             /\ Total(w, T) \in Nat
  <2>1. IsFiniteSet(T) /\ IsFiniteSet(T \cap P) /\ IsFiniteSet(T \cap Q)
    BY FS_Subset
  <2>2. QED
    BY <2>1, FS_CardinalityType, TotalNat
<1>2. {} \in Good
  <2>1. {} \cap P = {} /\ {} \cap Q = {}
    OBVIOUS
  <2>2. QED
    BY <2>1, TotalNone, FS_EmptySet
<1>3. ASSUME NEW T \in SUBSET S, NEW x \in S \ T, T \in Good PROVE T \cup {x} \in Good
  <2>1. Total(w, T \cup {x}) = w[x] + Total(w, T)
    <3>1. w[x] \in Nat /\ \A y \in T : w[y] \in Nat
      OBVIOUS
    <3>2. QED
      BY <3>1, <1>1, TotalMore
  <2>2. ASSUME NEW R \in SUBSET S
        PROVE  Cardinality((T \cup {x}) \cap R)
               = Cardinality(T \cap R) + IF x \in R THEN 1 ELSE 0
    <3>1. IsFiniteSet(T \cap R) /\ Cardinality(T \cap R) \in Nat
      BY FS_Subset, FS_CardinalityType
    <3>2. CASE x \in R
      <4>1. (T \cup {x}) \cap R = (T \cap R) \cup {x} /\ x \notin T \cap R
        BY <3>2
      <4>2. Cardinality((T \cap R) \cup {x}) = Cardinality(T \cap R) + 1
        BY <3>1, <4>1, FS_AddElement
      <4>3. QED
        BY <3>2, <4>1, <4>2
    <3>3. CASE x \notin R
      <4>1. (T \cup {x}) \cap R = T \cap R
        BY <3>3
      <4>2. Cardinality((T \cup {x}) \cap R) = Cardinality(T \cap R)
        BY <4>1
      <4>3. QED
        BY <3>1, <3>3, <4>2
    <3>4. QED
      BY <3>2, <3>3
  <2>3. /\ Cardinality((T \cup {x}) \cap P) = Cardinality(T \cap P) + IF x \in P THEN 1 ELSE 0
        /\ Cardinality((T \cup {x}) \cap Q) = Cardinality(T \cap Q) + IF x \in Q THEN 1 ELSE 0
    BY <2>2
  <2>4. Total(w, T) = Cardinality(T \cap P) + Cardinality(T \cap Q)
    BY <1>3
  <2>5. w[x] = (IF x \in P THEN 1 ELSE 0) + (IF x \in Q THEN 1 ELSE 0)
    OBVIOUS
  <2>6. /\ Cardinality(T \cap P) \in Nat /\ Cardinality(T \cap Q) \in Nat
        /\ Total(w, T) \in Nat /\ T \cup {x} \in SUBSET S
    BY <1>1
  <2>7. Total(w, T \cup {x}) = Cardinality((T \cup {x}) \cap P) + Cardinality((T \cup {x}) \cap Q)
    BY <2>1, <2>3, <2>4, <2>5, <2>6
  <2>8. QED
    BY <2>6, <2>7
<1>4. S \in Good
  <2> HIDE DEF Good
  <2>1. QED
    BY <1>2, <1>3, SetInduction
<1>5. S \cap P = P /\ S \cap Q = Q
  OBVIOUS
<1>6. QED
  BY <1>4, <1>5

LEMMA TotalOne == ASSUME NEW x, NEW w, w[x] \in Nat PROVE Total(w, {x}) = w[x]
<1>1. Total(w, {} \cup {x}) = w[x] + Total(w, {})
  BY TotalMore, FS_EmptySet
<1>2. {} \cup {x} = {x} /\ Total(w, {}) = 0
  BY TotalNone
<1>3. QED
  BY <1>1, <1>2

\* Three sets with no item in common.
LEMMA TotalThree ==
  ASSUME NEW A, NEW B, NEW C, IsFiniteSet(A), IsFiniteSet(B), IsFiniteSet(C),
         A \cap B = {}, (A \cup B) \cap C = {}, NEW w, \A x \in (A \cup B) \cup C : w[x] \in Nat
  PROVE  Total(w, (A \cup B) \cup C) = Total(w, A) + Total(w, B) + Total(w, C)
<1>1. IsFiniteSet(A \cup B)
  BY FS_Union
<1>2. Total(w, (A \cup B) \cup C) = Total(w, A \cup B) + Total(w, C)
  BY <1>1, TotalUnion
<1>3. Total(w, A \cup B) = Total(w, A) + Total(w, B)
  BY TotalUnion
<1>4. Total(w, A) \in Nat /\ Total(w, B) \in Nat /\ Total(w, C) \in Nat
  BY TotalNat
<1>5. QED
  BY <1>2, <1>3, <1>4

-----------------------------------------------------------------------------
(* The blocks of the items *)

Weights == [i \in Items |-> Owned(info[i])]

\* The invariant: the blocks allocated are those of the live items.
Counted == IsFiniteSet(live) /\ blocks = Total(Weights, live)

LEMMA OwnedNat == ASSUME NEW i \in Info PROVE Owned(i) \in Nat
  BY DEF Owned

\* BlocksOf is the total of what the items weigh.
LEMMA BlocksTotal == ASSUME NEW S \in SUBSET Items PROVE BlocksOf(S) = Total(Weights, S)
<1>1. ASSUME NEW s \in SUBSET S, s # {} PROVE Weights[Pick(s)] = Owned(info[Pick(s)])
  <2>1. Pick(s) \in Items
    BY <1>1 DEF Pick
  <2>2. QED
    BY <2>1 DEF Weights
<1> DEFINE Fold1(f, s) == IF s = {} THEN 0 ELSE Owned(info[Pick(s)]) + f[s \ {Pick(s)}]
<1>2. BlocksOf(S) = (CHOOSE f : f = [s \in SUBSET S |-> Fold1(f, s)])[S]
  BY DEF BlocksOf, MapThenSumSet, MapThenFoldSet, Pick
<1>3. ASSUME NEW f PROVE f = [s \in SUBSET S |-> Fold1(f, s)] <=> Folded(f, Weights, S)
  <2>1. [s \in SUBSET S |-> Fold1(f, s)]
        = [s \in SUBSET S |-> IF s = {} THEN 0 ELSE Weights[Pick(s)] + f[s \ {Pick(s)}]]
    BY <1>1
  <2>2. QED
    BY <2>1 DEF Folded
<1>4. (CHOOSE f : f = [s \in SUBSET S |-> Fold1(f, s)]) = CHOOSE f : Folded(f, Weights, S)
  <2> HIDE DEF Fold1
  <2>1. QED
    BY <1>3
<1>5. QED
  BY <1>2, <1>4 DEF Total

\* Items are freed, some change, and others are made.
Change(F, D, M) ==
  /\ F \in SUBSET live /\ D \in SUBSET (live \ F) /\ M \in SUBSET (Items \ live)
  /\ IsFiniteSet(M)
  /\ live' = (live \ F) \cup M
  /\ \A x \in (live \ F) \ D : info'[x] = info[x]

\* What is counted then is what was, less the freed, with the changed and the made.
Balanced(F, D, M) ==
  /\ IsFiniteSet(live')
  /\ Total(Weights', live') + Total(Weights, F) + Total(Weights, D)
     = blocks + Total(Weights', D) + Total(Weights', M)
  /\ Total(Weights', live') \in Nat
  /\ Total(Weights, F) \in Nat /\ Total(Weights, D) \in Nat
  /\ Total(Weights', D) \in Nat /\ Total(Weights', M) \in Nat
  /\ blocks \in Nat

LEMMA Balance ==
  ASSUME Inductive, Inductive', Counted, NEW F, NEW D, NEW M, Change(F, D, M)
  PROVE  Balanced(F, D, M)
<1> DEFINE K == (live \ F) \ D
<1> USE DEF Change
<1>1. /\ live \subseteq Items /\ IsFiniteSet(live) /\ blocks = Total(Weights, live)
      /\ info \in [Items -> Info] /\ info' \in [Items -> Info]
  BY Facts DEF Counted, Inductive
<1>2. \A x \in Items : /\ Weights[x] = Owned(info[x]) /\ Weights'[x] = Owned(info'[x])
                       /\ Weights[x] \in Nat /\ Weights'[x] \in Nat
  BY <1>1, OwnedNat DEF Weights
<1>3. IsFiniteSet(K) /\ IsFiniteSet(D) /\ IsFiniteSet(F)
  <2>1. K \in SUBSET live /\ D \in SUBSET live
    OBVIOUS
  <2>2. QED
    BY <2>1, <1>1, FS_Subset
<1>4. /\ live = (K \cup D) \cup F /\ live' = (K \cup D) \cup M
      /\ K \cap D = {} /\ (K \cup D) \cap F = {} /\ (K \cup D) \cap M = {}
      /\ (K \cup D) \cup F \subseteq Items /\ (K \cup D) \cup M \subseteq Items
  BY <1>1
<1>5. \A x \in K : Weights'[x] = Weights[x]
  BY <1>1, <1>2
<1> HIDE DEF K
<1>6. Total(Weights, live) = Total(Weights, K) + Total(Weights, D) + Total(Weights, F)
  BY <1>2, <1>3, <1>4, TotalThree
<1>7. Total(Weights', live') = Total(Weights', K) + Total(Weights', D) + Total(Weights', M)
  BY <1>2, <1>3, <1>4, TotalThree
<1>8. Total(Weights', K) = Total(Weights, K)
  BY <1>5, TotalSame
<1>9. /\ Total(Weights, K) \in Nat /\ Total(Weights, D) \in Nat /\ Total(Weights, F) \in Nat
      /\ Total(Weights', D) \in Nat /\ Total(Weights', M) \in Nat
  BY <1>2, <1>3, <1>4, TotalNat
<1>10. IsFiniteSet(live')
  <2>1. IsFiniteSet(K \cup D)
    BY <1>3, FS_Union
  <2>2. IsFiniteSet((K \cup D) \cup M)
    BY <2>1, FS_Union
  <2>3. QED
    BY <2>2, <1>4
<1>11. QED
  BY <1>1, <1>6, <1>7, <1>8, <1>9, <1>10 DEF Balanced

\* Nothing is allocated or freed.
LEMMA NoBlocks == ASSUME Counted, UNCHANGED <<live, info, blocks>> PROVE Counted'
<1>1. Weights' = Weights
  BY DEF Weights
<1>2. QED
  BY <1>1 DEF Counted

\* An item is made.
LEMMA OneMade ==
  ASSUME Inductive, Inductive', Counted, NEW i \in Items \ live, live' = live \cup {i},
         \A x \in live : info'[x] = info[x], blocks' = blocks + Owned(info'[i])
  PROVE  Counted'
<1>1. PICK Empty : Empty = {}
  OBVIOUS
<1>2. PICK One : One = {i}
  OBVIOUS
<1>3. /\ Empty \in SUBSET live /\ Empty \in SUBSET (live \ Empty) /\ One \in SUBSET (Items \ live)
      /\ live' = (live \ Empty) \cup One
      /\ \A x \in (live \ Empty) \ Empty : info'[x] = info[x]
  BY <1>1, <1>2
<1>4. IsFiniteSet(One)
  BY <1>2, FS_Singleton
<1>5. Change(Empty, Empty, One)
  BY <1>3, <1>4 DEF Change
<1>6. /\ IsFiniteSet(live')
      /\ Total(Weights', live') + Total(Weights, Empty) + Total(Weights, Empty)
         = blocks + Total(Weights', Empty) + Total(Weights', One)
      /\ Total(Weights', live') \in Nat /\ Total(Weights', One) \in Nat /\ blocks \in Nat
  <2>1. Balanced(Empty, Empty, One)
    BY <1>5, Balance
  <2>2. QED
    BY <2>1 DEF Balanced
<1>7. Total(Weights, Empty) = 0 /\ Total(Weights', Empty) = 0
  BY <1>1, TotalNone
<1>8. Total(Weights', One) = Owned(info'[i])
  <2>1. Weights'[i] = Owned(info'[i])
    BY DEF Weights
  <2>2. Owned(info'[i]) \in Nat
    BY OwnedNat DEF Inductive
  <2>3. QED
    BY <1>2, <2>1, <2>2, TotalOne
<1>9. QED
  BY <1>6, <1>7, <1>8 DEF Counted

\* Items are freed.
LEMMA Freeing ==
  ASSUME Inductive, Inductive', Counted, NEW F \in SUBSET live, live' = live \ F,
         \A x \in live \ F : info'[x] = info[x], blocks' = blocks - BlocksOf(F)
  PROVE  Counted'
<1>1. PICK Empty : Empty = {}
  OBVIOUS
<1>2. Empty \in SUBSET (live \ F) /\ Empty \in SUBSET (Items \ live) /\ live' = (live \ F) \cup Empty
  BY <1>1
<1>3. (\A x \in (live \ F) \ Empty : info'[x] = info[x]) /\ IsFiniteSet(Empty)
  BY <1>1, FS_EmptySet
<1>4. Change(F, Empty, Empty)
  BY <1>2, <1>3 DEF Change
<1>5. /\ IsFiniteSet(live')
      /\ Total(Weights', live') + Total(Weights, F) + Total(Weights, Empty)
         = blocks + Total(Weights', Empty) + Total(Weights', Empty)
      /\ Total(Weights', live') \in Nat /\ Total(Weights, F) \in Nat /\ blocks \in Nat
  <2>1. Balanced(F, Empty, Empty)
    BY <1>4, Balance
  <2>2. QED
    BY <2>1 DEF Balanced
<1>6. Total(Weights, Empty) = 0 /\ Total(Weights', Empty) = 0
  BY <1>1, TotalNone
<1>7. BlocksOf(F) = Total(Weights, F)
  BY Facts, BlocksTotal
<1>8. QED
  BY <1>5, <1>6, <1>7 DEF Counted

\* Items are freed, and another gets a name.
Renames(F, r, key, constant) ==
  /\ live' = live \ F
  /\ \A x \in live \ F : x # r => info'[x] = info[x]
  /\ info'[r] = [info[r] EXCEPT !.name = key, !.const = constant]
  /\ blocks' = (blocks - OldKey(r)) + ((IF key = NULL \/ constant THEN 0 ELSE 1) - BlocksOf(F))

LEMMA Renaming ==
  ASSUME Inductive, Inductive', Counted, NEW F \in SUBSET live, NEW r \in live \ F,
         NEW key \in Maybe(Names), NEW constant \in BOOLEAN, Renames(F, r, key, constant)
  PROVE  Counted'
<1>1. PICK Empty : Empty = {}
  OBVIOUS
<1>2. PICK One : One = {r}
  OBVIOUS
<1>3. One \in SUBSET (live \ F) /\ Empty \in SUBSET (Items \ live) /\ live' = (live \ F) \cup Empty
  BY <1>1, <1>2 DEF Renames
<1>4. (\A x \in (live \ F) \ One : info'[x] = info[x]) /\ IsFiniteSet(Empty)
  BY <1>1, <1>2, FS_EmptySet DEF Renames
<1>5. Change(F, One, Empty)
  BY <1>3, <1>4 DEF Change
<1>6. /\ IsFiniteSet(live')
      /\ Total(Weights', live') + Total(Weights, F) + Total(Weights, One)
         = blocks + Total(Weights', One) + Total(Weights', Empty)
      /\ Total(Weights', live') \in Nat /\ Total(Weights, F) \in Nat /\ blocks \in Nat
  <2>1. Balanced(F, One, Empty)
    BY <1>5, Balance
  <2>2. QED
    BY <2>1 DEF Balanced
<1>7. Total(Weights', Empty) = 0
  BY <1>1, TotalNone
<1>8. BlocksOf(F) = Total(Weights, F)
  BY Facts, BlocksTotal
<1>9. r \in Items /\ info[r] \in Info /\ info'[r] \in Info
  BY Facts DEF Inductive
<1>10. Total(Weights, One) = Owned(info[r]) /\ Total(Weights', One) = Owned(info'[r])
  <2>1. Weights[r] = Owned(info[r]) /\ Weights'[r] = Owned(info'[r])
    BY <1>9 DEF Weights
  <2>2. Owned(info[r]) \in Nat /\ Owned(info'[r]) \in Nat
    BY <1>9, OwnedNat
  <2>3. QED
    BY <1>2, <2>1, <2>2, TotalOne
<1>11. /\ Owned(info[r]) = OldKey(r) + IF info[r].text /\ ~info[r].ref THEN 1 ELSE 0
      /\ OldKey(r) \in Nat
  BY <1>9 DEF Owned, OldKey, Info
<1>12. Owned(info'[r]) = (IF key = NULL \/ constant THEN 0 ELSE 1)
                        + IF info[r].text /\ ~info[r].ref THEN 1 ELSE 0
  <2>1. /\ info'[r].name = key /\ info'[r].const = constant
        /\ info'[r].text = info[r].text /\ info'[r].ref = info[r].ref
    BY <1>9 DEF Info, Renames
  <2>2. QED
    BY <2>1 DEF Owned
<1>13. Total(Weights', live')
       = (blocks - OldKey(r)) + (IF key = NULL \/ constant THEN 0 ELSE 1) - Total(Weights, F)
  BY <1>6, <1>7, <1>10, <1>11, <1>12
<1>14. QED
  BY <1>6, <1>8, <1>13 DEF Counted, Renames

\* Items are made at once.
LEMMA ManyMade ==
  ASSUME Inductive, Inductive', Counted, NEW M \in SUBSET (Items \ live), IsFiniteSet(M),
         live' = live \cup M, \A x \in live : info'[x] = info[x],
         NEW n \in Nat, Total(Weights', M) = n, blocks' = blocks + n
  PROVE  Counted'
<1>1. PICK Empty : Empty = {}
  OBVIOUS
<1>2. /\ Empty \in SUBSET live /\ Empty \in SUBSET (live \ Empty)
      /\ live' = (live \ Empty) \cup M
      /\ \A x \in (live \ Empty) \ Empty : info'[x] = info[x]
  BY <1>1
<1>3. Change(Empty, Empty, M)
  BY <1>2 DEF Change
<1>4. /\ IsFiniteSet(live')
      /\ Total(Weights', live') + Total(Weights, Empty) + Total(Weights, Empty)
         = blocks + Total(Weights', Empty) + Total(Weights', M)
      /\ Total(Weights', live') \in Nat /\ blocks \in Nat
  <2>1. Balanced(Empty, Empty, M)
    BY <1>3, Balance
  <2>2. QED
    BY <2>1 DEF Balanced
<1>5. Total(Weights, Empty) = 0 /\ Total(Weights', Empty) = 0
  BY <1>1, TotalNone
<1>6. QED
  BY <1>4, <1>5 DEF Counted

LEMMA CountedNat == ASSUME Inductive, Counted PROVE blocks \in Nat
<1>1. \A x \in live : Weights[x] \in Nat
  <2>1. live \subseteq Items /\ info \in [Items -> Info]
    BY Facts DEF Inductive
  <2>2. QED
    BY <2>1, OwnedNat DEF Weights
<1>2. QED
  BY <1>1, TotalNat DEF Counted

\* An item gets another name, and nothing else happens.
LEMMA RenamedOnly ==
  ASSUME Inductive, Inductive', Counted, NEW r \in live, live' = live,
         NEW key \in Maybe(Names), NEW constant \in BOOLEAN,
         info' = NewNameOf(r, key, constant),
         blocks' = blocks - OldKey(r) + IF key = NULL \/ constant THEN 0 ELSE 1
  PROVE  Counted'
<1>1. PICK Empty : Empty = {}
  OBVIOUS
<1>2. Empty \in SUBSET live /\ r \in live \ Empty /\ live' = live \ Empty
  BY <1>1
<1>3. r \in Items /\ live \subseteq Items /\ info \in [Items -> Info]
  BY Facts DEF Inductive
<1>4. \A x \in live \ Empty : x # r => info'[x] = info[x]
  BY <1>3 DEF NewNameOf
<1>5. info'[r] = [info[r] EXCEPT !.name = key, !.const = constant]
  <2>1. info[r] \in Info
    BY <1>3
  <2>2. QED
    BY <2>1, <1>3 DEF NewNameOf, Info
<1>6. BlocksOf(Empty) = 0
  <2>1. BlocksOf(Empty) = Total(Weights, Empty)
    BY <1>1, BlocksTotal
  <2>2. QED
    BY <2>1, <1>1, TotalNone
<1>7. blocks \in Nat /\ OldKey(r) \in Nat
  BY CountedNat DEF OldKey
<1>8. Renames(Empty, r, key, constant)
  BY <1>2, <1>4, <1>5, <1>6, <1>7 DEF Renames
<1>9. QED
  BY <1>2, <1>8, Renaming

\* What cJSON_Delete frees takes its blocks with it.
LEMMA FreeBlocks ==
  ASSUME Inductive, Inductive', Counted, NEW F \in SUBSET live, Free(F) PROVE Counted'
<1>1. live' = live \ F /\ blocks' = blocks - BlocksOf(F)
  BY DEF Free
<1>2. \A x \in live \ F : info'[x] = info[x]
  <2>1. live \subseteq Items
    BY Facts
  <2>2. QED
    BY <2>1 DEF Free
<1>3. QED
  BY <1>1, <1>2, Freeing

-----------------------------------------------------------------------------
(* The operations *)

\* The Create functions: a string, but not for one that refers to a string.
LEMMA CreateBlocks == ASSUME Inductive, Inductive', Counted, Create PROVE Counted'
<1>1. PICK i \in Items \ live, text \in Texts, ref \in BOOLEAN :
        /\ live' = live \cup {i}
        /\ info' = [info EXCEPT ![i] = [Blank EXCEPT !.ref = ref, !.text = text]]
        /\ blocks' = blocks + IF text /\ ~ref THEN 1 ELSE 0
  BY DEF Create
<1>2. info \in [Items -> Info] /\ live \subseteq Items
  BY Facts DEF Inductive
<1>3. \A x \in live : info'[x] = info[x]
  BY <1>1, <1>2
<1>4. Owned(info'[i]) = IF text /\ ~ref THEN 1 ELSE 0
  <2>1. info'[i].name = NULL /\ info'[i].ref = ref /\ info'[i].text = text
    BY <1>1, <1>2 DEF Blank
  <2>2. QED
    BY <2>1 DEF Owned
<1>5. blocks' = blocks + Owned(info'[i])
  BY <1>1, <1>4
<1>6. live' = live \cup {i}
  BY <1>1
<1>7. QED
  BY <1>3, <1>5, <1>6, OneMade

\* The functions that create an item and add it under a name: its key is copied.
LEMMA AddNewToObjectBlocks == ASSUME Inductive, Inductive', Counted, AddNewToObject PROVE Counted'
<1>1. PICK i \in Items \ live, name \in Names, text \in Texts :
        /\ live' = live \cup {i}
        /\ info' = [info EXCEPT ![i] = [Blank EXCEPT !.name = name, !.text = text]]
        /\ blocks' = blocks + 1 + IF text THEN 1 ELSE 0
  BY DEF AddNewToObject
<1>2. info \in [Items -> Info] /\ live \subseteq Items /\ name # NULL /\ blocks \in Nat
  <2>1. blocks \in Nat
    BY CountedNat
  <2>2. QED
    BY <2>1, Facts, NullAssumption DEF Inductive
<1>3. \A x \in live : info'[x] = info[x]
  BY <1>1, <1>2
<1>4. Owned(info'[i]) = 1 + IF text THEN 1 ELSE 0
  <2>1. info'[i].name = name /\ ~info'[i].const /\ ~info'[i].ref /\ info'[i].text = text
    BY <1>1, <1>2 DEF Blank
  <2>2. QED
    BY <2>1, <1>2 DEF Owned
<1>5. blocks' = blocks + Owned(info'[i])
  BY <1>1, <1>2, <1>4
<1>6. live' = live \cup {i}
  BY <1>1
<1>7. QED
  BY <1>3, <1>5, <1>6, OneMade

\* A reference owns its key, but not the string of its original.
LEMMA AddReferenceBlocks == ASSUME Inductive, Inductive', Counted, AddReference PROVE Counted'
<1>1. PICK item \in live, i \in Items \ live, name \in Maybe(Names) :
        /\ live' = live \cup {i}
        /\ info' = [info EXCEPT ![i] = [info[item] EXCEPT !.name = name, !.ref = TRUE,
                                                          !.const = @ /\ name = NULL]]
        /\ blocks' = blocks + IF name = NULL THEN 0 ELSE 1
  BY DEF AddReference
<1>2. info \in [Items -> Info] /\ live \subseteq Items /\ info[item] \in Info
  BY Facts DEF Inductive
<1>3. \A x \in live : info'[x] = info[x]
  BY <1>1, <1>2
<1>4. Owned(info'[i]) = IF name = NULL THEN 0 ELSE 1
  <2>1. info'[i] = [info[item] EXCEPT !.name = name, !.ref = TRUE, !.const = @ /\ name = NULL]
    BY <1>1, <1>2
  <2>2. /\ info'[i].name = name /\ info'[i].ref = TRUE
        /\ info'[i].const = (info[item].const /\ name = NULL)
    BY <2>1, <1>2 DEF Info
  <2>3. (info'[i].name # NULL /\ ~info'[i].const) <=> name # NULL
    BY <2>2, Zenon
  <2>4. ~(info'[i].text /\ ~info'[i].ref)
    BY <2>2, Zenon
  <2>5. QED
    BY <2>3, <2>4 DEF Owned
<1>5. blocks' = blocks + Owned(info'[i])
  BY <1>1, <1>4
<1>6. live' = live \cup {i}
  BY <1>1
<1>7. QED
  BY <1>3, <1>5, <1>6, OneMade

\* A lost reference has no key.
LEMMA AddReferenceLostBlocks ==
  ASSUME Inductive, Inductive', Counted, AddReferenceLost PROVE Counted'
<1>1. PICK item \in live, i \in Items \ live :
        /\ live' = live \cup {i}
        /\ info' = [info EXCEPT ![i] = [info[item] EXCEPT !.name = NULL, !.ref = TRUE]]
        /\ blocks' = blocks
  BY DEF AddReferenceLost
<1>2. info \in [Items -> Info] /\ live \subseteq Items /\ info[item] \in Info /\ blocks \in Nat
  <2>1. blocks \in Nat
    BY CountedNat
  <2>2. QED
    BY <2>1, Facts DEF Inductive
<1>3. \A x \in live : info'[x] = info[x]
  BY <1>1, <1>2
<1>4. Owned(info'[i]) = 0
  <2>1. info'[i] = [info[item] EXCEPT !.name = NULL, !.ref = TRUE]
    BY <1>1, <1>2
  <2>2. info'[i].name = NULL /\ info'[i].ref = TRUE
    BY <2>1, <1>2 DEF Info
  <2>3. Owned(info'[i]) = 0 + 0
    BY <2>2, Zenon DEF Owned
  <2>4. QED
    BY <2>3
<1>5. blocks' = blocks + Owned(info'[i])
  BY <1>1, <1>2, <1>4
<1>6. live' = live \cup {i}
  BY <1>1
<1>7. QED
  BY <1>3, <1>5, <1>6, OneMade

\* The old key is freed, the new one copied unless it is constant.
LEMMA AddItemToObjectBlocks ==
  ASSUME Inductive, Inductive', Counted, AddItemToObject PROVE Counted'
<1>1. PICK item \in held, name \in Names, constant \in BOOLEAN :
        /\ info' = NewNameOf(item, name, constant)
        /\ blocks' = blocks - OldKey(item) + IF constant THEN 0 ELSE 1
        /\ UNCHANGED live
  BY DEF AddItemToObject, NewNameOf
<1>2. name \in Maybe(Names) /\ name # NULL /\ item \in live /\ info \in [Items -> Info]
      /\ live \subseteq Items
  BY Facts, NullAssumption DEF Inductive, Maybe, Roots
<1>3. QED
  BY <1>1, <1>2, RenamedOnly

\* replace_item_in_object renames the replacement, whether or not it then finds an
\* item of that name.
LEMMA ReplaceInObjectMissedBlocks ==
  ASSUME Inductive, Inductive', Counted, ReplaceInObjectMissed PROVE Counted'
<1>1. PICK r \in held, name \in Names :
        /\ \E key \in {name, NULL} :
             /\ info' = Renamed(r, key, info)
             /\ blocks' = blocks - OldKey(r) + IF key = NULL THEN 0 ELSE 1
        /\ UNCHANGED live
  BY DEF ReplaceInObjectMissed
<1>2. PICK key \in {name, NULL} :
        /\ info' = Renamed(r, key, info)
        /\ blocks' = blocks - OldKey(r) + IF key = NULL THEN 0 ELSE 1
  BY <1>1
<1>3. key \in Maybe(Names) /\ r \in live
  BY Facts DEF Maybe, Roots
<1>4. info' = NewNameOf(r, key, FALSE)
  BY <1>2 DEF NewNameOf, Renamed
<1>5. QED
  BY <1>1, <1>2, <1>3, <1>4, RenamedOnly

\* The Delete functions for arrays and objects.
LEMMA DeleteItemBlocks == ASSUME Inductive, Inductive', Counted, DeleteItem PROVE Counted'
<1>1. PICK p \in live :
        /\ ~info[p].ref
        /\ \E item \in Children(p) : Free(Tree(item))
  BY DEF DeleteItem
<1>2. PICK item \in Children(p) : Free(Tree(item))
  BY <1>1
<1>3. Tree(item) \in SUBSET live
  BY <1>1, ChildSet, TreeBelow
<1>4. QED
  BY <1>2, <1>3, FreeBlocks

\* The Replace functions for arrays.
LEMMA ReplaceBlocks == ASSUME Inductive, Inductive', Counted, Replace PROVE Counted'
<1>1. PICK p \in live, r \in held :
        /\ Adds(p, r)
        /\ \E item \in Children(p) : Substitute(p, item, r, Tree(item)) /\ Free(Tree(item))
  BY DEF Replace
<1>2. PICK item \in Children(p) : Substitute(p, item, r, Tree(item)) /\ Free(Tree(item))
  BY <1>1
<1>3. Tree(item) \in SUBSET live
  BY <1>1, <1>2, Substituted
<1>4. QED
  BY <1>2, <1>3, FreeBlocks

\* cJSON_Delete.
LEMMA DeleteBlocks == ASSUME Inductive, Inductive', Counted, Delete PROVE Counted'
<1>1. PICK item \in held : Free(Freed(item))
  BY DEF Delete
<1>2. Freed(item) \in SUBSET live
  <2>1. item \in live
    BY Facts DEF Roots
  <2>2. QED
    BY <2>1, FreedSet
<1>3. QED
  BY <1>1, <1>2, FreeBlocks

\* The Replace functions for objects, that find an item of the name.
LEMMA ReplaceInObjectBlocks ==
  ASSUME Inductive, Inductive', Counted, ReplaceInObject PROVE Counted'
<1>1. PICK p \in live, r \in held, name \in Names, case \in BOOLEAN :
        \E key \in {name, NULL} : ReplaceNamed(p, name, case, key, r)
  BY DEF ReplaceInObject
<1>2. PICK key \in {name, NULL} : ReplaceNamed(p, name, case, key, r)
  BY <1>1
<1> DEFINE freed(T) == [i \in Items |-> IF i \in T THEN Blank ELSE info[i]]
<1>3. PICK item \in GetObjectItem(p, name, case) :
        /\ Substitute(p, item, r, Tree(item))
        /\ live' = live \ Tree(item)
        /\ blocks' = blocks - OldKey(r) + (IF key = NULL THEN 0 ELSE 1) - BlocksOf(Tree(item))
        /\ info' = Renamed(r, key, freed(Tree(item)))
  BY <1>2 DEF ReplaceNamed
<1>4. Adds(p, r)
  BY <1>2 DEF ReplaceNamed
<1>5. item \in Children(p)
  BY DEF GetObjectItem
<1>6. PICK T : T = Tree(item)
  OBVIOUS
<1>7. r \in live /\ live \subseteq Items /\ info \in [Items -> Info]
  BY Facts DEF Inductive, Roots
<1>8. T \in SUBSET live /\ r \in live \ T
  BY <1>3, <1>4, <1>5, <1>6, <1>7, Substituted
<1>9. key \in Maybe(Names)
  BY DEF Maybe
<1>10. live' = live \ T /\ info' = [freed(T) EXCEPT ![r].name = key, ![r].const = FALSE]
  BY <1>3, <1>6 DEF Renamed
<1>11. \A x \in live \ T : x # r => info'[x] = info[x]
  BY <1>7, <1>10
<1>12. info'[r] = [info[r] EXCEPT !.name = key, !.const = FALSE]
  <2>1. info[r] \in Info /\ freed(T)[r] = info[r] /\ r \in Items
    BY <1>7, <1>8
  <2> HIDE DEF freed
  <2>2. freed(T) = [i \in Items |-> freed(T)[i]]
    BY DEF freed
  <2>3. QED
    BY <2>1, <2>2, <1>10 DEF Info
<1>13. blocks' = (blocks - OldKey(r)) + ((IF key = NULL \/ FALSE THEN 0 ELSE 1) - BlocksOf(T))
  BY <1>3, <1>6
<1>14. Renames(T, r, key, FALSE)
  BY <1>10, <1>11, <1>12, <1>13 DEF Renames
<1>15. QED
  BY <1>8, <1>9, <1>14, Renaming

\* The CreateArray functions: a string for each element, if it is an array of them.
LEMMA CreateArrayBlocks == ASSUME Inductive, Inductive', Counted, CreateArray PROVE Counted'
<1>1. PICK n \in 1..MaxArray, text \in Texts :
        \E a \in Injection(0..n, Items \ live) :
          /\ live' = live \cup Range(a)
          /\ child' = [child EXCEPT ![a[0]] = a[1]]
          /\ next' = [i \in Items |-> IF \E k \in 1..n-1 : a[k] = i
                                      THEN a[1 + CHOOSE k \in 1..n-1 : a[k] = i] ELSE next[i]]
          /\ prev' = [i \in Items |-> IF \E k \in 2..n : a[k] = i
                                      THEN a[(CHOOSE k \in 2..n : a[k] = i) - 1] ELSE prev[i]]
          /\ info' = [i \in Items |-> IF \E k \in 1..n : a[k] = i
                                      THEN [Blank EXCEPT !.text = text] ELSE info[i]]
          /\ blocks' = blocks + IF text THEN n ELSE 0
          /\ held' = held \cup {a[0]}
          /\ UNCHANGED lost
  BY DEF CreateArray
<1>2. PICK a \in Injection(0..n, Items \ live) :
          /\ live' = live \cup Range(a)
          /\ info' = [i \in Items |-> IF \E k \in 1..n : a[k] = i
                                      THEN [Blank EXCEPT !.text = text] ELSE info[i]]
          /\ blocks' = blocks + IF text THEN n ELSE 0
  BY <1>1
<1>3. n \in Nat \ {0} /\ text \in BOOLEAN
  BY BoundsAssumption, TextsAssumption
<1>4. a \in [0..n -> Items \ live] /\ \A j, k \in 0..n : a[j] = a[k] => j = k
  BY DEF Injection, IsInjective
<1>5. PICK S : S = 0..n
  OBVIOUS
<1>6. PICK P : P = IF text THEN 1..n ELSE {}
  OBVIOUS
<1>7. PICK Empty : Empty = {}
  OBVIOUS
<1>8. /\ IsFiniteSet(S) /\ P \in SUBSET S /\ Empty \in SUBSET S
      /\ Cardinality(P) = (IF text THEN n ELSE 0) /\ Cardinality(Empty) = 0
  <2>1. IsFiniteSet(0..n) /\ Cardinality(1..n) = n /\ Cardinality({}) = 0
    BY <1>3, FS_Interval, FS_EmptySet
  <2>2. 1..n \in SUBSET (0..n)
    BY <1>3
  <2>3. QED
    BY <2>1, <2>2, <1>5, <1>6, <1>7
<1> DEFINE u == [k \in S |-> IF k \in P THEN 1 ELSE 0]
<1>9. \A k \in S : u[k] = (IF k \in P THEN 1 ELSE 0) + (IF k \in Empty THEN 1 ELSE 0)
  BY <1>7
<1>10. Total(u, S) = IF text THEN n ELSE 0
  <2>1. Total(u, S) = Cardinality(P) + Cardinality(Empty)
    <3> HIDE DEF u
    <3>1. QED
      BY <1>8, <1>9, TotalCount
  <2>2. QED
    BY <2>1, <1>3, <1>8
<1>11. info \in [Items -> Info] /\ live \subseteq Items /\ \A x \in Items \ live : info[x] = Blank
  BY Facts DEF Inductive
<1>12. \A k \in S : info'[a[k]] = IF k \in 1..n THEN [Blank EXCEPT !.text = text] ELSE Blank
  <2> SUFFICES ASSUME NEW k \in S
               PROVE  info'[a[k]] = IF k \in 1..n THEN [Blank EXCEPT !.text = text] ELSE Blank
    OBVIOUS
  <2>1. a[k] \in Items /\ info[a[k]] = Blank
    BY <1>4, <1>5, <1>11
  <2>2. info'[a[k]] = IF \E j \in 1..n : a[j] = a[k] THEN [Blank EXCEPT !.text = text]
                      ELSE info[a[k]]
    BY <2>1, <1>2
  <2>3. (\E j \in 1..n : a[j] = a[k]) <=> k \in 1..n
    <3>1. \A j \in 1..n : j \in 0..n
      BY <1>3
    <3>2. QED
      BY <3>1, <1>4, <1>5
  <2>4. QED
    BY <2>1, <2>2, <2>3
<1>13. \A k \in S : Weights'[a[k]] = u[k] /\ u[k] \in Nat
  <2> SUFFICES ASSUME NEW k \in S PROVE Weights'[a[k]] = u[k] /\ u[k] \in Nat
    OBVIOUS
  <2>1. Weights'[a[k]] = Owned(info'[a[k]])
    BY <1>4, <1>5 DEF Weights
  <2>2. Owned(Blank) = 0 /\ Owned([Blank EXCEPT !.text = text]) = IF text THEN 1 ELSE 0
    BY <1>3 DEF Owned, Blank
  <2>3. QED
    BY <2>1, <2>2, <1>6, <1>12
<1>14. /\ Range(a) = {a[k] : k \in S} /\ Range(a) \in SUBSET (Items \ live)
       /\ \A j, k \in S : a[j] = a[k] => j = k
  BY <1>4, <1>5 DEF Range
<1>15. IsFiniteSet(Range(a)) /\ Total(Weights', Range(a)) = Total(u, S)
  <2> HIDE DEF u
  <2>1. QED
    BY <1>8, <1>13, <1>14, TotalImage
<1>16. /\ live' = live \cup Range(a)
       /\ (IF text THEN n ELSE 0) \in Nat
       /\ blocks' = blocks + (IF text THEN n ELSE 0)
  BY <1>2, <1>3
<1>17. \A x \in live : info'[x] = info[x]
  <2> SUFFICES ASSUME NEW x \in live PROVE info'[x] = info[x]
    OBVIOUS
  <2>1. ~\E k \in 1..n : a[k] = x
    <3>1. \A k \in 1..n : k \in 0..n
      BY <1>3
    <3>2. QED
      BY <3>1, <1>4
  <2>2. QED
    BY <2>1, <1>2, <1>11
<1>18. QED
  BY <1>10, <1>14, <1>15, <1>16, <1>17, ManyMade

\* cJSON_Duplicate copies the strings and the names, but a constant name.
LEMMA DuplicateBlocks == ASSUME Inductive, Inductive', Counted, Duplicate PROVE Counted'
<1>1. PICK item \in live, recurse \in BOOLEAN :
        LET S == Visited(item, recurse)
        IN /\ recurse => Whole(S, item)
           /\ \E copy \in Injection(S, Items \ live) :
                LET Of(i) == CHOOSE s \in S : copy[s] = i
                    Copy(p) == IF p \in S THEN copy[p] ELSE NULL
                    Before(i) == {s \in S \ {item} : next[s] = Of(i)}
                IN /\ live' = live \cup Range(copy)
                   /\ next' = [i \in Items |-> IF i \notin Range(copy) THEN next[i]
                                               ELSE IF Of(i) = item THEN NULL ELSE Copy(next[Of(i)])]
                   /\ prev' = [i \in Items |-> IF i \notin Range(copy) THEN prev[i]
                                               ELSE IF Before(i) = {} THEN NULL
                                               ELSE copy[CHOOSE s \in Before(i) : TRUE]]
                   /\ child' = [i \in Items |-> IF i \notin Range(copy) THEN child[i]
                                                ELSE IF ~recurse THEN NULL ELSE Copy(child[Of(i)])]
                   /\ info' = [i \in Items |-> IF i \in Range(copy)
                                               THEN [info[Of(i)] EXCEPT !.ref = FALSE] ELSE info[i]]
                   /\ blocks' = blocks + Cardinality({s \in S : info[s].text})
                                       + Cardinality({s \in S : OldKey(s) = 1})
                   /\ held' = held \cup {copy[item]}
                   /\ UNCHANGED lost
  BY DEF Duplicate
<1> DEFINE S == Visited(item, recurse)
           Of(copy, i) == CHOOSE s \in S : copy[s] = i
<1>2. PICK copy \in Injection(S, Items \ live) :
        /\ live' = live \cup Range(copy)
        /\ info' = [i \in Items |-> IF i \in Range(copy)
                                    THEN [info[Of(copy, i)] EXCEPT !.ref = FALSE] ELSE info[i]]
        /\ blocks' = blocks + Cardinality({s \in S : info[s].text})
                            + Cardinality({s \in S : OldKey(s) = 1})
  BY <1>1
<1>3. S \in SUBSET live
  BY DEF Visited
<1> HIDE DEF S
<1> DEFINE P == {s \in S : info[s].text}
           Q == {s \in S : OldKey(s) = 1}
           u == [s \in S |-> (IF s \in P THEN 1 ELSE 0) + (IF s \in Q THEN 1 ELSE 0)]
           M == Range(copy)
<1>4. /\ copy \in [S -> Items \ live] /\ \A s, t \in S : copy[s] = copy[t] => s = t
  BY DEF Injection, IsInjective
<1>5. M = {copy[s] : s \in S} /\ M \in SUBSET (Items \ live)
  BY <1>4 DEF Range
<1>6. /\ live \subseteq Items /\ info \in [Items -> Info] /\ IsFiniteSet(live)
  BY Facts DEF Inductive, Counted
<1>7. S \in SUBSET live /\ IsFiniteSet(S) /\ IsFiniteSet(P) /\ IsFiniteSet(Q)
  <2>1. P \in SUBSET live /\ Q \in SUBSET live
    BY <1>3
  <2>2. QED
    BY <2>1, <1>3, <1>6, FS_Subset
<1>8. \A s \in S : info'[copy[s]] = [info[s] EXCEPT !.ref = FALSE]
  <2> SUFFICES ASSUME NEW s \in S PROVE info'[copy[s]] = [info[s] EXCEPT !.ref = FALSE]
    OBVIOUS
  <2>1. copy[s] \in M /\ copy[s] \in Items
    BY <1>4, <1>5
  <2>2. Of(copy, copy[s]) = s
    BY <1>4
  <2> HIDE DEF Of
  <2>3. QED
    BY <2>1, <2>2, <1>2
<1>9. \A s \in S : Weights'[copy[s]] = u[s] /\ u[s] \in Nat
  <2> SUFFICES ASSUME NEW s \in S PROVE Weights'[copy[s]] = u[s] /\ u[s] \in Nat
    OBVIOUS
  <2>1. Weights'[copy[s]] = Owned(info'[copy[s]])
    BY <1>4 DEF Weights
  <2>2. info[s] \in Info
    BY <1>6, <1>7
  <2>3. /\ info'[copy[s]].name = info[s].name /\ info'[copy[s]].const = info[s].const
        /\ info'[copy[s]].text = info[s].text /\ info'[copy[s]].ref = FALSE
    BY <1>8, <2>2 DEF Info
  <2>4. (info'[copy[s]].text /\ ~info'[copy[s]].ref) <=> s \in P
    BY <2>3, Zenon
  <2>5. (info'[copy[s]].name # NULL /\ ~info'[copy[s]].const) <=> s \in Q
    <3>1. OldKey(s) = 1 <=> info[s].name # NULL /\ ~info[s].const
      BY DEF OldKey
    <3>2. QED
      BY <2>3, <3>1, Zenon
  <2> HIDE DEF P, Q
  <2>6. Owned(info'[copy[s]]) = (IF s \in Q THEN 1 ELSE 0) + (IF s \in P THEN 1 ELSE 0)
    BY <2>4, <2>5, Zenon DEF Owned
  <2>7. QED
    BY <2>1, <2>6
<1>10. Total(u, S) = Cardinality(P) + Cardinality(Q)
  <2>1. P \in SUBSET S /\ Q \in SUBSET S
    OBVIOUS
  <2>2. \A s \in S : u[s] = (IF s \in P THEN 1 ELSE 0) + (IF s \in Q THEN 1 ELSE 0)
    OBVIOUS
  <2> HIDE DEF P, Q, u
  <2>3. QED
    BY <1>7, <2>1, <2>2, TotalCount
<1>11. IsFiniteSet(M) /\ Total(Weights', M) = Total(u, S)
  <2> HIDE DEF u, M
  <2>1. \A s, t \in S : copy[s] = copy[t] => s = t
    BY <1>4
  <2>2. \A s \in S : u[s] \in Nat /\ Weights'[copy[s]] = u[s]
    BY <1>9
  <2>3. IsFiniteSet({copy[s] : s \in S}) /\ Total(Weights', {copy[s] : s \in S}) = Total(u, S)
    BY <1>7, <2>1, <2>2, TotalImage
  <2>4. QED
    BY <1>5, <2>3
<1>12. live' = live \cup M /\ blocks' = blocks + Cardinality(P) + Cardinality(Q)
  BY <1>2
<1>13. \A x \in live : info'[x] = info[x]
  BY <1>2, <1>5, <1>6
<1> HIDE DEF P, Q, u, M
<1>14. /\ Total(Weights', M) = Cardinality(P) + Cardinality(Q)
       /\ Cardinality(P) \in Nat /\ Cardinality(Q) \in Nat /\ blocks \in Nat
  BY <1>7, <1>10, <1>11, FS_CardinalityType, CountedNat
<1>15. /\ Cardinality(P) + Cardinality(Q) \in Nat
       /\ blocks' = blocks + (Cardinality(P) + Cardinality(Q))
  BY <1>12, <1>14
<1>16. QED
  BY <1>5, <1>11, <1>12, <1>13, <1>14, <1>15, ManyMade

-----------------------------------------------------------------------------
(* The theorems *)

\* Every step keeps the count.
LEMMA NextCounted == ASSUME Inductive, Inductive', Counted, [Next]_vars PROVE Counted'
<1>1. CASE Create
  BY <1>1, CreateBlocks
<1>2. CASE CreateArray
  BY <1>2, CreateArrayBlocks
<1>3. CASE AddItemToArray
  BY <1>3, NoBlocks DEF AddItemToArray
<1>4. CASE AddItemToObject
  BY <1>4, AddItemToObjectBlocks
<1>5. CASE AddNewToObject
  BY <1>5, AddNewToObjectBlocks
<1>6. CASE AddLost
  BY <1>6, NoBlocks DEF AddLost
<1>7. CASE AddReference
  BY <1>7, AddReferenceBlocks
<1>8. CASE AddReferenceLost
  BY <1>8, AddReferenceLostBlocks
<1>9. CASE Detach
  BY <1>9, NoBlocks DEF Detach
<1>10. CASE DeleteItem
  BY <1>10, DeleteItemBlocks
<1>11. CASE Insert
  BY <1>11, NoBlocks DEF Insert, InsertAtItem
<1>12. CASE Replace
  BY <1>12, ReplaceBlocks
<1>13. CASE ReplaceInObject
  BY <1>13, ReplaceInObjectBlocks
<1>14. CASE ReplaceInObjectMissed
  BY <1>14, ReplaceInObjectMissedBlocks
<1>15. CASE Delete
  BY <1>15, DeleteBlocks
<1>16. CASE Duplicate
  BY <1>16, DuplicateBlocks
<1>17. CASE UNCHANGED vars
  BY <1>17, NoBlocks DEF vars
<1>18. QED
  BY <1>1, <1>2, <1>3, <1>4, <1>5, <1>6, <1>7, <1>8, <1>9, <1>10, <1>11, <1>12, <1>13, <1>14,
     <1>15, <1>16, <1>17 DEF Next

\* The number of string blocks is the number the live items own.
THEOREM BlocksCounted == Spec => []Counted
<1>1. Init => Inductive /\ Counted
  <2> SUFFICES ASSUME Init PROVE Inductive /\ Counted
    OBVIOUS
  <2>1. Inductive
    BY InitInductive
  <2>2. live = {} /\ blocks = 0
    BY DEF Init
  <2>3. IsFiniteSet(live) /\ Total(Weights, live) = 0
    BY <2>2, FS_EmptySet, TotalNone
  <2>4. QED
    BY <2>1, <2>2, <2>3 DEF Counted
<1>2. Inductive /\ Counted /\ [Next]_vars => Inductive' /\ Counted'
  <2> SUFFICES ASSUME Inductive, Counted, [Next]_vars PROVE Inductive' /\ Counted'
    OBVIOUS
  <2>1. Inductive'
    BY NextInductive
  <2>2. QED
    BY <2>1, NextCounted
<1>3. QED
  BY <1>1, <1>2, PTL DEF Spec

\* The pointers lead to items, names and flags are of their types, and there is a
\* whole number of string blocks.
THEOREM TypeCorrect == Spec => []TypeOK
<1>1. Inductive /\ Counted => TypeOK
  <2> SUFFICES ASSUME Inductive, Counted PROVE TypeOK
    OBVIOUS
  <2>1. live \subseteq Items /\ held \subseteq live /\ lost \subseteq live
    BY Facts DEF Roots
  <2>2. blocks \in Nat
    BY CountedNat
  <2>3. QED
    BY <2>1, <2>2 DEF TypeOK, Inductive
<1>2. QED
  BY <1>1, Forested, BlocksCounted, PTL

\* Every item is below one item that the client holds or that is lost, and every
\* string block belongs to one item: deleting them all would free each once.
THEOREM BlocksOwned == Spec => []OneOwner
<1>1. Inductive /\ Counted /\ Divided => OneOwner
  <2> SUFFICES ASSUME Inductive, Counted, Divided PROVE OneOwner
    OBVIOUS
  <2>1. live \in SUBSET Items
    BY Facts
  <2>2. BlocksOf(live) = Total(Weights, live)
    BY <2>1, BlocksTotal
  <2>3. QED
    BY <2>2 DEF OneOwner, Counted
<1>2. QED
  BY <1>1, Forested, BlocksCounted, ItemsOwned, PTL

-----------------------------------------------------------------------------
(* Lists *)

\* What a loop over nx meets from an item on.
Reach(L, nx, a) ==
  { i \in L : \A S \in SUBSET L : (a \in S /\ \A s \in S : nx[s] \in Maybe(S)) => i \in S }

\* What the model calls From is such a list.
LEMMA FromReach == \A a : From(a) = Reach(live, next, a)
  BY DEF From, Reach

\* It holds the item it begins with, is closed under nx, and is the least such set.
LEMMA ReachSet ==
  ASSUME NEW L, NULL \notin L, NEW nx, \A x \in L : nx[x] \in Maybe(L), NEW a \in L
  PROVE  /\ Reach(L, nx, a) \subseteq L /\ a \in Reach(L, nx, a)
         /\ \A x \in Reach(L, nx, a) : nx[x] \in Maybe(Reach(L, nx, a))
         /\ \A S \in SUBSET L :
              a \in S /\ (\A s \in S : nx[s] \in Maybe(S)) => Reach(L, nx, a) \subseteq S
<1> DEFINE C == Reach(L, nx, a)
           Shut(S) == a \in S /\ \A s \in S : nx[s] \in Maybe(S)
<1>1. \A i : i \in C <=> i \in L /\ \A S \in SUBSET L : Shut(S) => i \in S
  BY DEF Reach
<1> HIDE DEF C
<1>2. C \subseteq L /\ a \in C
  BY <1>1
<1>3. ASSUME NEW x \in C PROVE nx[x] \in Maybe(C)
  <2>1. x \in L /\ \A S \in SUBSET L : Shut(S) => x \in S
    BY <1>1
  <2>2. \A S \in SUBSET L : Shut(S) => nx[x] \in Maybe(S)
    BY <2>1
  <2>3. nx[x] \in Maybe(L)
    BY <2>1
  <2> HIDE DEF Shut
  <2>4. nx[x] # NULL => nx[x] \in C
    BY <2>2, <2>3, <1>1 DEF Maybe
  <2>5. QED
    BY <2>4 DEF Maybe
<1>4. \A S \in SUBSET L : Shut(S) => C \subseteq S
  BY <1>1
<1>5. QED
  BY <1>2, <1>3, <1>4 DEF C

\* The list from an item of a list on is part of it, and begins with the item.
LEMMA ReachFurther ==
  ASSUME NEW L, NULL \notin L, NEW nx, \A x \in L : nx[x] \in Maybe(L), NEW a \in L,
         NEW x \in Reach(L, nx, a)
  PROVE  /\ x \in L /\ Reach(L, nx, x) \subseteq Reach(L, nx, a)
         /\ Reach(L, nx, x) = {x} \cup (IF nx[x] = NULL THEN {} ELSE Reach(L, nx, nx[x]))
<1>1. /\ Reach(L, nx, a) \in SUBSET L
      /\ \A y \in Reach(L, nx, a) : nx[y] \in Maybe(Reach(L, nx, a))
  BY ReachSet
<1>2. x \in L
  BY <1>1
<1>3. /\ Reach(L, nx, x) \subseteq L /\ x \in Reach(L, nx, x)
      /\ \A y \in Reach(L, nx, x) : nx[y] \in Maybe(Reach(L, nx, x))
      /\ \A S \in SUBSET L :
           x \in S /\ (\A s \in S : nx[s] \in Maybe(S)) => Reach(L, nx, x) \subseteq S
  BY <1>2, ReachSet
<1>4. Reach(L, nx, x) \subseteq Reach(L, nx, a)
  BY <1>1, <1>3
<1>5. CASE nx[x] = NULL
  <2>1. {x} \in SUBSET L /\ x \in {x} /\ \A s \in {x} : nx[s] \in Maybe({x})
    BY <1>2, <1>5 DEF Maybe
  <2>2. Reach(L, nx, x) \subseteq {x}
    BY <1>3, <2>1
  <2>3. QED
    BY <1>2, <1>3, <1>4, <1>5, <2>2
<1>6. CASE nx[x] # NULL
  <2> DEFINE y == nx[x]
             N == Reach(L, nx, y)
  <2>1. y \in L /\ y \in Reach(L, nx, x)
    BY <1>2, <1>3, <1>6 DEF Maybe
  <2>2. /\ N \subseteq L /\ y \in N /\ \A z \in N : nx[z] \in Maybe(N)
        /\ \A S \in SUBSET L : y \in S /\ (\A s \in S : nx[s] \in Maybe(S)) => N \subseteq S
    BY <2>1, ReachSet
  <2> HIDE DEF N
  <2>3. N \subseteq Reach(L, nx, x)
    <3> DEFINE X == Reach(L, nx, x)
    <3>1. X \in SUBSET L /\ y \in X /\ \A s \in X : nx[s] \in Maybe(X)
      BY <1>3, <2>1
    <3> HIDE DEF X, y
    <3>2. N \subseteq X
      BY <3>1, <2>2
    <3>3. QED
      BY <3>2 DEF X
  <2> DEFINE S == {x} \cup N
  <2>4. S \in SUBSET L /\ x \in S /\ \A s \in S : nx[s] \in Maybe(S)
    BY <1>2, <2>2 DEF Maybe
  <2>5. Reach(L, nx, x) \subseteq S
    <3> HIDE DEF S
    <3>1. QED
      BY <2>4, <1>3
  <2>6. Reach(L, nx, x) = S
    BY <1>3, <2>3, <2>5
  <2>7. QED
    BY <1>2, <1>4, <1>6, <2>6 DEF N
<1>7. QED
  BY <1>5, <1>6

\* Of two items of a list one is behind the other.
LEMMA ReachOrder ==
  ASSUME NEW L, NULL \notin L, NEW nx, \A x \in L : nx[x] \in Maybe(L), NEW a \in L,
         NEW x \in Reach(L, nx, a), NEW y \in Reach(L, nx, a)
  PROVE  x \in Reach(L, nx, y) \/ y \in Reach(L, nx, x)
<1> DEFINE C == Reach(L, nx, a)
           R(z) == Reach(L, nx, z)
           S == {z \in C : x \in R(z) \/ z \in R(x)}
<1>1. /\ C \subseteq L /\ a \in C /\ \A z \in C : nx[z] \in Maybe(C)
      /\ \A Z \in SUBSET L : a \in Z /\ (\A s \in Z : nx[s] \in Maybe(Z)) => C \subseteq Z
  BY ReachSet
<1>2. \A z \in C : z \in L /\ R(z) = {z} \cup (IF nx[z] = NULL THEN {} ELSE R(nx[z]))
  BY ReachFurther
<1>3. x \in L /\ \A z \in R(x) : nx[z] \in Maybe(R(x))
  BY <1>1, ReachSet
<1>4. x \in C /\ y \in C
  OBVIOUS
<1>5. a \in S
  BY <1>1
<1> HIDE DEF C, R
<1>6. \A s \in S : nx[s] \in Maybe(S)
  <2> SUFFICES ASSUME NEW s \in S, nx[s] # NULL PROVE nx[s] \in S
    BY DEF Maybe
  <2>1. s \in C /\ nx[s] \in C
    BY <1>1 DEF Maybe
  <2>2. CASE s \in R(x)
    BY <2>1, <2>2, <1>3 DEF Maybe
  <2>3. CASE x \in R(s) /\ s # x
    BY <2>1, <2>3, <1>2
  <2>4. x \in R(x)
    BY <1>2, <1>4
  <2>5. QED
    BY <2>2, <2>3, <2>4
<1>7. S \in SUBSET L
  BY <1>1
<1>8. y \in S
  BY <1>1, <1>4, <1>5, <1>6, <1>7
<1>9. QED
  BY <1>8 DEF R

\* A list whose items are replaced one by one by others that are linked alike.
Moved(m, S) == {m[x] : x \in S}

\* That is what a loop over the new pointers meets then.
LEMMA ReachMoved ==
  ASSUME NEW L, NULL \notin L, NEW nx, \A x \in L : nx[x] \in Maybe(L), NEW a \in L,
         NEW M, NULL \notin M, NEW ny, \A x \in M : ny[x] \in Maybe(M), NEW m,
         \A x \in Reach(L, nx, a) :
           m[x] \in M /\ ny[m[x]] = IF nx[x] = NULL THEN NULL ELSE m[nx[x]]
  PROVE  Reach(M, ny, m[a]) = Moved(m, Reach(L, nx, a))
<1> DEFINE C == Reach(L, nx, a)
           D == Reach(M, ny, m[a])
           I == {m[x] : x \in C}
<1>1. /\ C \subseteq L /\ a \in C /\ \A z \in C : nx[z] \in Maybe(C)
      /\ \A Z \in SUBSET L : a \in Z /\ (\A s \in Z : nx[s] \in Maybe(Z)) => C \subseteq Z
  BY ReachSet
<1>2. m[a] \in M
  BY <1>1
<1>3. /\ D \subseteq M /\ m[a] \in D /\ \A z \in D : ny[z] \in Maybe(D)
      /\ \A Z \in SUBSET M : m[a] \in Z /\ (\A s \in Z : ny[s] \in Maybe(Z)) => D \subseteq Z
  BY <1>2, ReachSet
<1>4. \A x \in C : m[x] \in M /\ ny[m[x]] = IF nx[x] = NULL THEN NULL ELSE m[nx[x]]
  OBVIOUS
<1> HIDE DEF C, D
<1>5. D \subseteq I
  <2>1. I \in SUBSET M /\ m[a] \in I
    BY <1>1, <1>4
  <2>2. ASSUME NEW s \in I PROVE ny[s] \in Maybe(I)
    <3>1. PICK x \in C : s = m[x]
      OBVIOUS
    <3>2. CASE nx[x] = NULL
      BY <3>1, <3>2, <1>4 DEF Maybe
    <3>3. CASE nx[x] # NULL
      <4>1. nx[x] \in C
        BY <3>3, <1>1 DEF Maybe
      <4>2. QED
        BY <3>1, <3>3, <4>1, <1>4 DEF Maybe
    <3>4. QED
      BY <3>2, <3>3
  <2> HIDE DEF I
  <2>3. QED
    BY <2>1, <2>2, <1>3
<1>6. I \subseteq D
  <2> DEFINE S == {x \in C : m[x] \in D}
  <2>1. S \in SUBSET L /\ a \in S
    BY <1>1, <1>3
  <2>2. ASSUME NEW s \in S PROVE nx[s] \in Maybe(S)
    <3>1. s \in C /\ m[s] \in D
      OBVIOUS
    <3>2. CASE nx[s] # NULL
      <4>1. nx[s] \in C /\ ny[m[s]] = m[nx[s]]
        BY <3>1, <3>2, <1>1, <1>4 DEF Maybe
      <4>2. m[nx[s]] \in M /\ ny[m[s]] \in Maybe(D)
        BY <3>1, <4>1, <1>3, <1>4
      <4>3. m[nx[s]] \in D
        BY <4>1, <4>2 DEF Maybe
      <4>4. QED
        BY <4>1, <4>3 DEF Maybe
    <3>3. QED
      BY <3>2 DEF Maybe
  <2> HIDE DEF S
  <2>3. C \subseteq S
    BY <2>1, <2>2, <1>1
  <2>4. QED
    BY <2>3 DEF S
<1>7. QED
  BY <1>5, <1>6 DEF C, D, Moved

-----------------------------------------------------------------------------
(* Replacement by name *)

\* No child of a parent is below another.
LEMMA ChildrenApart ==
  ASSUME Inductive, NEW p \in live, ~info[p].ref, NEW item \in Children(p)
  PROVE  Children(p) \cap Tree(item) = {item}
<1> DEFINE C == Children(p)
           D == Tree(item)
           S == C \ (D \ {item})
<1>1. /\ C \subseteq live /\ Own[p] = child[p] /\ child[p] # NULL /\ child[p] \in live /\ child[p] \in C
      /\ \A x \in C : next[x] \in Maybe(C)
      /\ \A Z \in SUBSET live :
              child[p] \in Z /\ (\A s \in Z : next[s] \in Maybe(Z)) => C \subseteq Z
  BY ChildSet
<1>2. item \in C /\ item \in live
  BY <1>1
<1>3. D \in SUBSET live /\ Subtree(D, item, next, Own) /\ p \notin D
  BY <1>2, TreeBelow, ParentOutside
<1>4. Pointers(live, next, prev, Own) /\ NULL \notin live
  BY Facts
<1> HIDE DEF C, D
<1>5. child[p] \in S
  <2> SUFFICES ASSUME child[p] \in D \ {item} PROVE FALSE
    BY <1>1
  <2>1. prev[child[p]] = NULL
    BY <1>1, <1>4 DEF Pointers
  <2>2. ~ \E x \in D \ {item} : next[x] = child[p]
    BY <1>1, <1>3, <1>4, <2>1 DEF Pointers
  <2>3. PICK q \in D : Own[q] = child[p]
    BY <2>2, <1>3 DEF Subtree
  <2>4. q = p
    BY <2>3, <1>1, <1>3, <1>4 DEF Pointers
  <2>5. QED
    BY <2>3, <2>4, <1>3
<1>6. ASSUME NEW s \in S PROVE next[s] \in Maybe(S)
  <2> SUFFICES ASSUME next[s] # NULL, next[s] \in D \ {item} PROVE FALSE
    BY <1>1 DEF Maybe
  <2>1. s \in live /\ next[s] \in live /\ prev[next[s]] = s /\ s # NULL
    BY <1>1, <1>3, <1>4 DEF Pointers
  <2>2. ~ \E x \in D \ {item} : next[x] = next[s]
    BY <2>1, <1>3, <1>4 DEF Pointers
  <2>3. PICK q \in D : Own[q] = next[s]
    BY <2>2, <1>3 DEF Subtree
  <2>4. prev[next[s]] = NULL
    BY <2>1, <2>3, <1>3, <1>4 DEF Pointers
  <2>5. QED
    BY <2>1, <2>4
<1>7. S \in SUBSET live
  BY <1>1
<1>8. C \subseteq S
  <2> HIDE DEF S
  <2>1. QED
    BY <1>1, <1>5, <1>6, <1>7
<1>9. item \in D
  BY <1>3 DEF Subtree
<1>10. QED
  BY <1>2, <1>8, <1>9 DEF C, D

\* The list of the parent after a replacement: the replacement is where the item was.
InPlace(item, r) == [x \in live |-> IF x = item THEN r ELSE x]

\* So it is for the children of the parent, and from each of them on.
LEMMA SubstitutedList ==
  ASSUME Inductive, Inductive', NEW p \in live, NEW r \in held, Adds(p, r),
         NEW item \in Children(p),
         Substitute(p, item, r, Tree(item)), live' = live \ Tree(item),
         NEW m, m = InPlace(item, r)
  PROVE  /\ r \notin Children(p) /\ r \notin Tree(item)
         /\ \A x \in Children(p) : m[x] = IF x = item THEN r ELSE x
         /\ \A x \in Children(p) : Reach(live', next', m[x]) = Moved(m, From(x))
         /\ child'[p] # NULL /\ Reach(live', next', child'[p]) = Moved(m, Children(p))
<1> DEFINE C == Children(p)
           D == Tree(item)
<1>1. /\ C \subseteq live /\ child[p] # NULL /\ child[p] \in live /\ child[p] \in C
      /\ \A x \in C : next[x] \in Maybe(C)
      /\ ~info[p].ref
  BY ChildSet DEF Adds
<1>2. /\ item \in C /\ item \in live /\ C \cap D = {item}
      /\ p \notin D /\ prev[item] \notin D /\ next[item] \notin D
  BY <1>1, ChildrenApart, ParentOutside
<1>3. /\ live \subseteq Items /\ NULL \notin Items /\ NULL \notin live /\ Roots \subseteq live
      /\ Pointers(live, next, prev, Own)
      /\ \A x \in live : next[x] \in Maybe(live)
  BY Facts
<1>4. /\ NULL \notin live' /\ \A x \in live' : next'[x] \in Maybe(live')
  <2>1. Inductive'
    OBVIOUS
  <2>2. Forest(live', next', prev', Own', Roots')
    BY <2>1 DEF Inductive
  <2>3. live' \subseteq Items /\ \A x \in live' : next'[x] \in Maybe(live')
    BY <2>2 DEF Forest, Pointers
  <2>4. QED
    BY <2>3, <1>3
<1>5. r \in live /\ r \notin D
  BY <1>1, RootTaken, Substituted
<1>6. r \notin C
  <2>1. \A x \in Children(p) : x \notin Roots
    BY <1>1, ChildFacts
  <2>2. QED
    BY <2>1, RootTaken
<1>7. \A x \in C : m[x] = IF x = item THEN r ELSE x
  BY <1>1 DEF InPlace
<1>8. /\ next' = [x \in Items |-> IF x \in D THEN NULL
                                  ELSE IF x = r THEN next[item]
                                  ELSE IF x = prev[item] THEN r ELSE next[x]]
      /\ child' = [x \in Items |-> IF x \in D THEN NULL
                                   ELSE IF x = p /\ child[x] = item THEN r ELSE child[x]]
  BY DEF Substitute
<1> HIDE DEF C, D
<1>9. ASSUME NEW x \in C
      PROVE  m[x] \in live' /\ next'[m[x]] = IF next[x] = NULL THEN NULL ELSE m[next[x]]
  <2>1. m[x] \in live' /\ m[x] \in Items /\ m[x] \notin D
    BY <1>1, <1>2, <1>3, <1>5, <1>7 DEF D
  <2>2. CASE x = item
    <3>1. next'[m[x]] = next[item]
      BY <2>1, <2>2, <1>7, <1>8
    <3>2. next[item] # item /\ next[item] \in Maybe(C)
      BY <1>1, <1>2
    <3>3. QED
      BY <2>1, <2>2, <3>1, <3>2, <1>7 DEF Maybe
  <2>3. CASE x # item
    <3>1. m[x] = x /\ x # r /\ x \notin D /\ x \in live
      BY <2>3, <1>1, <1>2, <1>6, <1>7
    <3>2. next'[x] = IF x = prev[item] THEN r ELSE next[x]
      BY <3>1, <1>3, <1>8
    <3>3. x = prev[item] <=> next[x] = item
      BY <3>1, <1>2, <1>3 DEF Pointers
    <3>4. next[x] \in Maybe(C) /\ item # NULL
      BY <1>1, <1>2, <1>3
    <3>5. QED
      BY <2>1, <3>1, <3>2, <3>3, <3>4, <1>7 DEF Maybe
  <2>4. QED
    BY <2>2, <2>3
<1>10. child'[p] = m[child[p]]
  BY <1>1, <1>2, <1>3, <1>7, <1>8
<1>11. C = Reach(live, next, child[p])
  BY <1>1, FromReach DEF C, Children
<1>12. ASSUME NEW x \in C PROVE Reach(live', next', m[x]) = Moved(m, From(x))
  <2>1. x \in live /\ Reach(live, next, x) \subseteq C
    BY <1>1, <1>3, <1>11, ReachFurther
  <2>2. \A y \in Reach(live, next, x) :
          m[y] \in live' /\ next'[m[y]] = IF next[y] = NULL THEN NULL ELSE m[next[y]]
    BY <2>1, <1>9
  <2>3. ASSUME NEW M, M = live', NEW ny, ny = next'
        PROVE  Reach(M, ny, m[x]) = Moved(m, Reach(live, next, x))
    <3>1. /\ NULL \notin M /\ \A y \in M : ny[y] \in Maybe(M)
          /\ \A y \in Reach(live, next, x) :
               m[y] \in M /\ ny[m[y]] = IF next[y] = NULL THEN NULL ELSE m[next[y]]
      BY <2>2, <2>3, <1>4
    <3>2. QED
      BY <2>1, <3>1, <1>3, ReachMoved
  <2>4. QED
    BY <2>3, FromReach
<1>13. child'[p] # NULL /\ Reach(live', next', child'[p]) = Moved(m, C)
  <2>1. child'[p] # NULL
    BY <1>1, <1>4, <1>9, <1>10
  <2>3. Reach(live', next', m[child[p]]) = Moved(m, From(child[p]))
    BY <1>1, <1>12
  <2>4. From(child[p]) = C
    BY <1>11, FromReach
  <2>5. QED
    BY <2>1, <2>3, <2>4, <1>10
<1>14. QED
  BY <1>5, <1>6, <1>7, <1>12, <1>13 DEF C, D

\* The first item of a name, and the first of another name, after a replacement.
LEMMA ReplacedByName ==
  ASSUME Inductive, Inductive', NEW object \in live, NEW new \in held, NEW name \in Names,
         NEW case \in BOOLEAN, ReplaceNamed(object, name, case, name, new)
  PROVE  /\ GetObjectItem(object, name, case)' = {new}
         /\ \A other \in Names : Fold[other] # Fold[name] =>
              GetObjectItem(object, other, FALSE)' = GetObjectItem(object, other, FALSE)
<1>1. PICK item \in GetObjectItem(object, name, case) :
        /\ Substitute(object, item, new, Tree(item))
        /\ live' = live \ Tree(item)
        /\ info' = Renamed(new, name, [i \in Items |-> IF i \in Tree(item) THEN Blank ELSE info[i]])
  BY DEF ReplaceNamed
<1> DEFINE C == Children(object)
<1>2. item \in C /\ Adds(object, new)
  BY DEF GetObjectItem, ReplaceNamed
<1>3. PICK m : m = InPlace(item, new)
  OBVIOUS
<1>4. /\ new \notin C /\ new \notin Tree(item)
      /\ \A x \in C : m[x] = IF x = item THEN new ELSE x
      /\ \A x \in C : Reach(live', next', m[x]) = Moved(m, From(x))
      /\ child'[object] # NULL /\ Reach(live', next', child'[object]) = Moved(m, C)
  <2>1. item \in Children(object) /\ Adds(object, new)
    BY <1>2
  <2>2. Substitute(object, item, new, Tree(item)) /\ live' = live \ Tree(item)
    BY <1>1
  <2>3. Inductive /\ Inductive' /\ object \in live /\ new \in held
    OBVIOUS
  <2> HIDE DEF C
  <2>4. new \notin Children(object) /\ new \notin Tree(item)
    BY <2>1, <2>2, <2>3, <1>3, SubstitutedList
  <2>5. \A x \in Children(object) : m[x] = IF x = item THEN new ELSE x
    BY <2>1, <2>2, <2>3, <1>3, SubstitutedList
  <2>6. ASSUME NEW x \in Children(object) PROVE Reach(live', next', m[x]) = Moved(m, From(x))
    BY <2>1, <2>2, <2>3, <1>3, SubstitutedList
  <2>7. child'[object] # NULL /\ Reach(live', next', child'[object]) = Moved(m, Children(object))
    BY <2>1, <2>2, <2>3, <1>3, SubstitutedList
  <2>8. QED
    BY <2>4, <2>5, <2>6, <2>7 DEF C
<1>5. /\ C \subseteq live /\ live \subseteq Items /\ NULL \notin live
      /\ C \cap Tree(item) = {item} /\ child[object] \in live
      /\ C = Reach(live, next, child[object])
      /\ \A x \in live : next[x] \in Maybe(live)
      /\ new \in Items
  <2>1. ~info[object].ref
    BY <1>2 DEF Adds
  <2>2. C \subseteq live /\ child[object] # NULL /\ child[object] \in live
    BY <1>2, <2>1, ChildSet
  <2>3. C = Reach(live, next, child[object])
    BY <2>2, FromReach DEF Children
  <2>4. new \in live
    BY RootTaken
  <2>5. QED
    BY <1>2, <2>1, <2>2, <2>3, <2>4, Facts, ChildrenApart
<1>6. /\ Matches(item, name, case)
      /\ \A y \in C \ {item} : Matches(y, name, case) => item \notin From(y)
  BY DEF GetObjectItem
<1>7. /\ info'[new].name = name
      /\ \A x \in C \ {item} : info'[x] = info[x]
  <2> DEFINE old == [i \in Items |-> IF i \in Tree(item) THEN Blank ELSE info[i]]
  <2>1. info' = [old EXCEPT ![new].name = name, ![new].const = FALSE]
    BY <1>1 DEF Renamed
  <2>2. old[new] = info[new] /\ info[new] \in Info
    BY <1>4, <1>5 DEF Inductive
  <2>3. info'[new].name = name
    BY <2>1, <2>2, <1>5 DEF Info
  <2>4. ASSUME NEW x \in C \ {item} PROVE info'[x] = info[x]
    <3>1. x \in Items /\ x \notin Tree(item) /\ x # new
      BY <1>4, <1>5
    <3>2. info'[x] = old[x]
      BY <2>1, <3>1
    <3>3. QED
      BY <3>1, <3>2
  <2>5. QED
    BY <2>3, <2>4
<1> HIDE DEF C
<1> DEFINE N == (C \ {item}) \cup {new}
<1>8. Children(object)' = N
  <2>1. Children(object)' = Reach(live', next', child'[object])
    BY <1>4 DEF Children, From, Reach
  <2>2. QED
    BY <2>1, <1>2, <1>4 DEF Moved
<1>9. ASSUME NEW x \in C \ {item}
      PROVE  /\ \A y \in C \ {item} : y \in Reach(live', next', x) <=> y \in From(x)
             /\ new \in Reach(live', next', x) <=> item \in From(x)
             /\ x \in Reach(live', next', new) <=> x \in From(item)
             /\ From(x) \subseteq C /\ From(item) \subseteq C
             /\ x \in From(item) \/ item \in From(x)
  <2>1. m[x] = x /\ m[item] = new
    BY <1>2, <1>4
  <2>2. /\ Reach(live', next', x) = Moved(m, From(x))
        /\ Reach(live', next', new) = Moved(m, From(item))
    BY <2>1, <1>2, <1>4
  <2>3. From(x) \subseteq C /\ From(item) \subseteq C
    BY <1>2, <1>5, FromReach, ReachFurther
  <2>4. x \in From(item) \/ item \in From(x)
    BY <1>2, <1>5, FromReach, ReachOrder
  <2>5. \A y \in C \ {item} : y \in Reach(live', next', x) <=> y \in From(x)
    BY <2>2, <2>3, <1>2, <1>4 DEF Moved
  <2>6. new \in Reach(live', next', x) <=> item \in From(x)
    BY <2>2, <2>3, <1>2, <1>4 DEF Moved
  <2>7. x \in Reach(live', next', new) <=> x \in From(item)
    BY <2>2, <2>3, <1>2, <1>4 DEF Moved
  <2>8. QED
    BY <2>3, <2>4, <2>5, <2>6, <2>7
\* The names after the step.
<1> DEFINE Match(x, of, c) == IF c THEN info'[x].name = of
                              ELSE info'[x].name # NULL /\ Fold[info'[x].name] = Fold[of]
<1>10. \A of \in Names, c \in BOOLEAN :
         GetObjectItem(object, of, c)' =
           { x \in N : Match(x, of, c) /\
               \A y \in N \ {x} : Match(y, of, c) => x \notin Reach(live', next', y) }
  <2> SUFFICES ASSUME NEW of \in Names, NEW c \in BOOLEAN
               PROVE  GetObjectItem(object, of, c)' =
                        { x \in N : Match(x, of, c) /\
                            \A y \in N \ {x} : Match(y, of, c) => x \notin Reach(live', next', y) }
    OBVIOUS
  <2>1. GetObjectItem(object, of, c)' =
           { x \in Children(object)' : Matches(x, of, c)' /\
               \A y \in Children(object)' \ {x} : Matches(y, of, c)' => x \notin From(y)' }
    BY DEF GetObjectItem
  <2>2. \A x : Matches(x, of, c)' <=> Match(x, of, c)
    BY DEF Matches
  <2>3. \A y : From(y)' = Reach(live', next', y)
    BY DEF From, Reach
  <2> HIDE DEF Match, N
  <2>4. QED
    BY <2>1, <2>2, <2>3, <1>8
<1>11. \A x \in C \ {item}, of \in Names, c \in BOOLEAN : Match(x, of, c) <=> Matches(x, of, c)
  BY <1>7 DEF Matches
<1>12. Match(new, name, case)
  BY <1>7, NullAssumption
<1>13. \A of \in Names : Fold[of] # Fold[name] => ~Match(new, of, FALSE)
  BY <1>7
<1> HIDE DEF Match
<1>14. GetObjectItem(object, name, case)' = {new}
  <2> DEFINE G == { x \in N : Match(x, name, case) /\
                     \A y \in N \ {x} : Match(y, name, case) => x \notin Reach(live', next', y) }
  <2>1. new \in G
    BY <1>4, <1>6, <1>9, <1>11, <1>12
  <2>2. ASSUME NEW x \in G, x # new PROVE FALSE
    <3>1. x \in C \ {item} /\ Match(x, name, case) /\ x \notin Reach(live', next', new)
      BY <2>2, <1>12
    <3>2. Matches(x, name, case) /\ x \notin From(item)
      BY <3>1, <1>9, <1>11
    <3>3. item \in From(x)
      BY <3>1, <3>2, <1>9
    <3>4. QED
      BY <3>1, <3>2, <3>3, <1>6
  <2>3. G = {new}
    BY <2>1, <2>2
  <2>4. QED
    BY <2>3, <1>10
<1>15. ASSUME NEW other \in Names, Fold[other] # Fold[name]
       PROVE  GetObjectItem(object, other, FALSE)' = GetObjectItem(object, other, FALSE)
  <2> DEFINE G == { x \in N : Match(x, other, FALSE) /\
                     \A y \in N \ {x} : Match(y, other, FALSE) => x \notin Reach(live', next', y) }
             H == { x \in C : Matches(x, other, FALSE) /\
                     \A y \in C \ {x} : Matches(y, other, FALSE) => x \notin From(y) }
  <2>1. ~Matches(item, other, FALSE)
    BY <1>6, <1>15 DEF Matches
  <2>2. ~Match(new, other, FALSE)
    BY <1>13, <1>15
  <2>3. \A x \in C \ {item} : Match(x, other, FALSE) <=> Matches(x, other, FALSE)
    BY <1>11
  <2>4. \A x : x \in G <=> x \in H
    BY <2>1, <2>2, <2>3, <1>4, <1>9
  <2>5. GetObjectItem(object, other, FALSE) = H
    BY DEF GetObjectItem, C
  <2>6. GetObjectItem(object, other, FALSE)' = G
    BY <1>10
  <2> HIDE DEF G, H
  <2>7. QED
    BY <2>4, <2>5, <2>6
<1>16. QED
  BY <1>14, <1>15

\* After cJSON_ReplaceItemInObject the name leads to the replacement, and every
\* name that differs in more than case leads where it led before.
THEOREM ReplacementFound == Spec => ReplacedIsFound
<1>1. ASSUME Inductive, Inductive', [Next]_vars
      PROVE  [\A object \in live, new \in held, name \in Names, case \in BOOLEAN :
               ReplaceNamed(object, name, case, name, new) =>
                 /\ GetObjectItem(object, name, case)' = {new}
                 /\ \A other \in Names : Fold[other] # Fold[name] =>
                      GetObjectItem(object, other, FALSE)' = GetObjectItem(object, other, FALSE)]_vars
  BY <1>1, ReplacedByName
<1>2. QED
  BY <1>1, Forested, PTL DEF Spec, ReplacedIsFound

-----------------------------------------------------------------------------
(* Lists as sequences *)

\* s is what a loop over nx meets from a on, in order.
At(s, k) == IF k \in 1..Len(s) THEN s[k] ELSE NULL
IsWalk(nx, a, s) ==
  /\ s \in Seq(Items)
  /\ At(s, 1) = a
  /\ \A k \in 1..Len(s) : nx[s[k]] = At(s, k + 1)

\* Behind its last item a sequence has NULL, and only there.
LEMMA AtItem ==
  ASSUME NEW s \in Seq(Items), NEW k \in Nat \ {0}
  PROVE  /\ Len(s) \in Nat
         /\ k <= Len(s) => At(s, k) = s[k] /\ s[k] \in Items
         /\ k > Len(s) => At(s, k) = NULL
         /\ At(s, k) = NULL <=> k > Len(s)
<1>1. Len(s) \in Nat /\ NULL \notin Items
  BY NullAssumption
<1>2. k \in 1..Len(s) <=> k <= Len(s)
  BY <1>1
<1>3. k \in 1..Len(s) => s[k] \in Items
  OBVIOUS
<1>4. QED
  BY <1>1, <1>2, <1>3 DEF At

\* There is at most one such sequence.
LEMMA WalkUnique ==
  ASSUME NEW nx, NEW a, NEW s, NEW t, IsWalk(nx, a, s), IsWalk(nx, a, t)
  PROVE  s = t
<1> DEFINE Good == {n \in Nat : At(s, n + 1) = At(t, n + 1)}
<1>1. /\ s \in Seq(Items) /\ t \in Seq(Items) /\ At(s, 1) = At(t, 1)
      /\ \A k \in 1..Len(s) : nx[s[k]] = At(s, k + 1)
      /\ \A k \in 1..Len(t) : nx[t[k]] = At(t, k + 1)
  BY DEF IsWalk
<1>2. \A k \in Nat \ {0} :
        /\ Len(s) \in Nat /\ Len(t) \in Nat
        /\ k <= Len(s) => At(s, k) = s[k] /\ k \in 1..Len(s)
        /\ k <= Len(t) => At(t, k) = t[k] /\ k \in 1..Len(t)
        /\ At(s, k) = NULL <=> k > Len(s)
        /\ At(t, k) = NULL <=> k > Len(t)
  BY <1>1, AtItem
<1>3. 0 \in Good
  BY <1>1
<1>4. ASSUME NEW n \in Nat, n \in Good PROVE n + 1 \in Good
  <2>1. At(s, n + 1) = At(t, n + 1) /\ n + 1 \in Nat \ {0} /\ n + 2 \in Nat \ {0}
    BY <1>4
  <2>2. CASE At(s, n + 1) = NULL
    <3>1. n + 1 > Len(s) /\ n + 1 > Len(t) /\ Len(s) \in Nat /\ Len(t) \in Nat
      BY <2>1, <2>2, <1>2
    <3>2. n + 2 > Len(s) /\ n + 2 > Len(t)
      BY <3>1
    <3>3. At(s, n + 2) = NULL /\ At(t, n + 2) = NULL
      BY <3>2, <2>1, <1>2
    <3>4. QED
      BY <3>3, <2>1
  <2>3. CASE At(s, n + 1) # NULL
    <3>1. n + 1 <= Len(s) /\ n + 1 <= Len(t)
      BY <2>1, <2>3, <1>2
    <3>2. /\ s[n + 1] = t[n + 1] /\ n + 1 \in 1..Len(s) /\ n + 1 \in 1..Len(t)
      BY <3>1, <2>1, <1>2
    <3>3. At(s, n + 2) = At(t, n + 2)
      BY <3>2, <1>1
    <3>4. QED
      BY <3>3, <2>1
  <2>4. QED
    BY <2>2, <2>3
<1>5. \A n \in Nat : n \in Good
  <2> HIDE DEF Good
  <2>1. QED
    BY <1>3, <1>4, NumberInduction
<1>6. \A k \in Nat \ {0} : At(s, k) = At(t, k)
  <2>1. ASSUME NEW k \in Nat \ {0} PROVE At(s, k) = At(t, k)
    <3>1. k - 1 \in Good /\ (k - 1) + 1 = k
      BY <1>5
    <3>2. QED
      BY <3>1
  <2>2. QED
    BY <2>1
<1>7. Len(s) = Len(t)
  <2>1. Len(s) \in Nat /\ Len(t) \in Nat
    BY <1>1
  <2>2. ~(Len(s) + 1 <= Len(t)) /\ ~(Len(t) + 1 <= Len(s))
    BY <2>1, <1>2, <1>6
  <2>3. QED
    BY <2>1, <2>2
<1>8. \A k \in 1..Len(s) : s[k] = t[k]
  BY <1>2, <1>6, <1>7
<1>9. QED
  BY <1>1, <1>7, <1>8

\* An item before a walk makes a walk.
LEMMA WalkLonger ==
  ASSUME NEW nx, NEW x \in Items, NEW s, IsWalk(nx, nx[x], s)
  PROVE  IsWalk(nx, x, <<x>> \o s)
<1> DEFINE t == <<x>> \o s
<1>1. s \in Seq(Items) /\ At(s, 1) = nx[x] /\ \A k \in 1..Len(s) : nx[s[k]] = At(s, k + 1)
  BY DEF IsWalk
<1>2. t \in Seq(Items) /\ Len(t) = Len(s) + 1 /\ t[1] = x /\ Len(s) \in Nat
      /\ \A k \in 1..Len(s) : t[k + 1] = s[k]
  BY <1>1
<1> HIDE DEF t
<1>3. \A k \in Nat \ {0} : At(t, k + 1) = At(s, k)
  BY <1>2 DEF At
<1>4. At(t, 1) = x
  BY <1>2 DEF At
<1>5. ASSUME NEW k \in 1..Len(t) PROVE nx[t[k]] = At(t, k + 1)
  <2>1. CASE k = 1
    BY <2>1, <1>1, <1>2, <1>3
  <2>2. CASE k # 1
    <3>1. k - 1 \in 1..Len(s) /\ (k - 1) + 1 = k
      BY <2>2, <1>2
    <3>2. t[k] = s[k - 1] /\ nx[s[k - 1]] = At(s, k)
      BY <3>1, <1>1, <1>2
    <3>3. QED
      BY <3>2, <1>3
  <2>3. QED
    BY <2>1, <2>2
<1>6. QED
  BY <1>2, <1>4, <1>5 DEF IsWalk, t

\* A finite set of items linked without cycles has an item that leads to none of them.
LEMMA LastOne ==
  ASSUME Inductive, NEW T \in SUBSET live, T # {}, IsFiniteSet(T)
  PROVE  \E t \in T : next[t] \notin T
<1> SUFFICES ASSUME \A t \in T : next[t] \in T PROVE FALSE
  OBVIOUS
<1>1. Pointers(live, next, prev, Own) /\ Grounded(live, prev, Own)
  BY Facts
<1>2. PICK s \in T : prev[s] \notin T
  BY <1>1 DEF Grounded
<1> DEFINE f == [t \in T |-> next[t]]
<1>3. f \in [T -> T \ {s}]
  BY <1>1, <1>2 DEF Pointers
<1>4. \A t, u \in T : f[t] = f[u] => t = u
  BY <1>1 DEF Pointers
<1>5. IsFiniteSet(T \ {s}) /\ Cardinality(T \ {s}) < Cardinality(T)
  <2>1. Cardinality(T) \in Nat /\ IsFiniteSet(T \ {s}) /\ Cardinality(T \ {s}) = Cardinality(T) - 1
    BY FS_CardinalityType, FS_RemoveElement
  <2>2. QED
    BY <2>1
<1> HIDE DEF f
<1>6. \E t, u \in T : t # u /\ f[t] = f[u]
  BY <1>3, <1>5, FS_PigeonHole
<1>7. QED
  BY <1>4, <1>6

\* From every item on there is a walk.
LEMMA WalkExists ==
  ASSUME Inductive, Counted
  PROVE  \A a \in Maybe(Items) : \E s : IsWalk(next, a, s)
<1> DEFINE T == {a \in live : ~ \E s : IsWalk(next, a, s)}
<1>1. /\ live \subseteq Items /\ NULL \notin Items /\ IsFiniteSet(live)
      /\ \A x \in live : next[x] \in Maybe(live)
      /\ \A x \in Items \ live : next[x] = NULL
  BY Facts DEF Counted, Pointers
<1>2. IsWalk(next, NULL, <<>>)
  BY DEF IsWalk, At
<1>3. ASSUME T # {} PROVE FALSE
  <2>1. T \in SUBSET live /\ IsFiniteSet(T)
    BY <1>1, FS_Subset
  <2> HIDE DEF T
  <2>2. PICK t \in T : next[t] \notin T
    BY <1>3, <2>1, LastOne
  <2> USE DEF T
  <2>3. PICK s : IsWalk(next, next[t], s)
    BY <2>2, <1>1, <1>2 DEF Maybe
  <2>4. t \in Items /\ ~ \E u : IsWalk(next, t, u)
    BY <1>1
  <2>5. QED
    BY <2>3, <2>4, WalkLonger
<1>4. ASSUME NEW a \in Items \ live PROVE \E s : IsWalk(next, a, s)
  <2>1. a \in Items /\ next[a] = NULL
    BY <1>1, <1>4
  <2>2. IsWalk(next, next[a], <<>>)
    BY <2>1, <1>2
  <2>3. QED
    BY <2>1, <2>2, WalkLonger
<1>5. \A a \in live : \E s : IsWalk(next, a, s)
  BY <1>3
<1>6. QED
  BY <1>2, <1>4, <1>5 DEF Maybe

\* What the recursive definition asks of a function.
SequenceIs(f) == f = [i \in Maybe(Items) |-> IF i = NULL THEN <<>> ELSE <<i>> \o f[next[i]]]

\* Every pointer begins a list that ends, and Sequence is its items in order.
Walks == \A a \in Maybe(Items) : IsWalk(next, a, Sequence[a])

\* In a finite memory, where every list ends, there is a function that fulfils the
\* recursive definition, and it is the one the definition names.
LEMMA SequenceExists ==
  ASSUME Inductive, Counted
  PROVE  SequenceIs(Sequence)
<1> DEFINE f == [a \in Maybe(Items) |-> CHOOSE s : IsWalk(next, a, s)]
<1>1. \A a \in Maybe(Items) : IsWalk(next, a, f[a])
  BY WalkExists
<1>2. next \in [Items -> Maybe(Items)] /\ NULL \notin Items
  BY NullAssumption DEF Inductive
<1>3. f[NULL] = <<>>
  <2>1. IsWalk(next, NULL, <<>>)
    BY DEF IsWalk, At
  <2>2. NULL \in Maybe(Items)
    BY DEF Maybe
  <2> HIDE DEF f
  <2>3. QED
    BY <2>1, <2>2, <1>1, WalkUnique
<1>4. ASSUME NEW i \in Items PROVE f[i] = <<i>> \o f[next[i]]
  <2>1. next[i] \in Maybe(Items) /\ i \in Maybe(Items)
    BY <1>2 DEF Maybe
  <2> HIDE DEF f
  <2>2. IsWalk(next, i, <<i>> \o f[next[i]])
    BY <2>1, <1>1, WalkLonger
  <2>3. QED
    BY <2>1, <2>2, <1>1, WalkUnique
<1>5. SequenceIs(f)
  <2>1. \A i \in Maybe(Items) : f[i] = IF i = NULL THEN <<>> ELSE <<i>> \o f[next[i]]
    <3> SUFFICES ASSUME NEW i \in Maybe(Items)
                 PROVE  f[i] = IF i = NULL THEN <<>> ELSE <<i>> \o f[next[i]]
      OBVIOUS
    <3> HIDE DEF f
    <3>1. CASE i = NULL
      BY <3>1, <1>3
    <3>2. CASE i # NULL
      BY <3>2, <1>4 DEF Maybe
    <3>3. QED
      BY <3>1, <3>2
  <2>2. f = [i \in Maybe(Items) |-> f[i]]
    OBVIOUS
  <2> HIDE DEF f
  <2>3. QED
    BY <2>1, <2>2 DEF SequenceIs
<1>6. Sequence = CHOOSE g : SequenceIs(g)
  BY DEF Sequence, SequenceIs
<1> HIDE DEF f
<1>7. QED
  BY <1>5, <1>6

\* So the sequence from a pointer on is what a loop over next meets.
LEMMA SequenceWalks == Inductive /\ Counted => Walks
<1> SUFFICES ASSUME Inductive, Counted PROVE Walks
  OBVIOUS
<1> DEFINE T == {a \in live : ~ IsWalk(next, a, Sequence[a])}
<1>1. /\ live \subseteq Items /\ NULL \notin Items /\ IsFiniteSet(live)
      /\ \A x \in live : next[x] \in Maybe(live)
      /\ \A x \in Items \ live : next[x] = NULL
  BY Facts DEF Counted, Pointers
<1>2. Sequence[NULL] = <<>> /\ \A i \in Items : Sequence[i] = <<i>> \o Sequence[next[i]]
  <2>1. Sequence = [i \in Maybe(Items) |-> IF i = NULL THEN <<>> ELSE <<i>> \o Sequence[next[i]]]
    BY SequenceExists DEF SequenceIs
  <2>2. \A i \in Maybe(Items) : Sequence[i] = IF i = NULL THEN <<>> ELSE <<i>> \o Sequence[next[i]]
    BY <2>1
  <2>3. QED
    BY <2>2, <1>1 DEF Maybe
<1>3. IsWalk(next, NULL, Sequence[NULL])
  BY <1>2 DEF IsWalk, At
<1>4. ASSUME NEW i \in Items, IsWalk(next, next[i], Sequence[next[i]])
      PROVE  IsWalk(next, i, Sequence[i])
  BY <1>2, <1>4, WalkLonger
<1>5. ASSUME T # {} PROVE FALSE
  <2>1. T \in SUBSET live /\ IsFiniteSet(T)
    BY <1>1, FS_Subset
  <2> HIDE DEF T
  <2>2. PICK t \in T : next[t] \notin T
    BY <1>5, <2>1, LastOne
  <2> USE DEF T
  <2>3. IsWalk(next, next[t], Sequence[next[t]])
    BY <2>2, <1>1, <1>3 DEF Maybe
  <2>4. QED
    BY <2>3, <1>1, <1>4
<1>6. \A i \in Items \ live : IsWalk(next, i, Sequence[i])
  BY <1>1, <1>3, <1>4
<1>7. QED
  BY <1>3, <1>5, <1>6 DEF Walks, Maybe

-----------------------------------------------------------------------------
(* Walks and the operators on sequences *)

\* Two sequences behind each other.
LEMMA ConcatIs ==
  ASSUME NEW u \in Seq(Items), NEW v \in Seq(Items)
  PROVE  /\ u \o v \in Seq(Items) /\ Len(u \o v) = Len(u) + Len(v)
         /\ \A j \in 1..(Len(u) + Len(v)) : (u \o v)[j] = IF j <= Len(u) THEN u[j] ELSE v[j - Len(u)]
  OBVIOUS

\* One item more: those from its place on move back.
LEMMA InsertAtIs ==
  ASSUME NEW s \in Seq(Items), NEW k \in 1..Len(s)+1, NEW e \in Items
  PROVE  /\ InsertAt(s, k, e) \in Seq(Items) /\ Len(InsertAt(s, k, e)) = Len(s) + 1
         /\ \A j \in 1..Len(s)+1 : InsertAt(s, k, e)[j] = IF j < k THEN s[j] ELSE IF j = k THEN e ELSE s[j - 1]
         /\ \A j \in Nat \ {0} :
              At(InsertAt(s, k, e), j) = IF j < k THEN At(s, j) ELSE IF j = k THEN e ELSE At(s, j - 1)
<1> DEFINE u == SubSeq(s, 1, k - 1)
           v == SubSeq(s, k, Len(s))
           t == u \o <<e>> \o v
<1>1. Len(s) \in Nat /\ k \in Nat /\ k >= 1 /\ k <= Len(s) + 1
  OBVIOUS
<1>2. u \in Seq(Items) /\ Len(u) = k - 1 /\ \A j \in 1..k-1 : u[j] = s[j]
  BY <1>1
<1>3. v \in Seq(Items) /\ Len(v) = Len(s) - k + 1 /\ \A j \in 1..(Len(s)-k+1) : v[j] = s[k + j - 1]
  BY <1>1
<1>4. InsertAt(s, k, e) = t
  BY DEF InsertAt
<1> HIDE DEF u, v
<1>5. /\ t \in Seq(Items) /\ Len(t) = Len(s) + 1
      /\ \A j \in 1..Len(s)+1 : t[j] = IF j < k THEN u[j] ELSE IF j = k THEN e ELSE v[j - k]
  <2> DEFINE w == u \o <<e>>
  <2>1. w \in Seq(Items) /\ Len(w) = k /\ \A j \in 1..k : w[j] = IF j < k THEN u[j] ELSE e
    BY <1>1, <1>2
  <2> HIDE DEF w
  <2>2. w \o v \in Seq(Items) /\ Len(w \o v) = Len(w) + Len(v)
    BY <2>1, <1>3
  <2>3. \A j \in 1..(Len(w) + Len(v)) : (w \o v)[j] = IF j <= Len(w) THEN w[j] ELSE v[j - Len(w)]
    BY <2>1, <1>3
  <2>4. Len(w) + Len(v) = Len(s) + 1
    BY <1>1, <1>3, <2>1
  <2>5. \A j \in 1..Len(s)+1 : (w \o v)[j] = IF j < k THEN u[j] ELSE IF j = k THEN e ELSE v[j - k]
    BY <1>1, <2>1, <2>3, <2>4
  <2>6. QED
    BY <2>2, <2>4, <2>5 DEF w
<1>6. ASSUME NEW j \in 1..Len(s)+1
      PROVE  t[j] = IF j < k THEN s[j] ELSE IF j = k THEN e ELSE s[j - 1]
  <2> HIDE DEF t
  <2>1. CASE j < k
    BY <2>1, <1>1, <1>2, <1>5
  <2>2. CASE j = k
    BY <2>2, <1>5
  <2>3. CASE j > k
    <3>1. j - k \in 1..(Len(s)-k+1) /\ k + (j - k) - 1 = j - 1 /\ ~(j < k) /\ j # k
      BY <2>3, <1>1
    <3>2. QED
      BY <3>1, <1>3, <1>5
  <2>4. QED
    BY <2>1, <2>2, <2>3, <1>1
<1> HIDE DEF t
<1>7. ASSUME NEW j \in Nat \ {0}
      PROVE  At(t, j) = IF j < k THEN At(s, j) ELSE IF j = k THEN e ELSE At(s, j - 1)
  BY <1>1, <1>5, <1>6 DEF At
<1>8. QED
  BY <1>4, <1>5, <1>6, <1>7

\* One item less: those behind it move forward.
LEMMA RemoveAtIs ==
  ASSUME NEW s \in Seq(Items), NEW k \in 1..Len(s)
  PROVE  /\ RemoveAt(s, k) \in Seq(Items) /\ Len(RemoveAt(s, k)) = Len(s) - 1
         /\ \A j \in 1..Len(s)-1 : RemoveAt(s, k)[j] = IF j < k THEN s[j] ELSE s[j + 1]
         /\ \A j \in Nat \ {0} : At(RemoveAt(s, k), j) = IF j < k THEN At(s, j) ELSE At(s, j + 1)
<1> DEFINE u == SubSeq(s, 1, k - 1)
           v == SubSeq(s, k + 1, Len(s))
           t == u \o v
<1>1. Len(s) \in Nat /\ k \in Nat /\ k >= 1 /\ k <= Len(s)
  OBVIOUS
<1>2. u \in Seq(Items) /\ Len(u) = k - 1 /\ \A j \in 1..k-1 : u[j] = s[j]
  BY <1>1
<1>3. v \in Seq(Items) /\ Len(v) = Len(s) - k /\ \A j \in 1..(Len(s)-k) : v[j] = s[k + j]
  BY <1>1
<1>4. RemoveAt(s, k) = t
  BY DEF RemoveAt
<1> HIDE DEF u, v
<1>5. /\ t \in Seq(Items) /\ Len(t) = Len(s) - 1
      /\ \A j \in 1..Len(s)-1 : t[j] = IF j < k THEN u[j] ELSE v[j - k + 1]
  <2>1. t \in Seq(Items) /\ Len(t) = Len(u) + Len(v)
    BY <1>2, <1>3, ConcatIs
  <2>2. \A j \in 1..(Len(u) + Len(v)) : t[j] = IF j <= Len(u) THEN u[j] ELSE v[j - Len(u)]
    BY <1>2, <1>3, ConcatIs
  <2>3. Len(u) + Len(v) = Len(s) - 1 /\ Len(u) = k - 1
    BY <1>1, <1>2, <1>3
  <2> HIDE DEF t
  <2>4. ASSUME NEW j \in 1..Len(s)-1 PROVE t[j] = IF j < k THEN u[j] ELSE v[j - k + 1]
    <3>1. t[j] = IF j <= Len(u) THEN u[j] ELSE v[j - Len(u)]
      BY <2>2, <2>3
    <3>2. (j <= Len(u) <=> j < k) /\ j - Len(u) = j - k + 1
      BY <1>1, <2>3
    <3>3. QED
      BY <3>1, <3>2
  <2>5. QED
    BY <2>1, <2>3, <2>4
<1>6. ASSUME NEW j \in 1..Len(s)-1
      PROVE  t[j] = IF j < k THEN s[j] ELSE s[j + 1]
  <2> HIDE DEF t
  <2>1. CASE j < k
    BY <2>1, <1>1, <1>2, <1>5
  <2>2. CASE j >= k
    <3>1. j - k + 1 \in 1..(Len(s)-k) /\ k + (j - k + 1) = j + 1 /\ ~(j < k)
      BY <2>2, <1>1
    <3>2. QED
      BY <3>1, <1>3, <1>5
  <2>3. QED
    BY <2>1, <2>2, <1>1
<1> HIDE DEF t
<1>7. ASSUME NEW j \in Nat \ {0}
      PROVE  At(t, j) = IF j < k THEN At(s, j) ELSE At(s, j + 1)
  BY <1>1, <1>5, <1>6 DEF At
<1>8. QED
  BY <1>4, <1>5, <1>6, <1>7

\* Another item in the place of one.
LEMMA ReplaceAtIs ==
  ASSUME NEW s \in Seq(Items), NEW k \in 1..Len(s), NEW e \in Items
  PROVE  /\ ReplaceAt(s, k, e) \in Seq(Items) /\ Len(ReplaceAt(s, k, e)) = Len(s)
         /\ \A j \in 1..Len(s) : ReplaceAt(s, k, e)[j] = IF j = k THEN e ELSE s[j]
<1> DEFINE t == [s EXCEPT ![k] = e]
<1>1. ReplaceAt(s, k, e) = t
  BY DEF ReplaceAt
<1>2. t \in Seq(Items) /\ Len(t) = Len(s) /\ \A j \in 1..Len(s) : t[j] = IF j = k THEN e ELSE s[j]
  OBVIOUS
<1>3. QED
  BY <1>1, <1>2

\* The rest of a walk is a walk.
LEMMA WalkRest ==
  ASSUME NEW nx, NEW a, NEW s, IsWalk(nx, a, s), NEW k \in 1..Len(s)
  PROVE  /\ IsWalk(nx, s[k], SubSeq(s, k, Len(s)))
         /\ Len(SubSeq(s, k, Len(s))) = Len(s) - k + 1
<1> DEFINE t == SubSeq(s, k, Len(s))
<1>1. s \in Seq(Items) /\ Len(s) \in Nat /\ \A j \in 1..Len(s) : nx[s[j]] = At(s, j + 1)
  BY DEF IsWalk
<1>2. /\ t \in Seq(Items) /\ Len(t) = Len(s) - k + 1
      /\ \A j \in 1..(Len(s)-k+1) : t[j] = s[k + j - 1]
  BY <1>1
<1> HIDE DEF t
<1>3. \A j \in Nat \ {0} : At(t, j) = At(s, k + j - 1)
  BY <1>1, <1>2 DEF At
<1>4. At(t, 1) = s[k]
  BY <1>1, <1>3 DEF At
<1>5. ASSUME NEW j \in 1..Len(t) PROVE nx[t[j]] = At(t, j + 1)
  <2>1. k + j - 1 \in 1..Len(s) /\ j \in 1..(Len(s)-k+1) /\ (k + j - 1) + 1 = k + (j + 1) - 1
        /\ j + 1 \in Nat \ {0}
    BY <1>1, <1>2
  <2>2. nx[t[j]] = At(s, k + (j + 1) - 1)
    BY <2>1, <1>1, <1>2
  <2>3. QED
    BY <2>1, <2>2, <1>3
<1>6. QED
  BY <1>2, <1>4, <1>5 DEF IsWalk, t

\* A walk meets no item twice.
LEMMA WalkInjective ==
  ASSUME NEW nx, NEW a, NEW s, IsWalk(nx, a, s), NEW j \in 1..Len(s), NEW k \in 1..Len(s), s[j] = s[k]
  PROVE  j = k
<1>1. SubSeq(s, j, Len(s)) = SubSeq(s, k, Len(s))
  BY WalkRest, WalkUnique
<1>2. Len(s) - j + 1 = Len(s) - k + 1
  BY <1>1, WalkRest
<1>3. Len(s) \in Nat
  BY DEF IsWalk
<1>4. QED
  BY <1>2, <1>3

\* It meets the items of the list.
LEMMA WalkItems ==
  ASSUME NEW L \in SUBSET Items, NEW nx, \A x \in L : nx[x] \in Maybe(L), NEW a \in L,
         NEW s, IsWalk(nx, a, s)
  PROVE  /\ \A k \in 1..Len(s) : s[k] \in Reach(L, nx, a)
         /\ \A x \in Reach(L, nx, a) : \E k \in 1..Len(s) : s[k] = x
<1> DEFINE C == Reach(L, nx, a)
           S == {s[k] : k \in 1..Len(s)}
           Good == {n \in Nat : n + 1 \in 1..Len(s) => s[n + 1] \in C}
<1>1. NULL \notin L /\ s \in Seq(Items) /\ Len(s) \in Nat /\ At(s, 1) = a
      /\ \A k \in 1..Len(s) : nx[s[k]] = At(s, k + 1)
  BY NullAssumption DEF IsWalk
<1>2. /\ C \subseteq L /\ a \in C /\ \A x \in C : nx[x] \in Maybe(C)
      /\ \A Z \in SUBSET L : a \in Z /\ (\A z \in Z : nx[z] \in Maybe(Z)) => C \subseteq Z
  BY <1>1, ReachSet
<1> HIDE DEF C
<1>3. 1 \in 1..Len(s) /\ s[1] = a
  BY <1>1 DEF At
<1>4. 0 \in Good
  BY <1>2, <1>3
<1>5. ASSUME NEW n \in Nat, n \in Good PROVE n + 1 \in Good
  <2> SUFFICES ASSUME (n + 1) + 1 \in 1..Len(s) PROVE s[(n + 1) + 1] \in C
    OBVIOUS
  <2>1. n + 1 \in 1..Len(s)
    BY <1>1
  <2>2. s[n + 1] \in C /\ nx[s[n + 1]] = At(s, (n + 1) + 1)
    BY <2>1, <1>1, <1>5
  <2>3. At(s, (n + 1) + 1) = s[(n + 1) + 1] /\ s[(n + 1) + 1] # NULL
    BY <1>1, NullAssumption DEF At
  <2>4. QED
    BY <2>2, <2>3, <1>2 DEF Maybe
<1>6. \A n \in Nat : n \in Good
  <2> HIDE DEF Good
  <2>1. QED
    BY <1>4, <1>5, NumberInduction
<1>7. ASSUME NEW k \in 1..Len(s) PROVE s[k] \in C
  <2>1. k - 1 \in Nat /\ (k - 1) + 1 = k
    OBVIOUS
  <2>2. k - 1 \in Good
    <3> HIDE DEF Good
    <3>1. QED
      BY <2>1, <1>6
  <2>3. QED
    BY <2>1, <2>2
<1>8. S \in SUBSET L /\ a \in S
  BY <1>2, <1>3, <1>7
<1>9. ASSUME NEW x \in S PROVE nx[x] \in Maybe(S)
  <2>1. PICK k \in 1..Len(s) : x = s[k]
    OBVIOUS
  <2>2. nx[x] = At(s, k + 1)
    BY <2>1, <1>1
  <2>3. QED
    BY <2>2 DEF At, Maybe
<1>10. C \subseteq S
  <2> HIDE DEF S
  <2>1. QED
    BY <1>2, <1>8, <1>9
<1>11. QED
  BY <1>7, <1>10 DEF C

\* Other pointers, but not of the items of the walk.
LEMMA WalkSame ==
  ASSUME NEW nx, NEW a, NEW s, IsWalk(nx, a, s), NEW ny,
         \A k \in 1..Len(s) : ny[s[k]] = nx[s[k]]
  PROVE  IsWalk(ny, a, s)
  BY DEF IsWalk

\* An item is put into a list, before the k-th or behind the last.
LEMMA WalkInsert ==
  ASSUME NEW nx, NEW a, NEW s, IsWalk(nx, a, s), NEW k \in 1..Len(s)+1, NEW e \in Items, NEW ny,
         ny[e] = At(s, k), k > 1 => ny[s[k - 1]] = e,
         \A j \in 1..Len(s) : j # k - 1 => ny[s[j]] = nx[s[j]]
  PROVE  IsWalk(ny, IF k = 1 THEN e ELSE a, InsertAt(s, k, e))
<1> DEFINE t == InsertAt(s, k, e)
<1>1. s \in Seq(Items) /\ Len(s) \in Nat /\ At(s, 1) = a /\ \A j \in 1..Len(s) : nx[s[j]] = At(s, j + 1)
  BY DEF IsWalk
<1>2. /\ t \in Seq(Items) /\ Len(t) = Len(s) + 1
      /\ \A j \in 1..Len(s)+1 : t[j] = IF j < k THEN s[j] ELSE IF j = k THEN e ELSE s[j - 1]
      /\ \A j \in Nat \ {0} :
              At(t, j) = IF j < k THEN At(s, j) ELSE IF j = k THEN e ELSE At(s, j - 1)
  BY <1>1, InsertAtIs
<1> HIDE DEF t
<1>3. At(t, 1) = IF k = 1 THEN e ELSE a
  BY <1>1, <1>2
<1>4. ASSUME NEW j \in 1..Len(t) PROVE ny[t[j]] = At(t, j + 1)
  <2>1. j \in Nat \ {0} /\ j + 1 \in Nat \ {0} /\ j \in 1..Len(s)+1 /\ k \in Nat
    BY <1>1, <1>2
  <2>2. CASE j < k - 1
    <3>1. j < k /\ j + 1 < k /\ j \in 1..Len(s) /\ j # k - 1
      BY <2>1, <2>2, <1>1
    <3>2. QED
      BY <3>1, <2>1, <1>1, <1>2
  <2>3. CASE j = k - 1
    <3>1. j < k /\ j + 1 = k /\ k > 1
      BY <2>1, <2>3
    <3>2. QED
      BY <3>1, <2>1, <2>3, <1>2
  <2>4. CASE j = k
    <3>1. ~(j < k) /\ ~(j + 1 < k) /\ j + 1 # k /\ (j + 1) - 1 = k
      BY <2>1, <2>4
    <3>2. QED
      BY <3>1, <2>1, <2>4, <1>2
  <2>5. CASE j > k
    <3>1. /\ ~(j < k) /\ ~(j + 1 < k) /\ j + 1 # k /\ j # k /\ (j + 1) - 1 = j
          /\ j - 1 \in 1..Len(s) /\ j - 1 # k - 1 /\ (j - 1) + 1 = j
      BY <2>1, <2>5, <1>1
    <3>2. QED
      BY <3>1, <2>1, <1>1, <1>2
  <2>6. QED
    BY <2>1, <2>2, <2>3, <2>4, <2>5
<1>5. QED
  BY <1>2, <1>3, <1>4 DEF IsWalk, t

\* An item is taken out.
LEMMA WalkRemove ==
  ASSUME NEW nx, NEW a, NEW s, IsWalk(nx, a, s), NEW k \in 1..Len(s), NEW ny,
         k > 1 => ny[s[k - 1]] = At(s, k + 1),
         \A j \in 1..Len(s) : j # k - 1 /\ j # k => ny[s[j]] = nx[s[j]]
  PROVE  IsWalk(ny, IF k = 1 THEN At(s, 2) ELSE a, RemoveAt(s, k))
<1> DEFINE t == RemoveAt(s, k)
<1>1. s \in Seq(Items) /\ Len(s) \in Nat /\ At(s, 1) = a /\ \A j \in 1..Len(s) : nx[s[j]] = At(s, j + 1)
  BY DEF IsWalk
<1>2. /\ t \in Seq(Items) /\ Len(t) = Len(s) - 1
      /\ \A j \in 1..Len(s)-1 : t[j] = IF j < k THEN s[j] ELSE s[j + 1]
      /\ \A j \in Nat \ {0} : At(t, j) = IF j < k THEN At(s, j) ELSE At(s, j + 1)
  BY <1>1, RemoveAtIs
<1> HIDE DEF t
<1>3. At(t, 1) = IF k = 1 THEN At(s, 2) ELSE a
  BY <1>1, <1>2
<1>4. ASSUME NEW j \in 1..Len(t) PROVE ny[t[j]] = At(t, j + 1)
  <2>1. j \in Nat \ {0} /\ j + 1 \in Nat \ {0} /\ j \in 1..Len(s)-1 /\ k \in Nat /\ j \in 1..Len(s)
    <3>1. Len(s) \in Nat /\ Len(t) = Len(s) - 1 /\ j \in 1..Len(t) /\ k \in 1..Len(s)
      BY <1>1, <1>2
    <3>2. j \in 1..Len(s)-1
      BY <3>1
    <3>3. QED
      BY <3>1, <3>2
  <2>2. CASE j < k - 1
    <3>1. j < k /\ j + 1 < k /\ j # k - 1 /\ j # k
      BY <2>1, <2>2, <1>1
    <3>2. QED
      BY <3>1, <2>1, <1>1, <1>2
  <2>3. CASE j = k - 1
    <3>1. j < k /\ j + 1 = k /\ k > 1 /\ ~(j + 1 < k)
      BY <2>1, <2>3
    <3>2. QED
      BY <3>1, <2>1, <2>3, <1>2
  <2>4. CASE j >= k
    <3>1. /\ ~(j < k) /\ ~(j + 1 < k) /\ j + 1 # k - 1 /\ j + 1 # k /\ j + 1 \in 1..Len(s)
      BY <2>1, <2>4, <1>1
    <3>2. t[j] = s[j + 1] /\ At(t, j + 1) = At(s, (j + 1) + 1)
      BY <3>1, <2>1, <1>2
    <3>3. ny[s[j + 1]] = nx[s[j + 1]] /\ nx[s[j + 1]] = At(s, (j + 1) + 1)
      BY <3>1, <1>1
    <3>4. QED
      BY <3>2, <3>3
  <2>5. QED
    BY <2>1, <2>2, <2>3, <2>4
<1>5. QED
  BY <1>2, <1>3, <1>4 DEF IsWalk, t

\* Another item is put in the place of the k-th.
LEMMA WalkReplace ==
  ASSUME NEW nx, NEW a, NEW s, IsWalk(nx, a, s), NEW k \in 1..Len(s), NEW e \in Items, NEW ny,
         ny[e] = At(s, k + 1), k > 1 => ny[s[k - 1]] = e,
         \A j \in 1..Len(s) : j # k - 1 /\ j # k => ny[s[j]] = nx[s[j]]
  PROVE  IsWalk(ny, IF k = 1 THEN e ELSE a, ReplaceAt(s, k, e))
<1> DEFINE t == ReplaceAt(s, k, e)
<1>1. s \in Seq(Items) /\ Len(s) \in Nat /\ At(s, 1) = a /\ \A j \in 1..Len(s) : nx[s[j]] = At(s, j + 1)
  BY DEF IsWalk
<1>2. /\ t \in Seq(Items) /\ Len(t) = Len(s)
      /\ \A j \in 1..Len(s) : t[j] = IF j = k THEN e ELSE s[j]
      /\ \A j \in Nat \ {0} : At(t, j) = IF j = k THEN e ELSE At(s, j)
  <2>1. s \in Seq(Items) /\ k \in 1..Len(s) /\ e \in Items
    BY <1>1
  <2> HIDE DEF t
  <2>2. ReplaceAt(s, k, e) \in Seq(Items) /\ Len(ReplaceAt(s, k, e)) = Len(s)
    BY <2>1, ReplaceAtIs
  <2>3. \A j \in 1..Len(s) : ReplaceAt(s, k, e)[j] = IF j = k THEN e ELSE s[j]
    BY <2>1, ReplaceAtIs
  <2>4. \A j \in Nat \ {0} : At(t, j) = IF j = k THEN e ELSE At(s, j)
    BY <2>1, <2>2, <2>3 DEF At, t
  <2>5. QED
    BY <2>2, <2>3, <2>4 DEF t
<1> HIDE DEF t
<1>3. At(t, 1) = IF k = 1 THEN e ELSE a
  BY <1>1, <1>2
<1>4. ASSUME NEW j \in 1..Len(t) PROVE ny[t[j]] = At(t, j + 1)
  <2>1. j \in Nat \ {0} /\ j + 1 \in Nat \ {0} /\ k \in Nat /\ j \in 1..Len(s)
    BY <1>1, <1>2
  <2>2. CASE j = k - 1
    <3>1. j # k /\ j + 1 = k /\ k > 1
      BY <2>1, <2>2
    <3>2. QED
      BY <3>1, <2>1, <2>2, <1>2
  <2>3. CASE j = k
    <3>1. j + 1 # k
      BY <2>1, <2>3
    <3>2. QED
      BY <3>1, <2>1, <2>3, <1>2
  <2>4. CASE j # k /\ j # k - 1
    <3>1. j + 1 # k
      BY <2>1, <2>4
    <3>2. QED
      BY <3>1, <2>1, <2>4, <1>1, <1>2
  <2>5. QED
    BY <2>2, <2>3, <2>4
<1>5. QED
  BY <1>2, <1>3, <1>4 DEF IsWalk, t

\* After any calls the items from a pointer on are a sequence.
THEOREM ListsEnd == Spec => []Walks
<1>1. Inductive /\ Counted => Walks
  BY SequenceWalks
<1>2. QED
  BY <1>1, Forested, BlocksCounted, PTL

\* The walk after a step is the sequence after it.
LEMMA WalkNext ==
  ASSUME Walks', NEW a, NEW s, IsWalk(next', a, s), a \in Maybe(Items)
  PROVE  Sequence'[a] = s
<1>1. IsWalk(next', a, Sequence'[a])
  BY DEF Walks
<1>2. QED
  BY <1>1, WalkUnique

\* s is the children of p in order: each once, each linked to the one before it,
\* and the first to p.
ChildrenInOrder(p, s) ==
  /\ IsWalk(next, child[p], s) /\ s \in Seq(live)
  /\ \A k \in 1..Len(s) : s[k] \in Children(p)
  /\ \A x \in Children(p) : \E k \in 1..Len(s) : s[k] = x
  /\ \A j, k \in 1..Len(s) : s[j] = s[k] => j = k
  /\ \A k \in 1..Len(s) : prev[s[k]] = IF k = 1 THEN NULL ELSE s[k - 1]
  /\ \A k \in 1..Len(s) : child[p] = s[k] <=> k = 1

\* The sequence of the children of an item.
LEMMA ChildWalk ==
  ASSUME Inductive, Walks, NEW p \in live, ~info[p].ref, NEW s, s = Sequence[child[p]]
  PROVE  ChildrenInOrder(p, s)
<1>1. /\ NULL \notin Items /\ NULL \notin live /\ live \in SUBSET Items
      /\ \A x \in live : next[x] \in Maybe(live) /\ Own[x] \in Maybe(live)
      /\ Own[p] = child[p] /\ Pointers(live, next, prev, Own)
  BY Facts
<1>2. child[p] \in Maybe(Items) /\ child[p] \in Maybe(live)
  BY <1>1 DEF Maybe
<1>3. IsWalk(next, child[p], s)
  BY <1>2 DEF Walks
<1>4. s \in Seq(Items) /\ Len(s) \in Nat /\ At(s, 1) = child[p] /\ \A k \in 1..Len(s) : next[s[k]] = At(s, k + 1)
  BY <1>3 DEF IsWalk
<1>5. /\ \A k \in 1..Len(s) : s[k] \in Children(p)
      /\ \A x \in Children(p) : \E k \in 1..Len(s) : s[k] = x
      /\ \A k \in 1..Len(s) : s[k] \in live
  <2>1. CASE child[p] = NULL
    <3>1. Len(s) = 0
      BY <2>1, <1>1, <1>4 DEF At
    <3>2. Children(p) = {}
      BY <2>1 DEF Children
    <3>3. QED
      BY <3>1, <3>2
  <2>2. CASE child[p] # NULL
    <3>1. child[p] \in live
      BY <2>2, <1>2 DEF Maybe
    <3>2. Children(p) = Reach(live, next, child[p])
      BY <2>2, FromReach DEF Children
    <3>3. Reach(live, next, child[p]) \subseteq live
      BY DEF Reach
    <3>4. /\ \A k \in 1..Len(s) : s[k] \in Reach(live, next, child[p])
          /\ \A x \in Reach(live, next, child[p]) : \E k \in 1..Len(s) : s[k] = x
      BY <3>1, <1>1, <1>3, WalkItems
    <3>5. QED
      BY <3>2, <3>3, <3>4
  <2>3. QED
    BY <2>1, <2>2
<1>6. s \in Seq(live)
  BY <1>4, <1>5
<1>7. \A j, k \in 1..Len(s) : s[j] = s[k] => j = k
  BY <1>3, WalkInjective
<1>8. ASSUME NEW k \in 1..Len(s) PROVE prev[s[k]] = IF k = 1 THEN NULL ELSE s[k - 1]
  <2>1. CASE k = 1
    <3>1. s[1] = child[p] /\ s[1] # NULL
      BY <2>1, <1>1, <1>4 DEF At
    <3>2. QED
      BY <2>1, <3>1, <1>1 DEF Pointers
  <2>2. CASE k # 1
    <3>1. k - 1 \in 1..Len(s) /\ (k - 1) + 1 = k
      BY <2>2, <1>4
    <3>2. next[s[k - 1]] = s[k] /\ s[k - 1] \in live /\ s[k] \in live
      <4>1. PICK j \in 1..Len(s) : j = k - 1
        BY <3>1
      <4>2. j + 1 = k
        BY <4>1, <1>4
      <4>3. next[s[j]] = At(s, j + 1)
        BY <1>4
      <4>4. At(s, k) = s[k]
        BY <1>4 DEF At
      <4>5. s[j] \in live /\ s[k] \in live
        BY <1>5
      <4>6. QED
        BY <4>1, <4>2, <4>3, <4>4, <4>5
    <3>3. \A i, j \in live : next[i] = j <=> prev[j] = i
      BY <1>1 DEF Pointers
    <3>4. prev[s[k]] = s[k - 1]
      BY <3>2, <3>3
    <3>5. QED
      BY <2>2, <3>4
  <2>3. QED
    BY <2>1, <2>2
<1>9. ASSUME NEW k \in 1..Len(s) PROVE child[p] = s[k] <=> k = 1
  <2>1. 1 \in 1..Len(s) /\ child[p] = s[1]
    BY <1>4 DEF At
  <2>2. QED
    BY <2>1, <1>7
<1>10. QED
  BY <1>3, <1>5, <1>6, <1>7, <1>8, <1>9 DEF ChildrenInOrder

\* A root that is put before the k-th child.
LEMMA InsertedBefore ==
  ASSUME Inductive, Walks, Walks', NEW array \in live, NEW new \in held, NEW after,
         InsertAtItem(array, after, new),
         NEW s, s = Sequence[child[array]], NEW k \in 1..Len(s), s[k] = after
  PROVE  Sequence[child[array]]' = InsertAt(s, k, new)
<1>1. Adds(array, new) /\ InsertBefore(array, after, new)
  BY DEF InsertAtItem
<1>2. ~info[array].ref
  BY <1>1 DEF Adds
<1>3. /\ IsWalk(next, child[array], s) /\ s \in Seq(live)
      /\ \A j \in 1..Len(s) : s[j] \in Children(array)
      /\ \A i, j \in 1..Len(s) : s[i] = s[j] => i = j
      /\ \A j \in 1..Len(s) : prev[s[j]] = IF j = 1 THEN NULL ELSE s[j - 1]
      /\ \A j \in 1..Len(s) : child[array] = s[j] <=> j = 1
  <2>1. ChildrenInOrder(array, s)
    BY <1>2, ChildWalk
  <2>2. QED
    BY <2>1 DEF ChildrenInOrder
<1>4. /\ live \subseteq Items /\ NULL \notin Items /\ NULL \notin live
      /\ child \in [Items -> Maybe(Items)]
  BY Facts DEF Inductive
<1>5. new \in live /\ new \in Items /\ \A j \in 1..Len(s) : s[j] # new /\ s[j] \in Items /\ s[j] \in live
  <2>1. new \in live /\ new \in Roots
    BY RootTaken
  <2>2. \A x \in Children(array) : x \notin Roots /\ x \in live
    BY <1>2, ChildFacts
  <2>3. QED
    BY <2>1, <2>2, <1>3, <1>4
<1>6. /\ next' = [x \in Items |-> IF x = new THEN after
                                  ELSE IF x = prev[after] THEN new ELSE next[x]]
      /\ child' = [child EXCEPT ![array] = IF @ = after THEN new ELSE @]
  BY <1>1 DEF InsertBefore
<1>7. Len(s) \in Nat /\ k \in Nat /\ k >= 1 /\ k <= Len(s)
  BY <1>3
<1>8. next'[new] = At(s, k)
  BY <1>5, <1>6 DEF At
<1>9. ASSUME k > 1 PROVE next'[s[k - 1]] = new
  <2>1. k - 1 \in 1..Len(s) /\ prev[after] = s[k - 1]
    BY <1>3, <1>7, <1>9
  <2>2. QED
    BY <2>1, <1>5, <1>6
<1>10. ASSUME NEW j \in 1..Len(s), j # k - 1 PROVE next'[s[j]] = next[s[j]]
  <2>1. s[j] # prev[after]
    <3>1. CASE k = 1
      BY <3>1, <1>3, <1>4, <1>5
    <3>2. CASE k # 1
      <4>1. k - 1 \in 1..Len(s) /\ prev[after] = s[k - 1]
        BY <1>3, <1>7, <3>2
      <4>2. s[j] # s[k - 1]
        BY <4>1, <1>3, <1>10
      <4>3. QED
        BY <4>1, <4>2
    <3>3. QED
      BY <3>1, <3>2
  <2>2. QED
    BY <2>1, <1>5, <1>6
<1>11. child'[array] = IF k = 1 THEN new ELSE child[array]
  BY <1>3, <1>4, <1>6
<1>12. IsWalk(next', child'[array], InsertAt(s, k, new))
  <2>1. k \in 1..Len(s)+1
    BY <1>7
  <2>2. ASSUME NEW ny, ny = next', NEW a, a = child[array]
        PROVE  IsWalk(ny, IF k = 1 THEN new ELSE a, InsertAt(s, k, new))
    <3>1. ny[new] = At(s, k)
      BY <2>2, <1>8
    <3>2. k > 1 => ny[s[k - 1]] = new
      BY <2>2, <1>9
    <3>3. \A j \in 1..Len(s) : j # k - 1 => ny[s[j]] = next[s[j]]
      BY <2>2, <1>10
    <3>4. IsWalk(next, a, s)
      BY <2>2, <1>3
    <3>5. new \in Items
      BY <1>5
    <3>6. QED
      BY <2>1, <3>1, <3>2, <3>3, <3>4, <3>5, WalkInsert
  <2>3. QED
    BY <2>2, <1>11
<1>13. child'[array] \in Maybe(Items)
  BY <1>4, <1>5, <1>11 DEF Maybe
<1>14. QED
  BY <1>12, <1>13, WalkNext

\* cJSON_InsertItemInArray shifts the item at its index and those behind it to
\* the right.
THEOREM InsertionShifts == Spec => InsertShifts
<1> DEFINE Shifts(array, after, new) ==
             LET before == Sequence[child[array]]
                 at == CHOOSE k \in DOMAIN before : before[k] = after
             IN Sequence[child[array]]' = InsertAt(before, at, new)
<1>1. ASSUME Inductive, Walks, Walks', NEW array \in live, NEW new \in held,
             NEW after \in Children(array), InsertAtItem(array, after, new)
      PROVE  Shifts(array, after, new)
  <2>1. ~info[array].ref
    BY <1>1 DEF InsertAtItem, Adds
  <2>2. PICK s : s = Sequence[child[array]]
    OBVIOUS
  <2>3. s \in Seq(live) /\ \E k \in 1..Len(s) : s[k] = after
    <3>1. ChildrenInOrder(array, s)
      BY <1>1, <2>1, <2>2, ChildWalk
    <3>2. QED
      BY <3>1 DEF ChildrenInOrder
  <2> DEFINE at == CHOOSE k \in DOMAIN s : s[k] = after
  <2>4. at \in 1..Len(s) /\ s[at] = after
    BY <2>3
  <2> HIDE DEF at
  <2>5. Sequence[child[array]]' = InsertAt(s, at, new)
    BY <1>1, <2>2, <2>4, InsertedBefore
  <2>6. QED
    BY <2>2, <2>5 DEF at
<1>2. ASSUME Inductive, Walks, Walks', [Next]_vars
      PROVE  [\A array \in live, new \in held : \A after \in Children(array) :
                InsertAtItem(array, after, new) => Shifts(array, after, new)]_vars
  BY <1>1, <1>2
<1>3. QED
  BY <1>2, Forested, ListsEnd, PTL DEF Spec, InsertShifts

-----------------------------------------------------------------------------
(* The steps of JsonTree *)

\* The children of the items as sequences: the refinement mapping.
Kids == [i \in live |-> IF info[i].ref THEN <<>> ELSE Sequence[child[i]]]

\* They are a function on the live items.
LEMMA KidsFunction ==
  /\ DOMAIN Kids = live /\ Kids = [x \in live |-> Kids[x]]
  /\ \A x \in live : Kids[x] = IF info[x].ref THEN <<>> ELSE Sequence[child[x]]
  BY DEF Kids

\* So they are after a step.
LEMMA KidsNext ==
  /\ DOMAIN Kids' = live' /\ Kids' = [x \in live' |-> Kids'[x]]
  /\ \A x \in live' : Kids'[x] = IF info'[x].ref THEN <<>> ELSE Sequence'[child'[x]]
  BY DEF Kids

\* The operators on sequences are the same there.
LEMMA SameOperators ==
  /\ \A s, k, e : Abstract!InsertAt(s, k, e) = InsertAt(s, k, e)
  /\ \A s, k : Abstract!RemoveAt(s, k) = RemoveAt(s, k)
  /\ \A s, k, e : Abstract!ReplaceAt(s, k, e) = ReplaceAt(s, k, e)
  /\ \A s : Abstract!ToSet(s) = ToSet(s)
  BY DEF Abstract!InsertAt, InsertAt, Abstract!RemoveAt, RemoveAt, Abstract!ReplaceAt, ReplaceAt,
         Abstract!ToSet, ToSet

\* A call that puts i before the k-th child of p.
LEMMA PutIs ==
  ASSUME NEW p \in live, NEW k \in 1..Len(Kids[p])+1, NEW i \in held \cup (Items \ live), p # i,
         live' = live \cup {i}, held' = held \ {i},
         Kids'[p] = InsertAt(Kids[p], k, i),
         \A x \in live : x # p => Kids'[x] = Kids[x],
         i \notin live => Kids'[i] = <<>>
  PROVE  Abstract!Next
<1> DEFINE K2 == Kids'
           more == [x \in {i} \ DOMAIN Kids |-> <<>>]
           W == [x \in DOMAIN Kids \cup DOMAIN more |-> IF x \in DOMAIN more THEN more[x] ELSE Kids[x]]
<1>1. W = [x \in live \cup ({i} \ live) |-> IF x \in {i} \ live THEN <<>> ELSE Kids[x]]
  BY KidsFunction
<1>2. K2 = [x \in live \cup {i} |-> K2[x]]
  BY KidsNext
<1> HIDE DEF K2, W
<1>3. K2[p] = InsertAt(Kids[p], k, i) /\ (\A x \in live : x # p => K2[x] = Kids[x])
      /\ (i \notin live => K2[i] = <<>>)
  BY DEF K2
<1>4. W[p] = Kids[p] /\ DOMAIN W = live \cup {i}
  BY <1>1
<1> DEFINE V == [W EXCEPT ![p] = InsertAt(@, k, i)]
<1>5. V = [x \in live \cup {i} |-> IF x = p THEN InsertAt(Kids[p], k, i) ELSE W[x]]
  BY <1>1, <1>4
<1> HIDE DEF V
<1>6. \A x \in live \cup {i} : K2[x] = V[x]
  BY <1>1, <1>3, <1>5
<1>7. K2 = V
  BY <1>2, <1>5, <1>6
<1>8. Abstract!Put(p, k, i)
  <2>1. Kids' = [[x \in DOMAIN Kids \cup DOMAIN more |-> IF x \in DOMAIN more THEN more[x] ELSE Kids[x]]
                  EXCEPT ![p] = InsertAt(@, k, i)]
    BY <1>7 DEF V, W, K2
  <2>2. QED
    BY <2>1, SameOperators DEF Abstract!Put, Abstract!With, Kids
<1>9. p \in DOMAIN Kids /\ i \in held \cup (Items \ DOMAIN Kids)
  BY KidsFunction
<1>10. QED
  BY <1>8, <1>9 DEF Abstract!Next, Abstract!Fresh, Kids

\* A call that takes out the k-th child of p.
LEMMA DetachIs ==
  ASSUME NEW p \in live, NEW k \in 1..Len(Kids[p]), live' = live,
         held' = held \cup {Kids[p][k]},
         Kids'[p] = RemoveAt(Kids[p], k),
         \A x \in live : x # p => Kids'[x] = Kids[x]
  PROVE  Abstract!Next
<1> DEFINE K2 == Kids'
           V == [Kids EXCEPT ![p] = RemoveAt(@, k)]
<1>1. K2 = [x \in live |-> K2[x]]
  BY KidsNext
<1>2. V = [x \in live |-> IF x = p THEN RemoveAt(Kids[p], k) ELSE Kids[x]]
  BY KidsFunction
<1>3. K2[p] = RemoveAt(Kids[p], k) /\ (\A x \in live : x # p => K2[x] = Kids[x])
  OBVIOUS
<1> HIDE DEF K2, V
<1>4. \A x \in live : K2[x] = V[x]
  BY <1>2, <1>3
<1>5. K2 = V
  BY <1>1, <1>2, <1>4
<1>6. Abstract!Detach(p, k)
  <2>1. Kids' = [Kids EXCEPT ![p] = RemoveAt(@, k)]
    BY <1>5 DEF V, K2
  <2>2. QED
    BY <2>1, SameOperators DEF Abstract!Detach, Kids
<1>7. p \in DOMAIN Kids
  BY KidsFunction
<1>8. QED
  BY <1>6, <1>7 DEF Abstract!Next, Kids

\* What is below an item by its children.
Below(r) ==
  { x \in live : \A S \in SUBSET live : (r \in S /\ \A s \in S : ToSet(Kids[s]) \subseteq S) => x \in S }

\* It is the subtree JsonTree speaks of.
LEMMA SubtreeIs == \A r : Abstract!Subtree(r) = Below(r)
<1>1. DOMAIN Kids = live
  BY KidsFunction
<1> DEFINE B(D, r) == { x \in D : \A S \in SUBSET D : (r \in S /\ \A s \in S : ToSet(Kids[s]) \subseteq S) => x \in S }
<1>2. \A r : Abstract!Subtree(r) = B(DOMAIN Kids, r)
  BY SameOperators DEF Abstract!Subtree, Kids
<1> HIDE DEF B
<1>3. \A r : Abstract!Subtree(r) = B(live, r)
  BY <1>1, <1>2
<1>4. QED
  BY <1>3 DEF B, Below

\* A call that deletes the k-th child of p, and what is below it.
LEMMA DeleteItemIs ==
  ASSUME NEW p \in live, NEW k \in 1..Len(Kids[p]), NEW T, T = Below(Kids[p][k]), live' = live \ T,
         held' = held, p \notin T,
         Kids'[p] = RemoveAt(Kids[p], k),
         \A x \in live \ T : x # p => Kids'[x] = Kids[x]
  PROVE  Abstract!Next
<1> DEFINE K2 == Kids'
           V == [Kids EXCEPT ![p] = RemoveAt(@, k)]
           W == [x \in DOMAIN Kids \ T |-> V[x]]
<1>1. K2 = [x \in live \ T |-> K2[x]]
  BY KidsNext
<1>2. V = [x \in live |-> IF x = p THEN RemoveAt(Kids[p], k) ELSE Kids[x]] /\ DOMAIN Kids = live
  BY KidsFunction
<1>3. K2[p] = RemoveAt(Kids[p], k) /\ (\A x \in live \ T : x # p => K2[x] = Kids[x])
  OBVIOUS
<1> HIDE DEF K2, V
<1>4. \A x \in live \ T : K2[x] = V[x]
  BY <1>2, <1>3
<1>5. K2 = W
  BY <1>1, <1>2, <1>4
<1>6. Abstract!DeleteItem(p, k)
  <2>1. T = Abstract!Subtree(Kids[p][k])
    BY SubtreeIs
  <2>2. Kids' = [x \in DOMAIN Kids \ Abstract!Subtree(Kids[p][k]) |-> [Kids EXCEPT ![p] = RemoveAt(@, k)][x]]
    BY <1>5, <2>1 DEF V, W, K2
  <2> HIDE DEF W, V, K2
  <2>3. QED
    BY <2>2, SameOperators DEF Abstract!DeleteItem, Abstract!Keep, Kids
<1>7. p \in DOMAIN Kids
  BY KidsFunction
<1>8. QED
  BY <1>6, <1>7 DEF Abstract!Next, Kids

\* A held item takes the place of the k-th child.
LEMMA ReplaceIs ==
  ASSUME NEW p \in live, NEW k \in 1..Len(Kids[p]), NEW T, T = Below(Kids[p][k]), live' = live \ T,
         NEW i \in held, held' = held \ {i}, p \notin T,
         Kids'[p] = ReplaceAt(Kids[p], k, i),
         \A x \in live \ T : x # p => Kids'[x] = Kids[x]
  PROVE  Abstract!Next
<1> DEFINE K2 == Kids'
           V == [Kids EXCEPT ![p] = ReplaceAt(@, k, i)]
           W == [x \in DOMAIN Kids \ T |-> V[x]]
<1>1. K2 = [x \in live \ T |-> K2[x]]
  BY KidsNext
<1>2. V = [x \in live |-> IF x = p THEN ReplaceAt(Kids[p], k, i) ELSE Kids[x]] /\ DOMAIN Kids = live
  BY KidsFunction
<1>3. K2[p] = ReplaceAt(Kids[p], k, i) /\ (\A x \in live \ T : x # p => K2[x] = Kids[x])
  OBVIOUS
<1> HIDE DEF K2, V
<1>4. \A x \in live \ T : K2[x] = V[x]
  BY <1>2, <1>3
<1>5. K2 = W
  BY <1>1, <1>2, <1>4
<1>6. Abstract!Replace(p, k, i)
  <2>1. T = Abstract!Subtree(Kids[p][k])
    BY SubtreeIs
  <2>2. Kids' = [x \in DOMAIN Kids \ Abstract!Subtree(Kids[p][k]) |-> [Kids EXCEPT ![p] = ReplaceAt(@, k, i)][x]]
    BY <1>5, <2>1 DEF V, W, K2
  <2> HIDE DEF W, V, K2
  <2>3. QED
    BY <2>2, SameOperators DEF Abstract!Replace, Abstract!Keep, Kids
<1>7. p \in DOMAIN Kids
  BY KidsFunction
<1>8. QED
  BY <1>6, <1>7 DEF Abstract!Next, Kids

\* A held item is deleted.
LEMMA DeleteIs ==
  ASSUME NEW i \in held, NEW T, T = Below(i), live' = live \ T, held' = held \ {i},
         \A x \in live \ T : Kids'[x] = Kids[x]
  PROVE  Abstract!Next
<1> DEFINE K2 == Kids'
           W == [x \in DOMAIN Kids \ T |-> Kids[x]]
<1>1. K2 = [x \in live \ T |-> K2[x]] /\ DOMAIN Kids = live
  BY KidsFunction, KidsNext
<1>2. \A x \in live \ T : K2[x] = Kids[x]
  OBVIOUS
<1> HIDE DEF K2
<1>3. K2 = W
  BY <1>1, <1>2
<1>4. Abstract!Delete(i)
  <2>1. T = Abstract!Subtree(i)
    BY SubtreeIs
  <2>2. Kids' = [x \in DOMAIN Kids \ Abstract!Subtree(i) |-> Kids[x]]
    BY <1>3, <2>1 DEF W, K2
  <2>3. QED
    BY <2>2 DEF Abstract!Delete, Abstract!Keep, Kids
<1>5. QED
  BY <1>4 DEF Abstract!Next

\* A held item is lost.
LEMMA LoseIs ==
  ASSUME NEW i \in held, live' = live, held' = held \ {i}, \A x \in live : Kids'[x] = Kids[x]
  PROVE  Abstract!Next
<1> DEFINE K2 == Kids'
<1>1. K2 = [x \in live |-> K2[x]] /\ Kids = [x \in live |-> Kids[x]]
  BY KidsFunction, KidsNext
<1>2. \A x \in live : K2[x] = Kids[x]
  OBVIOUS
<1> HIDE DEF K2
<1>3. Kids' = Kids
  BY <1>1, <1>2 DEF K2
<1>4. Abstract!Lose
  BY <1>3 DEF Abstract!Lose, Kids
<1>5. QED
  BY <1>4 DEF Abstract!Next

\* An item is made that nobody gets.
LEMMA LoseNewIs ==
  ASSUME NEW i \in Items \ live, live' = live \cup {i}, held' = held,
         \A x \in live : Kids'[x] = Kids[x], Kids'[i] = <<>>
  PROVE  Abstract!Next
<1> DEFINE K2 == Kids'
           more == [x \in {i} |-> <<>>]
           W == [x \in DOMAIN Kids \cup DOMAIN more |-> IF x \in DOMAIN more THEN more[x] ELSE Kids[x]]
<1>1. K2 = [x \in live \cup {i} |-> K2[x]] /\ DOMAIN Kids = live
  BY KidsFunction, KidsNext
<1>2. \A x \in live : K2[x] = Kids[x]
  OBVIOUS
<1>3. K2[i] = <<>>
  OBVIOUS
<1>4. DOMAIN more = {i} /\ more[i] = <<>>
  OBVIOUS
<1> HIDE DEF K2, more
<1>5. K2 = W
  BY <1>1, <1>2, <1>3, <1>4
<1>6. Abstract!Lose
  <2>1. Kids' = [x \in DOMAIN Kids \cup DOMAIN [y \in {i} |-> <<>>] |->
                  IF x \in DOMAIN [y \in {i} |-> <<>>] THEN [y \in {i} |-> <<>>][x] ELSE Kids[x]]
    BY <1>5 DEF K2, W, more
  <2>2. i \in Items \ DOMAIN Kids
    BY <1>1
  <2>3. QED
    BY <2>1, <2>2 DEF Abstract!Lose, Abstract!With, Abstract!Fresh, Kids
<1>7. QED
  BY <1>6 DEF Abstract!Next

\* New items that are below one of them, which the client gets.
LEMMA NewIs ==
  ASSUME live \subseteq live', NEW root \in live' \ live, held' = held \cup {root},
         \A x \in live : Kids'[x] = Kids[x], Below(root)' = live' \ live
  PROVE  Abstract!Next
<1> DEFINE K2 == Kids'
           made == DOMAIN K2 \ DOMAIN Kids
           more == [x \in made |-> K2[x]]
           W == [x \in DOMAIN Kids \cup DOMAIN more |-> IF x \in DOMAIN more THEN more[x] ELSE Kids[x]]
<1>1. /\ DOMAIN K2 = live' /\ K2 = [x \in live' |-> K2[x]] /\ DOMAIN Kids = live
  BY KidsFunction, KidsNext
<1>2. \A x \in live : K2[x] = Kids[x]
  OBVIOUS
<1> HIDE DEF K2
<1>3. K2 = W
  BY <1>1, <1>2
<1>4. Abstract!Subtree(root)' = Below(root)'
  <2>1. \A r : Abstract!Subtree(r) = Below(r)
    BY SubtreeIs
  <2>2. (\A r : Abstract!Subtree(r) = Below(r))'
    BY SubtreeIs, PTL
  <2>3. QED
    BY <2>2
<1>5. root \in made /\ made = Abstract!Subtree(root)'
  BY <1>1, <1>4
<1>6. Abstract!New
  <2>1. Kids' = [x \in DOMAIN Kids \cup DOMAIN [y \in DOMAIN Kids' \ DOMAIN Kids |-> Kids'[y]] |->
                   IF x \in DOMAIN [y \in DOMAIN Kids' \ DOMAIN Kids |-> Kids'[y]]
                   THEN [y \in DOMAIN Kids' \ DOMAIN Kids |-> Kids'[y]][x] ELSE Kids[x]]
    BY <1>3 DEF K2, W
  <2>2. root \in DOMAIN Kids' \ DOMAIN Kids /\ DOMAIN Kids' \ DOMAIN Kids = Abstract!Subtree(root)'
    BY <1>5 DEF K2
  <2>3. QED
    BY <2>1, <2>2 DEF Abstract!New, Abstract!With, Abstract!Keep, Kids
<1>7. QED
  BY <1>6 DEF Abstract!Next

-----------------------------------------------------------------------------
(* Children *)

\* The children of an item as a set.
LEMMA KidSet ==
  ASSUME Inductive, Walks, NEW p \in live
  PROVE  /\ ToSet(Kids[p]) = IF info[p].ref THEN {} ELSE Children(p)
         /\ ToSet(Kids[p]) \subseteq live
<1>1. CASE info[p].ref
  <2>1. Kids[p] = <<>>
    BY <1>1, KidsFunction
  <2>2. QED
    BY <1>1, <2>1 DEF ToSet
<1>2. CASE ~info[p].ref
  <2>1. PICK s : s = Sequence[child[p]]
    OBVIOUS
  <2>2. /\ s \in Seq(live)
        /\ \A k \in 1..Len(s) : s[k] \in Children(p)
        /\ \A x \in Children(p) : \E k \in 1..Len(s) : s[k] = x
    <3>1. ChildrenInOrder(p, s)
      BY <1>2, <2>1, ChildWalk
    <3>2. QED
      BY <3>1 DEF ChildrenInOrder
  <2>3. Kids[p] = s /\ DOMAIN s = 1..Len(s) /\ \A k \in 1..Len(s) : s[k] \in live
    BY <1>2, <2>1, <2>2, KidsFunction
  <2>4. ToSet(s) = Children(p) /\ ToSet(s) \subseteq live
    BY <2>2, <2>3 DEF ToSet
  <2>5. QED
    BY <1>2, <2>3, <2>4
<1>3. QED
  BY <1>1, <1>2

\* An item is a child of one item.
LEMMA OneParent ==
  ASSUME Inductive, Walks, NEW p \in live, NEW q \in live, ~info[p].ref, ~info[q].ref,
         NEW x \in Children(p), x \in Children(q)
  PROVE  p = q
<1> DEFINE C == Children(p) \cap Children(q)
<1>1. PICK s : s = Sequence[child[p]]
  OBVIOUS
<1>2. PICK t : t = Sequence[child[q]]
  OBVIOUS
<1>3. /\ s \in Seq(live)
      /\ \A k \in 1..Len(s) : s[k] \in Children(p)
      /\ \A y \in Children(p) : \E k \in 1..Len(s) : s[k] = y
      /\ \A k \in 1..Len(s) : prev[s[k]] = IF k = 1 THEN NULL ELSE s[k - 1]
      /\ \A k \in 1..Len(s) : child[p] = s[k] <=> k = 1
  <2>1. ChildrenInOrder(p, s)
    BY <1>1, ChildWalk
  <2>2. QED
    BY <2>1 DEF ChildrenInOrder
<1>4. /\ t \in Seq(live)
      /\ \A k \in 1..Len(t) : t[k] \in Children(q)
      /\ \A y \in Children(q) : \E k \in 1..Len(t) : t[k] = y
      /\ \A k \in 1..Len(t) : prev[t[k]] = IF k = 1 THEN NULL ELSE t[k - 1]
      /\ \A k \in 1..Len(t) : child[q] = t[k] <=> k = 1
  <2>1. ChildrenInOrder(q, t)
    BY <1>2, ChildWalk
  <2>2. QED
    BY <2>1 DEF ChildrenInOrder
<1>5. /\ NULL \notin live /\ Pointers(live, next, prev, Own) /\ Grounded(live, prev, Own)
      /\ Own[p] = child[p] /\ Own[q] = child[q]
  BY Facts
<1>6. C \in SUBSET live /\ C # {}
  <2>1. \A y \in Children(p) : y \in live
    BY <1>3
  <2>2. QED
    BY <2>1
<1>7. PICK y \in C : prev[y] \notin C
  <2> HIDE DEF C
  <2>1. QED
    BY <1>5, <1>6 DEF Grounded
<1>8. PICK j \in 1..Len(s) : s[j] = y
  BY <1>3
<1>9. PICK k \in 1..Len(t) : t[k] = y
  BY <1>4
<1>10. j # 1 => j - 1 \in 1..Len(s) /\ prev[y] = s[j - 1] /\ prev[y] \in Children(p) /\ prev[y] # NULL
  <2>1. SUFFICES ASSUME j # 1
                 PROVE  j - 1 \in 1..Len(s) /\ prev[y] = s[j - 1] /\ prev[y] \in Children(p) /\ prev[y] # NULL
    OBVIOUS
  <2>2. j - 1 \in 1..Len(s)
    BY <2>1, <1>3
  <2>3. s[j - 1] \in live /\ s[j - 1] \in Children(p)
    BY <2>2, <1>3
  <2>4. QED
    BY <2>1, <2>2, <2>3, <1>3, <1>5, <1>8
<1>11. k # 1 => k - 1 \in 1..Len(t) /\ prev[y] = t[k - 1] /\ prev[y] \in Children(q) /\ prev[y] # NULL
  <2>1. SUFFICES ASSUME k # 1
                 PROVE  k - 1 \in 1..Len(t) /\ prev[y] = t[k - 1] /\ prev[y] \in Children(q) /\ prev[y] # NULL
    OBVIOUS
  <2>2. k - 1 \in 1..Len(t)
    BY <2>1, <1>4
  <2>3. t[k - 1] \in live /\ t[k - 1] \in Children(q)
    BY <2>2, <1>4
  <2>4. QED
    BY <2>1, <2>2, <2>3, <1>4, <1>5, <1>9
<1>12. j = 1 => prev[y] = NULL
  BY <1>3, <1>8
<1>13. k = 1 => prev[y] = NULL
  BY <1>4, <1>9
<1>14. j = 1 /\ k = 1
  BY <1>7, <1>10, <1>11, <1>12, <1>13
<1>15. child[p] = y /\ child[q] = y /\ y # NULL
  BY <1>3, <1>4, <1>5, <1>6, <1>7, <1>8, <1>9, <1>14
<1>16. QED
  BY <1>5, <1>15 DEF Pointers

\* What is below an item is a subtree of the pointers.
BelowPointers ==
  \A r \in Items : \A T \in SUBSET Items :
    r \in live /\ T \subseteq live /\ Subtree(T, r, next, Own) => Below(r) = T

\* It is so in every state with the invariant.
LEMMA BelowIs == Inductive /\ Walks => BelowPointers
<1> SUFFICES ASSUME Inductive, Walks, NEW r \in Items, NEW T \in SUBSET Items,
                    r \in live, T \subseteq live, Subtree(T, r, next, Own)
             PROVE  Below(r) = T
  BY DEF BelowPointers
<1> DEFINE B == Below(r)
           Shut(S) == r \in S /\ \A s \in S : ToSet(Kids[s]) \subseteq S
<1>1. /\ live \subseteq Items /\ NULL \notin Items /\ NULL \notin live
      /\ Pointers(live, next, prev, Own) /\ Grounded(live, prev, Own)
      /\ Forest(live, next, prev, Own, Roots)
      /\ \A x \in live : next[x] \in Maybe(live) /\ Own[x] \in Maybe(live)
      /\ \A x \in live : Own[x] = IF info[x].ref THEN NULL ELSE child[x]
  BY Facts DEF Inductive
<1>2. \A i : i \in B <=> i \in live /\ \A S \in SUBSET live : Shut(S) => i \in S
  BY DEF Below
<1>3. \A x \in live : ToSet(Kids[x]) \subseteq live
  BY KidSet
<1>4. \A x \in live : Own[x] # NULL =>
        /\ Own[x] \in ToSet(Kids[x])
        /\ \A y \in ToSet(Kids[x]) : next[y] \in Maybe(ToSet(Kids[x]))
        /\ \A Z \in SUBSET live :
             Own[x] \in Z /\ (\A z \in Z : next[z] \in Maybe(Z)) => ToSet(Kids[x]) \subseteq Z
  <2> SUFFICES ASSUME NEW x \in live, Own[x] # NULL
               PROVE  /\ Own[x] \in ToSet(Kids[x])
                      /\ \A y \in ToSet(Kids[x]) : next[y] \in Maybe(ToSet(Kids[x]))
                      /\ \A Z \in SUBSET live :
                           Own[x] \in Z /\ (\A z \in Z : next[z] \in Maybe(Z)) => ToSet(Kids[x]) \subseteq Z
    OBVIOUS
  <2>1. ~info[x].ref /\ child[x] = Own[x] /\ child[x] \in live
    BY <1>1 DEF Maybe
  <2>2. ToSet(Kids[x]) = Reach(live, next, Own[x])
    BY <2>1, KidSet, FromReach DEF Children
  <2>3. PICK C : C = Reach(live, next, Own[x])
    OBVIOUS
  <2>4. PICK a \in live : a = Own[x]
    BY <2>1
  <2>5. /\ C \subseteq live /\ a \in C
        /\ \A y \in C : next[y] \in Maybe(C)
        /\ \A Z \in SUBSET live : a \in Z /\ (\A z \in Z : next[z] \in Maybe(Z)) => C \subseteq Z
    BY <2>3, <2>4, <1>1, ReachSet
  <2>6. ToSet(Kids[x]) = C
    BY <2>2, <2>3
  <2>7. QED
    BY <2>4, <2>5, <2>6
<1>5. \A x \in live : Own[x] = NULL => ToSet(Kids[x]) = {}
  <2> SUFFICES ASSUME NEW x \in live, Own[x] = NULL PROVE ToSet(Kids[x]) = {}
    OBVIOUS
  <2>1. info[x].ref \/ child[x] = NULL
    BY <1>1
  <2>2. QED
    BY <2>1, KidSet DEF Children
<1>6. \A x \in T : Own[x] # r /\ next[x] # r
  BY <1>1, Outside
<1>7. /\ r \in T /\ \A x \in T : Own[x] \in Maybe(T) /\ (x # r => next[x] \in Maybe(T))
      /\ \A y \in T \ {r} : (\E x \in T \ {r} : next[x] = y) \/ (\E p \in T : Own[p] = y)
  BY DEF Subtree
<1>8. ASSUME NEW x \in T PROVE ToSet(Kids[x]) \subseteq T
  <2>1. CASE Own[x] = NULL
    BY <2>1, <1>5
  <2>2. CASE Own[x] # NULL
    <3> DEFINE Z == T \ {r}
    <3>1. Z \in SUBSET live /\ Own[x] \in Z
      BY <2>2, <1>6, <1>7 DEF Maybe
    <3>2. \A z \in Z : next[z] \in Maybe(Z)
      BY <1>6, <1>7 DEF Maybe
    <3> HIDE DEF Z
    <3>3. ToSet(Kids[x]) \subseteq Z
      BY <2>2, <3>1, <3>2, <1>4
    <3>4. QED
      BY <3>3 DEF Z
  <2>3. QED
    BY <2>1, <2>2
<1>9. Shut(T)
  BY <1>7, <1>8
<1> HIDE DEF B
<1>10. B \subseteq T
  BY <1>2, <1>9
<1>11. r \in B
  BY <1>2
<1>12. ASSUME NEW x \in B PROVE ToSet(Kids[x]) \subseteq B
  <2>1. x \in live /\ \A S \in SUBSET live : Shut(S) => x \in S
    BY <1>2
  <2>2. \A S \in SUBSET live : Shut(S) => ToSet(Kids[x]) \subseteq S
    BY <2>1
  <2>3. ToSet(Kids[x]) \subseteq live
    BY <2>1, <1>3
  <2> HIDE DEF Shut
  <2>4. QED
    BY <2>2, <2>3, <1>2
<1>13. \A y \in B \ {r} : \E x \in B : y \in ToSet(Kids[x])
  <2> SUFFICES ASSUME NEW y \in B \ {r}, \A x \in B : y \notin ToSet(Kids[x]) PROVE FALSE
    OBVIOUS
  <2>1. B \ {y} \in SUBSET live
    BY <1>10
  <2>2. Shut(B \ {y})
    BY <1>11, <1>12
  <2> HIDE DEF Shut
  <2>3. QED
    BY <2>1, <2>2, <1>2
<1>14. T \subseteq B
  <2> DEFINE X == T \ B
  <2> SUFFICES ASSUME X # {} PROVE FALSE
    OBVIOUS
  <2>1. PICK s \in X : prev[s] \notin X /\ \A q \in X : Own[q] # s
    <3>1. X \in SUBSET live
      OBVIOUS
    <3> HIDE DEF X
    <3>2. QED
      BY <3>1, <1>1 DEF Grounded
  <2>2. s \in T \ {r} /\ s \notin B /\ s \in live /\ s # NULL
    BY <1>1, <1>11
  <2>3. CASE \E x \in T \ {r} : next[x] = s
    <3>1. PICK x \in T \ {r} : next[x] = s
      BY <2>3
    <3>2. prev[s] = x
      BY <2>2, <3>1, <1>1 DEF Pointers
    <3>3. x \in B \ {r}
      BY <2>1, <3>1, <3>2
    <3>4. PICK q \in B : x \in ToSet(Kids[q])
      BY <3>3, <1>13
    <3>5. q \in live /\ Own[q] # NULL
      BY <3>4, <1>5, <1>10
    <3>6. next[x] \in Maybe(ToSet(Kids[q]))
      BY <3>4, <3>5, <1>4
    <3>7. s \in B
      BY <2>2, <3>1, <3>4, <3>6, <1>12 DEF Maybe
    <3>8. QED
      BY <2>2, <3>7
  <2>4. CASE \E q \in T : Own[q] = s
    <3>1. PICK q \in T : Own[q] = s
      BY <2>4
    <3>2. q \in B /\ q \in live
      BY <2>1, <3>1
    <3>3. s \in ToSet(Kids[q])
      BY <2>2, <3>1, <3>2, <1>4
    <3>4. QED
      BY <2>2, <3>2, <3>3, <1>12
  <2>5. QED
    BY <2>2, <2>3, <2>4, <1>7
<1>15. QED
  BY <1>10, <1>14 DEF B

\* An item keeps its children if nothing happens to the pointers that lead to them.
LEMMA SameKids ==
  ASSUME Inductive, Walks, Walks', NEW x \in live, x \in live', info'[x].ref = info[x].ref,
         ~info[x].ref => child'[x] = child[x] /\ \A y \in Children(x) : next'[y] = next[y]
  PROVE  Kids'[x] = Kids[x]
<1>1. Kids'[x] = IF info'[x].ref THEN <<>> ELSE Sequence'[child'[x]]
  BY KidsNext
<1>2. Kids[x] = IF info[x].ref THEN <<>> ELSE Sequence[child[x]]
  BY KidsFunction
<1>3. CASE info[x].ref
  BY <1>1, <1>2, <1>3
<1>4. CASE ~info[x].ref
  <2>1. PICK s : s = Sequence[child[x]]
    OBVIOUS
  <2>2. IsWalk(next, child[x], s) /\ \A k \in 1..Len(s) : s[k] \in Children(x)
    <3>1. ChildrenInOrder(x, s)
      BY <1>4, <2>1, ChildWalk
    <3>2. QED
      BY <3>1 DEF ChildrenInOrder
  <2>3. \A k \in 1..Len(s) : next'[s[k]] = next[s[k]]
    BY <1>4, <2>2
  <2>4. ASSUME NEW ny, ny = next' PROVE IsWalk(ny, child[x], s)
    <3>1. \A k \in 1..Len(s) : ny[s[k]] = next[s[k]]
      BY <2>3, <2>4
    <3>2. QED
      BY <2>2, <3>1, WalkSame
  <2>5. child[x] \in Maybe(Items)
    BY Facts DEF Inductive
  <2>6. Sequence'[child[x]] = s
    BY <2>4, <2>5, WalkNext
  <2>7. QED
    BY <1>1, <1>2, <1>4, <2>1, <2>6
<1>5. QED
  BY <1>3, <1>4

-----------------------------------------------------------------------------
(* The calls as steps of JsonTree *)

\* add_item_to_array: the item is the last child, and the others' are the same.
LEMMA AppendedLast ==
  ASSUME Inductive, Walks, Walks', NEW array \in live, ~info[array].ref,
         NEW i \in held \cup (Items \ live), array # i, NEW first \in Maybe(Items),
         AppendTo(array, i, first), i \in live => first = child[i],
         live' = live \cup {i}, \A x \in live : info'[x].ref = info[x].ref,
         i \notin live => info'[i].ref \/ first = NULL
  PROVE  /\ Kids'[array] = InsertAt(Kids[array], Len(Kids[array]) + 1, i)
         /\ \A x \in live : x # array => Kids'[x] = Kids[x]
         /\ i \notin live => Kids'[i] = <<>>
<1>1. /\ live \subseteq Items /\ NULL \notin Items /\ NULL \notin live
      /\ child \in [Items -> Maybe(Items)] /\ next \in [Items -> Maybe(Items)]
      /\ Pointers(live, next, prev, Own) /\ AreRoots(Roots, live, next, prev, Own)
      /\ Roots \subseteq live
      /\ array \in Items
  BY Facts DEF Inductive
<1>2. i \in Items /\ i # NULL /\ next[i] = NULL /\ (i \in live => i \in Roots)
  BY <1>1 DEF Pointers, AreRoots, Roots
<1>3. ASSUME NEW x \in live, ~info[x].ref PROVE i \notin Children(x)
  BY <1>2, <1>3, ChildFacts
<1>4. PICK s : s = Sequence[child[array]]
  OBVIOUS
<1>5. /\ IsWalk(next, child[array], s) /\ s \in Seq(live)
      /\ \A j \in 1..Len(s) : s[j] \in Children(array)
      /\ \A x \in Children(array) : \E j \in 1..Len(s) : s[j] = x
      /\ \A j, k \in 1..Len(s) : s[j] = s[k] => j = k
  <2>1. ChildrenInOrder(array, s)
    BY <1>4, ChildWalk
  <2>2. QED
    BY <2>1 DEF ChildrenInOrder
<1>6. /\ Len(s) \in Nat /\ s \in Seq(Items)
      /\ At(s, 1) = child[array]
      /\ \A j \in 1..Len(s) : next[s[j]] = At(s, j + 1)
      /\ \A j \in 1..Len(s) : s[j] \in Items /\ s[j] \in live /\ s[j] # i
  <2>1. i \notin Children(array)
    BY <1>3
  <2>2. QED
    BY <1>1, <1>5, <2>1 DEF IsWalk
<1> DEFINE k == Len(s) + 1
<1>7. \A j \in Nat \ {0} : At(s, j) = NULL <=> j > Len(s)
  BY <1>6, AtItem
<1>8. k \in 1..Len(s)+1 /\ k \in Nat
  BY <1>6
<1>9. At(s, k) = NULL
  BY <1>6, <1>7
<1>10. /\ next'[i] = NULL
       /\ k > 1 => next'[s[k - 1]] = i
       /\ \A j \in 1..Len(s) : j # k - 1 => next'[s[j]] = next[s[j]]
       /\ child'[array] = IF k = 1 THEN i ELSE child[array]
       /\ \A x \in Items : x # array /\ x # i => child'[x] = child[x]
       /\ child'[i] = first
       /\ \A y \in live : y \notin Children(array) => next'[y] = next[y]
  <2>1. CASE child[array] = NULL
    <3>1. ~ 1 > Len(s) => FALSE
      BY <1>6, <1>7, <2>1
    <3>2. Len(s) = 0
      BY <3>1, <1>6
    <3>3. next' = next /\ child' = [[child EXCEPT ![i] = first] EXCEPT ![array] = i]
      BY <2>1 DEF AppendTo
    <3>4. QED
      BY <3>2, <3>3, <1>1, <1>2
  <2>2. CASE child[array] # NULL
    <3>1. PICK last \in Children(array) :
            /\ next[last] = NULL
            /\ next' = [next EXCEPT ![last] = i]
            /\ child' = [child EXCEPT ![i] = first]
      BY <2>2 DEF AppendTo
    <3>2. PICK m \in 1..Len(s) : s[m] = last
      BY <1>5
    <3>3. At(s, m + 1) = NULL /\ m \in Nat /\ m + 1 \in Nat \ {0} /\ m <= Len(s)
      BY <3>1, <3>2, <1>6
    <3>4. m = Len(s)
      BY <3>3, <1>6, <1>7
    <3>5. last \in Items /\ last # i
      BY <3>2, <1>6
    <3>6. k # 1 /\ k - 1 = m
      BY <3>2, <3>4, <1>6
    <3>7. \A j \in 1..Len(s) : j # m => s[j] # last
      BY <3>2, <1>5
    <3> HIDE DEF k
    <3>8. next'[last] = i /\ \A x \in Items : x # last => next'[x] = next[x]
      BY <3>1, <3>5, <1>1
    <3>9. \A j \in 1..Len(s) : j # k - 1 => next'[s[j]] = next[s[j]]
      BY <3>6, <3>7, <3>8, <1>6
    <3>10. child'[i] = first /\ \A x \in Items : x # i => child'[x] = child[x]
      BY <3>1, <1>1, <1>2
    <3>11. \A y \in live : y \notin Children(array) => next'[y] = next[y]
      BY <3>8, <1>1
    <3>12. next'[i] = NULL /\ (k > 1 => next'[s[k - 1]] = i)
      BY <3>2, <3>5, <3>6, <3>8, <1>2
    <3>13. QED
      BY <3>6, <3>9, <3>10, <3>11, <3>12, <1>1
  <2>3. QED
    BY <2>1, <2>2
<1> HIDE DEF k
<1>11. ASSUME NEW ny, ny = next' PROVE IsWalk(ny, IF k = 1 THEN i ELSE child[array], InsertAt(s, k, i))
  <2>1. ny[i] = At(s, k) /\ (k > 1 => ny[s[k - 1]] = i)
    BY <1>9, <1>10, <1>11
  <2>2. \A j \in 1..Len(s) : j # k - 1 => ny[s[j]] = next[s[j]]
    BY <1>10, <1>11
  <2>3. QED
    BY <2>1, <2>2, <1>2, <1>5, <1>8, WalkInsert
<1>12. IsWalk(next', child'[array], InsertAt(s, k, i))
  BY <1>10, <1>11
<1>13. child'[array] \in Maybe(Items)
  BY <1>1, <1>2, <1>10 DEF Maybe
<1>14. Sequence'[child'[array]] = InsertAt(s, k, i)
  BY <1>12, <1>13, WalkNext
<1>15. Kids[array] = s
  BY <1>4, KidsFunction
<1>16. Kids'[array] = InsertAt(Kids[array], Len(Kids[array]) + 1, i)
  <2>1. array \in live' /\ ~info'[array].ref
    OBVIOUS
  <2>2. Kids'[array] = Sequence'[child'[array]]
    BY <2>1, KidsNext
  <2>3. QED
    BY <2>2, <1>14, <1>15 DEF k
<1>17. ASSUME NEW x \in live, x # array PROVE Kids'[x] = Kids[x]
  <2>1. x \in live' /\ info'[x].ref = info[x].ref
    OBVIOUS
  <2>2. child'[x] = child[x]
    <3>1. CASE x = i
      BY <3>1, <1>10, <1>17
    <3>2. CASE x # i
      BY <3>2, <1>1, <1>10, <1>17
    <3>3. QED
      BY <3>1, <3>2
  <2>3. ASSUME ~info[x].ref, NEW y \in Children(x) PROVE next'[y] = next[y]
    <3>1. y \in live
      BY <2>3, ChildFacts
    <3>2. y \notin Children(array)
      BY <2>3, <1>17, OneParent
    <3>3. QED
      BY <3>1, <3>2, <1>10
  <2>4. QED
    BY <2>1, <2>2, <2>3, SameKids
<1>18. ASSUME i \notin live PROVE Kids'[i] = <<>>
  <2>1. i \in live'
    OBVIOUS
  <2>2. CASE info'[i].ref
    BY <2>1, <2>2, KidsNext
  <2>3. CASE ~info'[i].ref
    <3>1. child'[i] = NULL
      BY <2>3, <1>10, <1>18
    <3>2. Kids'[i] = Sequence'[NULL]
      BY <2>1, <2>3, <3>1, KidsNext
    <3>3. IsWalk(next', NULL, <<>>)
      BY DEF IsWalk, At
    <3>4. QED
      BY <3>2, <3>3, WalkNext DEF Maybe
  <2>4. QED
    BY <2>2, <2>3
<1>19. QED
  BY <1>16, <1>17, <1>18

\* What the client adds, or has made to be added, is put behind the last child.
LEMMA AppendIs ==
  ASSUME Inductive, Walks, Walks', NEW array \in live, ~info[array].ref,
         NEW i \in held \cup (Items \ live), array # i, NEW first \in Maybe(Items),
         AppendTo(array, i, first), i \in live => first = child[i],
         live' = live \cup {i}, \A x \in live : info'[x].ref = info[x].ref,
         i \notin live => info'[i].ref \/ first = NULL,
         held' = held \ {i}
  PROVE  Abstract!Next
<1>1. /\ Kids'[array] = InsertAt(Kids[array], Len(Kids[array]) + 1, i)
      /\ \A x \in live : x # array => Kids'[x] = Kids[x]
      /\ i \notin live => Kids'[i] = <<>>
  BY AppendedLast
<1>2. PICK k : k = Len(Kids[array]) + 1
  OBVIOUS
<1>3. k \in 1..Len(Kids[array])+1
  <2>1. Sequence[child[array]] \in Seq(live)
    BY ChildWalk DEF ChildrenInOrder
  <2>2. Kids[array] \in Seq(live)
    BY <2>1, KidsFunction
  <2>3. QED
    BY <2>2, <1>2
<1>4. Kids'[array] = InsertAt(Kids[array], k, i)
  BY <1>1, <1>2
<1>5. QED
  BY <1>1, <1>3, <1>4, PutIs

\* cJSON_AddItemToArray.
LEMMA AddItemToArrayIs == ASSUME Inductive, Walks, Walks', AddItemToArray PROVE Abstract!Next
<1>1. PICK array \in live, item \in held :
        /\ Adds(array, item)
        /\ AppendTo(array, item, child[item])
        /\ held' = held \ {item}
        /\ UNCHANGED <<live, info>>
  BY DEF AddItemToArray
<1>2. item \in live /\ array # item /\ ~info[array].ref /\ child[item] \in Maybe(Items)
  BY <1>1, RootTaken, Facts DEF Adds, Tree, Inductive
<1>3. live' = live \cup {item} /\ \A x \in live : info'[x].ref = info[x].ref
  BY <1>1, <1>2
<1>4. QED
  BY <1>1, <1>2, <1>3, AppendIs

\* cJSON_AddItemToObject and its like.
LEMMA AddItemToObjectIs == ASSUME Inductive, Walks, Walks', AddItemToObject PROVE Abstract!Next
<1>1. PICK object \in live, item \in held, name \in Names, constant \in BOOLEAN :
        /\ Adds(object, item)
        /\ AppendTo(object, item, child[item])
        /\ info' = [info EXCEPT ![item].name = name, ![item].const = constant]
        /\ held' = held \ {item}
        /\ UNCHANGED live
  BY DEF AddItemToObject
<1>2. /\ item \in live /\ object # item /\ ~info[object].ref /\ child[item] \in Maybe(Items)
      /\ live \subseteq Items /\ info \in [Items -> Info]
  BY <1>1, RootTaken, Facts DEF Adds, Tree, Inductive
<1>3. live' = live \cup {item}
  BY <1>1, <1>2
<1>4. \A x \in live : info'[x].ref = info[x].ref
  BY <1>1, <1>2, NewName DEF NewNameOf
<1>5. QED
  BY <1>1, <1>2, <1>3, <1>4, AppendIs

\* The functions that create an item and add it under a name.
LEMMA AddNewToObjectIs == ASSUME Inductive, Walks, Walks', AddNewToObject PROVE Abstract!Next
<1>1. PICK object \in live, i \in Items \ live, name \in Names, text \in Texts :
        /\ ~info[object].ref
        /\ live' = live \cup {i}
        /\ AppendTo(object, i, NULL)
        /\ info' = [info EXCEPT ![i] = [Blank EXCEPT !.name = name, !.text = text]]
        /\ UNCHANGED held
  BY DEF AddNewToObject
<1>2. object # i /\ live \subseteq Items /\ info \in [Items -> Info] /\ held \subseteq live
  BY Facts DEF Inductive, Roots
<1>3. \A x \in live : info'[x].ref = info[x].ref
  BY <1>1, <1>2
<1>4. held' = held \ {i} /\ NULL \in Maybe(Items)
  BY <1>1, <1>2 DEF Maybe
<1>5. QED
  BY <1>1, <1>2, <1>3, <1>4, AppendIs

\* The functions that add a reference.
LEMMA AddReferenceIs == ASSUME Inductive, Walks, Walks', AddReference PROVE Abstract!Next
<1>1. PICK array \in live, item \in live, i \in Items \ live, name \in Maybe(Names) :
        /\ ~info[array].ref
        /\ live' = live \cup {i}
        /\ AppendTo(array, i, child[item])
        /\ info' = [info EXCEPT ![i] = [info[item] EXCEPT !.name = name, !.ref = TRUE,
                                                          !.const = @ /\ name = NULL]]
        /\ UNCHANGED held
  BY DEF AddReference
<1>2. /\ array # i /\ live \subseteq Items /\ info \in [Items -> Info] /\ held \subseteq live
      /\ child[item] \in Maybe(Items)
  BY Facts DEF Inductive, Roots
<1>3. \A x \in live : info'[x].ref = info[x].ref
  BY <1>1, <1>2
<1>4. info'[i].ref
  BY <1>1, <1>2 DEF Info
<1>5. held' = held \ {i}
  BY <1>1, <1>2
<1>6. QED
  BY <1>1, <1>2, <1>3, <1>4, <1>5, AppendIs

\* cJSON_InsertItemInArray.
LEMMA InsertIs == ASSUME Inductive, Walks, Walks', Insert PROVE Abstract!Next
<1>1. PICK array \in live, new \in held : \E after \in Children(array) : InsertAtItem(array, after, new)
  BY DEF Insert
<1>2. PICK after \in Children(array) : InsertAtItem(array, after, new)
  BY <1>1
<1>3. /\ Adds(array, new) /\ InsertBefore(array, after, new)
      /\ held' = held \ {new} /\ live' = live /\ info' = info
  BY <1>2 DEF InsertAtItem
<1>4. /\ ~info[array].ref /\ array # new /\ new \in live
      /\ live \subseteq Items /\ NULL \notin Items /\ NULL \notin live
      /\ child \in [Items -> Maybe(Items)] /\ next \in [Items -> Maybe(Items)]
      /\ Pointers(live, next, prev, Own)
  BY <1>3, RootTaken, Facts DEF Adds, Tree, Inductive
<1>5. PICK s : s = Sequence[child[array]]
  OBVIOUS
<1>6. /\ IsWalk(next, child[array], s) /\ s \in Seq(live)
      /\ \A x \in Children(array) : \E k \in 1..Len(s) : s[k] = x
  <2>1. ~info[array].ref
    BY <1>4
  <2>2. ChildrenInOrder(array, s)
    BY <2>1, <1>5, ChildWalk
  <2>3. QED
    BY <2>2 DEF ChildrenInOrder
<1>7. PICK k \in 1..Len(s) : s[k] = after
  BY <1>6
<1>8. Sequence[child[array]]' = InsertAt(s, k, new)
  BY <1>2, <1>5, <1>7, InsertedBefore
<1>9. Kids[array] = s /\ Kids'[array] = InsertAt(s, k, new)
  <2>1. Kids[array] = s
    BY <1>4, <1>5, KidsFunction
  <2>2. Kids'[array] = Sequence'[child'[array]]
    BY <1>3, <1>4, KidsNext
  <2>3. QED
    BY <2>1, <2>2, <1>8
<1>10. /\ next' = [x \in Items |-> IF x = new THEN after
                                   ELSE IF x = prev[after] THEN new ELSE next[x]]
       /\ child' = [child EXCEPT ![array] = IF @ = after THEN new ELSE @]
  BY <1>3 DEF InsertBefore
<1>11. /\ after \in live
       /\ prev[after] # NULL => next[prev[after]] = after /\ prev[after] \in live
  BY <1>4, ChildFacts
<1>12. ASSUME NEW x \in live, x # array PROVE Kids'[x] = Kids[x]
  <2>1. x \in live' /\ info'[x].ref = info[x].ref
    BY <1>3
  <2>2. child'[x] = child[x]
    BY <1>4, <1>10, <1>12
  <2>3. ASSUME ~info[x].ref, NEW y \in Children(x) PROVE next'[y] = next[y]
    <3>1. y \in live /\ y # new
      <4>1. new \in Roots
        BY RootTaken
      <4>2. QED
        BY <2>3, <4>1, ChildFacts
    <3>2. y # prev[after]
      <4> SUFFICES ASSUME y = prev[after] PROVE FALSE
        OBVIOUS
      <4>1. next[y] = after /\ after # NULL
        BY <3>1, <1>4, <1>11
      <4>2. after \in Children(x)
        BY <2>3, <4>1, ChildSet DEF Maybe
      <4>3. QED
        BY <4>2, <2>3, <1>4, <1>12, OneParent
    <3>3. QED
      BY <3>1, <3>2, <1>4, <1>10
  <2>4. QED
    BY <2>1, <2>2, <2>3, SameKids
<1>13. k \in 1..Len(Kids[array])+1 /\ live' = live \cup {new}
  BY <1>3, <1>4, <1>6, <1>9
<1>14. Kids'[array] = InsertAt(Kids[array], k, new)
  BY <1>9
<1>15. QED
  BY <1>3, <1>4, <1>12, <1>13, <1>14, PutIs

\* Calls that change no pointer.
LEMMA SamePointersKids ==
  ASSUME Inductive, Walks, Walks', live \subseteq live', UNCHANGED next,
         \A x \in live : info'[x].ref = info[x].ref, \A x \in live : child'[x] = child[x]
  PROVE  \A x \in live : Kids'[x] = Kids[x]
<1> SUFFICES ASSUME NEW x \in live PROVE Kids'[x] = Kids[x]
  OBVIOUS
<1>1. x \in live' /\ info'[x].ref = info[x].ref
  OBVIOUS
<1>2. ~info[x].ref => child'[x] = child[x] /\ \A y \in Children(x) : next'[y] = next[y]
  OBVIOUS
<1>3. QED
  BY <1>1, <1>2, SameKids

\* An item whose key cannot be copied.
LEMMA AddLostIs == ASSUME Inductive, Walks, Walks', AddLost PROVE Abstract!Next
<1>1. PICK item \in held : held' = held \ {item} /\ UNCHANGED <<live, next, child, info>>
  BY DEF AddLost
<1>2. \A x \in live : Kids'[x] = Kids[x]
  BY <1>1, SamePointersKids
<1>3. QED
  BY <1>1, <1>2, LoseIs

\* A reference whose name cannot be copied.
LEMMA AddReferenceLostIs == ASSUME Inductive, Walks, Walks', AddReferenceLost PROVE Abstract!Next
<1>1. PICK item \in live, i \in Items \ live :
        /\ live' = live \cup {i}
        /\ child' = [child EXCEPT ![i] = child[item]]
        /\ info' = [info EXCEPT ![i] = [info[item] EXCEPT !.name = NULL, !.ref = TRUE]]
        /\ UNCHANGED <<next, held>>
  BY DEF AddReferenceLost
<1>2. /\ live \subseteq Items /\ info \in [Items -> Info] /\ child \in [Items -> Maybe(Items)]
  BY Facts DEF Inductive
<1>3. \A x \in live : info'[x].ref = info[x].ref
  BY <1>1, <1>2
<1>4. \A x \in live : child'[x] = child[x]
  BY <1>1, <1>2
<1>5. info'[i].ref /\ i \in live'
  BY <1>1, <1>2 DEF Info
<1>6. Kids'[i] = <<>>
  BY <1>5, KidsNext
<1>7. live \subseteq live'
  BY <1>1
<1>8. \A x \in live : Kids'[x] = Kids[x]
  BY <1>1, <1>3, <1>4, <1>7, SamePointersKids
<1>9. QED
  BY <1>1, <1>6, <1>8, LoseNewIs

\* A replacement under a name that is not there.
LEMMA ReplaceInObjectMissedIs == ASSUME Inductive, Walks, Walks', ReplaceInObjectMissed PROVE Abstract!Next
<1>1. PICK r \in held, name \in Names :
        /\ \E key \in {name, NULL} : info' = Renamed(r, key, info)
        /\ held' = held \ {r}
        /\ UNCHANGED <<live, next, child>>
  BY DEF ReplaceInObjectMissed
<1>2. PICK key \in {name, NULL} : info' = Renamed(r, key, info)
  BY <1>1
<1>3. key \in Maybe(Names) /\ r \in live /\ live \subseteq Items
  BY RootTaken, Facts DEF Maybe
<1>4. \A x \in Items : NewNameOf(r, key, FALSE)[x].ref = info[x].ref
  BY <1>3, NewName
<1>5. info' = NewNameOf(r, key, FALSE)
  BY <1>2 DEF NewNameOf, Renamed
<1>6. \A x \in live : info'[x].ref = info[x].ref
  BY <1>3, <1>4, <1>5
<1>7. \A x \in live : Kids'[x] = Kids[x]
  BY <1>1, <1>6, SamePointersKids
<1>8. QED
  BY <1>1, <1>7, LoseIs

\* Another parent has neither a child nor the one before it, nor what is below
\* it unless it is below it itself.
LEMMA OthersApart ==
  ASSUME Inductive, Walks, NEW p \in live, ~info[p].ref, NEW item \in Children(p),
         NEW x \in live, x # p, ~info[x].ref
  PROVE  /\ item \notin Children(x) /\ prev[item] \notin Children(x)
         /\ x \notin Tree(item) => Children(x) \cap Tree(item) = {}
<1> DEFINE C == Children(x)
           T == Tree(item)
           S == C \ T
<1>1. /\ item \in live /\ NULL \notin live /\ Pointers(live, next, prev, Own)
      /\ Forest(live, next, prev, Own, Roots)
      /\ prev[item] # NULL => prev[item] \in live /\ next[prev[item]] = item
  BY ChildFacts, Facts DEF Inductive
<1>2. item \notin C
  BY OneParent
<1>3. \A y \in C : y \in live /\ next[y] \in Maybe(C)
  BY ChildSet
<1>4. prev[item] \notin C
  <2> SUFFICES ASSUME prev[item] \in C PROVE FALSE
    OBVIOUS
  <2>1. next[prev[item]] = item
    BY <1>1, <1>3
  <2>2. item \in C
    BY <2>1, <1>1, <1>3 DEF Maybe
  <2>3. QED
    BY <2>2, <1>2
<1>5. ASSUME x \notin T, NEW y \in C, y \in T PROVE FALSE
  <2>1. /\ Own[x] = child[x] /\ child[x] # NULL /\ child[x] \in live /\ child[x] \in C
        /\ C \subseteq live
        /\ \A Z \in SUBSET live :
             child[x] \in Z /\ (\A s \in Z : next[s] \in Maybe(Z)) => C \subseteq Z
    BY <1>5, ChildSet
  <2>2. T \in SUBSET live /\ Subtree(T, item, next, Own)
    BY <1>1, TreeBelow
  <2> HIDE DEF C, T
  <2>3. \A z \in live \ T : (next[z] \in T => next[z] = item) /\ (Own[z] \in T => Own[z] = item)
    BY <1>1, <2>2, Outside
  <2>4. child[x] \in S
    BY <1>2, <1>5, <2>1, <2>3
  <2>5. \A s \in S : next[s] \in Maybe(S)
    BY <1>2, <1>3, <2>1, <2>3 DEF Maybe
  <2>6. S \in SUBSET live
    BY <2>1
  <2>7. C \subseteq S
    <3> HIDE DEF S
    <3>1. QED
      BY <2>1, <2>4, <2>5, <2>6
  <2>8. QED
    BY <2>7, <1>5
<1>6. QED
  BY <1>2, <1>4, <1>5

\* A child is taken out, and freed or not: its place in the sequence closes.
LEMMA TakenOut ==
  ASSUME Inductive, Walks, Walks', NEW p \in live, ~info[p].ref, NEW item \in Children(p),
         NEW D, D = {} \/ D = Tree(item), Unlink(p, item, D), live' = live \ D,
         \A x \in live \ D : info'[x].ref = info[x].ref
  PROVE  /\ p \notin D
         /\ \E k \in 1..Len(Kids[p]) : Kids[p][k] = item /\ Kids'[p] = RemoveAt(Kids[p], k)
         /\ \A x \in live \ D : x # p => Kids'[x] = Kids[x]
<1>1. /\ live \subseteq Items /\ NULL \notin Items /\ NULL \notin live
      /\ child \in [Items -> Maybe(Items)] /\ next \in [Items -> Maybe(Items)]
      /\ p \in Items /\ item \in live
  BY Facts, ChildFacts DEF Inductive
<1>2. /\ p \notin Tree(item) /\ prev[item] \notin Tree(item)
      /\ Children(p) \cap Tree(item) = {item}
      /\ item \in Tree(item)
  BY ParentOutside, ChildrenApart DEF Tree
<1>3. p \notin D /\ prev[item] \notin D \cup {item} /\ D \cup {item} \subseteq Tree(item)
  BY <1>2
<1>4. /\ next' = [x \in Items |-> IF x \in D \cup {item} THEN NULL
                                  ELSE IF x = prev[item] THEN next[item] ELSE next[x]]
      /\ child' = [x \in Items |-> IF x \in D THEN NULL
                                   ELSE IF x = p /\ child[x] = item THEN next[item] ELSE child[x]]
  BY DEF Unlink
<1>5. PICK s : s = Sequence[child[p]]
  OBVIOUS
<1>6. /\ IsWalk(next, child[p], s) /\ s \in Seq(live)
      /\ \A j \in 1..Len(s) : s[j] \in Children(p)
      /\ \A x \in Children(p) : \E j \in 1..Len(s) : s[j] = x
      /\ \A j, k \in 1..Len(s) : s[j] = s[k] => j = k
      /\ \A j \in 1..Len(s) : prev[s[j]] = IF j = 1 THEN NULL ELSE s[j - 1]
      /\ \A j \in 1..Len(s) : child[p] = s[j] <=> j = 1
  <2>1. ChildrenInOrder(p, s)
    BY <1>5, ChildWalk
  <2>2. QED
    BY <2>1 DEF ChildrenInOrder
<1>7. PICK k \in 1..Len(s) : s[k] = item
  BY <1>6
<1>8. /\ Len(s) \in Nat /\ k \in Nat
      /\ \A j \in 1..Len(s) : next[s[j]] = At(s, j + 1) /\ s[j] \in Items /\ s[j] \in live
  BY <1>1, <1>6 DEF IsWalk
<1>9. next[item] = At(s, k + 1)
  BY <1>7, <1>8
<1>10. ASSUME k > 1 PROVE next'[s[k - 1]] = At(s, k + 1)
  <2>1. k - 1 \in 1..Len(s) /\ prev[item] = s[k - 1] /\ s[k - 1] \in Items
    BY <1>6, <1>7, <1>8, <1>10
  <2>2. QED
    BY <2>1, <1>3, <1>4, <1>9
<1>11. ASSUME NEW j \in 1..Len(s), j # k - 1, j # k PROVE next'[s[j]] = next[s[j]]
  <2>1. s[j] # item
    BY <1>6, <1>7, <1>11
  <2>2. s[j] \notin D \cup {item}
    BY <2>1, <1>2, <1>3, <1>6
  <2>3. s[j] # prev[item]
    <3>1. CASE k = 1
      BY <3>1, <1>1, <1>6, <1>7, <1>8
    <3>2. CASE k # 1
      <4>1. k - 1 \in 1..Len(s) /\ prev[item] = s[k - 1]
        BY <1>6, <1>7, <1>8, <3>2
      <4>2. s[j] # s[k - 1]
        BY <4>1, <1>6, <1>11
      <4>3. QED
        BY <4>1, <4>2
    <3>3. QED
      BY <3>1, <3>2
  <2>4. QED
    BY <2>2, <2>3, <1>4, <1>8
<1>12. child'[p] = IF k = 1 THEN At(s, 2) ELSE child[p]
  <2>1. child[p] = item <=> k = 1
    BY <1>6, <1>7
  <2>2. k = 1 => next[item] = At(s, 2)
    BY <1>9
  <2>3. QED
    BY <2>1, <2>2, <1>1, <1>3, <1>4
<1>13. ASSUME NEW ny, ny = next' PROVE IsWalk(ny, IF k = 1 THEN At(s, 2) ELSE child[p], RemoveAt(s, k))
  <2>1. k > 1 => ny[s[k - 1]] = At(s, k + 1)
    BY <1>10, <1>13
  <2>2. \A j \in 1..Len(s) : j # k - 1 /\ j # k => ny[s[j]] = next[s[j]]
    BY <1>11, <1>13
  <2>3. QED
    BY <2>1, <2>2, <1>6, WalkRemove
<1>14. IsWalk(next', child'[p], RemoveAt(s, k))
  BY <1>12, <1>13
<1>15. child'[p] \in Maybe(Items)
  BY <1>1, <1>3, <1>4
<1>16. Sequence'[child'[p]] = RemoveAt(s, k)
  BY <1>14, <1>15, WalkNext
<1>17. Kids[p] = s
  BY <1>5, KidsFunction
<1>18. Kids'[p] = RemoveAt(s, k)
  <2>1. p \in live' /\ ~info'[p].ref
    BY <1>3
  <2>2. Kids'[p] = Sequence'[child'[p]]
    BY <2>1, KidsNext
  <2>3. QED
    BY <2>2, <1>16
<1>19. ASSUME NEW x \in live \ D, x # p PROVE Kids'[x] = Kids[x]
  <2>1. x \in live' /\ info'[x].ref = info[x].ref
    OBVIOUS
  <2>2. child'[x] = child[x]
    BY <1>1, <1>4, <1>19
  <2>3. ASSUME ~info[x].ref, NEW y \in Children(x) PROVE next'[y] = next[y]
    <3>1. y \in live
      BY <2>3, ChildFacts
    <3>2. item \notin Children(x) /\ prev[item] \notin Children(x)
      BY <2>3, <1>19, OthersApart
    <3>3. y \notin D
      <4>1. CASE D = {}
        BY <4>1
      <4>2. CASE D = Tree(item)
        <5>1. Children(x) \cap Tree(item) = {}
          BY <4>2, <2>3, <1>19, OthersApart
        <5>2. QED
          BY <5>1, <4>2, <2>3
      <4>3. QED
        BY <4>1, <4>2
    <3>4. QED
      BY <3>1, <3>2, <3>3, <1>1, <1>4
  <2>4. QED
    BY <2>1, <2>2, <2>3, SameKids
<1>20. k \in 1..Len(Kids[p]) /\ Kids[p][k] = item /\ Kids'[p] = RemoveAt(Kids[p], k)
  BY <1>7, <1>17, <1>18
<1>21. QED
  BY <1>3, <1>19, <1>20

\* The items below a child, which go when it is deleted.
LEMMA BelowTree ==
  ASSUME Inductive, Walks, NEW item \in live
  PROVE  Below(item) = Tree(item)
<1>1. /\ Tree(item) \subseteq live /\ Subtree(Tree(item), item, next, Own)
      /\ live \subseteq Items
  BY TreeBelow, Facts
<1>2. \A T \in SUBSET Items : T \subseteq live /\ Subtree(T, item, next, Own) => Below(item) = T
  BY <1>1, BelowIs DEF BelowPointers
<1>3. PICK T : T = Tree(item)
  OBVIOUS
<1>4. T \in SUBSET Items /\ T \subseteq live /\ Subtree(T, item, next, Own)
  BY <1>1, <1>3
<1>5. QED
  BY <1>2, <1>3, <1>4

\* The Detach functions.
LEMMA DetachedIs == ASSUME Inductive, Walks, Walks', Detach PROVE Abstract!Next
<1>1. PICK p \in live : /\ ~info[p].ref
                        /\ \E item \in Children(p) : /\ Unlink(p, item, {})
                                                     /\ held' = held \cup {item}
                        /\ UNCHANGED <<live, info, lost>>
  BY DEF Detach
<1>2. PICK item \in Children(p) : Unlink(p, item, {}) /\ held' = held \cup {item}
  BY <1>1
<1>3. PICK D : D = {}
  OBVIOUS
<1>4. /\ Unlink(p, item, D) /\ live' = live \ D
      /\ \A x \in live \ D : info'[x].ref = info[x].ref
  BY <1>1, <1>2, <1>3
<1>5. /\ \E k \in 1..Len(Kids[p]) : Kids[p][k] = item /\ Kids'[p] = RemoveAt(Kids[p], k)
      /\ \A x \in live \ D : x # p => Kids'[x] = Kids[x]
  BY <1>1, <1>3, <1>4, TakenOut
<1>6. PICK k \in 1..Len(Kids[p]) : Kids[p][k] = item /\ Kids'[p] = RemoveAt(Kids[p], k)
  BY <1>5
<1>7. /\ held' = held \cup {Kids[p][k]} /\ live' = live
      /\ \A x \in live : x # p => Kids'[x] = Kids[x]
  BY <1>1, <1>2, <1>3, <1>5, <1>6
<1>8. QED
  BY <1>6, <1>7, DetachIs

\* The references among what is left are the same when something is freed.
LEMMA FreedRefs ==
  ASSUME Inductive, NEW T \in SUBSET live, Free(T)
  PROVE  \A x \in live \ T : info'[x].ref = info[x].ref
<1>1. live \subseteq Items
  BY Facts
<1>2. QED
  BY <1>1 DEF Free

\* The Delete functions for arrays and objects.
LEMMA ItemDeletedIs == ASSUME Inductive, Walks, Walks', DeleteItem PROVE Abstract!Next
<1>1. PICK p \in live :
        /\ ~info[p].ref
        /\ \E item \in Children(p) : Unlink(p, item, Tree(item)) /\ Free(Tree(item))
        /\ UNCHANGED <<held, lost>>
  BY DEF DeleteItem
<1>2. PICK item \in Children(p) : Unlink(p, item, Tree(item)) /\ Free(Tree(item))
  BY <1>1
<1>3. PICK D : D = Tree(item)
  OBVIOUS
<1>4. item \in live /\ D \in SUBSET live
  BY <1>1, <1>3, ChildFacts, TreeBelow
<1>5. Unlink(p, item, D) /\ Free(D) /\ live' = live \ D
  BY <1>2, <1>3 DEF Free
<1>6. \A x \in live \ D : info'[x].ref = info[x].ref
  BY <1>4, <1>5, FreedRefs
<1>7. /\ p \notin D
      /\ \E k \in 1..Len(Kids[p]) : Kids[p][k] = item /\ Kids'[p] = RemoveAt(Kids[p], k)
      /\ \A x \in live \ D : x # p => Kids'[x] = Kids[x]
  BY <1>1, <1>3, <1>5, <1>6, TakenOut
<1>8. PICK k \in 1..Len(Kids[p]) : Kids[p][k] = item /\ Kids'[p] = RemoveAt(Kids[p], k)
  BY <1>7
<1>9. D = Below(Kids[p][k])
  BY <1>3, <1>4, <1>8, BelowTree
<1>10. held' = held
  BY <1>1
<1>11. QED
  BY <1>5, <1>7, <1>8, <1>9, <1>10, DeleteItemIs

\* A held item takes the place of a child, which is freed.
LEMMA PutInPlace ==
  ASSUME Inductive, Walks, Walks', NEW p \in live, NEW r \in held, Adds(p, r),
         NEW item \in Children(p), Substitute(p, item, r, Tree(item)), live' = live \ Tree(item),
         \A x \in live \ Tree(item) : info'[x].ref = info[x].ref, held' = held \ {r}
  PROVE  Abstract!Next
<1> DEFINE D == Tree(item)
<1>1. /\ live \subseteq Items /\ NULL \notin Items /\ NULL \notin live
      /\ child \in [Items -> Maybe(Items)] /\ next \in [Items -> Maybe(Items)]
      /\ p \in Items /\ ~info[p].ref
  BY Facts DEF Inductive, Adds
<1>2. /\ p \notin D /\ prev[item] \notin D /\ Children(p) \cap D = {item}
      /\ r \notin D /\ r \in live /\ r \in Roots /\ item \in live
  BY <1>1, ParentOutside, ChildrenApart, RootTaken, Substituted, ChildFacts
<1>3. ASSUME NEW x \in live, ~info[x].ref PROVE r \notin Children(x)
  BY <1>2, <1>3, ChildFacts
<1>4. /\ next' = [x \in Items |-> IF x \in D THEN NULL
                                  ELSE IF x = r THEN next[item]
                                  ELSE IF x = prev[item] THEN r ELSE next[x]]
      /\ child' = [x \in Items |-> IF x \in D THEN NULL
                                   ELSE IF x = p /\ child[x] = item THEN r ELSE child[x]]
  BY DEF Substitute
<1>5. PICK s : s = Sequence[child[p]]
  OBVIOUS
<1>6. /\ IsWalk(next, child[p], s) /\ s \in Seq(live)
      /\ \A j \in 1..Len(s) : s[j] \in Children(p)
      /\ \A x \in Children(p) : \E j \in 1..Len(s) : s[j] = x
      /\ \A j, k \in 1..Len(s) : s[j] = s[k] => j = k
      /\ \A j \in 1..Len(s) : prev[s[j]] = IF j = 1 THEN NULL ELSE s[j - 1]
      /\ \A j \in 1..Len(s) : child[p] = s[j] <=> j = 1
  <2>1. ChildrenInOrder(p, s)
    BY <1>1, <1>5, ChildWalk
  <2>2. QED
    BY <2>1 DEF ChildrenInOrder
<1>7. PICK k \in 1..Len(s) : s[k] = item
  BY <1>6
<1>8. /\ Len(s) \in Nat /\ k \in Nat
      /\ \A j \in 1..Len(s) : next[s[j]] = At(s, j + 1) /\ s[j] \in Items /\ s[j] \in live /\ s[j] # r
  <2>1. r \notin Children(p)
    BY <1>1, <1>3
  <2>2. QED
    BY <2>1, <1>1, <1>6 DEF IsWalk
<1> HIDE DEF D
<1>9. next'[r] = At(s, k + 1)
  BY <1>1, <1>2, <1>4, <1>7, <1>8
<1>10. ASSUME k > 1 PROVE next'[s[k - 1]] = r
  <2>1. k - 1 \in 1..Len(s) /\ prev[item] = s[k - 1]
    BY <1>6, <1>7, <1>8, <1>10
  <2>2. s[k - 1] \in Items /\ s[k - 1] # r
    BY <2>1, <1>8
  <2>3. QED
    BY <2>1, <2>2, <1>2, <1>4
<1>11. ASSUME NEW j \in 1..Len(s), j # k - 1, j # k PROVE next'[s[j]] = next[s[j]]
  <2>1. s[j] # item
    BY <1>6, <1>7, <1>11
  <2>2. s[j] \notin D
    BY <2>1, <1>2, <1>6
  <2>3. s[j] # prev[item]
    <3>1. CASE k = 1
      BY <3>1, <1>1, <1>6, <1>7, <1>8
    <3>2. CASE k # 1
      <4>1. k - 1 \in 1..Len(s) /\ prev[item] = s[k - 1]
        BY <1>6, <1>7, <1>8, <3>2
      <4>2. s[j] # s[k - 1]
        BY <4>1, <1>6, <1>11
      <4>3. QED
        BY <4>1, <4>2
    <3>3. QED
      BY <3>1, <3>2
  <2>4. QED
    BY <2>2, <2>3, <1>4, <1>8
<1>12. child'[p] = IF k = 1 THEN r ELSE child[p]
  <2>1. child[p] = item <=> k = 1
    BY <1>6, <1>7
  <2>2. QED
    BY <2>1, <1>1, <1>2, <1>4
<1>13. ASSUME NEW ny, ny = next' PROVE IsWalk(ny, IF k = 1 THEN r ELSE child[p], ReplaceAt(s, k, r))
  <2>1. ny[r] = At(s, k + 1) /\ (k > 1 => ny[s[k - 1]] = r)
    BY <1>9, <1>10, <1>13
  <2>2. \A j \in 1..Len(s) : j # k - 1 /\ j # k => ny[s[j]] = next[s[j]]
    BY <1>11, <1>13
  <2>3. r \in Items
    BY <1>1, <1>2
  <2>4. QED
    BY <2>1, <2>2, <2>3, <1>6, WalkReplace
<1>14. IsWalk(next', child'[p], ReplaceAt(s, k, r))
  BY <1>12, <1>13
<1>15. child'[p] \in Maybe(Items)
  BY <1>1, <1>2, <1>12 DEF Maybe
<1>16. Sequence'[child'[p]] = ReplaceAt(s, k, r)
  BY <1>14, <1>15, WalkNext
<1>17. Kids[p] = s
  BY <1>1, <1>5, KidsFunction
<1>18. Kids'[p] = ReplaceAt(s, k, r)
  <2>1. p \in live' /\ ~info'[p].ref
    BY <1>1, <1>2 DEF D
  <2>2. Kids'[p] = Sequence'[child'[p]]
    BY <2>1, KidsNext
  <2>3. QED
    BY <2>2, <1>16
<1>19. ASSUME NEW x \in live \ D, x # p PROVE Kids'[x] = Kids[x]
  <2>1. x \in live' /\ info'[x].ref = info[x].ref
    BY <1>19 DEF D
  <2>2. child'[x] = child[x]
    BY <1>1, <1>4, <1>19
  <2>3. ASSUME ~info[x].ref, NEW y \in Children(x) PROVE next'[y] = next[y]
    <3>1. y \in live /\ y # r
      BY <2>3, <1>3, ChildFacts
    <3>2. prev[item] \notin Children(x) /\ Children(x) \cap D = {}
      BY <1>1, <2>3, <1>19, OthersApart DEF D
    <3>3. QED
      BY <3>1, <3>2, <1>1, <1>4
  <2>4. QED
    BY <2>1, <2>2, <2>3, SameKids
<1>20. k \in 1..Len(Kids[p]) /\ Kids[p][k] = item /\ Kids'[p] = ReplaceAt(Kids[p], k, r)
  BY <1>7, <1>17, <1>18
<1>21. D = Below(Kids[p][k])
  BY <1>2, <1>20, BelowTree DEF D
<1>22. live' = live \ D
  BY DEF D
<1>23. QED
  BY <1>2, <1>19, <1>20, <1>21, <1>22, ReplaceIs

\* The Replace functions for arrays.
LEMMA ReplacedIs == ASSUME Inductive, Walks, Walks', Replace PROVE Abstract!Next
<1>1. PICK p \in live, r \in held :
        /\ Adds(p, r)
        /\ \E item \in Children(p) : Substitute(p, item, r, Tree(item)) /\ Free(Tree(item))
        /\ held' = held \ {r}
        /\ UNCHANGED lost
  BY DEF Replace
<1>2. PICK item \in Children(p) : Substitute(p, item, r, Tree(item)) /\ Free(Tree(item))
  BY <1>1
<1>3. Tree(item) \in SUBSET live
  BY <1>1, <1>2, Substituted
<1>4. live' = live \ Tree(item)
  BY <1>2 DEF Free
<1>5. \A x \in live \ Tree(item) : info'[x].ref = info[x].ref
  BY <1>2, <1>3, FreedRefs
<1>6. QED
  BY <1>1, <1>2, <1>4, <1>5, PutInPlace

\* The Replace functions for objects.
LEMMA ReplacedInObjectIs == ASSUME Inductive, Walks, Walks', ReplaceInObject PROVE Abstract!Next
<1>1. PICK p \in live, r \in held, name \in Names, case \in BOOLEAN :
        \E key \in {name, NULL} : ReplaceNamed(p, name, case, key, r)
  BY DEF ReplaceInObject
<1>2. PICK key \in {name, NULL} : ReplaceNamed(p, name, case, key, r)
  BY <1>1
<1>3. PICK item \in GetObjectItem(p, name, case) :
        /\ Substitute(p, item, r, Tree(item))
        /\ live' = live \ Tree(item)
        /\ info' = Renamed(r, key, [i \in Items |-> IF i \in Tree(item) THEN Blank ELSE info[i]])
  BY <1>2 DEF ReplaceNamed
<1>4. Adds(p, r) /\ held' = held \ {r}
  BY <1>2 DEF ReplaceNamed
<1>5. item \in Children(p)
  BY DEF GetObjectItem
<1>6. r \notin Tree(item) /\ Tree(item) \subseteq live
  BY <1>3, <1>4, <1>5, Substituted
<1>7. r \in live /\ live \subseteq Items /\ info \in [Items -> Info]
  BY Facts, RootTaken DEF Inductive
<1> DEFINE T == Tree(item)
           freed == [i \in Items |-> IF i \in T THEN Blank ELSE info[i]]
<1>8. info' = [freed EXCEPT ![r].name = key, ![r].const = FALSE]
  BY <1>3 DEF Renamed
<1>9. ASSUME NEW x \in live \ T PROVE info'[x].ref = info[x].ref
  <2>1. freed[x] = info[x] /\ info[x] \in Info /\ x \in Items /\ DOMAIN freed = Items
    BY <1>7
  <2> HIDE DEF freed
  <2>2. QED
    BY <2>1, <1>8 DEF Info
<1>10. QED
  BY <1>3, <1>4, <1>5, <1>9, PutInPlace

\* cJSON_Delete.
LEMMA DeletedIs == ASSUME Inductive, Walks, Walks', Delete PROVE Abstract!Next
<1>1. PICK r \in held :
        LET freed == Freed(r)
            Kept(f) == [i \in Items |-> IF i \in freed THEN NULL ELSE f[i]]
        IN /\ Free(freed)
           /\ next' = Kept(next) /\ prev' = Kept(prev) /\ child' = Kept(child)
           /\ held' = held \ {r}
           /\ UNCHANGED lost
  BY DEF Delete
<1>2. PICK D : D = Freed(r)
  OBVIOUS
<1>3. /\ live' = live \ D /\ Free(D)
      /\ next' = [x \in Items |-> IF x \in D THEN NULL ELSE next[x]]
      /\ child' = [x \in Items |-> IF x \in D THEN NULL ELSE child[x]]
      /\ held' = held \ {r}
  BY <1>1, <1>2 DEF Free
<1>4. /\ r \in live /\ r \in Roots /\ NULL \notin live /\ NULL \notin Items /\ live \subseteq Items
      /\ Forest(live, next, prev, Own, Roots) /\ Pointers(live, next, prev, Own)
      /\ AreRoots(Roots, live, next, prev, Own)
      /\ child \in [Items -> Maybe(Items)]
  BY Facts, RootTaken DEF Inductive
<1>5. D \in SUBSET live /\ Subtree(D, r, next, Own)
  <2>1. /\ D \subseteq live /\ r \in D
        /\ \A x \in D : next[x] \in Maybe(D) /\ Own[x] \in Maybe(D)
        /\ \A y \in D \ {r} : \E x \in D : next[x] = y \/ Own[x] = y
    BY <1>2, <1>4, FreedSet
  <2>2. next[r] = NULL
    BY <1>4 DEF AreRoots
  <2>3. \A y \in D \ {r} : (\E x \in D \ {r} : next[x] = y) \/ (\E p \in D : Own[p] = y)
    BY <2>1, <2>2, <1>4
  <2>4. QED
    BY <2>1, <2>3 DEF Subtree
<1>6. D = Below(r)
  <2>1. D \in SUBSET Items /\ D \subseteq live /\ r \in Items
    BY <1>4, <1>5
  <2>2. \A T \in SUBSET Items : T \subseteq live /\ Subtree(T, r, next, Own) => Below(r) = T
    BY <2>1, <1>4, BelowIs DEF BelowPointers
  <2>3. QED
    BY <2>1, <2>2, <1>5
<1>7. \A x \in live \ D : info'[x].ref = info[x].ref
  BY <1>3, <1>5, FreedRefs
<1>8. ASSUME NEW x \in live \ D PROVE Kids'[x] = Kids[x]
  <2>1. x \in live' /\ info'[x].ref = info[x].ref
    BY <1>3, <1>7
  <2>2. child'[x] = child[x]
    BY <1>3, <1>4
  <2>3. ASSUME ~info[x].ref, NEW y \in Children(x) PROVE next'[y] = next[y]
    <3>1. y \in live
      BY <2>3, ChildFacts
    <3>2. y \notin D
      BY <2>3, <1>4, <1>5, ChildOutside
    <3>3. QED
      BY <3>1, <3>2, <1>3, <1>4
  <2>4. QED
    BY <2>1, <2>2, <2>3, SameKids
<1>9. QED
  BY <1>3, <1>6, <1>8, DeleteIs

\* New items come as one tree when one of them becomes a root and the pointers
\* of the others do not change.
LEMMA NewTree ==
  ASSUME Inductive, Inductive', live \subseteq live', NEW root \in live' \ live,
         Roots' = Roots \cup {root},
         \A x \in live : next'[x] = next[x] /\ Own'[x] = Own[x],
         NEW M, M = live' \ live
  PROVE  Subtree(M, root, next', Own')
<1>1. /\ NULL \notin live /\ Roots \subseteq live
      /\ Pointers(live, next, prev, Own) /\ Rooted(live, prev, Own, Roots)
      /\ \A x \in live : next[x] \in Maybe(live) /\ prev[x] \in Maybe(live) /\ Own[x] \in Maybe(live)
  BY Facts
<1>2. /\ Pointers(live', next', prev', Own') /\ AreRoots(Roots', live', next', prev', Own')
      /\ Rooted(live', prev', Own', Roots')
      /\ \A x \in live' : next'[x] \in Maybe(live') /\ prev'[x] \in Maybe(live') /\ Own'[x] \in Maybe(live')
      /\ NULL \notin live'
  <2>1. Inductive'
    OBVIOUS
  <2>2. Forest(live', next', prev', Own', Roots')
    BY <2>1 DEF Inductive
  <2>3. NULL \notin Items
    BY Facts
  <2>4. QED
    BY <2>2, <2>3 DEF Forest, Pointers
<1>3. root \in M /\ M \subseteq live'
  OBVIOUS
<1>4. \A w, y \in live' : next'[w] = y <=> prev'[y] = w
  BY <1>2 DEF Pointers
<1>5. /\ \A p \in live' : Own'[p] # NULL => prev'[Own'[p]] = NULL
      /\ \A p, q \in live' : Own'[p] = Own'[q] /\ Own'[p] # NULL => p = q
  BY <1>2 DEF Pointers
<1>6. /\ \A x \in live' : \A y \in Roots' : next'[x] # y /\ Own'[x] # y
      /\ next'[root] = NULL
  <2>1. root \in Roots'
    OBVIOUS
  <2>2. /\ \A y \in Roots' : next'[y] = NULL /\ prev'[y] = NULL /\ \A x \in live' : Own'[x] # y
        /\ Roots' \subseteq live'
    BY <1>1, <1>2 DEF AreRoots
  <2>3. QED
    BY <2>1, <2>2, <1>2, <1>4
<1>7. ASSUME NEW x \in M, NEW y \in live, next'[x] = y \/ Own'[x] = y PROVE FALSE
  <2>1. y \notin Roots /\ y # NULL /\ y \in live' /\ x \in live' /\ x \notin live
    BY <1>1, <1>3, <1>6, <1>7
  <2>2. CASE prev[y] # NULL
    <3>1. PICK w \in live : w = prev[y]
      BY <2>2, <1>1 DEF Maybe
    <3>2. next[w] = y
      BY <3>1, <1>1 DEF Pointers
    <3>3. next'[w] = y /\ w \in live'
      BY <3>2
    <3>4. prev'[y] = w /\ w # NULL
      BY <3>3, <2>1, <1>1, <1>4
    <3>5. CASE next'[x] = y
      BY <3>1, <3>4, <3>5, <2>1, <1>4
    <3>6. CASE Own'[x] = y
      BY <3>4, <3>6, <2>1, <1>5
    <3>7. QED
      BY <3>5, <3>6, <1>7
  <2>3. CASE \E p \in live : Own[p] = y
    <3>1. PICK p \in live : Own[p] = y
      BY <2>3
    <3>2. Own'[p] = y /\ p \in live'
      BY <3>1
    <3>3. prev'[y] = NULL
      BY <3>2, <2>1, <1>5
    <3>4. CASE next'[x] = y
      BY <3>3, <3>4, <2>1, <1>2, <1>4
    <3>5. CASE Own'[x] = y
      BY <3>1, <3>2, <3>5, <2>1, <1>5
    <3>6. QED
      BY <3>4, <3>5, <1>7
  <2>4. QED
    BY <2>1, <2>2, <2>3, <1>1 DEF Rooted
<1>8. \A x \in M : next'[x] \in Maybe(M) /\ Own'[x] \in Maybe(M)
  BY <1>2, <1>7 DEF Maybe
<1>9. ASSUME NEW y \in M \ {root}
      PROVE  (\E x \in M \ {root} : next'[x] = y) \/ (\E p \in M : Own'[p] = y)
  <2>1. y \in live' /\ y \notin live /\ y # NULL
    BY <1>2
  <2>2. y \notin Roots'
    BY <2>1, <1>1
  <2>3. CASE prev'[y] # NULL
    <3>1. PICK w \in live' : w = prev'[y]
      BY <2>1, <2>3, <1>2 DEF Maybe
    <3>2. next'[w] = y
      BY <3>1, <2>1, <1>4
    <3>3. w \notin live
      BY <3>2, <2>1, <1>1 DEF Maybe
    <3>4. w # root
      BY <3>2, <2>1, <1>6
    <3>5. QED
      BY <3>2, <3>3, <3>4
  <2>4. CASE \E p \in live' : Own'[p] = y
    <3>1. PICK p \in live' : Own'[p] = y
      BY <2>4
    <3>2. p \notin live
      BY <3>1, <2>1, <1>1 DEF Maybe
    <3>3. QED
      BY <3>1, <3>2
  <2>5. QED
    BY <2>1, <2>2, <2>3, <2>4, <1>2 DEF Rooted
<1>10. QED
  BY <1>3, <1>8, <1>9 DEF Subtree

\* The same of the pointers after a step.
LEMMA BelowNext ==
  ASSUME Inductive', Walks', NEW r \in Items, NEW T \in SUBSET Items, r \in live', T \subseteq live',
         Subtree(T, r, next', Own')
  PROVE  Below(r)' = T
<1>1. Inductive' /\ Walks' => BelowPointers'
  BY BelowIs, PTL
<1>2. QED
  BY <1>1 DEF BelowPointers

\* Calls that make items and link them to no other.
LEMMA MadeIs ==
  ASSUME Inductive, Inductive', Walks, Walks', NEW M, M \subseteq Items \ live, live' = live \cup M,
         NEW root \in M, held' = held \cup {root}, lost' = lost,
         \A x \in live : next'[x] = next[x] /\ child'[x] = child[x] /\ info'[x].ref = info[x].ref
  PROVE  Abstract!Next
<1>1. live \subseteq Items
  BY Facts
<1>2. live \subseteq live' /\ root \in live' \ live /\ M = live' \ live /\ live' \subseteq Items
  BY <1>1
<1>3. Roots' = Roots \cup {root}
  BY DEF Roots
<1>4. \A x \in live : Own'[x] = Own[x]
  BY <1>1 DEF Own
<1>5. Subtree(M, root, next', Own')
  BY <1>2, <1>3, <1>4, NewTree
<1>6. Below(root)' = M
  <2>1. root \in Items /\ M \in SUBSET Items /\ root \in live' /\ M \subseteq live'
    BY <1>2
  <2>2. QED
    BY <2>1, <1>5, BelowNext
<1>7. ASSUME NEW x \in live PROVE Kids'[x] = Kids[x]
  <2>1. x \in live' /\ info'[x].ref = info[x].ref
    BY <1>2
  <2>2. ASSUME ~info[x].ref, NEW y \in Children(x) PROVE next'[y] = next[y]
    BY <2>2, ChildFacts
  <2>3. QED
    BY <2>1, <2>2, SameKids
<1>8. Below(root)' = live' \ live
  BY <1>2, <1>6
<1>9. QED
  BY <1>2, <1>7, <1>8, NewIs

\* The Create functions.
LEMMA CreateIs == ASSUME Inductive, Inductive', Walks, Walks', Create PROVE Abstract!Next
<1>1. PICK i \in Items \ live, text \in Texts, ref \in BOOLEAN :
        \E first \in IF ref /\ ~text THEN Maybe(live) ELSE {NULL} :
          /\ live' = live \cup {i}
          /\ child' = [child EXCEPT ![i] = first]
          /\ info' = [info EXCEPT ![i] = [Blank EXCEPT !.ref = ref, !.text = text]]
          /\ held' = held \cup {i}
          /\ UNCHANGED <<next, prev, lost>>
  BY DEF Create
<1>2. PICK first :
          /\ live' = live \cup {i}
          /\ child' = [child EXCEPT ![i] = first]
          /\ info' = [info EXCEPT ![i] = [Blank EXCEPT !.ref = ref, !.text = text]]
          /\ held' = held \cup {i}
          /\ UNCHANGED <<next, prev, lost>>
  BY <1>1
<1>3. live \subseteq Items /\ info \in [Items -> Info] /\ child \in [Items -> Maybe(Items)]
  BY Facts DEF Inductive
<1>4. PICK M : M = {i}
  OBVIOUS
<1>5. M \subseteq Items \ live /\ live' = live \cup M /\ i \in M
  BY <1>2, <1>4
<1>6. \A x \in live : next'[x] = next[x] /\ child'[x] = child[x] /\ info'[x].ref = info[x].ref
  BY <1>2, <1>3
<1>7. QED
  BY <1>2, <1>5, <1>6, MadeIs

\* The CreateArray functions.
LEMMA CreateArrayIs == ASSUME Inductive, Inductive', Walks, Walks', CreateArray PROVE Abstract!Next
<1>1. PICK n \in 1..MaxArray, text \in Texts :
        \E a \in Injection(0..n, Items \ live) :
          /\ live' = live \cup Range(a)
          /\ child' = [child EXCEPT ![a[0]] = a[1]]
          /\ next' = [i \in Items |-> IF \E k \in 1..n-1 : a[k] = i
                                      THEN a[1 + CHOOSE k \in 1..n-1 : a[k] = i] ELSE next[i]]
          /\ prev' = [i \in Items |-> IF \E k \in 2..n : a[k] = i
                                      THEN a[(CHOOSE k \in 2..n : a[k] = i) - 1] ELSE prev[i]]
          /\ info' = [i \in Items |-> IF \E k \in 1..n : a[k] = i
                                      THEN [Blank EXCEPT !.text = text] ELSE info[i]]
          /\ blocks' = blocks + IF text THEN n ELSE 0
          /\ held' = held \cup {a[0]}
          /\ UNCHANGED lost
  BY DEF CreateArray
<1>2. PICK a \in Injection(0..n, Items \ live) :
          /\ live' = live \cup Range(a)
          /\ child' = [child EXCEPT ![a[0]] = a[1]]
          /\ next' = [i \in Items |-> IF \E k \in 1..n-1 : a[k] = i
                                      THEN a[1 + CHOOSE k \in 1..n-1 : a[k] = i] ELSE next[i]]
          /\ info' = [i \in Items |-> IF \E k \in 1..n : a[k] = i
                                      THEN [Blank EXCEPT !.text = text] ELSE info[i]]
          /\ held' = held \cup {a[0]}
          /\ UNCHANGED lost
  BY <1>1
<1>3. /\ 0 \in 0..n /\ \A k \in 1..n : k \in 0..n
      /\ \A k \in 1..n-1 : k \in 0..n
  BY BoundsAssumption
<1>4. a \in [0..n -> Items \ live]
  BY DEF Injection
<1>5. Range(a) \subseteq Items \ live /\ a[0] \in Range(a) /\ \A k \in 0..n : a[k] \notin live
  BY <1>3, <1>4 DEF Range
<1>6. live \subseteq Items /\ child \in [Items -> Maybe(Items)]
  BY Facts DEF Inductive
<1>7. ASSUME NEW x \in live
      PROVE  next'[x] = next[x] /\ child'[x] = child[x] /\ info'[x].ref = info[x].ref
  <2>1. ~(\E k \in 1..n-1 : a[k] = x) /\ ~(\E k \in 1..n : a[k] = x) /\ x # a[0]
    BY <1>3, <1>5
  <2>2. x \in Items
    BY <1>6
  <2>3. next'[x] = next[x]
    BY <2>1, <2>2, <1>2
  <2>4. info'[x] = info[x]
    BY <2>1, <2>2, <1>2
  <2>5. child'[x] = child[x]
    BY <2>1, <2>2, <1>2, <1>6
  <2>6. QED
    BY <2>3, <2>4, <2>5
<1>8. PICK M : M = Range(a)
  OBVIOUS
<1>9. PICK root : root = a[0]
  OBVIOUS
<1>10. M \subseteq Items \ live /\ live' = live \cup M /\ root \in M
       /\ held' = held \cup {root} /\ lost' = lost
  BY <1>2, <1>5, <1>8, <1>9
<1>11. QED
  BY <1>7, <1>10, MadeIs

\* cJSON_Duplicate.
LEMMA DuplicateIs == ASSUME Inductive, Inductive', Walks, Walks', Duplicate PROVE Abstract!Next
<1>1. PICK item \in live, recurse \in BOOLEAN :
        LET S == Visited(item, recurse)
        IN /\ recurse => Whole(S, item)
           /\ \E copy \in Injection(S, Items \ live) :
                LET Of(i) == CHOOSE s \in S : copy[s] = i
                    Copy(p) == IF p \in S THEN copy[p] ELSE NULL
                    Before(i) == {s \in S \ {item} : next[s] = Of(i)}
                IN /\ live' = live \cup Range(copy)
                   /\ next' = [i \in Items |-> IF i \notin Range(copy) THEN next[i]
                                               ELSE IF Of(i) = item THEN NULL ELSE Copy(next[Of(i)])]
                   /\ prev' = [i \in Items |-> IF i \notin Range(copy) THEN prev[i]
                                               ELSE IF Before(i) = {} THEN NULL
                                               ELSE copy[CHOOSE s \in Before(i) : TRUE]]
                   /\ child' = [i \in Items |-> IF i \notin Range(copy) THEN child[i]
                                                ELSE IF ~recurse THEN NULL ELSE Copy(child[Of(i)])]
                   /\ info' = [i \in Items |-> IF i \in Range(copy)
                                               THEN [info[Of(i)] EXCEPT !.ref = FALSE] ELSE info[i]]
                   /\ blocks' = blocks + Cardinality({s \in S : info[s].text})
                                       + Cardinality({s \in S : OldKey(s) = 1})
                   /\ held' = held \cup {copy[item]}
                   /\ UNCHANGED lost
  BY DEF Duplicate
<1> DEFINE S == Visited(item, recurse)
<1>2. PICK copy \in Injection(S, Items \ live) :
        LET Of(i) == CHOOSE s \in S : copy[s] = i
            Copy(p) == IF p \in S THEN copy[p] ELSE NULL
        IN /\ live' = live \cup Range(copy)
           /\ next' = [i \in Items |-> IF i \notin Range(copy) THEN next[i]
                                       ELSE IF Of(i) = item THEN NULL ELSE Copy(next[Of(i)])]
           /\ child' = [i \in Items |-> IF i \notin Range(copy) THEN child[i]
                                        ELSE IF ~recurse THEN NULL ELSE Copy(child[Of(i)])]
           /\ info' = [i \in Items |-> IF i \in Range(copy)
                                       THEN [info[Of(i)] EXCEPT !.ref = FALSE] ELSE info[i]]
           /\ held' = held \cup {copy[item]}
           /\ UNCHANGED lost
  BY <1>1
<1>3. item \in S
  BY DEF Visited
<1> HIDE DEF S
<1>4. copy \in [S -> Items \ live] /\ live \subseteq Items
  BY Facts DEF Injection
<1> DEFINE M == Range(copy)
<1>5. M \subseteq Items \ live /\ copy[item] \in M
  BY <1>3, <1>4 DEF Range
<1>6. ASSUME NEW x \in live
      PROVE  next'[x] = next[x] /\ child'[x] = child[x] /\ info'[x].ref = info[x].ref
  <2>1. x \in Items /\ x \notin Range(copy)
    BY <1>4, <1>5
  <2>2. QED
    BY <2>1, <1>2
<1>7. live' = live \cup M /\ held' = held \cup {copy[item]} /\ lost' = lost
  BY <1>2
<1> HIDE DEF M
<1>8. PICK root : root = copy[item]
  OBVIOUS
<1>9. root \in M /\ held' = held \cup {root}
  BY <1>5, <1>7, <1>8
<1>10. QED
  BY <1>5, <1>6, <1>7, <1>9, MadeIs

\* Every step.
LEMMA StepIs ==
  ASSUME Inductive, Inductive', Walks, Walks', [Next]_vars
  PROVE  [Abstract!Next]_<<Kids, held>>
<1>1. CASE Next
  <2>1. Abstract!Next
    BY <1>1, CreateIs, CreateArrayIs, AddItemToArrayIs, AddItemToObjectIs, AddNewToObjectIs,
       AddLostIs, AddReferenceIs, AddReferenceLostIs, DetachedIs, ItemDeletedIs, InsertIs,
       ReplacedIs, ReplacedInObjectIs, ReplaceInObjectMissedIs, DeletedIs, DuplicateIs DEF Next
  <2>2. QED
    BY <2>1
<1>2. CASE UNCHANGED vars
  <2>1. UNCHANGED <<live, next, child, info, held>>
    BY <1>2 DEF vars
  <2>2. \A x \in live : Kids'[x] = Kids[x]
    BY <2>1, SamePointersKids
  <2>3. Kids' = [x \in live |-> Kids'[x]] /\ Kids = [x \in live |-> Kids[x]]
    BY <2>1, KidsFunction, KidsNext
  <2>4. Kids' = Kids
    BY <2>2, <2>3
  <2>5. QED
    BY <2>1, <2>4
<1>3. QED
  BY <1>1, <1>2

\* In the beginning there is no item in either.
LEMMA InitIs == ASSUME Init PROVE Abstract!Init
<1>1. live = {} /\ held = {}
  BY DEF Init
<1>2. Kids = <<>>
  <2>1. \A f : f = [i \in {} |-> f[i]] => f = <<>>
    OBVIOUS
  <2>2. Kids = [i \in {} |-> Kids[i]]
    BY <1>1, KidsFunction
  <2>3. QED
    BY <2>1, <2>2
<1>3. QED
  BY <1>1, <1>2 DEF Abstract!Init, Kids

\* Each call does to the forest what cJSON.h says.
THEOREM TreeImplemented == Spec => ImplementsTree
<1>1. Init => Abstract!Init
  BY InitIs
<1>2. Inductive /\ Inductive' /\ Walks /\ Walks' /\ [Next]_vars => [Abstract!Next]_<<Kids, held>>
  BY StepIs
<1>3. [Abstract!Next]_<<Kids, held>> = [Abstract!Next]_<<[i \in live |-> IF info[i].ref THEN <<>> ELSE Sequence[child[i]]], held>>
  BY DEF Kids
<1>4. QED
  BY <1>1, <1>2, Forested, ListsEnd, PTL DEF Spec, ImplementsTree, Abstract!Spec, Kids
===============================================================================
