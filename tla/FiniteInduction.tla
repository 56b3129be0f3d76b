-------------------------- MODULE FiniteInduction --------------------------
(***************************************************************************)
(* Facts about finite sets that need an induction: a set of numbers has a  *)
(* least member, a finite one a greatest, and an enumeration in ascending  *)
(* order; a sum over a set may be taken in any order.  All follow from the *)
(* library's theorem that finite sets are well-founded under strict        *)
(* inclusion, by a set that is minimal among the counterexamples.          *)
(***************************************************************************)
EXTENDS Integers, FiniteSetTheorems, WellFoundedInduction, TLAPS

(* Among finite sets there is one that includes no other. *)
LEMMA MinimalSet ==
  ASSUME NEW U, NEW F, F \subseteq FiniteSubsetsOf(U), F # {}
  PROVE  \E X \in F : \A Y \in F : Y \subseteq X => Y = X
<1>1. PICK X \in F : \A Y \in F : ~ (<<Y, X>> \in StrictSubsetOrdering(U))
  BY WFMin, FS_StrictSubsetOrderingWellFounded
<1>2. ASSUME NEW Y \in F, Y \subseteq X, Y # X PROVE FALSE
  <2>1. Y \in SUBSET U /\ X \in SUBSET U
    BY DEF FiniteSubsetsOf
  <2>2. <<Y, X>> \in StrictSubsetOrdering(U)
    BY <1>2, <2>1 DEF StrictSubsetOrdering
  <2> QED
    BY <1>1, <2>2
<1> QED
  BY <1>2

(* A set of natural numbers has a least member. *)
LEMMA LeastNumber ==
  ASSUME NEW T \in SUBSET Nat, T # {}
  PROVE  \E x \in T : \A y \in T : x <= y
<1> DEFINE UpTo(x) == {y \in T : y <= x}
           All == {UpTo(x) : x \in T}
<1>1. ASSUME NEW x \in T PROVE UpTo(x) \in FiniteSubsetsOf(Nat)
  <2>1. x \in Nat
    OBVIOUS
  <2>2. IsFiniteSet(0 .. x)
    BY <2>1, FS_Interval
  <2>3. \A y \in UpTo(x) : y \in 0 .. x
    BY <2>1
  <2>4. UpTo(x) \subseteq 0 .. x /\ UpTo(x) \subseteq Nat
    BY <2>3
  <2> QED
    BY <2>2, <2>4, FS_Subset DEF FiniteSubsetsOf
<1>2. All \subseteq FiniteSubsetsOf(Nat) /\ All # {}
  BY <1>1
<1>3. PICK X \in All : \A Y \in All : Y \subseteq X => Y = X
  <2> HIDE DEF All
  <2> QED
    BY <1>2, MinimalSet
<1>4. PICK x \in T : X = UpTo(x)
  BY <1>3
<1>5. ASSUME NEW y \in T, y < x PROVE FALSE
  <2>1. x \in Nat /\ y \in Nat
    OBVIOUS
  <2>2. ASSUME NEW z \in UpTo(y) PROVE z \in UpTo(x)
    BY <1>5, <2>1, z \in Nat
  <2>3. x \in UpTo(x) /\ x \notin UpTo(y) /\ UpTo(y) \in All
    BY <1>5, <2>1
  <2> QED
    BY <1>3, <1>4, <2>2, <2>3
<1>6. \A y \in T : x <= y
  BY <1>5
<1> QED
  BY <1>6

(* A finite set of natural numbers has a greatest member. *)
LEMMA GreatestNumber ==
  ASSUME NEW T \in SUBSET Nat, T # {}, IsFiniteSet(T)
  PROVE  \E x \in T : \A y \in T : y <= x
<1> DEFINE From(x) == {y \in T : x <= y}
           All == {From(x) : x \in T}
<1>1. ASSUME NEW x \in T PROVE From(x) \in FiniteSubsetsOf(Nat)
  <2>1. From(x) \subseteq T /\ From(x) \subseteq Nat
    OBVIOUS
  <2> QED
    BY <2>1, FS_Subset DEF FiniteSubsetsOf
<1>2. All \subseteq FiniteSubsetsOf(Nat) /\ All # {}
  BY <1>1
<1>3. PICK X \in All : \A Y \in All : Y \subseteq X => Y = X
  <2> HIDE DEF All
  <2> QED
    BY <1>2, MinimalSet
<1>4. PICK x \in T : X = From(x)
  BY <1>3
<1>5. ASSUME NEW y \in T, x < y PROVE FALSE
  <2>1. x \in Nat /\ y \in Nat
    OBVIOUS
  <2>2. ASSUME NEW z \in From(y) PROVE z \in From(x)
    BY <1>5, <2>1, z \in Nat
  <2>3. x \in From(x) /\ x \notin From(y) /\ From(y) \in All
    BY <1>5, <2>1
  <2> QED
    BY <1>3, <1>4, <2>2, <2>3
<1>6. \A y \in T : y <= x
  BY <1>5
<1> QED
  BY <1>6

(* A finite set of natural numbers can be enumerated in ascending order. *)
LEMMA AscendingEnumeration ==
  ASSUME NEW V \in SUBSET Nat, IsFiniteSet(V)
  PROVE  \E s \in [1 .. Cardinality(V) -> V] : \A i, j \in DOMAIN s : i < j => s[i] < s[j]
<1> DEFINE Sorted(X) == \E s \in [1 .. Cardinality(X) -> X] :
                          \A i, j \in DOMAIN s : i < j => s[i] < s[j]
           Bad == {X \in SUBSET V : ~Sorted(X)}
<1>1. Bad \subseteq FiniteSubsetsOf(V)
  BY FS_Subset DEF FiniteSubsetsOf
<1>2. SUFFICES ASSUME Bad # {} PROVE FALSE
  OBVIOUS
<1>3. PICK X \in Bad : \A Y \in Bad : Y \subseteq X => Y = X
  <2> HIDE DEF Bad
  <2> QED
    BY <1>1, <1>2, MinimalSet
<1>4. X \in SUBSET V /\ X \in SUBSET Nat /\ IsFiniteSet(X) /\ ~Sorted(X)
  BY FS_Subset
<1>5. CASE X = {}
  <2>1. Cardinality(X) = 0
    BY <1>5, FS_EmptySet
  <2>2. [i \in 1 .. 0 |-> i] \in [1 .. 0 -> X]
    OBVIOUS
  <2>3. Sorted(X)
    BY <2>1, <2>2
  <2> QED
    BY <1>4, <2>3
<1>6. CASE X # {}
  <2>1. PICK m \in X : \A y \in X : y <= m
    BY <1>4, <1>6, GreatestNumber
  <2> DEFINE Y == X \ {m}
  <2>2. Sorted(Y)
    <3>1. Y \in SUBSET V /\ Y \subseteq X /\ Y # X
      BY <1>4
    <3> QED
      BY <1>3, <3>1
  <2>3. PICK n \in Nat : n = Cardinality(Y)
    BY <1>4, FS_RemoveElement, FS_CardinalityType
  <2>4. Cardinality(X) = n + 1
    <3>1. Cardinality(Y) = Cardinality(X) - 1 /\ Cardinality(X) \in Nat
      BY <1>4, FS_RemoveElement, FS_CardinalityType
    <3> QED
      BY <2>3, <3>1
  <2>5. PICK s \in [1 .. n -> Y] : \A i, j \in DOMAIN s : i < j => s[i] < s[j]
    BY <2>2, <2>3
  <2> DEFINE t == [i \in 1 .. n + 1 |-> IF i <= n THEN s[i] ELSE m]
  <2>6. \A i \in 1 .. n : t[i] = s[i] /\ s[i] \in Y
    <3> TAKE i \in 1 .. n
    <3>1. n \in Nat /\ i \in 1 .. n + 1 /\ i <= n
      BY <2>3
    <3>2. s[i] \in Y
      BY <2>5
    <3> QED
      BY <3>1, <3>2
  <2>7. t[n + 1] = m
    BY <2>3
  <2>8. t \in [1 .. n + 1 -> X]
    <3>1. ASSUME NEW i \in 1 .. n + 1 PROVE t[i] \in X
      <4>1. i \in 1 .. n \/ i = n + 1
        BY <2>3
      <4> HIDE DEF t
      <4> QED
        BY <4>1, <2>6, <2>7
    <3> QED
      BY <3>1
  <2>9. ASSUME NEW i \in 1 .. n + 1, NEW j \in 1 .. n + 1, i < j PROVE t[i] < t[j]
    <3>1. i \in 1 .. n
      BY <2>3, <2>9
    <3>2. CASE j = n + 1
      <4>1. s[i] \in X /\ s[i] # m /\ s[i] <= m
        BY <2>1, <2>6, <3>1
      <4>2. s[i] \in Nat /\ m \in Nat
        BY <1>4, <4>1
      <4> QED
        BY <2>6, <2>7, <3>1, <3>2, <4>1, <4>2
    <3>3. CASE j # n + 1
      <4>1. j \in 1 .. n
        BY <2>3, <3>3
      <4> QED
        BY <2>5, <2>6, <2>9, <3>1, <4>1
    <3> QED
      BY <3>2, <3>3
  <2> HIDE DEF t
  <2>10. Sorted(X)
    BY <2>4, <2>8, <2>9
  <2> QED
    BY <1>4, <2>10
<1> QED
  BY <1>5, <1>6

-----------------------------------------------------------------------------
(* Sums.  The sum of f over a set, term by term, as a fold takes it; each part of the
   set has its own. *)
Chosen(s) == CHOOSE x \in s : TRUE

SumsTo(f, set, it) ==
  it = [s \in SUBSET set |-> IF s = {} THEN 0 ELSE f[Chosen(s)] + it[s \ {Chosen(s)}]]

SumOver(f, set) == (CHOOSE it : SumsTo(f, set, it))[set]

(* What a fold holds for one set does not depend on the set it goes through. *)
LEMMA SumsAgree ==
  ASSUME NEW f, NEW A, NEW B, NEW p, NEW q, SumsTo(f, A, p), SumsTo(f, B, q),
         NEW t \in SUBSET A, t \in SUBSET B, IsFiniteSet(t)
  PROVE  p[t] = q[t]
<1> DEFINE Bad == {s \in SUBSET t : p[s] # q[s]}
<1>1. Bad \subseteq FiniteSubsetsOf(t)
  BY FS_Subset DEF FiniteSubsetsOf
<1>2. SUFFICES ASSUME Bad # {} PROVE FALSE
  OBVIOUS
<1>3. PICK X \in Bad : \A Y \in Bad : Y \subseteq X => Y = X
  <2> HIDE DEF Bad
  <2> QED
    BY <1>1, <1>2, MinimalSet
<1>4. X \in SUBSET A /\ X \in SUBSET B /\ X \in SUBSET t
  OBVIOUS
<1>5. p[X] = (IF X = {} THEN 0 ELSE f[Chosen(X)] + p[X \ {Chosen(X)}])
  BY <1>4 DEF SumsTo
<1>6. q[X] = (IF X = {} THEN 0 ELSE f[Chosen(X)] + q[X \ {Chosen(X)}])
  BY <1>4 DEF SumsTo
<1>7. X # {} => p[X \ {Chosen(X)}] = q[X \ {Chosen(X)}]
  <2>1. X # {} => Chosen(X) \in X
    BY DEF Chosen
  <2>2. X # {} => X \ {Chosen(X)} \notin Bad
    BY <1>3, <2>1
  <2> QED
    BY <1>4, <2>2
<1> QED
  BY <1>5, <1>6, <1>7

(* A fold through a finite set exists. *)
LEMMA SumsExist ==
  ASSUME NEW f, NEW set, IsFiniteSet(set)
  PROVE  \E it : SumsTo(f, set, it)
<1> DEFINE Bad == {s \in SUBSET set : ~ \E it : SumsTo(f, s, it)}
<1>1. Bad \subseteq FiniteSubsetsOf(set)
  BY FS_Subset DEF FiniteSubsetsOf
<1>2. SUFFICES ASSUME Bad # {} PROVE FALSE
  OBVIOUS
<1>3. PICK A \in Bad : \A Y \in Bad : Y \subseteq A => Y = A
  <2> HIDE DEF Bad
  <2> QED
    BY <1>1, <1>2, MinimalSet
<1> DEFINE Of(s) == CHOOSE it : SumsTo(f, s, it)
           G == [s \in SUBSET A |-> IF s = {} THEN 0
                                    ELSE f[Chosen(s)] + Of(s \ {Chosen(s)})[s \ {Chosen(s)}]]
<1>4. \A s \in SUBSET A : s # A => SumsTo(f, s, Of(s))
  <2> SUFFICES ASSUME NEW s \in SUBSET A, s # A PROVE SumsTo(f, s, Of(s))
    OBVIOUS
  <2>1. s \in SUBSET set /\ s \notin Bad
    BY <1>3
  <2>2. \E it : SumsTo(f, s, it)
    BY <2>1
  <2> QED
    BY <2>2
<1> HIDE DEF Of
<1>5. ASSUME NEW s \in SUBSET A, s # {}
      PROVE  G[s \ {Chosen(s)}] = Of(s \ {Chosen(s)})[s \ {Chosen(s)}]
  <2> DEFINE t == s \ {Chosen(s)}
  <2>1. Chosen(s) \in s
    BY <1>5 DEF Chosen
  <2>2. t \in SUBSET A /\ t # A /\ IsFiniteSet(t)
    BY <2>1, FS_Subset
  <2>3. SumsTo(f, t, Of(t))
    BY <1>4, <2>2
  <2>4. Of(t)[t] = IF t = {} THEN 0 ELSE f[Chosen(t)] + Of(t)[t \ {Chosen(t)}]
    BY <2>3 DEF SumsTo
  <2>5. G[t] = IF t = {} THEN 0 ELSE f[Chosen(t)] + Of(t \ {Chosen(t)})[t \ {Chosen(t)}]
    BY <2>2
  <2>6. CASE t # {}
    <3> DEFINE u == t \ {Chosen(t)}
    <3>1. Chosen(t) \in t
      BY <2>6 DEF Chosen
    <3>2. u \in SUBSET A /\ u # A /\ u \in SUBSET t /\ IsFiniteSet(u)
      BY <2>2, <3>1, FS_Subset
    <3>3. SumsTo(f, u, Of(u))
      BY <1>4, <3>2
    <3>4. Of(t)[u] = Of(u)[u]
      BY <2>3, <3>2, <3>3, SumsAgree
    <3> QED
      BY <2>4, <2>5, <2>6, <3>4
  <2> QED
    BY <2>4, <2>5, <2>6
<1>6. G = [s \in SUBSET A |-> IF s = {} THEN 0 ELSE f[Chosen(s)] + G[s \ {Chosen(s)}]]
  BY <1>5
<1>7. SumsTo(f, A, G)
  BY <1>6 DEF SumsTo
<1> QED
  BY <1>7

(* The sum over no set is 0, any other is its chosen term and the sum of the rest. *)
LEMMA SumUnfold ==
  ASSUME NEW f, NEW set, IsFiniteSet(set)
  PROVE  SumOver(f, set) =
           IF set = {} THEN 0 ELSE f[Chosen(set)] + SumOver(f, set \ {Chosen(set)})
<1> DEFINE Of(s) == CHOOSE it : SumsTo(f, s, it)
           rest == set \ {Chosen(set)}
<1>1. IsFiniteSet(rest)
  BY FS_Subset
<1>2. SumsTo(f, set, Of(set)) /\ SumsTo(f, rest, Of(rest))
  BY <1>1, SumsExist
<1>3. Of(set)[set] = IF set = {} THEN 0 ELSE f[Chosen(set)] + Of(set)[rest]
  <2> HIDE DEF Of
  <2>1. set \in SUBSET set
    OBVIOUS
  <2> QED
    BY <1>2, <2>1 DEF SumsTo
<1>4. Of(set)[rest] = Of(rest)[rest]
  BY <1>1, <1>2, SumsAgree
<1> QED
  BY <1>3, <1>4 DEF SumOver

(* Sums of integers are integers, of natural numbers natural numbers. *)
LEMMA SumTyped ==
  ASSUME NEW f, NEW set, IsFiniteSet(set),
         NEW T, T \in {Nat, Int}, \A x \in set : f[x] \in T
  PROVE  SumOver(f, set) \in T
<1> DEFINE Bad == {s \in SUBSET set : SumOver(f, s) \notin T}
<1>1. Bad \subseteq FiniteSubsetsOf(set)
  BY FS_Subset DEF FiniteSubsetsOf
<1>2. SUFFICES ASSUME Bad # {} PROVE FALSE
  OBVIOUS
<1>3. PICK A \in Bad : \A Y \in Bad : Y \subseteq A => Y = A
  <2> HIDE DEF Bad
  <2> QED
    BY <1>1, <1>2, MinimalSet
<1>4. A \in SUBSET set /\ IsFiniteSet(A) /\ SumOver(f, A) \notin T
  BY FS_Subset
<1>5. SumOver(f, A) = IF A = {} THEN 0 ELSE f[Chosen(A)] + SumOver(f, A \ {Chosen(A)})
  BY <1>4, SumUnfold
<1>6. A # {}
  BY <1>4, <1>5
<1>7. Chosen(A) \in A
  BY <1>6 DEF Chosen
<1>8. f[Chosen(A)] \in T /\ SumOver(f, A \ {Chosen(A)}) \in T
  BY <1>3, <1>4, <1>7
<1>9. f[Chosen(A)] + SumOver(f, A \ {Chosen(A)}) \in T
  BY <1>8
<1> QED
  BY <1>4, <1>5, <1>6, <1>9

(* Any term may be taken first. *)
LEMMA SumRemove ==
  ASSUME NEW f, NEW set, IsFiniteSet(set), \A x \in set : f[x] \in Int, NEW a \in set
  PROVE  SumOver(f, set) = f[a] + SumOver(f, set \ {a})
<1> DEFINE Bad == {s \in SUBSET set :
                    \E b \in s : SumOver(f, s) # f[b] + SumOver(f, s \ {b})}
<1>1. Bad \subseteq FiniteSubsetsOf(set)
  BY FS_Subset DEF FiniteSubsetsOf
<1>2. SUFFICES ASSUME Bad # {} PROVE FALSE
  OBVIOUS
<1>3. PICK A \in Bad : \A Y \in Bad : Y \subseteq A => Y = A
  <2> HIDE DEF Bad
  <2> QED
    BY <1>1, <1>2, MinimalSet
<1>4. PICK b \in A : SumOver(f, A) # f[b] + SumOver(f, A \ {b})
  OBVIOUS
<1>5. A \in SUBSET set /\ IsFiniteSet(A)
  BY FS_Subset
<1> DEFINE x == Chosen(A)
<1>6. x \in A
  BY <1>4 DEF Chosen
<1>7. SumOver(f, A) = f[x] + SumOver(f, A \ {x})
  BY <1>4, <1>5, SumUnfold
<1>8. x # b
  BY <1>4, <1>7
<1> HIDE DEF x
<1>9. SumOver(f, A \ {x}) = f[b] + SumOver(f, (A \ {x}) \ {b})
  <2>1. A \ {x} \in SUBSET set /\ A \ {x} \notin Bad /\ b \in A \ {x}
    BY <1>3, <1>5, <1>6, <1>8
  <2> QED
    BY <2>1
<1>10. SumOver(f, A \ {b}) = f[x] + SumOver(f, (A \ {b}) \ {x})
  <2>1. A \ {b} \in SUBSET set /\ A \ {b} \notin Bad /\ x \in A \ {b}
    BY <1>3, <1>5, <1>6, <1>8
  <2> QED
    BY <2>1
<1>11. (A \ {x}) \ {b} = (A \ {b}) \ {x}
  OBVIOUS
<1>12. f[x] \in Int /\ f[b] \in Int
  BY <1>5, <1>6
<1>13. SumOver(f, (A \ {x}) \ {b}) \in Int
  <2>1. IsFiniteSet((A \ {x}) \ {b}) /\ \A y \in (A \ {x}) \ {b} : f[y] \in Int
    BY <1>5, FS_Subset
  <2> QED
    BY <2>1, SumTyped
<1>14. ASSUME NEW p \in Int, NEW q \in Int, NEW r \in Int PROVE p + (q + r) = q + (p + r)
  OBVIOUS
<1> QED
  BY <1>4, <1>7, <1>9, <1>10, <1>11, <1>12, <1>13, <1>14

(* Where two functions agree, so do their sums. *)
LEMMA SumSame ==
  ASSUME NEW f, NEW g, NEW set, IsFiniteSet(set), \A x \in set : f[x] = g[x]
  PROVE  SumOver(f, set) = SumOver(g, set)
<1> DEFINE Bad == {s \in SUBSET set : SumOver(f, s) # SumOver(g, s)}
<1>1. Bad \subseteq FiniteSubsetsOf(set)
  BY FS_Subset DEF FiniteSubsetsOf
<1>2. SUFFICES ASSUME Bad # {} PROVE FALSE
  OBVIOUS
<1>3. PICK A \in Bad : \A Y \in Bad : Y \subseteq A => Y = A
  <2> HIDE DEF Bad
  <2> QED
    BY <1>1, <1>2, MinimalSet
<1>4. A \in SUBSET set /\ IsFiniteSet(A) /\ SumOver(f, A) # SumOver(g, A)
  BY FS_Subset
<1>5. SumOver(f, A) = IF A = {} THEN 0 ELSE f[Chosen(A)] + SumOver(f, A \ {Chosen(A)})
  BY <1>4, SumUnfold
<1>6. SumOver(g, A) = IF A = {} THEN 0 ELSE g[Chosen(A)] + SumOver(g, A \ {Chosen(A)})
  BY <1>4, SumUnfold
<1>7. A # {} => Chosen(A) \in A
  BY DEF Chosen
<1>8. A # {} => SumOver(f, A \ {Chosen(A)}) = SumOver(g, A \ {Chosen(A)})
  BY <1>3, <1>4, <1>7
<1> QED
  BY <1>4, <1>5, <1>6, <1>7, <1>8

(* A factor of every term is one of the sum. *)
LEMMA SumScaled ==
  ASSUME NEW f, NEW g, NEW set, IsFiniteSet(set), NEW k \in Int,
         \A x \in set : f[x] \in Int /\ g[x] = f[x] * k
  PROVE  SumOver(g, set) = SumOver(f, set) * k
<1> DEFINE Bad == {s \in SUBSET set : SumOver(g, s) # SumOver(f, s) * k}
<1>1. Bad \subseteq FiniteSubsetsOf(set)
  BY FS_Subset DEF FiniteSubsetsOf
<1>2. SUFFICES ASSUME Bad # {} PROVE FALSE
  OBVIOUS
<1>3. PICK A \in Bad : \A Y \in Bad : Y \subseteq A => Y = A
  <2> HIDE DEF Bad
  <2> QED
    BY <1>1, <1>2, MinimalSet
<1>4. A \in SUBSET set /\ IsFiniteSet(A) /\ SumOver(g, A) # SumOver(f, A) * k
  BY FS_Subset
<1>5. SumOver(f, A) = IF A = {} THEN 0 ELSE f[Chosen(A)] + SumOver(f, A \ {Chosen(A)})
  BY <1>4, SumUnfold
<1>6. SumOver(g, A) = IF A = {} THEN 0 ELSE g[Chosen(A)] + SumOver(g, A \ {Chosen(A)})
  BY <1>4, SumUnfold
<1>7. A # {}
  <2>1. 0 * k = 0
    OBVIOUS
  <2> QED
    BY <1>4, <1>5, <1>6, <2>1
<1>8. PICK x \in A : x = Chosen(A)
  BY <1>7 DEF Chosen
<1>9. SumOver(g, A \ {x}) = SumOver(f, A \ {x}) * k
  BY <1>3, <1>4, <1>8
<1>10. PICK p \in Int : p = f[x]
  BY <1>4
<1>11. PICK q \in Int : q = SumOver(f, A \ {x})
  <2>1. IsFiniteSet(A \ {x}) /\ \A y \in A \ {x} : f[y] \in Int
    BY <1>4, FS_Subset
  <2>2. Int \in {Nat, Int}
    OBVIOUS
  <2> QED
    BY <2>1, <2>2, SumTyped
<1>12. (p + q) * k = p * k + q * k
  OBVIOUS
<1>13. g[x] = p * k
  BY <1>4, <1>10
<1> QED
  BY <1>4, <1>5, <1>6, <1>7, <1>8, <1>9, <1>10, <1>11, <1>12, <1>13

(* A part of the terms sums up to no more than all of them. *)
LEMMA SumOfPart ==
  ASSUME NEW f, NEW set, IsFiniteSet(set), \A x \in set : f[x] \in Nat,
         NEW part \in SUBSET set
  PROVE  SumOver(f, part) <= SumOver(f, set)
<1> DEFINE Bad == {s \in SUBSET set : ~(SumOver(f, part \cap s) <= SumOver(f, s))}
<1>1. Bad \subseteq FiniteSubsetsOf(set)
  BY FS_Subset DEF FiniteSubsetsOf
<1>2. SUFFICES ASSUME Bad # {} PROVE FALSE
  <2>1. part \cap set = part /\ set \in SUBSET set
    OBVIOUS
  <2> QED
    BY <1>2, <2>1
<1>3. PICK A \in Bad : \A Y \in Bad : Y \subseteq A => Y = A
  <2> HIDE DEF Bad
  <2> QED
    BY <1>1, <1>2, MinimalSet
<1>4. A \in SUBSET set /\ IsFiniteSet(A) /\ ~(SumOver(f, part \cap A) <= SumOver(f, A))
  BY FS_Subset
<1>5. \A s \in SUBSET set : IsFiniteSet(s) /\ SumOver(f, s) \in Nat
  <2> TAKE s \in SUBSET set
  <2>1. IsFiniteSet(s) /\ \A x \in s : f[x] \in Nat
    BY FS_Subset
  <2>2. Nat \in {Nat, Int}
    OBVIOUS
  <2> QED
    BY <2>1, <2>2, SumTyped
<1>6. A # {}
  <2>1. ASSUME A = {} PROVE FALSE
    <3>1. part \cap A = A
      BY <2>1
    <3> QED
      BY <1>4, <1>5, <3>1
  <2> QED
    BY <2>1
<1>7. PICK a \in A : TRUE
  BY <1>6
<1>8. SumOver(f, part \cap (A \ {a})) <= SumOver(f, A \ {a})
  BY <1>3, <1>4, <1>7
<1>9. \A x \in set : f[x] \in Int
  OBVIOUS
<1>10. SumOver(f, A) = f[a] + SumOver(f, A \ {a})
  BY <1>4, <1>9, SumRemove
<1>11. PICK v \in Nat : v = f[a]
  BY <1>4
<1>12. PICK x \in Nat, y \in Nat :
         x = SumOver(f, A \ {a}) /\ y = SumOver(f, part \cap (A \ {a}))
  <2>1. A \ {a} \in SUBSET set /\ part \cap (A \ {a}) \in SUBSET set
    BY <1>4
  <2> QED
    BY <1>5, <2>1
<1>13. y <= x /\ SumOver(f, A) = v + x
  BY <1>8, <1>10, <1>11, <1>12
<1>14. CASE a \in part
  <2>1. SumOver(f, part \cap A) = f[a] + SumOver(f, (part \cap A) \ {a})
    <3>1. part \cap A \in SUBSET set /\ a \in part \cap A
      BY <1>4, <1>14
    <3>2. IsFiniteSet(part \cap A) /\ \A z \in part \cap A : f[z] \in Int
      BY <1>5, <1>9, <3>1
    <3> QED
      BY <3>1, <3>2, SumRemove
  <2>2. (part \cap A) \ {a} = part \cap (A \ {a})
    OBVIOUS
  <2>3. SumOver(f, part \cap A) = v + y
    BY <1>11, <1>12, <2>1, <2>2
  <2> QED
    BY <1>4, <1>13, <2>3
<1>15. CASE a \notin part
  <2>1. part \cap A = part \cap (A \ {a})
    BY <1>15
  <2>2. y <= v + x
    BY <1>13
  <2> QED
    BY <1>4, <1>12, <1>13, <2>1, <2>2
<1> QED
  BY <1>14, <1>15

(* The names of a set's members, and a function of names as one of the members. *)
Named(name, set) == {name[x] : x \in set}
ByName(f, name, set) == [x \in set |-> f[name[x]]]

(* The names of a finite set's members are finite, and as many if no two are the
   same. *)
LEMMA NamesCounted ==
  ASSUME NEW set, IsFiniteSet(set), NEW name
  PROVE  /\ IsFiniteSet(Named(name, set))
         /\ Cardinality(Named(name, set)) <= Cardinality(set)
         /\ (\A x, y \in set : name[x] = name[y] => x = y) =>
               Cardinality(Named(name, set)) = Cardinality(set)
<1> DEFINE h == [x \in set |-> name[x]]
           T == {name[x] : x \in set}
<1>1. h \in Surjection(set, T)
  BY DEF Surjection
<1>2. (\A x, y \in set : name[x] = name[y] => x = y) => h \in Injection(set, T)
  BY DEF Injection, IsInjective
<1> HIDE DEF h, T
<1>3. /\ IsFiniteSet(T) /\ Cardinality(T) <= Cardinality(set)
      /\ Cardinality(T) = Cardinality(set) <=> h \in Injection(set, T)
  BY <1>1, FS_Surjection
<1> QED
  BY <1>2, <1>3 DEF T, Named

(* A sum over a set may be taken over any set that is in bijection with it. *)
LEMMA SumReindexed ==
  ASSUME NEW f, NEW set, IsFiniteSet(set), NEW name,
         \A x \in set : f[name[x]] \in Int,
         \A x, y \in set : name[x] = name[y] => x = y
  PROVE  SumOver(f, Named(name, set)) = SumOver(ByName(f, name, set), set)
<1> DEFINE g == ByName(f, name, set)
           Bad == {s \in SUBSET set : SumOver(f, Named(name, s)) # SumOver(g, s)}
<1>1. Bad \subseteq FiniteSubsetsOf(set)
  BY FS_Subset DEF FiniteSubsetsOf
<1>2. SUFFICES ASSUME Bad # {} PROVE FALSE
  OBVIOUS
<1>3. PICK A \in Bad : \A Y \in Bad : Y \subseteq A => Y = A
  <2> HIDE DEF Bad
  <2> QED
    BY <1>1, <1>2, MinimalSet
<1>4. A \in SUBSET set /\ IsFiniteSet(A) /\ SumOver(f, Named(name, A)) # SumOver(g, A)
  BY FS_Subset
<1>5. A # {}
  <2>1. SUFFICES ASSUME A = {} PROVE FALSE
    OBVIOUS
  <2>2. SumOver(f, {}) = 0 /\ SumOver(g, {}) = 0
    BY SumUnfold, FS_EmptySet
  <2>3. Named(name, {}) = {}
    BY DEF Named
  <2> QED
    BY <1>4, <2>1, <2>2, <2>3
<1>6. PICK x \in A : TRUE
  BY <1>5
<1>7. SumOver(f, Named(name, A \ {x})) = SumOver(g, A \ {x})
  BY <1>3, <1>4, <1>6
<1>8. \A y \in A : g[y] \in Int /\ g[y] = f[name[y]]
  BY <1>4 DEF ByName
<1> HIDE DEF g
<1>9. SumOver(g, A) = g[x] + SumOver(g, A \ {x})
  BY <1>4, <1>8, SumRemove
<1>10. IsFiniteSet(Named(name, A)) /\ \A n \in Named(name, A) : f[n] \in Int
  <2>1. IsFiniteSet(Named(name, A))
    BY <1>4, NamesCounted
  <2>2. \A n \in Named(name, A) : f[n] \in Int
    BY <1>4 DEF Named
  <2> QED
    BY <2>1, <2>2
<1>11. name[x] \in Named(name, A)
  BY DEF Named
<1>12. SumOver(f, Named(name, A)) = f[name[x]] + SumOver(f, Named(name, A) \ {name[x]})
  BY <1>10, <1>11, SumRemove
<1>13. Named(name, A) \ {name[x]} = Named(name, A \ {x})
  BY <1>4, <1>6 DEF Named
<1> QED
  BY <1>4, <1>7, <1>8, <1>9, <1>12, <1>13

(* Terms that are 0 may be left out. *)
LEMMA SumOfSupport ==
  ASSUME NEW f, NEW set, IsFiniteSet(set), \A x \in set : f[x] \in Int,
         NEW part \in SUBSET set, \A x \in set \ part : f[x] = 0
  PROVE  SumOver(f, part) = SumOver(f, set)
<1> DEFINE Bad == {s \in SUBSET set : SumOver(f, part \cap s) # SumOver(f, s)}
<1>1. Bad \subseteq FiniteSubsetsOf(set)
  BY FS_Subset DEF FiniteSubsetsOf
<1>2. SUFFICES ASSUME Bad # {} PROVE FALSE
  <2>1. part \cap set = part /\ set \in SUBSET set
    OBVIOUS
  <2> QED
    BY <1>2, <2>1
<1>3. PICK A \in Bad : \A Y \in Bad : Y \subseteq A => Y = A
  <2> HIDE DEF Bad
  <2> QED
    BY <1>1, <1>2, MinimalSet
<1>4. A \in SUBSET set /\ IsFiniteSet(A) /\ SumOver(f, part \cap A) # SumOver(f, A)
  BY FS_Subset
<1>5. A # {}
  <2>1. SUFFICES ASSUME A = {} PROVE FALSE
    OBVIOUS
  <2>2. part \cap A = A
    BY <2>1
  <2> QED
    BY <1>4, <2>2
<1>6. PICK x \in A : TRUE
  BY <1>5
<1>7. SumOver(f, part \cap (A \ {x})) = SumOver(f, A \ {x})
  BY <1>3, <1>4, <1>6
<1>8. SumOver(f, A) = f[x] + SumOver(f, A \ {x})
  BY <1>4, SumRemove
<1>9. SumOver(f, A \ {x}) \in Int
  BY <1>4, FS_Subset, SumTyped
<1>10. CASE x \in part
  <2>1. IsFiniteSet(part \cap A) /\ x \in part \cap A /\ \A y \in part \cap A : f[y] \in Int
    BY <1>4, <1>10, FS_Subset
  <2>2. SumOver(f, part \cap A) = f[x] + SumOver(f, (part \cap A) \ {x})
    BY <2>1, SumRemove
  <2>3. (part \cap A) \ {x} = part \cap (A \ {x})
    OBVIOUS
  <2> QED
    BY <1>4, <1>7, <1>8, <2>2, <2>3
<1>11. CASE x \notin part
  <2>1. part \cap A = part \cap (A \ {x}) /\ f[x] = 0
    BY <1>4, <1>11
  <2> QED
    <3>1. SumOver(f, part \cap A) = SumOver(f, A \ {x})
      BY <1>7, <2>1, Zenon
    <3>2. SumOver(f, A) = SumOver(f, A \ {x})
      BY <1>8, <1>9, <2>1
    <3> QED
      BY <1>4, <3>1, <3>2, Zenon
<1> QED
  BY <1>10, <1>11

(* How many of a set are in each class. *)
CountsBy(class, set, C) == [c \in C |-> Cardinality({x \in set : class[x] = c})]

(* Counting a set class by class counts all of it. *)
LEMMA CountedByClass ==
  ASSUME NEW C, IsFiniteSet(C), NEW set, IsFiniteSet(set), NEW class, \A x \in set : class[x] \in C
  PROVE  SumOver(CountsBy(class, set, C), C) = Cardinality(set)
<1> DEFINE In(s, c) == {x \in s : class[x] = c}
           Counts(s) == [c \in C |-> Cardinality(In(s, c))]
           Bad == {s \in SUBSET set : SumOver(Counts(s), C) # Cardinality(s)}
<1>1. Bad \subseteq FiniteSubsetsOf(set)
  BY FS_Subset DEF FiniteSubsetsOf
<1>2. SUFFICES ASSUME Bad # {} PROVE FALSE
  <2>1. set \in SUBSET set
    OBVIOUS
  <2>2. SumOver(Counts(set), C) = Cardinality(set)
    BY <1>2, <2>1
  <2> QED
    BY <2>2 DEF CountsBy
<1>3. PICK A \in Bad : \A Y \in Bad : Y \subseteq A => Y = A
  <2> HIDE DEF Bad
  <2> QED
    BY <1>1, <1>2, MinimalSet
<1>4. A \in SUBSET set /\ IsFiniteSet(A) /\ SumOver(Counts(A), C) # Cardinality(A)
  BY FS_Subset
<1>5. A # {}
  <2>1. SUFFICES ASSUME A = {} PROVE FALSE
    OBVIOUS
  <2>2. \A c \in C : Counts({})[c] = 0
    BY FS_EmptySet
  <2> HIDE DEF Counts
  <2>3. \A c \in C : Counts({})[c] \in Int /\ Counts({})[c] = Counts({})[c] * 0
    BY <2>2
  <2>4. SumOver(Counts({}), C) = SumOver(Counts({}), C) * 0
    BY <2>3, SumScaled
  <2>5. SumOver(Counts({}), C) \in Int
    BY <2>3, SumTyped
  <2>6. SumOver(Counts({}), C) = 0
    BY <2>4, <2>5
  <2> QED
    BY <1>4, <2>1, <2>6, FS_EmptySet
<1>6. PICK x \in A : TRUE
  BY <1>5
<1> DEFINE Y == A \ {x}
           k == class[x]
<1>7. SumOver(Counts(Y), C) = Cardinality(Y)
  BY <1>3, <1>4, <1>6
<1>8. k \in C
  BY <1>4
<1>9. ASSUME NEW s \in SUBSET A, NEW c \in C PROVE Counts(s)[c] = Cardinality(In(s, c)) /\ Counts(s)[c] \in Nat
  <2>1. IsFiniteSet(In(s, c))
    BY <1>4, FS_Subset
  <2>2. Cardinality(In(s, c)) \in Nat
    BY <2>1, FS_CardinalityType
  <2> QED
    BY <2>2
<1>10. ASSUME NEW c \in C \ {k} PROVE Counts(A)[c] = Counts(Y)[c]
  BY In(A, c) = In(Y, c)
<1>11. Counts(A)[k] = Counts(Y)[k] + 1
  <2>1. In(Y, k) = In(A, k) \ {x} /\ x \in In(A, k)
    OBVIOUS
  <2>2. IsFiniteSet(In(A, k))
    BY <1>4, FS_Subset
  <2>3. Cardinality(In(Y, k)) = Cardinality(In(A, k)) - 1 /\ Cardinality(In(A, k)) \in Nat
    BY <2>1, <2>2, FS_RemoveElement, FS_CardinalityType
  <2> HIDE DEF In, Y
  <2>4. Counts(A)[k] = Cardinality(In(A, k)) /\ Counts(Y)[k] = Cardinality(In(Y, k))
    BY <1>8
  <2> QED
    BY <2>3, <2>4
<1>12. Cardinality(A) = Cardinality(Y) + 1 /\ Cardinality(Y) \in Nat
  BY <1>4, <1>6, FS_RemoveElement, FS_CardinalityType, FS_Subset
<1>13. Y \in SUBSET A /\ A \in SUBSET A
  OBVIOUS
<1> DEFINE D == C \ {k}
<1>14. IsFiniteSet(D)
  BY FS_Subset
<1>15. ASSUME NEW s \in SUBSET A PROVE \A c \in C : Counts(s)[c] \in Int
  BY <1>9
<1>16. \A c \in D : c \in C /\ Counts(A)[c] = Counts(Y)[c]
  BY <1>10
<1> HIDE DEF Counts, Y, k
<1>17. /\ \A c \in C : Counts(A)[c] \in Int /\ Counts(Y)[c] \in Int
  BY <1>13, <1>15
<1>18. SumOver(Counts(A), C) = Counts(A)[k] + SumOver(Counts(A), C \ {k})
  BY <1>8, <1>17, SumRemove
<1>19. SumOver(Counts(Y), C) = Counts(Y)[k] + SumOver(Counts(Y), C \ {k})
  BY <1>8, <1>17, SumRemove
<1>20. \A c \in D : Counts(Y)[c] \in Int
  BY <1>17
<1> HIDE DEF D
<1>21. SumOver(Counts(A), D) = SumOver(Counts(Y), D)
  BY <1>16, <1>14, SumSame
<1>22. SumOver(Counts(Y), D) \in Int
  BY <1>14, <1>20, SumTyped
<1>23. Counts(Y)[k] \in Nat
  BY <1>8, <1>9, <1>13
<1> QED
  BY <1>4, <1>7, <1>11, <1>12, <1>18, <1>19, <1>21, <1>22, <1>23 DEF D

(* The last term of a sum over an interval. *)
LEMMA SumOfInterval ==
  ASSUME NEW f, NEW m \in Int, NEW n \in Int, m <= n, \A x \in m .. n : f[x] \in Int
  PROVE  SumOver(f, m .. n) = SumOver(f, m .. n - 1) + f[n]
<1>1. PICK all : all = m .. n
  OBVIOUS
<1>2. IsFiniteSet(all) /\ IsFiniteSet(all \ {n})
  <2>1. IsFiniteSet(all)
    BY <1>1, FS_Interval
  <2> QED
    BY <2>1, FS_RemoveElement
<1>3. n \in all /\ m .. n - 1 = all \ {n}
  BY <1>1
<1>4. \A x \in all : f[x] \in Int
  BY <1>1
<1>5. SumOver(f, all) = f[n] + SumOver(f, all \ {n})
  <2>1. ASSUME NEW set, IsFiniteSet(set), \A x \in set : f[x] \in Int, NEW a \in set
        PROVE  SumOver(f, set) = f[a] + SumOver(f, set \ {a})
    BY <2>1, SumRemove
  <2> QED
    BY <1>2, <1>3, <1>4, <2>1
<1>6. SumOver(f, all \ {n}) \in Int
  BY <1>2, <1>4, SumTyped
<1>7. SumOver(f, all) = SumOver(f, all \ {n}) + f[n]
  BY <1>3, <1>4, <1>5, <1>6
<1>8. SumOver(f, all) = SumOver(f, m .. n) /\ SumOver(f, all \ {n}) = SumOver(f, m .. n - 1)
  BY <1>1, <1>3, Zenon
<1> QED
  BY <1>7, <1>8, Zenon
=============================================================================
