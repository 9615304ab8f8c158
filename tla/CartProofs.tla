----------------------------- MODULE CartProofs -----------------------------
(***************************************************************************)
(* Proofs about Cart and Pricing, for any variants, coupons and tabs.      *)
(*                                                                         *)
(* The first part is about sums and amounts.  SumFunction is a fold over a *)
(* finite set; what it returns is shown by induction on the size of the    *)
(* set, and the induction rests on InductiveSet, which follows from the    *)
(* pigeonhole principle.  So does the number of shares that get a leftover *)
(* cent, from the place each has in the order of the remainders.           *)
(*                                                                         *)
(* The second part is the invariant: what a handler holds of the cart is   *)
(* the cart as it is now, unless a write has overtaken it.                 *)
(***************************************************************************)
EXTENDS Cart, FiniteSetTheorems, TLAPS

(***************************************************************************)
(* Sums                                                                    *)
(***************************************************************************)

\* Were n missing from S, m |-> m + 1 would map the members of S below n into
\* one value fewer, and no two to the same.
LEMMA InductiveSet ==
  ASSUME NEW S, S \subseteq Nat, 0 \in S, \A n \in S : n + 1 \in S
  PROVE  S = Nat
<1>1. ASSUME NEW n \in Nat, n \notin S PROVE FALSE
  <2>. DEFINE F == S \cap (0..n)
             f == [m \in F |-> m + 1]
  <2>1. IsFiniteSet(0..n) BY FS_Interval
  <2>2. IsFiniteSet(F) BY <2>1, FS_Subset
  <2>3. 0 \in F OBVIOUS
  <2>4. /\ IsFiniteSet(F \ {0})
        /\ Cardinality(F \ {0}) = Cardinality(F) - 1
    BY <2>2, <2>3, FS_RemoveElement
  <2>5. Cardinality(F) \in Nat BY <2>2, FS_CardinalityType
  <2>6. f \in [F -> F \ {0}]
    BY <1>1
  <2>7. \E x, y \in F : x # y /\ f[x] = f[y]
    <3>. HIDE DEF F, f
    <3>. QED BY <2>2, <2>4, <2>5, <2>6, FS_PigeonHole
  <2>. QED BY <2>7
<1>. QED BY <1>1

\* The fold takes its elements in the order CHOOSE gives.
First(s) == CHOOSE x \in s : TRUE

\* g holds the sum of f over every set of T.
IsSum(f, g, T) ==
  g = [s \in T |-> IF s = {} THEN 0 ELSE f[First(s)] + g[s \ {First(s)}]]

\* The definition of SumFunction, unfolded.
LEMMA SumDef ==
  ASSUME NEW f
  PROVE  SumFunction(f) = (CHOOSE g : IsSum(f, g, SUBSET DOMAIN f))[DOMAIN f]
  BY DEF SumFunction, SumFunctionOnSet, FoldFunctionOnSet, MapThenFoldSet,
         IsSum, First

\* Such a g there is, by induction on the size of the sets it covers.
LEMMA SumExists ==
  ASSUME NEW D, IsFiniteSet(D), NEW f
  PROVE  \E g : IsSum(f, g, SUBSET D)
<1>. DEFINE Small(n) == {s \in SUBSET D : Cardinality(s) <= n}
           Good == {n \in Nat : \E g : IsSum(f, g, Small(n))}
<1>0. \A s \in SUBSET D : IsFiniteSet(s) /\ Cardinality(s) \in Nat
  BY FS_Subset, FS_CardinalityType
<1>1. 0 \in Good
  <2>. DEFINE g == [s \in Small(0) |-> 0]
  <2>1. \A s \in Small(0) : s = {}
    BY <1>0, FS_EmptySet
  <2>2. IsSum(f, g, Small(0))
    BY <2>1 DEF IsSum
  <2>. QED
    BY <2>2
<1>2. ASSUME NEW n \in Good PROVE n + 1 \in Good
  <2>1. PICK g : IsSum(f, g, Small(n))
    BY <1>2
  <2>. DEFINE h == [s \in Small(n + 1) |->
                     IF s = {} THEN 0 ELSE f[First(s)] + g[s \ {First(s)}]]
  <2>2. ASSUME NEW s \in Small(n + 1), s # {}
        PROVE  /\ s \ {First(s)} \in Small(n)
               /\ s \ {First(s)} \in Small(n + 1)
    <3>1. First(s) \in s
      BY <2>2 DEF First
    <3>2. Cardinality(s \ {First(s)}) = Cardinality(s) - 1
      BY <3>1, <1>0, FS_RemoveElement
    <3>. QED
      BY <3>2, <1>0
  <2>3. ASSUME NEW s \in Small(n) PROVE s \in Small(n + 1) /\ g[s] = h[s]
    <3>1. s \in Small(n + 1)
      BY <1>0
    <3>2. g[s] = IF s = {} THEN 0 ELSE f[First(s)] + g[s \ {First(s)}]
      BY <2>1 DEF IsSum
    <3>. QED
      BY <3>1, <3>2
  <2>4. IsSum(f, h, Small(n + 1))
    <3>. HIDE DEF Small
    <3>1. \A s \in Small(n + 1) :
            s # {} => g[s \ {First(s)}] = h[s \ {First(s)}]
      BY <2>2, <2>3
    <3>. QED
      BY <3>1 DEF IsSum
  <2>. HIDE DEF h, Small
  <2>. QED
    BY <2>4
<1>3. Cardinality(D) \in Good
  <2>1. Good = Nat
    <3>. HIDE DEF Small
    <3>1. Good \subseteq Nat
      OBVIOUS
    <3>. HIDE DEF Good
    <3>. QED
      BY <3>1, <1>1, <1>2, InductiveSet
  <2>. HIDE DEF Good
  <2>. QED
    BY <2>1, FS_CardinalityType
<1>4. Small(Cardinality(D)) = SUBSET D
  BY <1>0, FS_Subset
<1>. HIDE DEF Small
<1>. QED
  BY <1>3, <1>4

\* The recursion at s.
Unfolds(f, g, s) ==
  /\ s = {} => g[s] = 0
  /\ s # {} => First(s) \in s /\ g[s] = f[First(s)] + g[s \ {First(s)}]

\* So the fold satisfies its own recursion.
LEMMA SumIs ==
  ASSUME NEW D, IsFiniteSet(D), NEW f, DOMAIN f = D
  PROVE  \E g : SumFunction(f) = g[D] /\ \A s \in SUBSET D : Unfolds(f, g, s)
<1>1. PICK g : IsSum(f, g, SUBSET D) /\ SumFunction(f) = g[D]
  BY SumExists, SumDef
<1>2. ASSUME NEW s \in SUBSET D PROVE Unfolds(f, g, s)
  <2>1. g[s] = IF s = {} THEN 0 ELSE f[First(s)] + g[s \ {First(s)}]
    BY <1>1 DEF IsSum
  <2>2. s # {} => First(s) \in s
    BY DEF First
  <2>. QED
    BY <2>1, <2>2 DEF Unfolds
<1>. QED
  BY <1>1, <1>2

\* The sums of no value, of one and of two.
LEMMA SumOfNone ==
  ASSUME NEW f, DOMAIN f = {}
  PROVE  SumFunction(f) = 0
<1>1. PICK g : SumFunction(f) = g[{}] /\ \A s \in SUBSET {} : Unfolds(f, g, s)
  BY SumIs, FS_EmptySet
<1>. QED
  BY <1>1 DEF Unfolds

LEMMA SumOfOne ==
  ASSUME NEW x, NEW f, DOMAIN f = {x}, f[x] \in Int
  PROVE  SumFunction(f) = f[x]
<1>1. PICK g : SumFunction(f) = g[{x}] /\ \A s \in SUBSET {x} : Unfolds(f, g, s)
  BY SumIs, FS_Singleton
<1>2. Unfolds(f, g, {}) /\ Unfolds(f, g, {x})
  BY <1>1
<1>3. First({x}) = x /\ {x} \ {x} = {} /\ {x} # {}
  BY DEF First
<1>4. g[{}] = 0
  BY <1>2 DEF Unfolds
<1>5. g[{x}] = f[First({x})] + g[{x} \ {First({x})}]
  BY <1>2, <1>3 DEF Unfolds
<1>6. {x} \ {First({x})} = {}
  BY <1>3
<1>7. g[{x}] = f[x] + 0
  BY <1>3, <1>4, <1>5, <1>6
<1>. QED
  BY <1>1, <1>7

LEMMA SumOfTwo ==
  ASSUME NEW f \in [1 .. 2 -> Int]
  PROVE  SumFunction(f) = f[1] + f[2]
<1>1. 1 .. 2 = {1, 2}
  OBVIOUS
<1>2. IsFiniteSet({1, 2})
  <2>1. IsFiniteSet({1} \cup {2})
    BY FS_Singleton, FS_AddElement
  <2>2. {1} \cup {2} = {1, 2}
    OBVIOUS
  <2>. QED
    BY <2>1, <2>2
<1>3. PICK g : /\ SumFunction(f) = g[{1, 2}]
               /\ \A s \in SUBSET {1, 2} : Unfolds(f, g, s)
  BY <1>1, <1>2, SumIs
<1>4. /\ Unfolds(f, g, {})
      /\ Unfolds(f, g, {1})
      /\ Unfolds(f, g, {2})
      /\ Unfolds(f, g, {1, 2})
  BY <1>3
<1>5. First({1}) = 1 /\ First({2}) = 2
  BY DEF First
<1>6. /\ {1, 2} \ {1} = {2} /\ {1, 2} \ {2} = {1}
      /\ {1} \ {1} = {} /\ {2} \ {2} = {}
  OBVIOUS
<1>7. g[{}] = 0
  BY <1>4 DEF Unfolds
<1>8. g[{1}] = f[1] + 0 /\ g[{2}] = f[2] + 0
  <2>1. {1} # {} /\ {2} # {}
    OBVIOUS
  <2>2. /\ g[{1}] = f[First({1})] + g[{1} \ {First({1})}]
        /\ g[{2}] = f[First({2})] + g[{2} \ {First({2})}]
    BY <1>4, <2>1 DEF Unfolds
  <2>. QED
    BY <2>2, <1>5, <1>6, <1>7
<1>9. /\ First({1, 2}) \in {1, 2}
      /\ g[{1, 2}] = f[First({1, 2})] + g[{1, 2} \ {First({1, 2})}]
  <2>1. {1, 2} # {}
    OBVIOUS
  <2>. QED
    BY <1>4, <2>1 DEF Unfolds
<1>10. CASE First({1, 2}) = 1
  <2>1. {1, 2} \ {First({1, 2})} = {2}
    BY <1>10
  <2>2. g[{1, 2}] = f[1] + g[{2}]
    BY <2>1, <1>9, <1>10
  <2>. QED
    BY <2>2, <1>3, <1>8
<1>11. CASE First({1, 2}) = 2
  <2>1. {1, 2} \ {First({1, 2})} = {1}
    BY <1>11
  <2>2. g[{1, 2}] = f[2] + g[{1}]
    BY <2>1, <1>9, <1>11
  <2>. QED
    BY <2>2, <1>3, <1>8
<1>. QED
  BY <1>9, <1>10, <1>11

\* A sum of natural numbers is one.
LEMMA SumOfNats ==
  ASSUME NEW D, IsFiniteSet(D), NEW f \in [D -> Nat]
  PROVE  SumFunction(f) \in Nat
<1>1. PICK g : SumFunction(f) = g[D] /\ \A s \in SUBSET D : Unfolds(f, g, s)
  BY SumIs
<1>. DEFINE Natural(n) == \A s \in SUBSET D : Cardinality(s) = n => g[s] \in Nat
           Good == {n \in Nat : Natural(n)}
<1>2. \A s \in SUBSET D : IsFiniteSet(s) /\ Cardinality(s) \in Nat
  BY FS_Subset, FS_CardinalityType
<1>3. 0 \in Good
  <2>1. ASSUME NEW s \in SUBSET D, Cardinality(s) = 0 PROVE g[s] = 0
    <3>1. s = {}
      BY <2>1, <1>2, FS_EmptySet
    <3>. QED
      BY <3>1, <1>1 DEF Unfolds
  <2>. QED
    BY <2>1
<1>4. ASSUME NEW n \in Good PROVE n + 1 \in Good
  <2>1. ASSUME NEW s \in SUBSET D, Cardinality(s) = n + 1
        PROVE  g[s] \in Nat
    <3>1. s # {}
      BY <2>1, FS_EmptySet
    <3>2. First(s) \in s
      BY <3>1 DEF First
    <3>3. Cardinality(s \ {First(s)}) = n
      BY <2>1, <3>2, <1>2, FS_RemoveElement
    <3>4. g[s \ {First(s)}] \in Nat
      BY <3>3
    <3>5. g[s] = f[First(s)] + g[s \ {First(s)}]
      BY <3>1, <1>1 DEF Unfolds
    <3>. QED
      BY <3>2, <3>4, <3>5
  <2>. QED
    BY <2>1
<1>5. Good = Nat
  <2>1. Good \subseteq Nat
    OBVIOUS
  <2>. HIDE DEF Good
  <2>. QED
    BY <2>1, <1>3, <1>4, InductiveSet
<1>6. Cardinality(D) \in Good
  <2>. HIDE DEF Good
  <2>. QED
    BY <1>5, FS_CardinalityType
<1>. QED
  BY <1>1, <1>6

\* What holds of the empty set and of every set that it holds of without its
\* first element holds of all.
LEMMA SetByFirst ==
  ASSUME NEW D, IsFiniteSet(D), NEW P, P \subseteq SUBSET D, {} \in P,
         \A s \in SUBSET D : s # {} /\ s \ {First(s)} \in P => s \in P
  PROVE  D \in P
<1>. DEFINE Good == {n \in Nat : \A s \in SUBSET D :
                                   Cardinality(s) = n => s \in P}
<1>1. \A s \in SUBSET D : IsFiniteSet(s) /\ Cardinality(s) \in Nat
  BY FS_Subset, FS_CardinalityType
<1>2. 0 \in Good
  BY <1>1, FS_EmptySet
<1>3. ASSUME NEW n \in Good PROVE n + 1 \in Good
  <2>1. ASSUME NEW s \in SUBSET D, Cardinality(s) = n + 1 PROVE s \in P
    <3>1. s # {}
      <4>1. n + 1 # 0
        OBVIOUS
      <4>. QED
        BY ONLY <2>1, <4>1, FS_EmptySet
    <3>2. First(s) \in s
      BY <3>1 DEF First
    <3>3. Cardinality(s \ {First(s)}) = n
      BY <2>1, <3>2, <1>1, FS_RemoveElement
    <3>4. s \ {First(s)} \in P
      BY <3>3
    <3>. QED
      BY <3>1, <3>4
  <2>. QED
    BY <2>1
<1>4. Good = Nat
  <2>1. Good \subseteq Nat
    OBVIOUS
  <2>. HIDE DEF Good
  <2>. QED
    BY <2>1, <1>2, <1>3, InductiveSet
<1>5. Cardinality(D) \in Good
  <2>. HIDE DEF Good
  <2>. QED
    BY <1>4, FS_CardinalityType
<1>. QED
  BY <1>5

\* A sum of integers is one.
LEMMA SumOfInts ==
  ASSUME NEW D, IsFiniteSet(D), NEW f \in [D -> Int]
  PROVE  /\ SumFunction(f) \in Int
         /\ \E g : /\ SumFunction(f) = g[D]
                   /\ \A s \in SUBSET D : Unfolds(f, g, s) /\ g[s] \in Int
<1>1. PICK g : SumFunction(f) = g[D] /\ \A s \in SUBSET D : Unfolds(f, g, s)
  BY SumIs
<1>. DEFINE P == {s \in SUBSET D : g[s] \in Int}
<1>2. {} \in P
  <2>1. Unfolds(f, g, {})
    BY <1>1
  <2>2. g[{}] = 0
    BY <2>1 DEF Unfolds
  <2>. QED
    BY <2>2
<1>3. ASSUME NEW s \in SUBSET D, s # {}, s \ {First(s)} \in P PROVE s \in P
  <2>1. First(s) \in s /\ g[s] = f[First(s)] + g[s \ {First(s)}]
    BY <1>1, <1>3 DEF Unfolds
  <2>. QED
    BY <1>3, <2>1
<1>4. ASSUME NEW d \in SUBSET D PROVE g[d] \in Int
  <2>1. PICK Q : Q = P \cap SUBSET d
    OBVIOUS
  <2>2. ASSUME NEW s \in SUBSET d, s # {}, s \ {First(s)} \in Q PROVE s \in Q
    <3>1. s \in SUBSET D /\ s \ {First(s)} \in P
      BY <2>1, <2>2
    <3>2. s \in P
      BY <1>3, <2>2, <3>1
    <3>. QED
      BY <2>1, <3>2
  <2>3. IsFiniteSet(d)
    BY FS_Subset
  <2>4. {} \in Q /\ Q \subseteq SUBSET d
    BY <1>2, <2>1
  <2>5. d \in Q
    BY ONLY <2>2, <2>3, <2>4, SetByFirst
  <2>. QED
    BY <2>1, <2>5
<1>. QED
  BY <1>1, <1>4

\* The values of a sum may be bounded one by one.
LEMMA SumBounded ==
  ASSUME NEW D, IsFiniteSet(D), NEW m \in Nat, NEW f \in [D -> 0 .. m]
  PROVE  /\ SumFunction(f) \in Nat
         /\ SumFunction(f) <= m * Cardinality(D)
<1>1. PICK g : SumFunction(f) = g[D] /\ \A s \in SUBSET D : Unfolds(f, g, s)
  BY SumIs
<1>2. \A s \in SUBSET D : IsFiniteSet(s) /\ Cardinality(s) \in Nat
  BY FS_Subset, FS_CardinalityType
<1>. DEFINE P == {s \in SUBSET D : g[s] \in Nat /\ g[s] <= m * Cardinality(s)}
<1>3. {} \in P
  <2>1. Unfolds(f, g, {})
    BY <1>1
  <2>2. g[{}] = 0 /\ Cardinality({}) = 0 /\ m * 0 = 0
    BY <2>1, FS_EmptySet DEF Unfolds
  <2>. QED
    BY <2>2
<1>4. ASSUME NEW s \in SUBSET D, s # {}, s \ {First(s)} \in P PROVE s \in P
  <2>1. First(s) \in s /\ g[s] = f[First(s)] + g[s \ {First(s)}]
    BY <1>1, <1>4 DEF Unfolds
  <2>2. PICK n \in Nat : n = Cardinality(s \ {First(s)})
    BY <1>2
  <2>3. Cardinality(s) = n + 1
    BY <1>2, <2>1, <2>2, FS_RemoveElement
  <2>4. m * (n + 1) = m * n + m
    OBVIOUS
  <2>5. m * n \in Nat
    OBVIOUS
  <2>6. f[First(s)] \in 0 .. m
    BY <2>1
  <2>7. g[s \ {First(s)}] \in Nat /\ g[s \ {First(s)}] <= m * n
    BY <1>4, <2>2
  <2>8. g[s] \in Nat /\ g[s] <= m * (n + 1)
    BY ONLY <2>1, <2>4, <2>5, <2>6, <2>7
  <2>. QED
    BY <2>3, <2>8
<1>5. D \in P
  <2>. HIDE DEF P
  <2>1. P \subseteq SUBSET D
    BY DEF P
  <2>. QED
    BY <1>3, <1>4, <2>1, SetByFirst
<1>. QED
  BY <1>1, <1>5

\* h is c times f and r.
Combines(D, h, c, f, r) ==
  /\ c \in Int
  /\ f \in [D -> Int] /\ r \in [D -> Int] /\ h \in [D -> Int]
  /\ \A x \in D : h[x] = c * f[x] + r[x]

\* Sums of multiples and of sums.
LEMMA SumOfCombination ==
  ASSUME NEW D, IsFiniteSet(D), NEW c, NEW f, NEW r, NEW h,
         Combines(D, h, c, f, r)
  PROVE  SumFunction(h) = c * SumFunction(f) + SumFunction(r)
<1>1. /\ c \in Int
      /\ f \in [D -> Int] /\ r \in [D -> Int] /\ h \in [D -> Int]
      /\ \A x \in D : h[x] = c * f[x] + r[x]
  BY DEF Combines
<1>2. PICK F : /\ SumFunction(f) = F[D]
               /\ \A s \in SUBSET D : Unfolds(f, F, s) /\ F[s] \in Int
  BY <1>1, SumOfInts
<1>3. PICK R : /\ SumFunction(r) = R[D]
               /\ \A s \in SUBSET D : Unfolds(r, R, s) /\ R[s] \in Int
  BY <1>1, SumOfInts
<1>4. PICK H : /\ SumFunction(h) = H[D]
               /\ \A s \in SUBSET D : Unfolds(h, H, s) /\ H[s] \in Int
  BY <1>1, SumOfInts
<1>. DEFINE P == {s \in SUBSET D : H[s] = c * F[s] + R[s]}
<1>5. {} \in P
  <2>1. F[{}] = 0 /\ R[{}] = 0 /\ H[{}] = 0
    BY <1>2, <1>3, <1>4 DEF Unfolds
  <2>2. c * 0 + 0 = 0
    BY <1>1
  <2>. QED
    BY <2>1, <2>2
<1>6. ASSUME NEW s \in SUBSET D, s # {}, s \ {First(s)} \in P PROVE s \in P
  <2>1. PICK x, t : x = First(s) /\ t = s \ {First(s)}
    OBVIOUS
  <2>2. /\ x \in D /\ t \in SUBSET D
        /\ F[s] = f[x] + F[t] /\ R[s] = r[x] + R[t] /\ H[s] = h[x] + H[t]
    BY <1>2, <1>3, <1>4, <1>6, <2>1 DEF Unfolds
  <2>3. /\ f[x] \in Int /\ r[x] \in Int /\ F[t] \in Int /\ R[t] \in Int
        /\ h[x] = c * f[x] + r[x] /\ H[t] = c * F[t] + R[t]
    BY <1>1, <1>2, <1>3, <1>6, <2>1, <2>2
  <2>4. c * (f[x] + F[t]) = c * f[x] + c * F[t]
    BY ONLY <1>1, <2>3
  <2>5. c * f[x] \in Int /\ c * F[t] \in Int
    BY <1>1, <2>3
  <2>6. H[s] = c * F[s] + R[s]
    BY ONLY <2>2, <2>3, <2>4, <2>5
  <2>. QED
    BY <2>6
<1>7. D \in P
  <2>. HIDE DEF P
  <2>1. P \subseteq SUBSET D
    BY DEF P
  <2>. QED
    BY <1>5, <1>6, <2>1, SetByFirst
<1>. QED
  BY <1>2, <1>3, <1>4, <1>7

\* h is f, with one more where T is.
Marks(D, h, f, T) ==
  /\ T \in SUBSET D
  /\ f \in [D -> Int] /\ h \in [D -> Int]
  /\ \A x \in D : h[x] = f[x] + IF x \in T THEN 1 ELSE 0

\* One more for each element of a set.
LEMMA SumOfMarked ==
  ASSUME NEW D, IsFiniteSet(D), NEW T, NEW f, NEW h, Marks(D, h, f, T)
  PROVE  SumFunction(h) = SumFunction(f) + Cardinality(T)
<1>1. /\ T \in SUBSET D
      /\ f \in [D -> Int] /\ h \in [D -> Int]
      /\ \A x \in D : h[x] = f[x] + IF x \in T THEN 1 ELSE 0
  BY DEF Marks
<1>2. PICK F : /\ SumFunction(f) = F[D]
               /\ \A s \in SUBSET D : Unfolds(f, F, s) /\ F[s] \in Int
  BY <1>1, SumOfInts
<1>3. PICK H : /\ SumFunction(h) = H[D]
               /\ \A s \in SUBSET D : Unfolds(h, H, s) /\ H[s] \in Int
  BY <1>1, SumOfInts
<1>. DEFINE P == {s \in SUBSET D : H[s] = F[s] + Cardinality(s \cap T)}
<1>4. \A s \in SUBSET D : /\ IsFiniteSet(s \cap T)
                          /\ Cardinality(s \cap T) \in Nat
  <2>1. \A s \in SUBSET D : s \cap T \in SUBSET D
    BY <1>1
  <2>. QED
    BY <2>1, FS_Subset, FS_CardinalityType
<1>5. {} \in P
  <2>1. F[{}] = 0 /\ H[{}] = 0 /\ {} \cap T = {} /\ Cardinality({}) = 0
    BY <1>2, <1>3, FS_EmptySet DEF Unfolds
  <2>. QED
    BY <2>1
<1>6. ASSUME NEW s \in SUBSET D, s # {}, s \ {First(s)} \in P PROVE s \in P
  <2>1. PICK x, t : x = First(s) /\ t = s \ {First(s)}
    OBVIOUS
  <2>2. /\ x \in s /\ t \in SUBSET D
        /\ F[s] = f[x] + F[t] /\ H[s] = h[x] + H[t]
    BY <1>2, <1>3, <1>6, <2>1 DEF Unfolds
  <2>3. /\ f[x] \in Int /\ F[t] \in Int
        /\ h[x] = f[x] + IF x \in T THEN 1 ELSE 0
        /\ H[t] = F[t] + Cardinality(t \cap T)
    BY <1>1, <1>2, <1>6, <2>1, <2>2
  <2>4. Cardinality(s \cap T)
          = Cardinality(t \cap T) + IF x \in T THEN 1 ELSE 0
    <3>1. t \cap T = (s \cap T) \ {x}
      BY <2>1
    <3>2. x \in s \cap T <=> x \in T
      BY <2>2
    <3>3. IsFiniteSet(s \cap T)
      BY <1>4
    <3>4. Cardinality((s \cap T) \ {x})
            = IF x \in s \cap T THEN Cardinality(s \cap T) - 1
                                ELSE Cardinality(s \cap T)
      BY ONLY <3>3, FS_RemoveElement
    <3>5. Cardinality(s \cap T) \in Nat
      BY <1>4
    <3>6. Cardinality(t \cap T)
            = IF x \in T THEN Cardinality(s \cap T) - 1
                         ELSE Cardinality(s \cap T)
      BY <3>1, <3>2, <3>4, Zenon
    <3>. QED
      BY ONLY <3>5, <3>6
  <2>5. Cardinality(t \cap T) \in Nat
    BY <1>4, <2>2
  <2>6. H[s] = F[s] + Cardinality(s \cap T)
    BY ONLY <2>2, <2>3, <2>4, <2>5
  <2>. QED
    BY <2>6
<1>7. D \in P
  <2>. HIDE DEF P
  <2>1. P \subseteq SUBSET D
    BY DEF P
  <2>. QED
    BY <1>5, <1>6, <2>1, SetByFirst
<1>8. D \cap T = T
  BY <1>1
<1>. QED
  BY <1>2, <1>3, <1>7, <1>8

(***************************************************************************)
(* Largest remainders                                                      *)
(***************************************************************************)

\* A strict order on 1 .. n, by what comes before each.
Orders(n, before) ==
  /\ before \in [1 .. n -> SUBSET (1 .. n)]
  /\ \A i \in 1 .. n : i \notin before[i]
  /\ \A i, j \in 1 .. n : i # j => i \in before[j] \/ j \in before[i]
  /\ \A i, j \in 1 .. n : i \in before[j] => before[i] \subseteq before[j]

\* Among n things in a strict order, each has a place of its own: the number of
\* those before it.  So as many have one of the first k places as there are
\* such places.
LEMMA Places ==
  ASSUME NEW n \in Nat, NEW k \in 0 .. n, NEW before, Orders(n, before)
  PROVE  Cardinality({i \in 1 .. n : Cardinality(before[i]) < k}) = k
<1>. DEFINE D == 1 .. n
            place == [i \in D |-> Cardinality(before[i])]
            Early == {i \in D : place[i] < k}
            Late == D \ Early
<1>. USE DEF Orders
<1>1. IsFiniteSet(D) /\ Cardinality(D) = n
  <2>1. 1 \in Int /\ n \in Int
    OBVIOUS
  <2>2. /\ IsFiniteSet(1 .. n)
        /\ Cardinality(1 .. n) = IF 1 > n THEN 0 ELSE n - 1 + 1
    BY <2>1, FS_Interval, Zenon
  <2>. QED
    BY <2>2
<1>2. ASSUME NEW i \in D
      PROVE  IsFiniteSet(before[i]) /\ place[i] \in 0 .. n - 1
  <2>1. before[i] \in SUBSET D /\ i \in D \ before[i]
    OBVIOUS
  <2>2. /\ IsFiniteSet(before[i]) /\ Cardinality(before[i]) \in Nat
        /\ Cardinality(before[i]) <= n
        /\ Cardinality(before[i]) = n => before[i] = D
    <3>. HIDE DEF D
    <3>. QED
      BY <1>1, <2>1, FS_Subset, FS_CardinalityType
  <2>. QED
    BY <2>1, <2>2
<1>3. ASSUME NEW i \in D, NEW j \in D, i \in before[j] PROVE place[i] < place[j]
  <2>1. before[i] \cup {i} \in SUBSET before[j]
    BY <1>3
  <2>2. IsFiniteSet(before[j]) /\ IsFiniteSet(before[i])
    BY <1>2
  <2>3. Cardinality(before[i] \cup {i}) = Cardinality(before[i]) + 1
    BY <2>2, FS_AddElement
  <2>4. Cardinality(before[i] \cup {i}) <= Cardinality(before[j])
    BY ONLY <2>1, <2>2, FS_Subset
  <2>5. place[i] \in Int /\ place[j] \in Int
    BY <1>2
  <2>. QED
    BY <2>3, <2>4, <2>5
<1>4. \A i, j \in D : place[i] = place[j] => i = j
  <2>1. ASSUME NEW i \in D, NEW j \in D, i # j PROVE place[i] # place[j]
    <3>1. place[i] \in Int /\ place[j] \in Int
      BY <1>2
    <3>2. place[i] < place[j] \/ place[j] < place[i]
      BY <1>3, <2>1
    <3>. QED
      BY <3>1, <3>2
  <2>. QED
    BY <2>1
<1>. HIDE DEF place
<1>5. Cardinality(Early) <= k
  <2>. DEFINE f == [i \in Early |-> place[i]]
  <2>1. f \in Injection(Early, 0 .. k - 1)
    BY <1>2, <1>4 DEF Injection, IsInjective
  <2>2. IsFiniteSet(0 .. k - 1) /\ Cardinality(0 .. k - 1) = k
    <3>1. 0 \in Int /\ k - 1 \in Int
      OBVIOUS
    <3>2. /\ IsFiniteSet(0 .. k - 1)
          /\ Cardinality(0 .. k - 1) = IF 0 > k - 1 THEN 0 ELSE k - 1 - 0 + 1
      BY <3>1, FS_Interval, Zenon
    <3>. QED
      BY <3>2
  <2>. HIDE DEF f, Early
  <2>3. Cardinality(Early) <= Cardinality(0 .. k - 1)
    BY ONLY <2>1, <2>2, FS_Injection
  <2>. QED
    BY <2>2, <2>3
<1>6. Cardinality(Late) <= n - k
  <2>. DEFINE f == [i \in Late |-> place[i]]
  <2>1. f \in Injection(Late, k .. n - 1)
    BY <1>2, <1>4 DEF Injection, IsInjective
  <2>2. IsFiniteSet(k .. n - 1) /\ Cardinality(k .. n - 1) = n - k
    <3>1. k \in Int /\ n - 1 \in Int
      OBVIOUS
    <3>2. /\ IsFiniteSet(k .. n - 1)
          /\ Cardinality(k .. n - 1) = IF k > n - 1 THEN 0 ELSE n - 1 - k + 1
      BY <3>1, FS_Interval, Zenon
    <3>. QED
      BY <3>2
  <2>. HIDE DEF f, Late
  <2>3. Cardinality(Late) <= Cardinality(k .. n - 1)
    BY ONLY <2>1, <2>2, FS_Injection
  <2>. QED
    BY <2>2, <2>3
<1>7. Cardinality(Late) = n - Cardinality(Early) /\ Cardinality(Early) \in Nat
  <2>1. Early \in SUBSET D /\ D \cap Early = Early
    OBVIOUS
  <2>. HIDE DEF D, Early
  <2>. QED
    BY <1>1, <2>1, FS_Subset, FS_CardinalityType, FS_Difference
<1>8. Cardinality(Early) = k
  <2>. HIDE DEF Early, Late
  <2>. QED
    BY <1>5, <1>6, <1>7
<1>9. Early = {i \in 1 .. n : Cardinality(before[i]) < k}
  BY DEF place
<1>. QED
  BY <1>8, <1>9

\* A product grows with its second factor.
LEMMA ProductGrows ==
  ASSUME NEW w \in Nat, NEW a \in Int, NEW b \in Int, a <= b
  PROVE  w * a <= w * b
<1>1. b - a \in Nat
  OBVIOUS
<1>2. w * (b - a) \in Nat
  BY <1>1
<1>3. w * (b - a) = w * b - w * a /\ w * a \in Int /\ w * b \in Int
  OBVIOUS
<1>. QED
  BY <1>2, <1>3

\* What is left when n remainders below w add up to l times w.
LEMMA LeftoverWithin ==
  ASSUME NEW w \in Nat \ {0}, NEW n \in Nat \ {0}, NEW l \in Int, NEW s \in Nat,
         w * l = s, s <= (w - 1) * n
  PROVE  l \in 0 .. n - 1
<1>1. ~(l < 0)
  <2>1. ASSUME l < 0 PROVE FALSE
    <3>1. w * l <= w * (-1)
      BY <2>1, ProductGrows
    <3>2. w * (-1) = -w
      OBVIOUS
    <3>. QED
      BY <3>1, <3>2
  <2>. QED
    BY <2>1
<1>2. ~(n <= l)
  <2>1. ASSUME n <= l PROVE FALSE
    <3>1. w * n <= w * l
      BY <2>1, ProductGrows
    <3>2. (w - 1) * n = w * n - n /\ w * n \in Nat
      OBVIOUS
    <3>. QED
      BY <3>1, <3>2
  <2>. QED
    BY <2>1
<1>. QED
  BY <1>1, <1>2

\* Division with a remainder.
LEMMA Division ==
  ASSUME NEW a \in Nat, NEW w \in Nat \ {0}
  PROVE  /\ a \div w \in Nat /\ a % w \in 0 .. w - 1
         /\ a = w * (a \div w) + (a % w)
  OBVIOUS

\* Whatever an amount is split by, the parts add up to it: no cent is lost or
\* made, and fewer are left over than there are parts (Allocate).
THEOREM AllocatePreservesTotal ==
  ASSUME NEW weights \in Seq(Nat), SumFunction(weights) # 0, NEW cents \in Nat
  PROVE  /\ SumFunction(Allocate(cents, weights)) = cents
         /\ cents - SumFunction(AllocateFloors(cents, weights))
              \in 0 .. Len(weights) - 1
<1>. DEFINE n == Len(weights)
            D == 1 .. n
            w == SumFunction(weights)
            floors == AllocateFloors(cents, weights)
            rest == [i \in D |-> Remainder(cents, weights, i)]
            left == cents - SumFunction(floors)
            before == [i \in D |-> Ahead(cents, weights, i)]
            parts == Allocate(cents, weights)
<1>1. n \in Nat /\ DOMAIN weights = D /\ weights \in [D -> Nat]
  OBVIOUS
<1>2. IsFiniteSet(D) /\ Cardinality(D) = n
  <2>1. 1 \in Int /\ n \in Int
    BY <1>1
  <2>2. /\ IsFiniteSet(1 .. n)
        /\ Cardinality(1 .. n) = IF 1 > n THEN 0 ELSE n - 1 + 1
    BY <2>1, FS_Interval, Zenon
  <2>. QED
    BY <1>1, <2>2
<1>. HIDE DEF n, D
<1>3. w \in Nat \ {0}
  BY <1>1, <1>2, SumOfNats
<1>4. n # 0
  <2>1. ASSUME n = 0 PROVE FALSE
    <3>1. DOMAIN weights = {}
      BY <1>1, <2>1 DEF D
    <3>. QED
      BY <3>1, SumOfNone
  <2>. QED
    BY <2>1
<1>5. /\ floors = [i \in D |-> (cents * weights[i]) \div w]
      /\ rest = [i \in D |-> (cents * weights[i]) % w]
  BY <1>1 DEF AllocateFloors, Share, Remainder
<1>. HIDE DEF w, floors, rest
<1>6. ASSUME NEW i \in D
      PROVE  /\ cents * weights[i] \in Nat
             /\ floors[i] \in Nat /\ rest[i] \in 0 .. w - 1
             /\ cents * weights[i] = w * floors[i] + rest[i]
  <2>1. cents * weights[i] \in Nat
    BY <1>1
  <2>2. PICK a \in Nat : a = cents * weights[i]
    BY <2>1
  <2>3. floors[i] = a \div w /\ rest[i] = a % w
    BY <1>5, <2>2
  <2>. QED
    BY ONLY <1>3, <2>2, <2>3, Division
<1>7. /\ floors \in [D -> Int] /\ rest \in [D -> Int]
      /\ rest \in [D -> 0 .. w - 1] /\ w - 1 \in Nat
  BY <1>3, <1>5, <1>6
<1>8. left \in 0 .. n - 1
  <2>. DEFINE scaled == [i \in D |-> cents * weights[i]]
              none == [i \in D |-> 0]
  <2>1. /\ scaled \in [D -> Int] /\ none \in [D -> Int]
        /\ none \in [D -> 0 .. 0]
        /\ weights \in [D -> Int]
        /\ \A i \in D : scaled[i] = w * floors[i] + rest[i]
        /\ \A i \in D : scaled[i] = cents * weights[i] + none[i]
    BY <1>1, <1>6
  <2>. HIDE DEF scaled, none
  <2>2. w \in Int /\ cents \in Int /\ 0 \in Nat
    BY <1>3
  <2>3. SumFunction(scaled) = w * SumFunction(floors) + SumFunction(rest)
    <3>1. Combines(D, scaled, w, floors, rest)
      BY <1>7, <2>1, <2>2 DEF Combines
    <3>. QED
      BY ONLY <1>2, <3>1, SumOfCombination
  <2>4. SumFunction(scaled) = cents * SumFunction(weights) + SumFunction(none)
    <3>1. Combines(D, scaled, cents, weights, none)
      BY <2>1, <2>2 DEF Combines
    <3>. QED
      BY ONLY <1>2, <3>1, SumOfCombination
  <2>5. SumFunction(none) = 0
    <3>1. SumFunction(none) \in Nat /\ SumFunction(none) <= 0 * Cardinality(D)
      BY ONLY <1>2, <2>1, <2>2, SumBounded
    <3>2. 0 * n = 0
      BY <1>1
    <3>. QED
      BY <1>2, <3>1, <3>2
  <2>6. /\ SumFunction(rest) \in Nat
        /\ SumFunction(rest) <= (w - 1) * Cardinality(D)
    BY ONLY <1>2, <1>7, SumBounded
  <2>7. SumFunction(floors) \in Int
    BY ONLY <1>2, <1>7, SumOfInts
  <2>8. PICK f, r : f = SumFunction(floors) /\ r = SumFunction(rest)
    OBVIOUS
  <2>9. /\ f \in Int /\ r \in Nat /\ r <= (w - 1) * n
        /\ cents * w + 0 = w * f + r
    BY <1>2, <2>3, <2>4, <2>5, <2>6, <2>7, <2>8 DEF w
  <2>10. w * (cents - f) = r
    <3>1. w * (cents - f) = w * cents - w * f /\ w * cents = cents * w
      BY ONLY <1>3, <2>2, <2>9
    <3>2. w * cents \in Int /\ w * f \in Int
      BY ONLY <1>3, <2>2, <2>9
    <3>. QED
      BY ONLY <2>9, <3>1, <3>2
  <2>11. cents - f \in 0 .. n - 1
    <3>1. cents - f \in Int /\ n \in Nat \ {0}
      BY <1>1, <1>4, <2>9
    <3>. QED
      BY ONLY <1>3, <2>9, <2>10, <3>1, LeftoverWithin
  <2>. QED
    BY <2>8, <2>11
<1>9. Cardinality({i \in 1 .. n : Cardinality(before[i]) < left}) = left
  <2>1. \A i \in D : before[i] =
          {j \in D : \/ rest[j] > rest[i]
                     \/ rest[j] = rest[i] /\ j < i}
    BY <1>1 DEF Ahead, rest
  <2>2. \A i \in D : rest[i] \in Int /\ i \in Int
    BY <1>1, <1>7 DEF D
  <2>3. before \in [D -> SUBSET D]
    BY <2>1
  <2>. HIDE DEF before
  <2>4. \A i \in D : i \notin before[i]
    BY <2>1, <2>2
  <2>5. \A i, j \in D : i # j => i \in before[j] \/ j \in before[i]
    BY <2>1, <2>2
  <2>6. \A i, j \in D : i \in before[j] => before[i] \subseteq before[j]
    BY <2>1, <2>2
  <2>7. left \in 0 .. n
    BY <1>1, <1>8
  <2>. HIDE DEF left
  <2>. QED
    <3>1. Orders(n, before)
      BY <2>3, <2>4, <2>5, <2>6 DEF Orders, D
    <3>. QED
      BY ONLY <1>1, <2>7, <3>1, Places
<1>10. SumFunction(parts) = SumFunction(floors) + left
  <2>. DEFINE Lucky == {i \in 1 .. n : Cardinality(before[i]) < left}
  <2>1. parts = [i \in D |-> floors[i] + IF Cardinality(before[i]) < left
                                           THEN 1 ELSE 0]
    BY <1>1 DEF Allocate, floors
  <2>2. Lucky \in SUBSET D /\ \A i \in D : i \in Lucky
                              <=> Cardinality(before[i]) < left
    BY DEF D
  <2>. HIDE DEF Lucky, before, left, parts
  <2>3. \A i \in D : parts[i] = floors[i] + IF i \in Lucky THEN 1 ELSE 0
    BY <2>1, <2>2
  <2>4. parts \in [D -> Int]
    BY <1>7, <2>1
  <2>5. SumFunction(parts) = SumFunction(floors) + Cardinality(Lucky)
    <3>1. Marks(D, parts, floors, Lucky)
      BY <1>7, <2>2, <2>3, <2>4 DEF Marks
    <3>. QED
      BY ONLY <1>2, <3>1, SumOfMarked
  <2>. QED
    BY <1>9, <2>5 DEF Lucky
<1>11. SumFunction(floors) \in Int
  BY ONLY <1>2, <1>7, SumOfInts
<1>. QED
  BY <1>8, <1>10, <1>11 DEF floors, n

(***************************************************************************)
(* Prices                                                                  *)
(***************************************************************************)

\* Min of two amounts, which only promises a least element.
LEMMA MinOfTwo ==
  ASSUME NEW a \in Int, NEW b \in Int
  PROVE  Min({a, b}) = IF a <= b THEN a ELSE b
  BY DEF Min

LEMMA AtLeastZeroIs ==
  ASSUME NEW n \in Int
  PROVE  AtLeastZero(n) = IF n >= 0 THEN n ELSE 0
  BY DEF AtLeastZero, Max

\* Two shares of s * 100 hundredths of a cent, x and the rest, rounded down,
\* leave nothing over or one cent; and the one with the larger remainder is x
\* if half a cent or more is lost there.
LEMMA Hundredths ==
  ASSUME NEW s \in Nat, NEW x \in Nat, x <= 100 * s,
         NEW q, q = x \div 100, NEW r, r = x % 100
  PROVE  LET y == 100 * s - x IN
         /\ q \in Nat /\ r \in 0 .. 99 /\ x = 100 * q + r
         /\ (2 * x + 100) \div 200 = q + (IF r >= 50 THEN 1 ELSE 0)
         /\ r = 0 => y % 100 = 0 /\ s - (q + (y \div 100)) = 0
         /\ r > 0 => y % 100 = 100 - r /\ s - (q + (y \div 100)) = 1
         /\ (2 * x + 100) \div 200 \in 0 .. s
  OBVIOUS

\* The share of v percent is rounded half up and within the amount (Allocate,
\* computeDiscountCents).
LEMMA PercentIs ==
  ASSUME NEW s \in Nat, NEW v \in 0 .. 100
  PROVE  /\ Allocate(s, <<v, 100 - v>>)[1] = (2 * s * v + 100) \div 200
         /\ Allocate(s, <<v, 100 - v>>)[1] \in 0 .. s
<1>. DEFINE w == <<v, 100 - v>>
           x == s * v
           q == x \div 100
           r == x % 100
           y == 100 * s - x
           floors == AllocateFloors(s, w)
<1>1. /\ w \in [1 .. 2 -> Int] /\ DOMAIN w = 1 .. 2
      /\ w[1] = v /\ w[2] = 100 - v
  OBVIOUS
<1>2. SumFunction(w) = 100
  <2>. HIDE DEF w
  <2>. QED
    BY <1>1, SumOfTwo
<1>3. x \in Nat /\ s * (100 - v) = y /\ y \in Nat /\ x <= 100 * s
  <2>1. x \in Nat /\ s * (100 - v) \in Nat
    OBVIOUS
  <2>2. s * (100 - v) = 100 * s - x
    OBVIOUS
  <2>. QED
    BY <2>1, <2>2
<1>4. 2 * s * v = 2 * x
  OBVIOUS
<1>. HIDE DEF x
<1>5. /\ q \in Nat /\ r \in 0 .. 99 /\ x = 100 * q + r
      /\ (2 * x + 100) \div 200 = q + (IF r >= 50 THEN 1 ELSE 0)
      /\ r = 0 => y % 100 = 0 /\ s - (q + (y \div 100)) = 0
      /\ r > 0 => y % 100 = 100 - r /\ s - (q + (y \div 100)) = 1
      /\ (2 * x + 100) \div 200 \in 0 .. s
  BY <1>3, Hundredths
<1>6. /\ floors \in [1 .. 2 -> Int]
      /\ floors[1] = q /\ floors[2] = y \div 100
  BY <1>1, <1>2, <1>3 DEF AllocateFloors, Share, x
<1>7. SumFunction(floors) = q + (y \div 100)
  <2>. HIDE DEF floors, q
  <2>. QED
    BY <1>6, SumOfTwo
<1>8. Remainder(s, w, 1) = r /\ Remainder(s, w, 2) = y % 100
  BY <1>1, <1>2, <1>3 DEF Remainder, x
<1>9. Ahead(s, w, 1) = IF y % 100 > r THEN {2} ELSE {}
  <2>. HIDE DEF w, r, y
  <2>. QED
    BY <1>1, <1>5, <1>8 DEF Ahead
<1>10. Cardinality(Ahead(s, w, 1)) = IF y % 100 > r THEN 1 ELSE 0
  <2>. HIDE DEF w, r, y
  <2>1. Cardinality({2}) = 1 /\ Cardinality({}) = 0
    BY FS_Singleton, FS_EmptySet
  <2>. QED
    BY ONLY <1>9, <2>1
<1>11. Allocate(s, w)[1]
         = q + IF Cardinality(Ahead(s, w, 1)) < s - (q + (y \div 100))
                 THEN 1 ELSE 0
  <2>. HIDE DEF w, q, y
  <2>. QED
    BY <1>1, <1>6, <1>7 DEF Allocate
<1>12. Allocate(s, w)[1] = (2 * x + 100) \div 200
  <2>. HIDE DEF w, q, y, r
  <2>. QED
    BY <1>5, <1>10, <1>11
<1>. QED
  BY <1>4, <1>5, <1>12

(***************************************************************************)
(* The inductive invariant                                                 *)
(***************************************************************************)

Steps == {"idle", "codes", "items", "price", "redeem"}

Jobs == [goal : {"show", "attach", "order"}, code : Codes \cup {None},
         freight : Nat]

CartTypes ==
  /\ quantity \in [Variants -> Nat]
  /\ applied \subseteq Codes
  /\ ended \subseteq Codes

RequestTypes ==
  /\ pc \in [Tabs -> Steps]
  /\ job \in [Tabs -> Jobs \cup {None}]
  /\ \A t \in Tabs : pc[t] # "idle" =>
       /\ job[t] \in Jobs
       /\ job[t].goal = "attach" => job[t].code \in Codes
  /\ lines \in [Tabs -> [Variants -> Nat]]
  /\ codes \in [Tabs -> SUBSET Codes]
  /\ todo \in [Tabs -> SUBSET Codes]

QuoteTypes ==
  /\ fresh \subseteq Tabs
  /\ shown \in [Tabs -> [total : Nat, priced : BOOLEAN] \cup {None}]

TypeOK == CartTypes /\ RequestTypes /\ QuoteTypes

\* What GetCart shows of the cart as it is now, with its discounts or without.
Offered ==
  {[total  |-> AtLeastZero(Subtotal(quantity)
                             - Sum(Discounts(applied, quantity))),
    priced |-> TRUE],
   [total |-> Subtotal(quantity), priced |-> FALSE]}

\* A GetCart that no write has overtaken has read the cart as it is now.
ShowsCurrent ==
  \A t \in fresh : pc[t] \in {"items", "price"} /\ job[t].goal = "show" =>
    /\ codes[t] = applied
    /\ pc[t] = "price" => lines[t] = quantity

\* What a tab has been shown since the last write is the cart as it is now.
QuoteCurrent == \A t \in Tabs : shown[t] # None => shown[t] \in Offered

\* An order that a tab with such a quote has begun has read the same cart.
OrdersCurrent ==
  \A t \in Tabs :
    shown[t] # None /\ pc[t] \in {"codes", "price"} /\ job[t].goal = "order" =>
      /\ lines[t] = quantity
      /\ pc[t] = "price" => codes[t] = applied

IInv == TypeOK /\ ShowsCurrent /\ QuoteCurrent /\ OrdersCurrent

(***************************************************************************)
(* Amounts                                                                 *)
(***************************************************************************)

\* Prices times quantities.
LEMMA SubtotalType ==
  ASSUME NEW q \in [Variants -> Nat]
  PROVE  Subtotal(q) \in Nat
<1>. DEFINE cost == [v \in Variants |-> PriceOf[v] * q[v]]
<1>1. cost \in [Variants -> Nat]
  <2>1. \A a, b \in Nat : a * b \in Nat
    OBVIOUS
  <2>. QED
    BY <2>1, PricesPaid
<1>2. SumFunction(cost) \in Nat
  <2>. HIDE DEF cost
  <2>. QED
    BY <1>1, SumOfNats, VariantsAreFinite
<1>. QED
  BY <1>2 DEF Subtotal

\* No coupon alone takes off more than the goods cost.
LEMMA DiscountWithin ==
  ASSUME NEW s \in Nat, NEW c \in Codes
  PROVE  computeDiscountCents(s, Offer[c]) \in 0 .. s
<1>1. Offer[c].kind \in {"percent", "fixed"} /\ Offer[c].value \in Nat
  BY Offers
<1>2. CASE Offer[c].kind = "percent"
  <2>1. Offer[c].value \in 0 .. 100
    BY <1>1, <1>2, Percentages
  <2>. QED
    BY <1>2, <2>1, PercentIs DEF computeDiscountCents
<1>3. CASE Offer[c].kind # "percent"
  BY <1>1, <1>3, MinOfTwo DEF computeDiscountCents
<1>. QED
  BY <1>2, <1>3

LEMMA DiscountsType ==
  ASSUME NEW q \in [Variants -> Nat], NEW C \in SUBSET Codes
  PROVE  /\ Discounts(C, q) \in [C -> 0 .. Subtotal(q)]
         /\ Sum(Discounts(C, q)) \in Nat
<1>1. Discounts(C, q) \in [C -> 0 .. Subtotal(q)]
  BY SubtotalType, DiscountWithin DEF Discounts
<1>2. Discounts(C, q) \in [C -> Nat]
  BY <1>1, SubtotalType
<1>3. IsFiniteSet(C)
  BY CodesAreFinite, FS_Subset
<1>. QED
  BY <1>1, <1>2, <1>3, SumOfNats DEF Sum

(***************************************************************************)
(* Steps                                                                   *)
(***************************************************************************)

\* Nobody has been shown anything.
LEMMA InitIInv == Init => IInv
  BY DEF Init, Empty, IInv, TypeOK, CartTypes, RequestTypes, QuoteTypes, Steps,
         ShowsCurrent, QuoteCurrent, OrdersCurrent

\* A handler that begins, ends or hands over to GetCart.
LEMMA GoTypes ==
  ASSUME RequestTypes, NEW t \in Tabs, NEW j, NEW s \in Steps,
         \/ j = None /\ s = "idle"
         \/ j \in Jobs /\ (j.goal = "attach" => j.code \in Codes),
         Go(t, j, s)
  PROVE  RequestTypes'
  BY DEF RequestTypes, Go, Empty, Jobs, Steps

LEMMA EndTypes ==
  ASSUME RequestTypes, NEW t \in Tabs, End(t)
  PROVE  RequestTypes'
  BY GoTypes DEF End, Steps

LEMMA JobTypes ==
  ASSUME NEW g \in {"show", "attach", "order"}, NEW c \in Codes \cup {None},
         NEW f \in Nat
  PROVE  Job(g, c, f) \in Jobs /\ Job(g, c, f).goal = g /\ Job(g, c, f).code = c
  BY DEF Job, Jobs

LEMMA ReshowTypes ==
  ASSUME RequestTypes, NEW t \in Tabs, Reshow(t)
  PROVE  RequestTypes'
<1>1. Job("show", None, 0) \in Jobs /\ Job("show", None, 0).goal = "show"
  BY JobTypes
<1>. QED
  BY <1>1, GoTypes DEF Reshow, Steps

\* After a write nobody has been shown the cart as it is.
LEMMA OvertakenStep ==
  ASSUME CartTypes', RequestTypes', Overtaken
  PROVE  IInv'
  BY DEF Overtaken, IInv, TypeOK, QuoteTypes, ShowsCurrent, QuoteCurrent,
         OrdersCurrent

\* GetCart forgets what was shown before.
LEMMA GetCartStep ==
  ASSUME IInv, NEW t \in Tabs, GetCart(t)
  PROVE  IInv'
<1>1. RequestTypes'
  BY ReshowTypes DEF IInv, TypeOK, GetCart
<1>2. CartTypes' /\ QuoteTypes'
  BY DEF IInv, TypeOK, GetCart, cart, CartTypes, QuoteTypes
<1>3. /\ \A u \in Tabs \ {t} : /\ pc'[u] = pc[u] /\ job'[u] = job[u]
                               /\ lines'[u] = lines[u] /\ codes'[u] = codes[u]
                               /\ shown'[u] = shown[u]
      /\ t \notin fresh' /\ fresh' \subseteq fresh /\ shown'[t] = None
      /\ UNCHANGED cart
  BY DEF IInv, TypeOK, RequestTypes, QuoteTypes, GetCart, Reshow, Go
<1>4. ShowsCurrent'
  BY <1>3 DEF IInv, TypeOK, QuoteTypes, ShowsCurrent, cart
<1>5. QuoteCurrent'
  BY <1>3 DEF IInv, QuoteCurrent, Offered, cart
<1>6. OrdersCurrent'
  BY <1>3 DEF IInv, OrdersCurrent, cart
<1>. QED
  BY <1>1, <1>2, <1>4, <1>5, <1>6 DEF IInv, TypeOK

\* The writes to the cart.
LEMMA WriteStep ==
  ASSUME IInv, NEW t \in Tabs,
         \/ ClearCart(t)
         \/ \E v \in Variants, n \in Nat :
              AddItem(t, v, n) \/ SetQuantity(t, v, n)
         \/ \E c \in Codes : RemoveCoupon(t, c)
         \/ AddCouponCode(t)
  PROVE  IInv'
<1>1. CASE ClearCart(t)
  <2>1. CartTypes' /\ RequestTypes'
    BY <1>1 DEF IInv, TypeOK, CartTypes, RequestTypes, ClearCart, Empty
  <2>. QED
    BY <1>1, <2>1, OvertakenStep DEF ClearCart
<1>2. ASSUME NEW v \in Variants, NEW n \in Nat, AddItem(t, v, n)
      PROVE  IInv'
  <2>1. CartTypes' /\ RequestTypes'
    BY <1>2 DEF IInv, TypeOK, CartTypes, RequestTypes, AddItem
  <2>. QED
    BY <1>2, <2>1, OvertakenStep DEF AddItem
<1>3. ASSUME NEW v \in Variants, NEW n \in Nat, SetQuantity(t, v, n)
      PROVE  IInv'
  <2>1. CartTypes'
    BY <1>3 DEF IInv, TypeOK, CartTypes, SetQuantity
  <2>2. RequestTypes'
    BY <1>3, ReshowTypes DEF IInv, TypeOK, SetQuantity
  <2>. QED
    BY <1>3, <2>1, <2>2, OvertakenStep DEF SetQuantity
<1>4. ASSUME NEW c \in Codes, RemoveCoupon(t, c)
      PROVE  IInv'
  <2>1. CartTypes'
    BY <1>4 DEF IInv, TypeOK, CartTypes, RemoveCoupon
  <2>2. RequestTypes'
    BY <1>4, ReshowTypes DEF IInv, TypeOK, RemoveCoupon
  <2>. QED
    BY <1>4, <2>1, <2>2, OvertakenStep DEF RemoveCoupon
<1>5. CASE AddCouponCode(t)
  <2>1. CartTypes'
    BY <1>5 DEF IInv, TypeOK, CartTypes, RequestTypes, AddCouponCode
  <2>2. RequestTypes'
    BY <1>5, ReshowTypes DEF IInv, TypeOK, AddCouponCode
  <2>. QED
    BY <1>5, <2>1, <2>2, OvertakenStep DEF AddCouponCode
<1>. QED
  BY <1>1, <1>2, <1>3, <1>4, <1>5

\* The beginning of a request that only reads the cart for now.
LEMMA BeginStep ==
  ASSUME IInv, NEW t \in Tabs, NEW j \in Jobs, j.goal # "show",
         j.goal = "attach" => j.code \in Codes,
         Go(t, j, "items"), UNCHANGED <<cart, shown, fresh>>
  PROVE  IInv'
<1>1. RequestTypes'
  BY GoTypes DEF IInv, TypeOK, Steps
<1>2. CartTypes' /\ QuoteTypes'
  BY DEF IInv, TypeOK, cart, CartTypes, QuoteTypes
<1>3. /\ \A u \in Tabs \ {t} : /\ pc'[u] = pc[u] /\ job'[u] = job[u]
                               /\ lines'[u] = lines[u] /\ codes'[u] = codes[u]
      /\ pc'[t] = "items" /\ job'[t] = j
  BY DEF IInv, TypeOK, RequestTypes, Go
<1>4. ShowsCurrent'
  BY <1>3 DEF IInv, TypeOK, QuoteTypes, ShowsCurrent, cart
<1>5. QuoteCurrent'
  BY DEF IInv, QuoteCurrent, Offered, cart
<1>6. OrdersCurrent'
  BY <1>3 DEF IInv, OrdersCurrent, cart
<1>. QED
  BY <1>1, <1>2, <1>4, <1>5, <1>6 DEF IInv, TypeOK

LEMMA AddCouponStep ==
  ASSUME IInv, NEW t \in Tabs, NEW c \in Codes, AddCoupon(t, c)
  PROVE  IInv'
<1>1. /\ Job("attach", c, 0) \in Jobs
      /\ Job("attach", c, 0).goal = "attach" /\ Job("attach", c, 0).code = c
  BY JobTypes
<1>. QED
  BY <1>1, BeginStep DEF AddCoupon

LEMMA CreateOrderStep ==
  ASSUME IInv, NEW t \in Tabs, NEW freight \in Freights,
         CreateOrder(t, freight)
  PROVE  IInv'
<1>1. freight \in Nat
  BY FreightsSent DEF CreateOrder
<1>2. /\ Job("order", None, freight) \in Jobs
      /\ Job("order", None, freight).goal = "order"
  BY <1>1, JobTypes
<1>. QED
  BY <1>2, BeginStep DEF CreateOrder

\* Both kinds of handlers read the cart as it is.
LEMMA ReadItemsStep ==
  ASSUME IInv, NEW t \in Tabs, ReadItems(t)
  PROVE  IInv'
<1>. USE DEF IInv, TypeOK
<1>1. job[t] \in Jobs /\ (job[t].goal = "attach" => job[t].code \in Codes)
  BY DEF RequestTypes, ReadItems
<1>2. /\ pc' = [pc EXCEPT ![t] =
                  IF job[t].goal = "order" THEN "codes" ELSE "price"]
      /\ lines' = [lines EXCEPT ![t] = quantity]
      /\ UNCHANGED <<quantity, applied, ended, job, shown, fresh>>
  BY DEF ReadItems, cart
<1>3. /\ codes' \in [Tabs -> SUBSET Codes]
      /\ \A u \in Tabs : job[u].goal = "attach" \/ codes'[u] = codes[u]
      /\ todo' \in [Tabs -> SUBSET Codes]
  <2>1. CASE job[t].goal = "attach"
    <3>1. codes' = [codes EXCEPT ![t] = {job[t].code}]
      BY <2>1 DEF ReadItems
    <3>2. codes' \in [Tabs -> SUBSET Codes]
      BY <1>1, <2>1, <3>1 DEF RequestTypes
    <3>. QED
      BY <2>1, <3>1, <3>2 DEF ReadItems, RequestTypes
  <2>2. CASE job[t].goal # "attach"
    <3>1. codes' = codes /\ todo' = [todo EXCEPT ![t] = codes'[t]]
      BY <2>2 DEF ReadItems
    <3>2. todo' = [todo EXCEPT ![t] = codes[t]]
      BY <3>1
    <3>3. todo' \in [Tabs -> SUBSET Codes]
      BY <3>2 DEF RequestTypes
    <3>. QED
      BY <3>1, <3>3 DEF RequestTypes
  <2>. QED
    BY <2>1, <2>2
<1>4. RequestTypes'
  <2>1. /\ pc' \in [Tabs -> Steps]
        /\ \A u \in Tabs : pc'[u] # "idle" => pc[u] # "idle"
    BY <1>2 DEF RequestTypes, Steps, ReadItems
  <2>2. lines' \in [Tabs -> [Variants -> Nat]]
    BY <1>2 DEF RequestTypes, CartTypes
  <2>. QED
    BY <1>2, <1>3, <2>1, <2>2 DEF RequestTypes
<1>5. CartTypes' /\ QuoteTypes'
  BY <1>2 DEF CartTypes, QuoteTypes
<1>6. pc[t] = "items" /\ job[t].goal \in {"show", "attach", "order"}
  BY <1>1 DEF ReadItems, Jobs
<1>7. ShowsCurrent'
  BY <1>2, <1>3, <1>6 DEF RequestTypes, QuoteTypes, ShowsCurrent
<1>8. QuoteCurrent'
  BY <1>2 DEF QuoteCurrent, Offered
<1>9. OrdersCurrent'
  BY <1>2, <1>3, <1>6 DEF RequestTypes, OrdersCurrent
<1>. QED
  BY <1>4, <1>5, <1>7, <1>8, <1>9

LEMMA ReadCodesStep ==
  ASSUME IInv, NEW t \in Tabs, ReadCodes(t)
  PROVE  IInv'
<1>. USE DEF IInv, TypeOK
<1>1. /\ codes' = [codes EXCEPT ![t] = applied]
      /\ UNCHANGED <<quantity, applied, ended, job, lines, shown>>
      /\ pc[t] = "codes"
  BY DEF ReadCodes, cart
<1>2. \/ /\ job[t].goal = "order"
         /\ pc' = [pc EXCEPT ![t] = "price"] /\ fresh' = fresh
      \/ /\ job[t].goal # "order"
         /\ pc' = [pc EXCEPT ![t] = "items"] /\ fresh' = fresh \cup {t}
  BY DEF ReadCodes
<1>3. todo' \in [Tabs -> SUBSET Codes]
  BY DEF ReadCodes, RequestTypes, CartTypes
<1>4. RequestTypes'
  BY <1>1, <1>2, <1>3 DEF RequestTypes, CartTypes, Steps
<1>5. CartTypes' /\ QuoteTypes'
  BY <1>1, <1>2 DEF CartTypes, QuoteTypes
<1>6. ShowsCurrent'
  BY <1>1, <1>2 DEF RequestTypes, QuoteTypes, ShowsCurrent
<1>7. QuoteCurrent'
  BY <1>1 DEF QuoteCurrent, Offered
<1>8. OrdersCurrent'
  BY <1>1, <1>2 DEF RequestTypes, OrdersCurrent
<1>. QED
  BY <1>4, <1>5, <1>6, <1>7, <1>8

\* A statement that only counts off a code, or time that ends a coupon.
LEMMA CountOffStep ==
  ASSUME IInv, ended' \subseteq Codes, todo' \in [Tabs -> SUBSET Codes],
         UNCHANGED <<quantity, applied, pc, job, lines, codes, shown, fresh>>
  PROVE  IInv'
<1>. USE DEF IInv, TypeOK
<1>1. TypeOK'
  BY DEF CartTypes, RequestTypes, QuoteTypes
<1>2. ShowsCurrent'
  BY DEF ShowsCurrent
<1>3. QuoteCurrent'
  BY DEF QuoteCurrent, Offered
<1>4. OrdersCurrent'
  BY DEF OrdersCurrent
<1>. QED
  BY <1>1, <1>2, <1>3, <1>4

\* The end of a handler that leaves the cart alone; it may have shown it.
LEMMA EndStep ==
  ASSUME IInv, NEW t \in Tabs, End(t), UNCHANGED cart,
         fresh' \subseteq fresh,
         \A u \in Tabs \ {t} : shown'[u] = shown[u],
         shown' \in [Tabs -> [total : Nat, priced : BOOLEAN] \cup {None}],
         shown'[t] \in {shown[t], None} \cup Offered
  PROVE  IInv'
<1>. USE DEF IInv, TypeOK
<1>1. RequestTypes'
  BY EndTypes
<1>2. CartTypes' /\ QuoteTypes'
  BY DEF cart, CartTypes, QuoteTypes
<1>3. /\ \A u \in Tabs \ {t} : /\ pc'[u] = pc[u] /\ job'[u] = job[u]
                               /\ lines'[u] = lines[u] /\ codes'[u] = codes[u]
      /\ pc'[t] = "idle"
  BY DEF RequestTypes, End, Go
<1>4. ShowsCurrent'
  BY <1>3 DEF QuoteTypes, ShowsCurrent, cart
<1>5. QuoteCurrent'
  BY DEF QuoteCurrent, Offered, cart
<1>6. OrdersCurrent'
  BY <1>3 DEF OrdersCurrent, cart
<1>. QED
  BY <1>1, <1>2, <1>4, <1>5, <1>6

\* What is shown is right if no write has overtaken the handler.
LEMMA ShowStep ==
  ASSUME IInv, NEW t \in Tabs, Show(t) \/ ShowUnpriced(t)
  PROVE  IInv'
<1>. USE DEF IInv, TypeOK
<1>1. PICK total, priced : /\ Display(t, total, priced)
                           /\ \/ /\ priced = TRUE
                                 /\ total = AtLeastZero(Subtotal(lines[t])
                                      - Sum(Discounts(codes[t], lines[t])))
                              \/ priced = FALSE /\ total = Subtotal(lines[t])
                           /\ pc[t] = "price" /\ job[t].goal = "show"
  BY DEF Show, ShowUnpriced, Priced
<1>2. total \in Nat /\ priced \in BOOLEAN
  <2>1. Subtotal(lines[t]) \in Nat /\ Sum(Discounts(codes[t], lines[t])) \in Nat
    BY SubtotalType, DiscountsType DEF RequestTypes
  <2>2. AtLeastZero(Subtotal(lines[t]) - Sum(Discounts(codes[t], lines[t])))
          \in Nat
    <3>1. \A a, b \in Nat : AtLeastZero(a - b) \in Nat
      BY AtLeastZeroIs
    <3>. QED
      BY <2>1, <3>1
  <2>. QED
    BY <1>1, <2>1, <2>2
<1>3. t \in fresh => [total |-> total, priced |-> priced] \in Offered
  <2>1. t \in fresh => codes[t] = applied /\ lines[t] = quantity
    BY <1>1 DEF ShowsCurrent
  <2>. QED
    BY <1>1, <2>1 DEF Offered
<1>4. /\ shown' \in [Tabs -> [total : Nat, priced : BOOLEAN] \cup {None}]
      /\ \A u \in Tabs \ {t} : shown'[u] = shown[u]
      /\ shown'[t] \in {shown[t], None} \cup Offered
  <2>1. shown' = [shown EXCEPT ![t] = IF t \in fresh
                      THEN [total |-> total, priced |-> priced] ELSE None]
    BY <1>1 DEF Display
  <2>2. [total |-> total, priced |-> priced] \in [total : Nat, priced : BOOLEAN]
    BY <1>2
  <2>. HIDE DEF IInv, TypeOK
  <2>3. shown \in [Tabs -> [total : Nat, priced : BOOLEAN] \cup {None}]
    BY DEF IInv, TypeOK, QuoteTypes
  <2>. QED
    BY <1>3, <2>1, <2>2, <2>3
<1>5. End(t) /\ UNCHANGED cart /\ fresh' \subseteq fresh
  BY <1>1 DEF Display
<1>. QED
  BY <1>4, <1>5, EndStep

\* A handler that gives up has shown nothing new.
LEMMA FailsStep ==
  ASSUME IInv, NEW t \in Tabs, Fails(t) \/ Redeemed(t)
  PROVE  IInv'
<1>1. /\ End(t) /\ UNCHANGED <<cart, shown>>
      /\ fresh' \subseteq fresh
  BY DEF Fails, Redeemed
<1>2. /\ \A u \in Tabs \ {t} : shown'[u] = shown[u]
      /\ shown' \in [Tabs -> [total : Nat, priced : BOOLEAN] \cup {None}]
      /\ shown'[t] \in {shown[t], None} \cup Offered
  BY <1>1 DEF IInv, TypeOK, QuoteTypes
<1>. QED
  BY <1>1, <1>2, EndStep

\* An order is a write: it empties the cart.
LEMMA CommitOrderIInv ==
  ASSUME IInv, NEW t \in Tabs, CommitOrder(t)
  PROVE  IInv'
<1>1. CartTypes' /\ RequestTypes'
  BY DEF IInv, TypeOK, CartTypes, RequestTypes, CommitOrder, Empty, Steps,
         Priced
<1>. QED
  BY <1>1, OvertakenStep DEF CommitOrder

LEMMA OtherStepIInv ==
  ASSUME IInv, OtherStep
  PROVE  IInv'
<1>1. ASSUME NEW t \in Tabs, NEW c \in Codes, PriceCode(t, c) \/ Redeem(t, c)
      PROVE  IInv'
  <2>1. /\ ended' \subseteq Codes /\ todo' \in [Tabs -> SUBSET Codes]
        /\ UNCHANGED <<quantity, applied, pc, job, lines, codes, shown, fresh>>
    BY <1>1 DEF IInv, TypeOK, CartTypes, RequestTypes, PriceCode, Redeem, cart
  <2>. QED
    BY <2>1, CountOffStep
<1>2. ASSUME NEW c \in Codes, EndCoupon(c)
      PROVE  IInv'
  <2>1. /\ ended' \subseteq Codes /\ todo' \in [Tabs -> SUBSET Codes]
        /\ UNCHANGED <<quantity, applied, pc, job, lines, codes, shown, fresh>>
    BY <1>2 DEF IInv, TypeOK, CartTypes, RequestTypes, EndCoupon
  <2>. QED
    BY <2>1, CountOffStep
<1>3. ASSUME NEW t \in Tabs, NEW v \in Variants,
             \/ DeleteItem(t, v)
             \/ \E n \in 1 .. MaxQuantity :
                  AddItem(t, v, n) \/ UpdateItem(t, v, n)
      PROVE  IInv'
  <2>1. \E n \in Nat : AddItem(t, v, n) \/ SetQuantity(t, v, n)
    <3>1. 1 .. MaxQuantity \subseteq Nat /\ 0 \in Nat
      BY QuantityBound
    <3>. QED
      BY <1>3, <3>1 DEF DeleteItem, UpdateItem
  <2>. QED
    BY <2>1, WriteStep
<1>4. ASSUME NEW t \in Tabs,
             \/ ClearCart(t) \/ AddCouponCode(t)
             \/ \E c \in Codes : RemoveCoupon(t, c)
      PROVE  IInv'
  BY <1>4, WriteStep
<1>. QED
  BY <1>1, <1>2, <1>3, <1>4, GetCartStep, AddCouponStep, CreateOrderStep,
     ReadItemsStep, ReadCodesStep, ShowStep, FailsStep DEF OtherStep

LEMMA StutterIInv ==
  ASSUME IInv, UNCHANGED vars
  PROVE  IInv'
<1>1. UNCHANGED <<quantity, applied, ended, todo, pc, job, lines, codes, shown,
                  fresh>>
  BY DEF vars
<1>2. ended' \subseteq Codes /\ todo' \in [Tabs -> SUBSET Codes]
  BY <1>1 DEF IInv, TypeOK, CartTypes, RequestTypes
<1>. QED
  BY <1>1, <1>2, CountOffStep

(***************************************************************************)
(* Bills                                                                   *)
(***************************************************************************)

\* What an order of these lines and codes charges.
LEMMA BillIs ==
  ASSUME IInv, NEW t \in Tabs, CommitOrder(t)
  PROVE  \E s, f, d :
           /\ bill' = [subtotal |-> s, freight |-> f, discounts |-> d,
                       total |-> totalCents(s, f, Sum(d)), shown |-> shown[t]]
           /\ s = Subtotal(lines[t]) /\ d = Discounts(codes[t], lines[t])
           /\ s \in Nat /\ f \in Nat
           /\ d \in [codes[t] -> 0 .. s] /\ Sum(d) \in Nat
           /\ totalCents(s, f, Sum(d))
                = IF Sum(d) <= s + f THEN s + f - Sum(d) ELSE 0
           /\ codes[t] \in SUBSET Codes
           /\ pc[t] = "price" /\ job[t].goal = "order"
<1>. DEFINE s == Subtotal(lines[t])
           f == job[t].freight
           d == Discounts(codes[t], lines[t])
<1>1. /\ lines[t] \in [Variants -> Nat] /\ codes[t] \in SUBSET Codes
      /\ pc[t] = "price" /\ job[t].goal = "order" /\ job[t] \in Jobs
  BY DEF IInv, TypeOK, RequestTypes, CommitOrder, Priced
<1>2. s \in Nat /\ f \in Nat /\ d \in [codes[t] -> 0 .. s] /\ Sum(d) \in Nat
  BY <1>1, SubtotalType, DiscountsType DEF Jobs
<1>3. bill' = [subtotal |-> s, freight |-> f, discounts |-> d,
               total |-> totalCents(s, f, Sum(d)), shown |-> shown[t]]
  BY DEF CommitOrder
<1>. HIDE DEF s, f, d
<1>4. totalCents(s, f, Sum(d)) = IF Sum(d) <= s + f THEN s + f - Sum(d) ELSE 0
  BY <1>2, AtLeastZeroIs DEF totalCents
<1>. QED
  BY <1>1, <1>2, <1>3, <1>4 DEF s, d

\* Order and quote were priced from the same lines and codes.
LEMMA CommitQuoteHolds ==
  ASSUME IInv, NEW t \in Tabs, CommitOrder(t)
  PROVE  QuoteHolds'
<1>1. PICK s, f, d :
        /\ bill' = [subtotal |-> s, freight |-> f, discounts |-> d,
                    total |-> totalCents(s, f, Sum(d)), shown |-> shown[t]]
        /\ s = Subtotal(lines[t]) /\ d = Discounts(codes[t], lines[t])
        /\ s \in Nat /\ f \in Nat /\ Sum(d) \in Nat
        /\ totalCents(s, f, Sum(d))
             = IF Sum(d) <= s + f THEN s + f - Sum(d) ELSE 0
        /\ pc[t] = "price" /\ job[t].goal = "order"
  BY BillIs
<1>2. SUFFICES ASSUME shown[t] # None
               PROVE  /\ bill'.total <= shown[t].total + f
                      /\ \/ bill'.total = shown[t].total + f
                         \/ ~shown[t].priced
                         \/ Sum(d) > s
  BY <1>1 DEF QuoteHolds
<1>3. lines[t] = quantity /\ codes[t] = applied
  BY <1>1, <1>2 DEF IInv, OrdersCurrent
<1>4. \/ shown[t].total = AtLeastZero(s - Sum(d)) /\ shown[t].priced
      \/ shown[t].total = s /\ ~shown[t].priced
  BY <1>1, <1>2, <1>3 DEF IInv, QuoteCurrent, Offered
<1>5. AtLeastZero(s - Sum(d)) = IF Sum(d) <= s THEN s - Sum(d) ELSE 0
  BY <1>1, AtLeastZeroIs
<1>6. bill'.total = IF Sum(d) <= s + f THEN s + f - Sum(d) ELSE 0
  BY <1>1
<1>7. s \in Nat /\ f \in Nat /\ Sum(d) \in Nat
  BY <1>1
<1>. QED
  BY <1>4, <1>5, <1>6, <1>7

\* One discount is at most the subtotal, and no discount is 0.
LEMMA CommitFreightIsPaid ==
  ASSUME IInv, NEW t \in Tabs, CommitOrder(t)
  PROVE  FreightIsPaid'
<1>1. PICK s, f, d :
        /\ bill' = [subtotal |-> s, freight |-> f, discounts |-> d,
                    total |-> totalCents(s, f, Sum(d)), shown |-> shown[t]]
        /\ s \in Nat /\ f \in Nat /\ d \in [codes[t] -> 0 .. s]
        /\ totalCents(s, f, Sum(d))
             = IF Sum(d) <= s + f THEN s + f - Sum(d) ELSE 0
        /\ codes[t] \in SUBSET Codes
  BY BillIs
<1>2. SUFFICES ASSUME ~(Cardinality(codes[t]) > 1)
               PROVE  Sum(d) \in 0 .. s
  BY <1>1 DEF FreightIsPaid
<1>3. IsFiniteSet(codes[t]) /\ Cardinality(codes[t]) \in Nat
  BY <1>1, CodesAreFinite, FS_Subset, FS_CardinalityType
<1>4. CASE Cardinality(codes[t]) = 0
  <2>1. codes[t] = {}
    BY <1>3, <1>4, FS_EmptySet
  <2>. QED
    BY <1>1, <2>1, SumOfNone DEF Sum
<1>5. CASE Cardinality(codes[t]) = 1
  <2>1. PICK c : codes[t] = {c}
    BY <1>3, <1>5, FS_Singleton
  <2>2. DOMAIN d = {c} /\ d[c] \in 0 .. s
    BY <1>1, <2>1
  <2>. QED
    BY <1>1, <2>2, SumOfOne DEF Sum
<1>. QED
  BY <1>2, <1>3, <1>4, <1>5

\* Every discount of a bill is a share.
LEMMA CommitPercentRoundsHalfUp ==
  ASSUME IInv, NEW t \in Tabs, CommitOrder(t)
  PROVE  PercentRoundsHalfUp'
<1>1. PICK s, f, d :
        /\ bill' = [subtotal |-> s, freight |-> f, discounts |-> d,
                    total |-> totalCents(s, f, Sum(d)), shown |-> shown[t]]
        /\ s = Subtotal(lines[t]) /\ d = Discounts(codes[t], lines[t])
        /\ s \in Nat /\ codes[t] \in SUBSET Codes
  BY BillIs
<1>2. SUFFICES ASSUME NEW c \in codes[t], Offer[c].kind = "percent"
               PROVE  d[c] = (2 * s * Offer[c].value + 100) \div 200
  BY <1>1 DEF PercentRoundsHalfUp, Discounts
<1>3. Offer[c].value \in 0 .. 100
  BY <1>1, <1>2, Offers, Percentages
<1>4. d[c] = Allocate(s, <<Offer[c].value, 100 - Offer[c].value>>)[1]
  <2>1. d[c] = computeDiscountCents(s, Offer[c])
    BY <1>1, <1>2 DEF Discounts
  <2>. QED
    BY <1>2, <2>1 DEF computeDiscountCents
<1>5. PICK v \in 0 .. 100 : v = Offer[c].value
  BY <1>3
<1>6. Allocate(s, <<v, 100 - v>>)[1] = (2 * s * v + 100) \div 200
  <2>1. s \in Nat
    BY <1>1
  <2>. QED
    BY ONLY <1>5, <2>1, PercentIs
<1>. QED
  BY <1>4, <1>5, <1>6

(***************************************************************************)
(* Theorems                                                                *)
(***************************************************************************)

\* Bills are judged in the step that places the order.
Right == IInv /\ QuoteHolds /\ FreightIsPaid /\ PercentRoundsHalfUp

LEMMA Invariance == Spec => []Right
<1>1. Init => Right
  BY InitIInv DEF Init, Right, QuoteHolds, FreightIsPaid, PercentRoundsHalfUp
<1>2. Right /\ [Next]_vars => Right'
  <2>. SUFFICES ASSUME Right, [Next]_vars
                PROVE  Right'
    OBVIOUS
  <2>1. ASSUME NEW t \in Tabs, CommitOrder(t)
        PROVE  Right'
    BY <2>1, CommitOrderIInv, CommitQuoteHolds, CommitFreightIsPaid,
       CommitPercentRoundsHalfUp DEF Right
  <2>2. CASE OtherStep /\ bill' = None
    BY <2>2, OtherStepIInv
       DEF Right, QuoteHolds, FreightIsPaid, PercentRoundsHalfUp
  <2>3. CASE UNCHANGED vars
    <3>1. bill' = bill
      BY <2>3 DEF vars
    <3>. QED
      BY <2>3, <3>1, StutterIInv
         DEF Right, QuoteHolds, FreightIsPaid, PercentRoundsHalfUp
  <2>. QED
    BY <2>1, <2>2, <2>3 DEF Next
<1>. QED
  BY <1>1, <1>2, PTL DEF Spec

\* Every variable keeps its type; amounts are never negative.
THEOREM Typing == Spec => []TypeOK
<1>1. Right => TypeOK
  BY DEF Right, IInv
<1>. QED
  BY <1>1, Invariance, PTL

\* Whatever happens between GetCart and the order, a shopper whose cart was
\* not written to pays what was shown plus freight, and less only for a reason
\* (GetCart, CreateOrderFromCart).
THEOREM ShoppersPayWhatTheyWereShown == Spec => []QuoteHolds
<1>1. Right => QuoteHolds
  BY DEF Right
<1>. QED
  BY <1>1, Invariance, PTL

\* However large the cart and the coupon, one coupon alone leaves the freight
\* to be paid (totalCents, computeDiscountCents).
THEOREM OneCouponLeavesTheFreight == Spec => []FreightIsPaid
<1>1. Right => FreightIsPaid
  BY DEF Right
<1>. QED
  BY <1>1, Invariance, PTL

\* For every subtotal and percentage, the largest-remainder split of two shares
\* rounds half up (Allocate).
THEOREM PercentagesRoundHalfUp == Spec => []PercentRoundsHalfUp
<1>1. Right => PercentRoundsHalfUp
  BY DEF Right
<1>. QED
  BY <1>1, Invariance, PTL
=============================================================================
