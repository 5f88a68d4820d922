-------------------------------- MODULE Sums --------------------------------
(***************************************************************************)
(* Sums over finite sets, the SumFunctionOnSet of the community modules:   *)
(* what a reader takes for granted of a sum, proved from its definition.   *)
(*                                                                         *)
(* Induction comes first, in a form without operator parameters: the       *)
(* naturals and the finite subsets of a set are well founded, so a set     *)
(* that misses some has a least one it misses (WFMin).  Then comes the     *)
(* lemma the ledger and its migration both rest on: what is taken from     *)
(* ordered grants, each giving what it has until the charge is met, is the *)
(* charge or all there is (TakenInOrder).  The last one is about schedules *)
(* (NextMultiple).                                                         *)
(***************************************************************************)
EXTENDS Integers, FiniteSets, Functions, FiniteSetTheorems, WellFoundedInduction, TLAPS

(* The order of the naturals, as a set of pairs. *)
Smaller == {ss \in Nat \X Nat : ss[1] < ss[2]}

(* Induction: a set with 0 that goes on from each of its elements. *)
LEMMA CountingUp ==
    ASSUME NEW T, T \subseteq Nat, 0 \in T, \A n \in T : n + 1 \in T
    PROVE  T = Nat
<1> SUFFICES ASSUME Nat \ T # {}  PROVE FALSE
  OBVIOUS
<1>1. IsWellFoundedOn(Smaller, Nat)
  BY NatLessThanWellFounded, Zenon DEF Smaller, OpToRel
<1>2. PICK n \in Nat \ T : \A m \in Nat \ T : ~(<<m, n>> \in Smaller)
  BY <1>1, WFMin, Nat \ T \subseteq Nat, Zenon
<1>3. \A m \in Nat : m < n => m \in T
  <2> SUFFICES ASSUME NEW m \in Nat, m < n, m \notin T  PROVE FALSE
    OBVIOUS
  <2>1. <<m, n>> \in Smaller
    BY DEF Smaller
  <2> QED  BY <1>2, <2>1
<1>4. CASE n = 0
  BY <1>2, <1>4
<1>5. CASE n # 0
  <2>1. n - 1 \in Nat /\ n - 1 < n
    BY <1>5
  <2> QED  BY <1>3, <2>1
<1> QED  BY <1>4, <1>5

(* Induction over a finite set: what holds of a part when it holds of the
   part with any one element left out holds of the whole. *)
LEMMA SubsetsUp ==
    ASSUME NEW S, IsFiniteSet(S), NEW P,
           \A s \in SUBSET S : (\A x \in s : s \ {x} \in P) => s \in P
    PROVE  S \in P
<1>1. IsWellFoundedOn(StrictSubsetOrdering(S), FiniteSubsetsOf(S))
  BY FS_StrictSubsetOrderingWellFounded, Zenon
<1> SUFFICES ASSUME S \notin P  PROVE FALSE
  OBVIOUS
<1> DEFINE Bad == {s \in SUBSET S : s \notin P}
<1>2. Bad \subseteq FiniteSubsetsOf(S) /\ Bad # {}
  BY FS_Subset DEF FiniteSubsetsOf
<1>3. \E s \in Bad : \A r \in Bad : ~(<<r, s>> \in StrictSubsetOrdering(S))
  <2> HIDE DEF Bad
  <2> QED  BY <1>1, <1>2, WFMin, Zenon
<1>4. PICK s \in SUBSET S :
         /\ s \notin P
         /\ \A r \in SUBSET S : r \notin P => ~(<<r, s>> \in StrictSubsetOrdering(S))
  BY <1>3
<1>5. ASSUME NEW x \in s  PROVE s \ {x} \in P
  <2>1. s \ {x} \in SUBSET S /\ s \ {x} \subseteq s /\ s \ {x} # s
    BY <1>4
  <2>2. <<s \ {x}, s>> \in StrictSubsetOrdering(S)
    BY <1>4, <2>1 DEF StrictSubsetOrdering
  <2> QED  BY <1>4, <2>1, <2>2
<1> QED  BY <1>4, <1>5

(* How SumFunctionOnSet is computed: some element first, then the rest. *)
FirstOf(s) == CHOOSE x \in s : TRUE
PartSum(F, h, s) == IF s = {} THEN 0 ELSE F[FirstOf(s)] + h[s \ {FirstOf(s)}]

ArePartSums(F, h, S) == h = [s \in SUBSET S |-> PartSum(F, h, s)]

(* The sums of the parts of a finite set exist, by induction on their size. *)
LEMMA PartSumsExist ==
    ASSUME NEW F, NEW S, IsFiniteSet(S)
    PROVE  \E h : ArePartSums(F, h, S)
<1> DEFINE Layer(n) == {s \in SUBSET S : Cardinality(s) <= n}
           T == {n \in Nat : \E h : \A s \in Layer(n) : h[s] = PartSum(F, h, s)}
<1>0. \A s \in SUBSET S : IsFiniteSet(s) /\ Cardinality(s) \in Nat /\ (Cardinality(s) = 0 <=> s = {})
  BY FS_Subset, FS_EmptySet, FS_CardinalityType
<1>1. 0 \in T
  <2> DEFINE h == [s \in SUBSET S |-> 0]
  <2>1. \A s \in Layer(0) : h[s] = PartSum(F, h, s)
    BY <1>0 DEF PartSum
  <2> HIDE DEF h
  <2> QED  BY <2>1
<1>2. ASSUME NEW n \in T  PROVE n + 1 \in T
  <2>1. PICK h : \A s \in Layer(n) : h[s] = PartSum(F, h, s)
    BY <1>2
  <2> DEFINE g == [s \in SUBSET S |-> PartSum(F, h, s)]
  <2>2. \A s \in Layer(n) : g[s] = h[s]
    BY <2>1
  <2>3. ASSUME NEW s \in Layer(n + 1)  PROVE g[s] = PartSum(F, g, s)
    <3>1. CASE s = {}
      BY <3>1 DEF PartSum
    <3>2. CASE s # {}
      <4>1. FirstOf(s) \in s
        BY <3>2 DEF FirstOf
      <4>2. s \ {FirstOf(s)} \in Layer(n)
        BY <1>0, <4>1, FS_RemoveElement
      <4>3. g[s] = PartSum(F, h, s)
        OBVIOUS
      <4> QED  BY <2>2, <3>2, <4>2, <4>3 DEF PartSum
    <3> QED  BY <3>1, <3>2
  <2> HIDE DEF g
  <2>4. \E f : \A s \in Layer(n + 1) : f[s] = PartSum(F, f, s)
    BY <2>3
  <2> QED  BY <2>4
<1>3. T = Nat
  <2> HIDE DEF T
  <2>1. T \subseteq Nat
    BY DEF T
  <2> QED  BY <1>1, <1>2, <2>1, CountingUp
<1>4. PICK h : \A s \in Layer(Cardinality(S)) : h[s] = PartSum(F, h, s)
  BY <1>0, <1>3
<1>5. SUBSET S = Layer(Cardinality(S))
  BY FS_Subset
<1> DEFINE g == [s \in SUBSET S |-> h[s]]
<1>6. ASSUME NEW s \in SUBSET S  PROVE g[s] = PartSum(F, g, s)
  <2>1. g[s] = PartSum(F, h, s)
    BY <1>4, <1>5
  <2>2. s # {} => g[s \ {FirstOf(s)}] = h[s \ {FirstOf(s)}]
    OBVIOUS
  <2> QED  BY <2>1, <2>2 DEF PartSum
<1>7. ArePartSums(F, g, S)
  BY <1>6 DEF ArePartSums
<1> HIDE DEF g
<1> QED  BY <1>7

(* The community module's sum is that of the whole. *)
LEMMA SumIsPartSum ==
    ASSUME NEW F, NEW S, IsFiniteSet(S)
    PROVE  \E h : ArePartSums(F, h, S) /\ SumFunctionOnSet(F, S) = h[S]
<1> DEFINE h == CHOOSE g : ArePartSums(F, g, S)
<1>1. ArePartSums(F, h, S)
  BY PartSumsExist
<1>2. SumFunctionOnSet(F, S) = h[S]
  BY Zenon DEF SumFunctionOnSet, FoldFunctionOnSet, MapThenFoldSet, PartSum, FirstOf, ArePartSums
<1> QED  BY <1>1, <1>2

(* The sum over nothing. *)
LEMMA SumOfNone == ASSUME NEW F PROVE SumFunctionOnSet(F, {}) = 0
<1>1. IsFiniteSet({})
  BY FS_EmptySet
<1>2. PICK h : ArePartSums(F, h, {}) /\ SumFunctionOnSet(F, {}) = h[{}]
  BY <1>1, SumIsPartSum
<1> QED  BY <1>2 DEF PartSum, ArePartSums

(* A part sums to the same wherever it is a part of. *)
LEMMA PartSumsAgree ==
    ASSUME NEW F, NEW G, NEW S, NEW T, IsFiniteSet(S), S \subseteq T,
           \A x \in S : F[x] = G[x],
           NEW h, ArePartSums(F, h, S),
           NEW g, ArePartSums(G, g, T)
    PROVE  h[S] = g[S]
<1> DEFINE P == {s \in SUBSET S : h[s] = g[s]}
<1>1. ASSUME NEW s \in SUBSET S, \A x \in s : s \ {x} \in P  PROVE s \in P
  <2>1. CASE s = {}
    BY <2>1 DEF PartSum, ArePartSums
  <2>2. CASE s # {}
    <3>1. FirstOf(s) \in s
      BY <2>2 DEF FirstOf
    <3>2. h[s \ {FirstOf(s)}] = g[s \ {FirstOf(s)}]
      BY <1>1, <3>1
    <3>3. h[s] = PartSum(F, h, s) /\ g[s] = PartSum(G, g, s)
      BY DEF ArePartSums
    <3> QED  BY <2>2, <3>1, <3>2, <3>3 DEF PartSum
  <2> QED  BY <2>1, <2>2
<1>2. S \in P
  <2> HIDE DEF P
  <2> QED  BY <1>1, SubsetsUp
<1> QED  BY <1>2

(* A sum depends on its summands alone. *)
LEMMA SumAgrees ==
    ASSUME NEW F, NEW G, NEW S, IsFiniteSet(S), \A x \in S : F[x] = G[x]
    PROVE  SumFunctionOnSet(F, S) = SumFunctionOnSet(G, S)
<1>1. PICK h : ArePartSums(F, h, S) /\ SumFunctionOnSet(F, S) = h[S]
  BY SumIsPartSum
<1>2. PICK g : ArePartSums(G, g, S) /\ SumFunctionOnSet(G, S) = g[S]
  BY SumIsPartSum
<1>3. h[S] = g[S]
  <2>1. S \subseteq S /\ ArePartSums(F, h, S) /\ ArePartSums(G, g, S)
    BY <1>1, <1>2
  <2> QED  BY <2>1, PartSumsAgree
<1> QED  BY <1>1, <1>2, <1>3

(* Over something, the first summand and the rest. *)
LEMMA SumOfSome ==
    ASSUME NEW F, NEW S, IsFiniteSet(S), S # {}
    PROVE  /\ FirstOf(S) \in S
           /\ SumFunctionOnSet(F, S) = F[FirstOf(S)] + SumFunctionOnSet(F, S \ {FirstOf(S)})
<1>1. FirstOf(S) \in S /\ IsFiniteSet(S \ {FirstOf(S)})
  BY FS_Subset DEF FirstOf
<1> DEFINE R == S \ {FirstOf(S)}
<1>2. PICK h : ArePartSums(F, h, S) /\ SumFunctionOnSet(F, S) = h[S]
  BY SumIsPartSum
<1>3. PICK g : ArePartSums(F, g, R) /\ SumFunctionOnSet(F, R) = g[R]
  BY <1>1, SumIsPartSum
<1>4. g[R] = h[R]
  <2>1. R \subseteq S /\ IsFiniteSet(R) /\ ArePartSums(F, h, S) /\ ArePartSums(F, g, R)
        /\ \A x \in R : F[x] = F[x]
    BY <1>1, <1>2, <1>3
  <2> HIDE DEF R
  <2> QED  BY <2>1, PartSumsAgree
<1>5. h[S] = PartSum(F, h, S)
  BY <1>2 DEF ArePartSums
<1> QED  BY <1>1, <1>2, <1>3, <1>4, <1>5 DEF PartSum

(* A sum of integers is one. *)
LEMMA SumIsInt ==
    ASSUME NEW F, NEW S, IsFiniteSet(S), \A x \in S : F[x] \in Int
    PROVE  SumFunctionOnSet(F, S) \in Int
<1> DEFINE P == {s \in SUBSET S : SumFunctionOnSet(F, s) \in Int}
<1>1. ASSUME NEW s \in SUBSET S, \A x \in s : s \ {x} \in P  PROVE s \in P
  <2>1. CASE s = {}
    BY <2>1, SumOfNone
  <2>2. CASE s # {}
    <3>1. /\ FirstOf(s) \in s
          /\ SumFunctionOnSet(F, s) = F[FirstOf(s)] + SumFunctionOnSet(F, s \ {FirstOf(s)})
      BY <2>2, SumOfSome, FS_Subset
    <3> QED  BY <1>1, <3>1
  <2> QED  BY <2>1, <2>2
<1>2. S \in P
  <2> HIDE DEF P
  <2> QED  BY <1>1, SubsetsUp
<1> QED  BY <1>2

(* Any summand may come first. *)
LEMMA SumWithout ==
    ASSUME NEW F, NEW S, IsFiniteSet(S), \A x \in S : F[x] \in Int, NEW a \in S
    PROVE  /\ SumFunctionOnSet(F, S) = F[a] + SumFunctionOnSet(F, S \ {a})
           /\ SumFunctionOnSet(F, S \ {a}) \in Int
<1> DEFINE Sum(s) == SumFunctionOnSet(F, s)
           P == {s \in SUBSET S : \A x \in s : Sum(s) = F[x] + Sum(s \ {x})}
<1>1. \A s \in SUBSET S : IsFiniteSet(s) /\ Sum(s) \in Int
  BY FS_Subset, SumIsInt
<1>2. ASSUME NEW s \in SUBSET S, \A x \in s : s \ {x} \in P  PROVE s \in P
  <2> SUFFICES ASSUME NEW x \in s  PROVE Sum(s) = F[x] + Sum(s \ {x})
    OBVIOUS
  <2> DEFINE y == FirstOf(s)
  <2>1. y \in s /\ Sum(s) = F[y] + Sum(s \ {y})
    BY <1>1, SumOfSome
  <2> HIDE DEF y
  <2>2. CASE x = y
    BY <2>1, <2>2
  <2>3. CASE x # y
    <3>1. s \ {x, y} = (s \ {x}) \ {y} /\ s \ {x, y} = (s \ {y}) \ {x}
      OBVIOUS
    <3>2. Sum(s \ {y}) = F[x] + Sum(s \ {x, y})
      BY <1>2, <2>1, <2>3, <3>1
    <3>3. Sum(s \ {x}) = F[y] + Sum(s \ {x, y})
      BY <1>2, <2>1, <2>3, <3>1
    <3>4. F[x] \in Int /\ F[y] \in Int /\ Sum(s \ {x, y}) \in Int
      <4>1. s \ {x, y} \in SUBSET S
        OBVIOUS
      <4> QED  BY <1>1, <2>1, <4>1
    <3> HIDE DEF Sum
    <3> QED  BY <2>1, <3>2, <3>3, <3>4
  <2> QED  BY <2>2, <2>3
<1>3. S \in P
  <2> HIDE DEF P
  <2> QED  BY <1>2, SubsetsUp
<1>4. S \ {a} \in SUBSET S
  OBVIOUS
<1> QED  BY <1>1, <1>3, <1>4
(* A summand more. *)
LEMMA SumWith ==
    ASSUME NEW F, NEW S, IsFiniteSet(S), \A x \in S : F[x] \in Int, NEW a, a \notin S, F[a] \in Int
    PROVE  SumFunctionOnSet(F, S \cup {a}) = F[a] + SumFunctionOnSet(F, S)
<1> DEFINE T == S \cup {a}
<1>1. IsFiniteSet(T) /\ (\A x \in T : F[x] \in Int) /\ a \in T /\ T \ {a} = S
  BY FS_AddElement
<1> HIDE DEF T
<1>2. SumFunctionOnSet(F, T) = F[a] + SumFunctionOnSet(F, T \ {a})
  BY <1>1, SumWithout
<1> QED  BY <1>1, <1>2 DEF T

(* A sum of naturals is one. *)
LEMMA SumIsNat ==
    ASSUME NEW F, NEW S, IsFiniteSet(S), \A x \in S : F[x] \in Nat
    PROVE  SumFunctionOnSet(F, S) \in Nat
<1> DEFINE P == {s \in SUBSET S : SumFunctionOnSet(F, s) \in Nat}
<1>1. ASSUME NEW s \in SUBSET S, \A x \in s : s \ {x} \in P  PROVE s \in P
  <2>1. CASE s = {}
    BY <2>1, SumOfNone
  <2>2. CASE s # {}
    <3>1. /\ FirstOf(s) \in s
          /\ SumFunctionOnSet(F, s) = F[FirstOf(s)] + SumFunctionOnSet(F, s \ {FirstOf(s)})
      BY <2>2, SumOfSome, FS_Subset
    <3> QED  BY <1>1, <3>1
  <2> QED  BY <2>1, <2>2
<1>2. S \in P
  <2> HIDE DEF P
  <2> QED  BY <1>1, SubsetsUp
<1> QED  BY <1>2

(* Sums are compared summand by summand. *)
LEMMA SumGrows ==
    ASSUME NEW F, NEW G, NEW S, IsFiniteSet(S),
           \A x \in S : F[x] \in Int /\ G[x] \in Int /\ F[x] <= G[x]
    PROVE  SumFunctionOnSet(F, S) <= SumFunctionOnSet(G, S)
<1> DEFINE P == {s \in SUBSET S : SumFunctionOnSet(F, s) <= SumFunctionOnSet(G, s)}
<1>1. ASSUME NEW s \in SUBSET S, \A x \in s : s \ {x} \in P  PROVE s \in P
  <2>1. CASE s = {}
    BY <2>1, SumOfNone
  <2>2. CASE s # {}
    <3> DEFINE a == FirstOf(s)
    <3>1. /\ a \in s
          /\ SumFunctionOnSet(F, s) = F[a] + SumFunctionOnSet(F, s \ {a})
          /\ SumFunctionOnSet(G, s) = G[a] + SumFunctionOnSet(G, s \ {a})
      BY <2>2, SumOfSome, FS_Subset
    <3>2. SumFunctionOnSet(F, s \ {a}) \in Int /\ SumFunctionOnSet(G, s \ {a}) \in Int
      BY SumIsInt, FS_Subset
    <3>3. SumFunctionOnSet(F, s \ {a}) <= SumFunctionOnSet(G, s \ {a})
      BY <1>1, <3>1
    <3> HIDE DEF a
    <3> QED  BY <3>1, <3>2, <3>3
  <2> QED  BY <2>1, <2>2
<1>2. S \in P
  <2> HIDE DEF P
  <2> QED  BY <1>1, SubsetsUp
<1> QED  BY <1>2

(* The sum of the sums, summand by summand. *)
LEMMA SumOfBoth ==
    ASSUME NEW F, NEW G, NEW H, NEW S, IsFiniteSet(S),
           \A x \in S : F[x] \in Int /\ G[x] \in Int /\ H[x] = F[x] + G[x]
    PROVE  SumFunctionOnSet(H, S) = SumFunctionOnSet(F, S) + SumFunctionOnSet(G, S)
<1> DEFINE P == {s \in SUBSET S : SumFunctionOnSet(H, s)
                                    = SumFunctionOnSet(F, s) + SumFunctionOnSet(G, s)}
<1>1. ASSUME NEW s \in SUBSET S, \A x \in s : s \ {x} \in P  PROVE s \in P
  <2>1. CASE s = {}
    BY <2>1, SumOfNone
  <2>2. CASE s # {}
    <3> DEFINE a == FirstOf(s)
    <3>1. /\ a \in s
          /\ SumFunctionOnSet(F, s) = F[a] + SumFunctionOnSet(F, s \ {a})
          /\ SumFunctionOnSet(G, s) = G[a] + SumFunctionOnSet(G, s \ {a})
          /\ SumFunctionOnSet(H, s) = H[a] + SumFunctionOnSet(H, s \ {a})
      BY <2>2, SumOfSome, FS_Subset
    <3>2. SumFunctionOnSet(F, s \ {a}) \in Int /\ SumFunctionOnSet(G, s \ {a}) \in Int
      BY SumIsInt, FS_Subset
    <3>3. SumFunctionOnSet(H, s \ {a})
            = SumFunctionOnSet(F, s \ {a}) + SumFunctionOnSet(G, s \ {a})
      BY <1>1, <3>1
    <3> HIDE DEF a
    <3> QED  BY <3>1, <3>2, <3>3
  <2> QED  BY <2>1, <2>2
<1>2. S \in P
  <2> HIDE DEF P
  <2> QED  BY <1>1, SubsetsUp
<1> QED  BY <1>2

(* Nothing sums to nothing. *)
LEMMA SumOfZeros ==
    ASSUME NEW F, NEW S, IsFiniteSet(S), \A x \in S : F[x] = 0
    PROVE  SumFunctionOnSet(F, S) = 0
<1> DEFINE P == {s \in SUBSET S : SumFunctionOnSet(F, s) = 0}
<1>1. ASSUME NEW s \in SUBSET S, \A x \in s : s \ {x} \in P  PROVE s \in P
  <2>1. CASE s = {}
    BY <2>1, SumOfNone
  <2>2. CASE s # {}
    <3>1. /\ FirstOf(s) \in s
          /\ SumFunctionOnSet(F, s) = F[FirstOf(s)] + SumFunctionOnSet(F, s \ {FirstOf(s)})
      BY <2>2, SumOfSome, FS_Subset
    <3> QED  BY <1>1, <3>1
  <2> QED  BY <2>1, <2>2
<1>2. S \in P
  <2> HIDE DEF P
  <2> QED  BY <1>1, SubsetsUp
<1> QED  BY <1>2

(* A multiple of a sum. *)
LEMMA SumOfMultiples ==
    ASSUME NEW F, NEW G, NEW k \in Int, NEW S, IsFiniteSet(S),
           \A x \in S : F[x] \in Int /\ G[x] = F[x] * k
    PROVE  SumFunctionOnSet(G, S) = SumFunctionOnSet(F, S) * k
<1> DEFINE P == {s \in SUBSET S : SumFunctionOnSet(G, s) = SumFunctionOnSet(F, s) * k}
<1>1. ASSUME NEW s \in SUBSET S, \A x \in s : s \ {x} \in P  PROVE s \in P
  <2>1. CASE s = {}
    BY <2>1, SumOfNone
  <2>2. CASE s # {}
    <3> DEFINE a == FirstOf(s)
    <3>1. /\ a \in s
          /\ SumFunctionOnSet(F, s) = F[a] + SumFunctionOnSet(F, s \ {a})
          /\ SumFunctionOnSet(G, s) = G[a] + SumFunctionOnSet(G, s \ {a})
      BY <2>2, SumOfSome, FS_Subset
    <3>2. SumFunctionOnSet(F, s \ {a}) \in Int
      BY SumIsInt, FS_Subset
    <3>3. SumFunctionOnSet(G, s \ {a}) = SumFunctionOnSet(F, s \ {a}) * k
      BY <1>1, <3>1
    <3>4. F[a] \in Int /\ G[a] = F[a] * k
      BY <3>1
    <3>5. \A m, n \in Int : m * k + n * k = (m + n) * k
      OBVIOUS
    <3> HIDE DEF a
    <3> QED  BY <3>1, <3>2, <3>3, <3>4, <3>5
  <2> QED  BY <2>1, <2>2
<1>2. S \in P
  <2> HIDE DEF P
  <2> QED  BY <1>1, SubsetsUp
<1> QED  BY <1>2

(* Sums over sets that have nothing in common. *)
LEMMA SumApart ==
    ASSUME NEW F, NEW S, NEW T, IsFiniteSet(S), IsFiniteSet(T), S \cap T = {},
           \A x \in S \cup T : F[x] \in Int
    PROVE  SumFunctionOnSet(F, S \cup T) = SumFunctionOnSet(F, S) + SumFunctionOnSet(F, T)
<1> DEFINE P == {s \in SUBSET S : SumFunctionOnSet(F, s \cup T)
                                    = SumFunctionOnSet(F, s) + SumFunctionOnSet(F, T)}
<1>0. \A s \in SUBSET S : IsFiniteSet(s) /\ IsFiniteSet(s \cup T)
  BY FS_Subset, FS_Union
<1>1. ASSUME NEW s \in SUBSET S, \A x \in s : s \ {x} \in P  PROVE s \in P
  <2>1. CASE s = {}
    <3>1. SumFunctionOnSet(F, T) \in Int /\ s \cup T = T
      BY <2>1, SumIsInt
    <3> QED  BY <2>1, <3>1, SumOfNone
  <2>2. CASE s # {}
    <3> PICK a \in s : TRUE
      BY <2>2
    <3> DEFINE u == s \cup T
    <3>1. u \ {a} = (s \ {a}) \cup T /\ a \in u /\ IsFiniteSet(u) /\ \A x \in u : F[x] \in Int
      BY <1>0
    <3> HIDE DEF u
    <3>2. /\ SumFunctionOnSet(F, u) = F[a] + SumFunctionOnSet(F, u \ {a})
          /\ SumFunctionOnSet(F, s) = F[a] + SumFunctionOnSet(F, s \ {a})
          /\ SumFunctionOnSet(F, s \ {a}) \in Int
      BY <1>0, <3>1, SumWithout
    <3>3. SumFunctionOnSet(F, u \ {a}) = SumFunctionOnSet(F, s \ {a}) + SumFunctionOnSet(F, T)
      BY <1>1, <3>1
    <3>4. SumFunctionOnSet(F, T) \in Int
      BY SumIsInt
    <3>5. SumFunctionOnSet(F, u) = SumFunctionOnSet(F, s) + SumFunctionOnSet(F, T)
      BY <3>2, <3>3, <3>4
    <3> QED  BY <3>5 DEF u
  <2> QED  BY <2>1, <2>2
<1>2. S \in P
  <2> HIDE DEF P
  <2> QED  BY <1>1, SubsetsUp
<1> QED  BY <1>2

(* What does not count may be left out. *)
LEMMA SumOfPart ==
    ASSUME NEW F, NEW S, IsFiniteSet(S), NEW T, T \subseteq S, \A x \in S : F[x] \in Int,
           \A x \in S \ T : F[x] = 0
    PROVE  SumFunctionOnSet(F, S) = SumFunctionOnSet(F, T)
<1>1. IsFiniteSet(T) /\ IsFiniteSet(S \ T) /\ S = T \cup (S \ T) /\ T \cap (S \ T) = {}
  BY FS_Subset
<1>2. SumFunctionOnSet(F, T \cup (S \ T)) = SumFunctionOnSet(F, T) + SumFunctionOnSet(F, S \ T)
  <2> DEFINE R == S \ T
  <2>1. IsFiniteSet(T) /\ IsFiniteSet(R) /\ T \cap R = {} /\ \A x \in T \cup R : F[x] \in Int
    BY <1>1
  <2> HIDE DEF R
  <2>2. SumFunctionOnSet(F, T \cup R) = SumFunctionOnSet(F, T) + SumFunctionOnSet(F, R)
    BY <2>1, SumApart
  <2> QED  BY <2>2 DEF R
<1>3. SumFunctionOnSet(F, S \ T) = 0
  BY <1>1, SumOfZeros
<1>4. IsFiniteSet(T) /\ \A x \in T : F[x] \in Int
  BY <1>1
<1>5. SumFunctionOnSet(F, T) \in Int
  BY <1>4, SumIsInt, Zenon
<1>6. SumFunctionOnSet(F, S) = SumFunctionOnSet(F, T \cup (S \ T))
  BY <1>1
<1> QED  BY <1>2, <1>3, <1>5, <1>6

(* A larger set of naturals has a sum no smaller. *)
LEMMA SumOfMore ==
    ASSUME NEW F, NEW S, IsFiniteSet(S), NEW T, T \subseteq S, \A x \in S : F[x] \in Nat
    PROVE  SumFunctionOnSet(F, T) <= SumFunctionOnSet(F, S)
<1> DEFINE R == S \ T
<1>1. IsFiniteSet(T) /\ IsFiniteSet(R) /\ S = T \cup R /\ T \cap R = {}
      /\ \A x \in T \cup R : F[x] \in Int
  BY FS_Subset
<1>2. SumFunctionOnSet(F, R) \in Nat
  BY <1>1, SumIsNat
<1>3. SumFunctionOnSet(F, T) \in Nat
  BY <1>1, SumIsNat
<1> HIDE DEF R
<1>4. SumFunctionOnSet(F, T \cup R) = SumFunctionOnSet(F, T) + SumFunctionOnSet(F, R)
  BY <1>1, SumApart
<1> QED  BY <1>1, <1>2, <1>3, <1>4

(* One summand counts in a sum of naturals. *)
LEMMA SumOfOneAtMost ==
    ASSUME NEW F, NEW S, IsFiniteSet(S), \A x \in S : F[x] \in Nat, NEW a \in S
    PROVE  F[a] <= SumFunctionOnSet(F, S)
<1>1. \A x \in S : F[x] \in Int
  OBVIOUS
<1>2. SumFunctionOnSet(F, S) = F[a] + SumFunctionOnSet(F, S \ {a})
  BY <1>1, SumWithout
<1>3. SumFunctionOnSet(F, S \ {a}) \in Nat
  BY SumIsNat, FS_Subset
<1> QED  BY <1>2, <1>3

(* One summand changes. *)
LEMMA SumChanged ==
    ASSUME NEW F, NEW G, NEW S, IsFiniteSet(S), NEW a \in S,
           \A x \in S : F[x] \in Int /\ G[x] \in Int,
           \A x \in S \ {a} : G[x] = F[x]
    PROVE  SumFunctionOnSet(G, S) = SumFunctionOnSet(F, S) + (G[a] - F[a])
<1>1. /\ SumFunctionOnSet(F, S) = F[a] + SumFunctionOnSet(F, S \ {a})
      /\ SumFunctionOnSet(F, S \ {a}) \in Int
  BY SumWithout
<1>2. SumFunctionOnSet(G, S) = G[a] + SumFunctionOnSet(G, S \ {a})
  BY SumWithout
<1>3. SumFunctionOnSet(G, S \ {a}) = SumFunctionOnSet(F, S \ {a})
  BY SumAgrees, FS_Subset
<1> QED  BY <1>1, <1>2, <1>3
(* A summand one larger makes the sum one larger, if it is over that summand. *)
LEMMA SumCountsOne ==
    ASSUME NEW F, NEW G, NEW T, IsFiniteSet(T), NEW c, \A x \in T : F[x] \in Nat,
           \A x \in T : G[x] = IF x = c THEN F[x] + 1 ELSE F[x]
    PROVE  /\ SumFunctionOnSet(F, T) \in Nat
           /\ SumFunctionOnSet(G, T) = SumFunctionOnSet(F, T) + (IF c \in T THEN 1 ELSE 0)
<1>1. SumFunctionOnSet(F, T) \in Nat
  BY SumIsNat
<1>2. CASE c \in T
  <2>1. \A x \in T : F[x] \in Int /\ G[x] \in Int
    OBVIOUS
  <2>2. \A x \in T \ {c} : G[x] = F[x]
    OBVIOUS
  <2>3. SumFunctionOnSet(G, T) = SumFunctionOnSet(F, T) + (G[c] - F[c])
    BY <1>2, <2>1, <2>2, SumChanged
  <2>4. F[c] \in Nat /\ G[c] = F[c] + 1
    BY <1>2
  <2> QED  BY <1>1, <1>2, <2>3, <2>4
<1>3. CASE c \notin T
  <2>1. \A x \in T : F[x] = G[x]
    BY <1>3
  <2>2. SumFunctionOnSet(F, T) = SumFunctionOnSet(G, T)
    BY <2>1, SumAgrees
  <2> QED  BY <1>1, <1>3, <2>2
<1> QED  BY <1>1, <1>2, <1>3

----------------------------------------------------------------------------
(* A strict total order on S, as a set of pairs, and what comes before x. *)
InOrder(R, S) ==
    /\ \A x \in S : <<x, x>> \notin R
    /\ \A x, y, z \in S : <<x, y>> \in R /\ <<y, z>> \in R => <<x, z>> \in R
    /\ \A x, y \in S : x = y \/ <<x, y>> \in R \/ <<y, x>> \in R

Preceding(R, S, x) == {y \in S : <<y, x>> \in R}

ClosedDown(R, S, s) == \A x \in s : Preceding(R, S, x) \subseteq s

(* A finite set that is not empty has a last element. *)
LEMMA LastOfAll ==
    ASSUME NEW S, IsFiniteSet(S), S # {}, NEW R, InOrder(R, S)
    PROVE  \E m \in S : \A x \in S \ {m} : <<x, m>> \in R
<1> DEFINE P == {s \in SUBSET S : s # {} => \E m \in s : \A x \in s \ {m} : <<x, m>> \in R}
<1>1. ASSUME NEW s \in SUBSET S, \A x \in s : s \ {x} \in P  PROVE s \in P
  <2> SUFFICES ASSUME s # {}  PROVE \E m \in s : \A x \in s \ {m} : <<x, m>> \in R
    OBVIOUS
  <2>1. PICK a \in s : TRUE
    OBVIOUS
  <2>2. CASE s \ {a} = {}
    BY <2>2
  <2>3. CASE s \ {a} # {}
    <3>1. PICK m \in s \ {a} : \A x \in (s \ {a}) \ {m} : <<x, m>> \in R
      BY <1>1, <2>3
    <3>2. a \in S /\ m \in S /\ a # m
      OBVIOUS
    <3>3. CASE <<a, m>> \in R
      BY <3>1, <3>3
    <3>4. CASE <<m, a>> \in R
      <4>1. \A x \in s \ {a} : <<x, a>> \in R
        BY <3>1, <3>2, <3>4 DEF InOrder
      <4> QED  BY <4>1
    <3> QED  BY <3>2, <3>3, <3>4 DEF InOrder
  <2> QED  BY <2>2, <2>3
<1>2. S \in P
  <2> HIDE DEF P
  <2> QED  BY <1>1, SubsetsUp
<1> QED  BY <1>2

(* The last of a part that holds whatever comes before its elements. *)
LEMMA LastOfPart ==
    ASSUME NEW S, IsFiniteSet(S), NEW R, InOrder(R, S),
           NEW s \in SUBSET S, s # {}, ClosedDown(R, S, s)
    PROVE  \E m \in s : Preceding(R, S, m) = s \ {m} /\ ClosedDown(R, S, s \ {m})
<1>1. IsFiniteSet(s) /\ InOrder(R, s)
  BY FS_Subset DEF InOrder
<1>2. PICK m \in s : \A x \in s \ {m} : <<x, m>> \in R
  BY <1>1, LastOfAll
<1>3. Preceding(R, S, m) = s \ {m}
  BY <1>2 DEF Preceding, ClosedDown, InOrder
<1>4. ClosedDown(R, S, s \ {m})
  <2> SUFFICES ASSUME NEW x \in s \ {m}, NEW y \in S, <<y, x>> \in R  PROVE y \in s \ {m}
    BY DEF ClosedDown, Preceding
  <2>1. y \in s
    BY DEF ClosedDown, Preceding
  <2>2. y # m
    BY <1>2 DEF InOrder
  <2> QED  BY <2>1, <2>2
<1> QED  BY <1>3, <1>4

(* The one just before x. *)
LEMMA JustBefore ==
    ASSUME NEW S, IsFiniteSet(S), NEW R, InOrder(R, S), NEW x \in S, Preceding(R, S, x) # {}
    PROVE  \E h \in Preceding(R, S, x) :
             /\ Preceding(R, S, h) = Preceding(R, S, x) \ {h}
             /\ \A k \in Preceding(R, S, x) : k = h \/ <<k, h>> \in R
<1> DEFINE s == Preceding(R, S, x)
<1>1. s \in SUBSET S /\ s # {} /\ ClosedDown(R, S, s)
  BY DEF Preceding, ClosedDown, InOrder
<1> HIDE DEF s
<1>2. \E h \in s : Preceding(R, S, h) = s \ {h} /\ ClosedDown(R, S, s \ {h})
  BY <1>1, LastOfPart
<1>3. PICK h \in s : Preceding(R, S, h) = s \ {h}
  BY <1>2
<1>4. \A k \in s : k = h \/ <<k, h>> \in R
  BY <1>3 DEF Preceding
<1> QED  BY <1>3, <1>4 DEF s

(* What is taken from one after the other, each giving what it has until the
   wanted amount is reached, is that amount or all there is. *)
LEMMA TakenInOrder ==
    ASSUME NEW S, IsFiniteSet(S), NEW R, InOrder(R, S), NEW F, \A x \in S : F[x] \in Nat,
           NEW wanted \in Nat, NEW T,
           \A x \in S :
               LET left == wanted - SumFunctionOnSet(F, Preceding(R, S, x))
               IN  T[x] = IF left <= 0 THEN 0 ELSE IF left < F[x] THEN left ELSE F[x]
    PROVE  SumFunctionOnSet(T, S) = IF wanted <= SumFunctionOnSet(F, S) THEN wanted
                                    ELSE SumFunctionOnSet(F, S)
<1> DEFINE Sum(f, s) == SumFunctionOnSet(f, s)
           Claim(s) == Sum(T, s) = IF wanted <= Sum(F, s) THEN wanted ELSE Sum(F, s)
           P == {s \in SUBSET S : ClosedDown(R, S, s) => Claim(s)}
<1>0. \A s \in SUBSET S : IsFiniteSet(s) /\ Sum(F, s) \in Nat
  BY FS_Subset, SumIsNat
<1>1. \A x \in S : T[x] \in Nat
  <2> SUFFICES ASSUME NEW x \in S  PROVE T[x] \in Nat
    OBVIOUS
  <2>1. Preceding(R, S, x) \in SUBSET S
    BY DEF Preceding
  <2>2. Sum(F, Preceding(R, S, x)) \in Nat
    BY <1>0, <2>1
  <2> QED  BY <2>2
<1>2. ASSUME NEW s \in SUBSET S, \A x \in s : s \ {x} \in P  PROVE s \in P
  <2> SUFFICES ASSUME ClosedDown(R, S, s)  PROVE Claim(s)
    OBVIOUS
  <2>1. CASE s = {}
    BY <2>1, SumOfNone
  <2>2. CASE s # {}
    <3>1. PICK m \in s : Preceding(R, S, m) = s \ {m} /\ ClosedDown(R, S, s \ {m})
      BY <2>2, LastOfPart
    <3>2. Claim(s \ {m})
      BY <1>2, <3>1
    <3>3. /\ Sum(F, s) = F[m] + Sum(F, s \ {m})
          /\ Sum(T, s) = T[m] + Sum(T, s \ {m})
      <4>1. IsFiniteSet(s) /\ (\A x \in s : F[x] \in Int /\ T[x] \in Int)
        BY <1>0, <1>1
      <4> QED  BY <4>1, SumWithout
    <3>4. Sum(F, s \ {m}) \in Nat /\ F[m] \in Nat /\ T[m] \in Nat
      BY <1>0, <1>1
    <3>5. LET left == wanted - Sum(F, s \ {m})
          IN  T[m] = IF left <= 0 THEN 0 ELSE IF left < F[m] THEN left ELSE F[m]
      BY <3>1
    <3> HIDE DEF Sum
    <3> QED  BY <3>2, <3>3, <3>4, <3>5
  <2> QED  BY <2>1, <2>2
<1>3. S \in P
  <2> HIDE DEF P
  <2> QED  BY <1>2, SubsetsUp
<1>4. ClosedDown(R, S, S)
  BY DEF ClosedDown, Preceding
<1> QED  BY <1>3, <1>4

(* Sums over the parts a function sorts the summands into add up. *)
LEMMA SumOfParts ==
    ASSUME NEW F, NEW S, IsFiniteSet(S), \A x \in S : F[x] \in Int,
           NEW K, IsFiniteSet(K), NEW part, \A x \in S : part[x] \in K,
           NEW G, \A k \in K : G[k] = SumFunctionOnSet(F, {x \in S : part[x] = k})
    PROVE  SumFunctionOnSet(G, K) = SumFunctionOnSet(F, S)
<1> DEFINE Sum(s) == SumFunctionOnSet(F, s)
           In(ks) == {x \in S : part[x] \in ks}
           P == {ks \in SUBSET K : SumFunctionOnSet(G, ks) = Sum(In(ks))}
<1>0. \A ks \in SUBSET K : IsFiniteSet(ks) /\ IsFiniteSet(In(ks)) /\ Sum(In(ks)) \in Int
  <2> SUFFICES ASSUME NEW ks \in SUBSET K
               PROVE  IsFiniteSet(ks) /\ IsFiniteSet(In(ks)) /\ Sum(In(ks)) \in Int
    OBVIOUS
  <2>1. IsFiniteSet(ks) /\ IsFiniteSet(In(ks)) /\ \A x \in In(ks) : F[x] \in Int
    BY FS_Subset
  <2> QED  BY <2>1, SumIsInt
<1>1. \A k \in K : IsFiniteSet({x \in S : part[x] = k}) /\ G[k] \in Int
  <2> SUFFICES ASSUME NEW k \in K
               PROVE  IsFiniteSet({x \in S : part[x] = k}) /\ G[k] \in Int
    OBVIOUS
  <2>1. IsFiniteSet({x \in S : part[x] = k}) /\ \A x \in {y \in S : part[y] = k} : F[x] \in Int
    BY FS_Subset
  <2> QED  BY <2>1, SumIsInt
<1>2. ASSUME NEW ks \in SUBSET K, \A k \in ks : ks \ {k} \in P  PROVE ks \in P
  <2>1. CASE ks = {}
    <3>1. In(ks) = {}
      BY <2>1
    <3> QED  BY <2>1, <3>1, SumOfNone
  <2>2. CASE ks # {}
    <3> PICK k \in ks : TRUE
      BY <2>2
    <3> DEFINE A == {x \in S : part[x] = k}
               B == In(ks \ {k})
    <3>1. In(ks) = A \cup B /\ A \cap B = {}
      OBVIOUS
    <3>2. IsFiniteSet(A) /\ IsFiniteSet(B) /\ Sum(B) \in Int
      BY <1>0, <1>1
    <3>3. \A x \in A \cup B : F[x] \in Int
      OBVIOUS
    <3>4. SumFunctionOnSet(G, ks \ {k}) = Sum(B)
      BY <1>2
    <3>5. SumFunctionOnSet(G, ks) = G[k] + SumFunctionOnSet(G, ks \ {k})
      <4>1. IsFiniteSet(ks) /\ \A x \in ks : G[x] \in Int
        BY <1>0, <1>1
      <4> QED  BY <4>1, SumWithout
    <3>6. G[k] = Sum(A)
      OBVIOUS
    <3> HIDE DEF A, B
    <3>7. Sum(A \cup B) = Sum(A) + Sum(B)
      BY <3>1, <3>2, <3>3, SumApart
    <3> QED  BY <3>1, <3>4, <3>5, <3>6, <3>7
  <2> QED  BY <2>1, <2>2
<1>3. K \in P
  <2> HIDE DEF P
  <2> QED  BY <1>2, SubsetsUp
<1>4. In(K) = S
  OBVIOUS
<1> QED  BY <1>3, <1>4

(* The same, the parts given by a function. *)
LEMMA SumOfSorted ==
    ASSUME NEW F, NEW S, IsFiniteSet(S), \A x \in S : F[x] \in Int,
           NEW K, IsFiniteSet(K), NEW part, \A x \in S : part[x] \in K,
           NEW of, \A k \in K : of[k] = {x \in S : part[x] = k},
           NEW G, \A k \in K : G[k] = SumFunctionOnSet(F, of[k])
    PROVE  SumFunctionOnSet(G, K) = SumFunctionOnSet(F, S)
<1>1. \A k \in K : G[k] = SumFunctionOnSet(F, {x \in S : part[x] = k})
  OBVIOUS
<1> QED  BY <1>1, SumOfParts

(* Counting is adding ones, *)
LEMMA SumOfOnes ==
    ASSUME NEW F, NEW S, IsFiniteSet(S), \A x \in S : F[x] = 1
    PROVE  SumFunctionOnSet(F, S) = Cardinality(S)
<1> DEFINE P == {s \in SUBSET S : SumFunctionOnSet(F, s) = Cardinality(s)}
<1>1. ASSUME NEW s \in SUBSET S, \A x \in s : s \ {x} \in P  PROVE s \in P
  <2>1. IsFiniteSet(s) /\ Cardinality(s) \in Nat
    BY FS_Subset, FS_CardinalityType
  <2>2. CASE s = {}
    BY <2>2, SumOfNone, FS_EmptySet
  <2>3. CASE s # {}
    <3>1. PICK a \in s : TRUE
      BY <2>3
    <3>2. SumFunctionOnSet(F, s \ {a}) = Cardinality(s \ {a})
      BY <1>1, <3>1
    <3>3. Cardinality(s \ {a}) = Cardinality(s) - 1
      BY <2>1, <3>1, FS_RemoveElement
    <3>4. \A x \in s : F[x] \in Int
      OBVIOUS
    <3>5. SumFunctionOnSet(F, s) = F[a] + SumFunctionOnSet(F, s \ {a})
      BY <2>1, <3>1, <3>4, SumWithout
    <3>6. F[a] = 1
      BY <3>1
    <3> QED  BY <2>1, <3>2, <3>3, <3>5, <3>6
  <2> QED  BY <2>2, <2>3
<1> HIDE DEF P
<1>2. S \in P
  BY <1>1, SubsetsUp
<1> QED  BY <1>2 DEF P

(* so a set is as large as its parts together. *)
LEMMA CountOfSorted ==
    ASSUME NEW S, IsFiniteSet(S),
           NEW K, IsFiniteSet(K), NEW part, \A x \in S : part[x] \in K,
           NEW of, \A k \in K : of[k] = {x \in S : part[x] = k},
           NEW G, \A k \in K : G[k] = Cardinality(of[k])
    PROVE  SumFunctionOnSet(G, K) = Cardinality(S)
<1> DEFINE F == [x \in S |-> 1]
<1>1. \A x \in S : F[x] = 1 /\ F[x] \in Int
  OBVIOUS
<1>2. \A k \in K : of[k] \in SUBSET S
  OBVIOUS
<1> HIDE DEF F
<1>3. ASSUME NEW k \in K  PROVE G[k] = SumFunctionOnSet(F, of[k])
  <2>1. IsFiniteSet(of[k]) /\ \A x \in of[k] : F[x] = 1
    BY <1>1, <1>2, FS_Subset
  <2> QED  BY <2>1, SumOfOnes
<1>4. SumFunctionOnSet(G, K) = SumFunctionOnSet(F, S)
  BY <1>1, <1>3, SumOfSorted
<1>5. SumFunctionOnSet(F, S) = Cardinality(S)
  BY <1>1, SumOfOnes
<1> QED  BY <1>4, <1>5

----------------------------------------------------------------------------
(* A natural lies within d of the multiple of d before it. *)
LEMMA DivBounds ==
    ASSUME NEW a \in Nat, NEW d \in Nat \ {0}
    PROVE  a \div d \in Nat /\ d * (a \div d) <= a /\ a < d * (a \div d) + d
<1>1. a \div d \in Nat
  OBVIOUS
<1>2. d * (a \div d) <= a /\ a < d * ((a \div d) + 1)
  OBVIOUS
<1> QED  BY <1>1, <1>2

(* The first multiple of d after a. *)
LEMMA NextMultiple ==
    ASSUME NEW a \in Nat, NEW d \in Nat \ {0}
    PROVE  LET next == (a \div d + 1) * d
           IN  next \in Nat /\ a < next /\ next <= a + d
<1> DEFINE times == a \div d
<1>1. times \in Nat /\ d * times <= a /\ a < d * times + d
  BY DivBounds
<1>2. times \in Nat /\ d \in Nat
  BY <1>1
<1>3. (a \div d + 1) * d = d * times + d
  <2> HIDE DEF times
  <2>1. (times + 1) * d = d * times + d
    BY <1>2
  <2> QED  BY <2>1 DEF times
<1> HIDE DEF times
<1>4. d * times \in Nat
  BY <1>2
<1> QED  BY <1>1, <1>3, <1>4

=============================================================================
