---------------------------- MODULE FoldTheorems ---------------------------
(***************************************************************************)
(* Induction, folds, sums and division for the proofs about what is added   *)
(* up and shared out; and what is left of a sequence for those about what   *)
(* is deleted or selected.                                                  *)
(*                                                                         *)
(* An induction theorem of the library takes a predicate as its parameter,  *)
(* which no prover here can instantiate; the ones below take the set of     *)
(* what satisfies it.                                                       *)
(***************************************************************************)
EXTENDS Integers, SequencesExt, FiniteSetTheorems, SequenceTheorems, WellFoundedInduction,
        TLAPS

-----------------------------------------------------------------------------
(* Induction, over sets in place of predicates.                             *)

\* P holds a subset of D if it holds what is left of it without any one element.
IsInductive(P, D) == \A s \in SUBSET D : (\A x \in s : s \ {x} \in P) => s \in P

LEMMA SubsetInduction ==
  ASSUME NEW D, IsFiniteSet(D), NEW P, IsInductive(P, D)
  PROVE  \A s \in SUBSET D : s \in P
<1> DEFINE Bad == (SUBSET D) \ P
<1> SUFFICES ASSUME Bad # {} PROVE FALSE
  OBVIOUS
<1>1. Bad \subseteq FiniteSubsetsOf(D)
  BY FS_Subset DEF FiniteSubsetsOf
<1>2. PICK s \in Bad : \A u \in Bad : <<u, s>> \notin StrictSubsetOrdering(D)
  <2> HIDE DEF Bad
  <2> QED BY <1>1, FS_StrictSubsetOrderingWellFounded, WFMin
<1>3. ASSUME NEW x \in s PROVE s \ {x} \in P
  <2>1. <<s \ {x}, s>> \in StrictSubsetOrdering(D)
    BY FS_Subset DEF StrictSubsetOrdering, FiniteSubsetsOf
  <2> QED BY <1>2, <2>1
<1> QED BY <1>2, <1>3 DEF IsInductive

LEMMA NatSetInduction ==
  ASSUME NEW P, 0 \in P, \A n \in Nat : n \in P => n + 1 \in P
  PROVE  Nat \subseteq P
<1> DEFINE Bad == Nat \ P
<1> SUFFICES ASSUME Bad # {} PROVE FALSE
  OBVIOUS
<1>1. PICK n \in Bad : \A m \in Bad : <<m, n>> \notin OpToRel(<, Nat)
  <2>1. IsWellFoundedOn(OpToRel(<, Nat), Nat)
    BY NatLessThanWellFounded
  <2> HIDE DEF Bad
  <2> QED BY <2>1, WFMin, Bad \subseteq Nat DEF Bad
<1>2. \A m \in Bad : ~(m < n)
  BY <1>1 DEF OpToRel
<1>3. n # 0 /\ n - 1 \in Nat
  OBVIOUS
<1>4. n - 1 \in P
  BY <1>2, <1>3
<1> QED BY <1>3, <1>4

\* Induction up to a number, over a set in place of a predicate.
LEMMA InductionUpTo ==
  ASSUME NEW N \in Nat, NEW P, 0 \in P, \A n \in 0..N - 1 : n \in P => n + 1 \in P
  PROVE  N \in P
<1> DEFINE Bad == Nat \ (P \cup {n \in Nat : n > N})
<1> SUFFICES ASSUME Bad # {} PROVE FALSE
  OBVIOUS
<1>1. PICK n \in Bad : \A m \in Bad : <<m, n>> \notin OpToRel(<, Nat)
  <2>1. IsWellFoundedOn(OpToRel(<, Nat), Nat)
    BY NatLessThanWellFounded
  <2>2. Bad \subseteq Nat /\ Bad # {}
    OBVIOUS
  <2> HIDE DEF Bad
  <2> QED BY <2>1, <2>2, WFMin
<1>2. \A m \in Bad : ~(m < n)
  <2>1. Bad \subseteq Nat
    OBVIOUS
  <2> HIDE DEF Bad
  <2> QED BY <1>1, <2>1 DEF OpToRel
<1>3. n \in 0..N /\ n \notin P
  OBVIOUS
<1>4. n - 1 \in 0..N - 1 /\ n - 1 \in P
  BY <1>2, <1>3
<1> QED BY <1>3, <1>4

LEMMA FirstNumbers ==
  ASSUME NEW n \in Nat
  PROVE  IsFiniteSet(1..n) /\ Cardinality(1..n) = n
<1>1. IsFiniteSet(1..n) /\ Cardinality(1..n) = IF 1 > n THEN 0 ELSE n - 1 + 1
  BY FS_Interval
<1> QED BY <1>1

\* A fold over a finite set has a value, whatever is folded: op says what an element
\* adds to what the others make, ch the element that is taken next.
IsFold(g, base, op, ch, sets) ==
  \A s \in sets : g[s] = IF s = {} THEN base ELSE op[ch[s]][g[s \ {ch[s]}]]

Picks(ch, D) == \A s \in SUBSET D : s # {} => ch[s] \in s

LEMMA FoldExists ==
  ASSUME NEW D, IsFiniteSet(D), NEW V, NEW base \in V, NEW op \in [D -> [V -> V]],
         NEW ch, Picks(ch, D)
  PROVE  \E g \in [SUBSET D -> V] : IsFold(g, base, op, ch, SUBSET D)
<1> DEFINE Small(n) == {s \in SUBSET D : Cardinality(s) <= n}
           P == {n \in Nat : \E g \in [Small(n) -> V] : IsFold(g, base, op, ch, Small(n))}
<1>1. 0 \in P
  <2>1. \A s \in Small(0) : s = {}
    <3> SUFFICES ASSUME NEW s \in Small(0) PROVE s = {}
      OBVIOUS
    <3>1. IsFiniteSet(s) /\ Cardinality(s) <= 0
      BY FS_Subset
    <3>2. Cardinality(s) \in Nat
      BY <3>1, FS_CardinalityType
    <3> QED BY <3>1, <3>2, FS_EmptySet
  <2>2. [s \in Small(0) |-> base] \in [Small(0) -> V] 
    OBVIOUS
  <2>3. IsFold([s \in Small(0) |-> base], base, op, ch, Small(0))
    BY <2>1 DEF IsFold
  <2> QED BY <2>2, <2>3
<1>2. ASSUME NEW n \in Nat, n \in P PROVE n + 1 \in P
  <2>1. PICK g \in [Small(n) -> V] : IsFold(g, base, op, ch, Small(n))
    BY <1>2
  <2> DEFINE h == [s \in Small(n + 1) |-> IF s = {} THEN base ELSE op[ch[s]][g[s \ {ch[s]}]]]
  <2>2. ASSUME NEW s \in Small(n + 1), s # {}
        PROVE  ch[s] \in D /\ s \ {ch[s]} \in Small(n) /\ s \ {ch[s]} \in Small(n + 1)
    <3>1. ch[s] \in s /\ IsFiniteSet(s)
      BY <2>2, FS_Subset DEF Picks
    <3>2. Cardinality(s) \in Nat /\ \A x \in s : Cardinality(s \ {x}) = Cardinality(s) - 1
      BY <3>1, FS_RemoveElement, FS_CardinalityType
    <3> QED BY <3>1, <3>2
  <2>3. h \in [Small(n + 1) -> V]
    BY <2>2
  <2>4. ASSUME NEW s \in Small(n) PROVE h[s] = g[s]
    <3>1. s \in Small(n + 1)
      <4>1. Cardinality(s) \in Nat
        BY FS_Subset, FS_CardinalityType
      <4> QED BY <4>1
    <3> QED BY <2>1, <3>1 DEF IsFold
  <2>5. IsFold(h, base, op, ch, Small(n + 1))
    BY <2>2, <2>4 DEF IsFold
  <2> HIDE DEF h, Small
  <2> QED BY <2>3, <2>5
<1>3. Cardinality(D) \in Nat /\ Small(Cardinality(D)) = SUBSET D
  <2>1. Cardinality(D) \in Nat
    BY FS_CardinalityType
  <2>2. \A s \in SUBSET D : Cardinality(s) <= Cardinality(D)
    BY FS_Subset
  <2> QED BY <2>1, <2>2
<1>4. Cardinality(D) \in P
  <2> HIDE DEF P
  <2> QED BY <1>1, <1>2, <1>3, NatSetInduction
<1>5. PICK g \in [SUBSET D -> V] : IsFold(g, base, op, ch, Small(Cardinality(D)))
  BY <1>3, <1>4
<1> QED BY <1>3, <1>5

-----------------------------------------------------------------------------
(* The ends of a set of numbers.                                            *)

LEMMA MaxInSet ==
  ASSUME NEW s, s \subseteq Int, IsFiniteSet(s), s # {}
  PROVE  Max(s) \in s /\ \A y \in s : y <= Max(s)
<1> DEFINE P == {u \in SUBSET s : u # {} => \E m \in u : \A y \in u : m >= y}
<1>1. ASSUME NEW u \in SUBSET s, \A x \in u : u \ {x} \in P
      PROVE  u \in P
  <2> SUFFICES ASSUME u # {} PROVE \E m \in u : \A y \in u : m >= y
    OBVIOUS
  <2>1. PICK x \in u : TRUE
    OBVIOUS
  <2>2. CASE u \ {x} = {}
    BY <2>1, <2>2
  <2>3. CASE u \ {x} # {}
    <3>1. PICK m \in u \ {x} : \A y \in u \ {x} : m >= y
      BY <1>1, <2>1, <2>3
    <3>2. CASE m >= x
      BY <3>1, <3>2
    <3>3. CASE ~(m >= x)
      <4>1. \A y \in u : x >= y
        BY <3>1, <3>3
      <4> QED BY <4>1
    <3> QED BY <3>2, <3>3
  <2> QED BY <2>2, <2>3
<1>2. s \in P
  <2>1. IsInductive(P, s)
    BY <1>1 DEF IsInductive
  <2> HIDE DEF P
  <2> QED BY <2>1, SubsetInduction
<1> QED BY <1>2 DEF Max

LEMMA MinInSet ==
  ASSUME NEW s, s \subseteq Int, IsFiniteSet(s), s # {}
  PROVE  Min(s) \in s /\ \A y \in s : Min(s) <= y
<1> DEFINE P == {u \in SUBSET s : u # {} => \E m \in u : \A y \in u : m <= y}
<1>1. ASSUME NEW u \in SUBSET s, \A x \in u : u \ {x} \in P
      PROVE  u \in P
  <2> SUFFICES ASSUME u # {} PROVE \E m \in u : \A y \in u : m <= y
    OBVIOUS
  <2>1. PICK x \in u : TRUE
    OBVIOUS
  <2>2. CASE u \ {x} = {}
    BY <2>1, <2>2
  <2>3. CASE u \ {x} # {}
    <3>1. PICK m \in u \ {x} : \A y \in u \ {x} : m <= y
      BY <1>1, <2>1, <2>3
    <3>2. CASE m <= x
      BY <3>1, <3>2
    <3>3. CASE ~(m <= x)
      <4>1. \A y \in u : x <= y
        BY <3>1, <3>3
      <4> QED BY <4>1
    <3> QED BY <3>2, <3>3
  <2> QED BY <2>2, <2>3
<1>2. s \in P
  <2>1. IsInductive(P, s)
    BY <1>1 DEF IsInductive
  <2> HIDE DEF P
  <2> QED BY <2>1, SubsetInduction
<1> QED BY <1>2 DEF Min

LEMMA MinOfTwo ==
  ASSUME NEW a \in Int, NEW b \in Int
  PROVE  Min({a, b}) = IF a <= b THEN a ELSE b
BY DEF Min

LEMMA MaxOfTwo ==
  ASSUME NEW a \in Int, NEW b \in Int
  PROVE  Max({a, b}) = IF a >= b THEN a ELSE b
BY DEF Max

-----------------------------------------------------------------------------
(* Sums.  What is added up are the values of a function.                    *)

IsTree(t) == IsFiniteSet(DOMAIN t) /\ t \in [DOMAIN t -> Nat]

IsSum(g, t) ==
  g = [s \in SUBSET DOMAIN t |->
         IF s = {} THEN 0
         ELSE t[CHOOSE x \in s : TRUE] + g[s \ {CHOOSE x \in s : TRUE}]]

\* What t holds for the accounts in s.
SumOn(t, s) == (CHOOSE g : IsSum(g, t))[s]

LEMMA SumExists ==
  ASSUME NEW t, IsTree(t)
  PROVE  \E g : IsSum(g, t)
<1> DEFINE D == DOMAIN t
           op == [x \in D |-> [n \in Nat |-> t[x] + n]]
           ch == [s \in SUBSET D |-> CHOOSE x \in s : TRUE]
<1>1. IsFiniteSet(D) /\ \A x \in D : t[x] \in Nat
  BY DEF IsTree
<1>2. op \in [D -> [Nat -> Nat]]
  BY <1>1
<1>3. Picks(ch, D)
  BY DEF Picks
<1>4. PICK g \in [SUBSET D -> Nat] : IsFold(g, 0, op, ch, SUBSET D)
  <2> HIDE DEF D, op, ch
  <2> QED BY <1>1, <1>2, <1>3, FoldExists
<1>5. ASSUME NEW s \in SUBSET D
      PROVE  g[s] = IF s = {} THEN 0
                    ELSE t[CHOOSE x \in s : TRUE] + g[s \ {CHOOSE x \in s : TRUE}]
  <2>1. CASE s = {}
    BY <1>4, <2>1 DEF IsFold
  <2>2. CASE s # {}
    <3>1. ch[s] \in D /\ g[s \ {ch[s]}] \in Nat
      BY <1>3, <1>4, <2>2 DEF Picks
    <3>2. op[ch[s]][g[s \ {ch[s]}]] = t[ch[s]] + g[s \ {ch[s]}]
      BY <3>1
    <3>3. g[s] = op[ch[s]][g[s \ {ch[s]}]]
      BY <1>4, <2>2 DEF IsFold
    <3> QED BY <2>2, <3>2, <3>3
  <2> QED BY <2>1, <2>2
<1>6. IsSum(g, t)
  BY <1>4, <1>5 DEF IsSum
<1> QED BY <1>6

LEMMA SumOnChosen ==
  ASSUME NEW t, IsTree(t), NEW s \in SUBSET DOMAIN t
  PROVE  SumOn(t, s) = IF s = {} THEN 0
                       ELSE t[CHOOSE x \in s : TRUE] + SumOn(t, s \ {CHOOSE x \in s : TRUE})
<1> DEFINE g == CHOOSE h : IsSum(h, t)
<1>1. IsSum(g, t)
  BY SumExists
<1> QED BY <1>1 DEF IsSum, SumOn

LEMMA SumOnType ==
  ASSUME NEW t, IsTree(t), NEW s \in SUBSET DOMAIN t
  PROVE  SumOn(t, s) \in Nat
<1> DEFINE P == {u \in SUBSET DOMAIN t : SumOn(t, u) \in Nat}
<1>1. ASSUME NEW u \in SUBSET DOMAIN t, \A x \in u : u \ {x} \in P
      PROVE  u \in P
  <2>1. CASE u = {}
    BY <2>1, SumOnChosen
  <2>2. CASE u # {}
    <3> DEFINE c == CHOOSE z \in u : TRUE
    <3>1. c \in u /\ SumOn(t, u) = t[c] + SumOn(t, u \ {c})
      BY <2>2, SumOnChosen
    <3> HIDE DEF c
    <3>2. t[c] \in Nat
      BY <3>1 DEF IsTree
    <3> QED BY <1>1, <3>1, <3>2
  <2> QED BY <2>1, <2>2
<1>2. \A u \in SUBSET DOMAIN t : u \in P
  <2>1. IsFiniteSet(DOMAIN t)
    BY DEF IsTree
  <2>2. IsInductive(P, DOMAIN t)
    BY <1>1 DEF IsInductive
  <2> HIDE DEF P
  <2> QED BY <2>1, <2>2, SubsetInduction
<1> QED BY <1>2

\* Any account can be taken out of a sum first.
LEMMA SumOnSplit ==
  ASSUME NEW t, IsTree(t), NEW s \in SUBSET DOMAIN t, NEW x \in s
  PROVE  SumOn(t, s) = t[x] + SumOn(t, s \ {x})
<1> DEFINE P == {u \in SUBSET DOMAIN t : \A y \in u : SumOn(t, u) = t[y] + SumOn(t, u \ {y})}
<1>1. ASSUME NEW u \in SUBSET DOMAIN t, \A y \in u : u \ {y} \in P
      PROVE  u \in P
  <2> SUFFICES ASSUME NEW y \in u PROVE SumOn(t, u) = t[y] + SumOn(t, u \ {y})
    OBVIOUS
  <2> DEFINE c == CHOOSE z \in u : TRUE
  <2>1. c \in u /\ SumOn(t, u) = t[c] + SumOn(t, u \ {c})
    BY SumOnChosen
  <2> HIDE DEF c
  <2>2. CASE c = y
    BY <2>1, <2>2
  <2>3. CASE c # y
    <3>1. SumOn(t, u \ {c}) = t[y] + SumOn(t, (u \ {c}) \ {y})
      BY <1>1, <2>1, <2>3
    <3>2. SumOn(t, u \ {y}) = t[c] + SumOn(t, (u \ {y}) \ {c})
      BY <1>1, <2>1, <2>3
    <3>3. SumOn(t, (u \ {c}) \ {y}) = SumOn(t, (u \ {y}) \ {c})
      <4>1. (u \ {c}) \ {y} = (u \ {y}) \ {c}
        OBVIOUS
      <4> QED BY <4>1
    <3>4. SumOn(t, (u \ {y}) \ {c}) \in Nat
      BY SumOnType
    <3>5. t[c] \in Nat /\ t[y] \in Nat
      BY <2>1 DEF IsTree
    <3> HIDE DEF P
    <3> QED BY <2>1, <3>1, <3>2, <3>3, <3>4, <3>5
  <2> QED BY <2>2, <2>3
<1>2. \A u \in SUBSET DOMAIN t : u \in P
  <2>1. IsFiniteSet(DOMAIN t)
    BY DEF IsTree
  <2>2. IsInductive(P, DOMAIN t)
    BY <1>1 DEF IsInductive
  <2> HIDE DEF P
  <2> QED BY <2>1, <2>2, SubsetInduction
<1> QED BY <1>2

LEMMA SumOnEmpty ==
  ASSUME NEW t, IsTree(t)
  PROVE  SumOn(t, {}) = 0
BY SumOnChosen

\* What is added up does not depend on the names of the accounts.
LEMMA SumOnImage ==
  ASSUME NEW t, NEW u, IsTree(t), IsTree(u), NEW S \in SUBSET DOMAIN t,
         NEW h \in [S -> DOMAIN u], \A x, y \in S : h[x] = h[y] => x = y,
         \A x \in S : t[x] = u[h[x]]
  PROVE  SumOn(t, S) = SumOn(u, {h[x] : x \in S})
<1> DEFINE Image(s) == {h[x] : x \in s}
           P == {s \in SUBSET S : SumOn(t, s) = SumOn(u, Image(s))}
<1>1. ASSUME NEW s \in SUBSET S, \A x \in s : s \ {x} \in P
      PROVE  s \in P
  <2>1. CASE s = {}
    <3>1. Image(s) = {}
      BY <2>1
    <3> HIDE DEF Image
    <3> QED BY <2>1, <3>1, SumOnEmpty
  <2>2. CASE s # {}
    <3>1. PICK x \in s : TRUE
      BY <2>2
    <3>2. SumOn(t, s \ {x}) = SumOn(u, Image(s \ {x}))
      BY <1>1, <3>1
    <3>3. /\ Image(s) \in SUBSET DOMAIN u /\ h[x] \in Image(s)
          /\ Image(s) \ {h[x]} = Image(s \ {x})
      BY <3>1
    <3>4. t[x] = u[h[x]]
      BY <3>1
    <3> HIDE DEF Image
    <3>5. SumOn(u, Image(s)) = u[h[x]] + SumOn(u, Image(s \ {x}))
      BY <3>3, SumOnSplit
    <3>6. SumOn(t, s) = t[x] + SumOn(t, s \ {x})
      BY <3>1, SumOnSplit
    <3> QED BY <3>2, <3>4, <3>5, <3>6
  <2> QED BY <2>1, <2>2
<1>2. S \in P
  <2>1. IsFiniteSet(S)
    BY FS_Subset DEF IsTree
  <2>2. IsInductive(P, S)
    BY <1>1 DEF IsInductive
  <2> HIDE DEF P
  <2> QED BY <2>1, <2>2, SubsetInduction
<1> QED BY <1>2

\* The same, when all accounts of one are renamed ones of the other.
LEMMA SumOnOnto ==
  ASSUME NEW t, NEW u, IsTree(t), IsTree(u), NEW S, S \in SUBSET DOMAIN t, NEW h,
         h \in [S -> DOMAIN u], \A x, y \in S : h[x] = h[y] => x = y,
         \A x \in S : t[x] = u[h[x]], \A y \in DOMAIN u : \E x \in S : h[x] = y
  PROVE  SumOn(t, S) = SumOn(u, DOMAIN u)
<1> DEFINE image == {h[x] : x \in S}
<1>1. image = DOMAIN u
  OBVIOUS
<1>2. SumOn(t, S) = SumOn(u, image)
  BY SumOnImage
<1> HIDE DEF image
<1> QED BY <1>1, <1>2

LEMMA SumOnAgree ==
  ASSUME NEW t, NEW u, IsTree(t), IsTree(u), NEW S, S \subseteq DOMAIN t, S \subseteq DOMAIN u,
         \A x \in S : t[x] = u[x]
  PROVE  SumOn(t, S) = SumOn(u, S)
<1> DEFINE h == [x \in S |-> x]
<1>1. h \in [S -> DOMAIN u] /\ (\A x \in S : h[x] = x) /\ {h[x] : x \in S} = S
  OBVIOUS
<1> HIDE DEF h
<1>2. SumOn(t, S) = SumOn(u, {h[x] : x \in S})
  BY <1>1, SumOnImage
<1> QED BY <1>1, <1>2

\* Two sets that have nothing in common add up to their union.
LEMMA SumOnUnion ==
  ASSUME NEW t, IsTree(t), NEW A \in SUBSET DOMAIN t, NEW B \in SUBSET DOMAIN t, A \cap B = {}
  PROVE  SumOn(t, A \cup B) = SumOn(t, A) + SumOn(t, B)
<1> DEFINE P == {s \in SUBSET A : SumOn(t, s \cup B) = SumOn(t, s) + SumOn(t, B)}
<1>1. ASSUME NEW s \in SUBSET A, \A x \in s : s \ {x} \in P
      PROVE  s \in P
  <2>0. SumOn(t, B) \in Nat
    BY SumOnType
  <2>1. CASE s = {}
    <3>1. s \cup B = B
      BY <2>1
    <3> QED BY <2>0, <2>1, <3>1, SumOnEmpty
  <2>2. CASE s # {}
    <3>1. PICK x \in s : TRUE
      BY <2>2
    <3> DEFINE r == s \ {x}
    <3>2. SumOn(t, r \cup B) = SumOn(t, r) + SumOn(t, B)
      BY <1>1, <3>1
    <3>3. x \in s \cup B /\ (s \cup B) \ {x} = r \cup B /\ s \cup B \in SUBSET DOMAIN t
      BY <3>1
    <3>4. SumOn(t, s \cup B) = t[x] + SumOn(t, r \cup B)
      BY <3>3, SumOnSplit
    <3>5. SumOn(t, s) = t[x] + SumOn(t, r) /\ SumOn(t, r) \in Nat
      BY <3>1, SumOnSplit, SumOnType
    <3>6. t[x] \in Nat
      BY <3>1 DEF IsTree
    <3> HIDE DEF r
    <3>7. SumOn(t, s \cup B) = SumOn(t, s) + SumOn(t, B)
      BY <2>0, <3>2, <3>4, <3>5, <3>6
    <3> QED BY <3>7
  <2> QED BY <2>1, <2>2
<1>2. A \in P
  <2>1. IsFiniteSet(A)
    BY FS_Subset DEF IsTree
  <2>2. IsInductive(P, A)
    BY <1>1 DEF IsInductive
  <2> HIDE DEF P
  <2> QED BY <2>1, <2>2, SubsetInduction
<1> QED BY <1>2

LEMMA SumOnSubset ==
  ASSUME NEW t, IsTree(t), NEW B \in SUBSET DOMAIN t, NEW A \in SUBSET B
  PROVE  /\ SumOn(t, A) <= SumOn(t, B)
         /\ (\A x \in B \ A : t[x] = 0) => SumOn(t, A) = SumOn(t, B)
<1> DEFINE rest == B \ A
           none == [x \in rest |-> 0]
<1>1. /\ A \in SUBSET DOMAIN t /\ rest \in SUBSET DOMAIN t
      /\ A \cap rest = {} /\ A \cup rest = B
  OBVIOUS
<1>2. SumOn(t, B) = SumOn(t, A) + SumOn(t, rest)
  <2> HIDE DEF rest
  <2> QED BY <1>1, SumOnUnion
<1>3. SumOn(t, A) \in Nat /\ SumOn(t, rest) \in Nat
  <2> HIDE DEF rest
  <2> QED BY <1>1, SumOnType
<1>4. ASSUME \A x \in rest : t[x] = 0 PROVE SumOn(t, rest) = 0
  <2> DEFINE P == {s \in SUBSET rest : SumOn(t, s) = 0}
  <2> HIDE DEF rest
  <2>1. ASSUME NEW s \in SUBSET rest, \A x \in s : s \ {x} \in P
        PROVE  s \in P
    <3>1. CASE s = {}
      BY <3>1, SumOnEmpty
    <3>2. CASE s # {}
      <4>1. PICK x \in s : TRUE
        BY <3>2
      <4>2. SumOn(t, s) = t[x] + SumOn(t, s \ {x})
        BY <1>1, <4>1, SumOnSplit
      <4> QED BY <1>4, <2>1, <4>1, <4>2
    <3> QED BY <3>1, <3>2
  <2>2. IsFiniteSet(rest)
    BY <1>1, FS_Subset DEF IsTree
  <2>3. IsInductive(P, rest)
    BY <2>1 DEF IsInductive
  <2> HIDE DEF P
  <2>4. rest \in P
    BY <2>2, <2>3, SubsetInduction
  <2> QED BY <2>4 DEF P
<1> QED BY <1>2, <1>3, <1>4

\* The sums of the parts add up to the sum.
LEMMA SumOfParts ==
  ASSUME NEW t, IsTree(t), NEW I, IsFiniteSet(I), NEW part \in [I -> SUBSET DOMAIN t],
         \A x, y \in I : x # y => part[x] \cap part[y] = {},
         NEW u \in [I -> Nat], \A x \in I : u[x] = SumOn(t, part[x]),
         NEW all, all \in SUBSET DOMAIN t, \A y : y \in all <=> \E x \in I : y \in part[x]
  PROVE  SumOn(u, I) = SumOn(t, all)
<1> DEFINE All(s) == UNION {part[x] : x \in s}
           P == {s \in SUBSET I : SumOn(u, s) = SumOn(t, All(s))}
<1>0. IsTree(u) /\ DOMAIN u = I
  BY DEF IsTree
<1>1. ASSUME NEW s \in SUBSET I, \A x \in s : s \ {x} \in P
      PROVE  s \in P
  <2>1. CASE s = {}
    <3>1. All(s) = {}
      BY <2>1
    <3> HIDE DEF All
    <3> QED BY <1>0, <2>1, <3>1, SumOnEmpty
  <2>2. CASE s # {}
    <3>1. PICK x \in s : TRUE
      BY <2>2
    <3> DEFINE r == s \ {x}
    <3>2. SumOn(u, r) = SumOn(t, All(r))
      BY <1>1, <3>1
    <3>3. /\ All(s) = part[x] \cup All(r) /\ part[x] \cap All(r) = {}
          /\ part[x] \in SUBSET DOMAIN t /\ All(r) \in SUBSET DOMAIN t
      BY <3>1
    <3> HIDE DEF All, r
    <3>4. SumOn(t, All(s)) = SumOn(t, part[x]) + SumOn(t, All(r))
      BY <3>3, SumOnUnion
    <3>5. SumOn(u, s) = u[x] + SumOn(u, r)
      BY <1>0, <3>1, SumOnSplit DEF r
    <3>6. u[x] = SumOn(t, part[x])
      BY <3>1
    <3> QED BY <3>2, <3>4, <3>5, <3>6
  <2> QED BY <2>1, <2>2
<1>2. I \in P
  <2>1. IsInductive(P, I)
    BY <1>1 DEF IsInductive
  <2> HIDE DEF P
  <2> QED BY <2>1, SubsetInduction
<1>3. All(I) = all
  OBVIOUS
<1> HIDE DEF All
<1> QED BY <1>2, <1>3

\* To count is to add up ones.
LEMMA SumOfOnes ==
  ASSUME NEW D, IsFiniteSet(D), NEW S \in SUBSET D
  PROVE  IsTree([x \in D |-> 1]) /\ SumOn([x \in D |-> 1], S) = Cardinality(S)
<1> DEFINE ones == [x \in D |-> 1]
           P == {s \in SUBSET S : SumOn(ones, s) = Cardinality(s)}
<1>0. IsTree(ones) /\ DOMAIN ones = D /\ \A x \in D : ones[x] = 1
  BY DEF IsTree
<1> HIDE DEF ones
<1>1. ASSUME NEW s \in SUBSET S, \A x \in s : s \ {x} \in P
      PROVE  s \in P
  <2>1. CASE s = {}
    BY <1>0, <2>1, SumOnEmpty, FS_EmptySet
  <2>2. CASE s # {}
    <3>1. PICK x \in s : TRUE
      BY <2>2
    <3>2. SumOn(ones, s) = 1 + SumOn(ones, s \ {x})
      BY <1>0, <3>1, SumOnSplit
    <3>3. SumOn(ones, s \ {x}) = Cardinality(s \ {x})
      BY <1>1, <3>1
    <3>4. IsFiniteSet(s)
      BY FS_Subset
    <3>5. Cardinality(s \ {x}) = Cardinality(s) - 1 /\ Cardinality(s) \in Nat
      BY <3>1, <3>4, FS_RemoveElement, FS_CardinalityType
    <3> QED BY <3>2, <3>3, <3>5
  <2> QED BY <2>1, <2>2
<1>2. S \in P
  <2>1. IsFiniteSet(S)
    BY FS_Subset
  <2>2. IsInductive(P, S)
    BY <1>1 DEF IsInductive
  <2> HIDE DEF P
  <2> QED BY <2>1, <2>2, SubsetInduction
<1> QED BY <1>0, <1>2 DEF ones

-----------------------------------------------------------------------------
(* Division.                                                                *)

LEMMA Floor ==
  ASSUME NEW a \in Nat, NEW d \in Nat \ {0}
  PROVE  /\ a \div d \in Nat
         /\ d * (a \div d) <= a
         /\ a < d * (a \div d) + d
OBVIOUS

LEMMA FloorGrows ==
  ASSUME NEW a \in Nat, NEW b \in Nat, a <= b, NEW d \in Nat \ {0}
  PROVE  a \div d <= b \div d
BY Floor

LEMMA FloorOfProduct ==
  ASSUME NEW a \in Nat, NEW d \in Nat \ {0}
  PROVE  (a * d) \div d = a
BY Floor

LEMMA Products ==
  ASSUME NEW a \in Nat, NEW b \in Nat, NEW c \in Nat
  PROVE  /\ a * b \in Nat
         /\ a * (b + c) = a * b + a * c /\ (b + c) * a = b * a + c * a
         /\ b <= c => a * b <= a * c /\ b * a <= c * a
OBVIOUS

LEMMA Cancel ==
  ASSUME NEW d \in Nat \ {0}, NEW a \in Nat, NEW b \in Nat, d * a <= d * b
  PROVE  a <= b
OBVIOUS

-----------------------------------------------------------------------------
(* What is left of a sequence without some elements.                        *)

LeftStep(left, m, gone) == IF m \in gone THEN left ELSE Append(left, m)

IsLeft(g, seq, gone) ==
  g = [n \in 0..Len(seq) |-> IF n = 0 THEN <<>> ELSE LeftStep(g[n - 1], seq[n], gone)]

LEMMA LeftExists ==
  ASSUME NEW S, NEW seq \in Seq(S), NEW gone
  PROVE  \E g : IsLeft(g, seq, gone)
<1> DEFINE Upto(g, n) ==
             g = [k \in 0..n |-> IF k = 0 THEN <<>> ELSE LeftStep(g[k - 1], seq[k], gone)]
           P == {n \in Nat : \E g : Upto(g, n)}
<1>1. 0 \in P
  <2>1. Upto([k \in 0..0 |-> <<>>], 0)
    OBVIOUS
  <2> QED BY <2>1
<1>2. ASSUME NEW n \in 0..Len(seq) - 1, n \in P PROVE n + 1 \in P
  <2>1. PICK g : Upto(g, n)
    BY <1>2
  <2> DEFINE h == [k \in 0..n + 1 |-> IF k <= n THEN g[k] ELSE LeftStep(g[n], seq[n + 1], gone)]
  <2>2. ASSUME NEW k \in 0..n + 1
        PROVE  h[k] = IF k = 0 THEN <<>> ELSE LeftStep(h[k - 1], seq[k], gone)
    <3>1. CASE k = 0
      <4>1. h[k] = g[k] /\ g[0] = <<>>
        BY <2>1, <3>1
      <4> QED BY <3>1, <4>1
    <3>2. CASE k \in 1..n
      <4>1. h[k] = g[k] /\ h[k - 1] = g[k - 1]
        BY <3>2
      <4>2. g[k] = LeftStep(g[k - 1], seq[k], gone)
        BY <2>1, <3>2
      <4> QED BY <3>2, <4>1, <4>2
    <3>3. CASE k = n + 1
      BY <3>3
    <3> QED BY <3>1, <3>2, <3>3
  <2>3. DOMAIN h = 0..n + 1
    OBVIOUS
  <2>4. h = [k \in 0..n + 1 |-> h[k]]
    OBVIOUS
  <2>5. Upto(h, n + 1)
    <3> HIDE DEF h
    <3> QED BY <2>2, <2>4
  <2>6. n + 1 \in Nat /\ \E f : Upto(f, n + 1)
    <3> HIDE DEF h, Upto
    <3> QED BY <2>5
  <2> QED BY <2>6
<1>3. Len(seq) \in P
  <2> HIDE DEF P
  <2> QED BY <1>1, <1>2, InductionUpTo
<1> QED BY <1>3 DEF IsLeft

\* left keeps, of the first n elements, those that are not gone, in their order.
Keeps(left, e, seq, gone, n) ==
  /\ e \in [1..Len(left) -> 1..n]
  /\ \A i \in 1..Len(left) : left[i] = seq[e[i]] /\ seq[e[i]] \notin gone
  /\ \A i, j \in 1..Len(left) : i < j => e[i] < e[j]
  /\ \A i \in 1..n : seq[i] \notin gone => \E j \in 1..Len(left) : e[j] = i

LEMMA StepKeeps ==
  ASSUME NEW S, NEW seq \in Seq(S), NEW gone, NEW n \in 0..Len(seq) - 1,
         NEW left \in Seq(S), NEW e, Keeps(left, e, seq, gone, n)
  PROVE  /\ LeftStep(left, seq[n + 1], gone) \in Seq(S)
         /\ \E d : Keeps(LeftStep(left, seq[n + 1], gone), d, seq, gone, n + 1)
<1> DEFINE m == seq[n + 1]
           longer == Append(left, m)
<1>1. m \in S
  OBVIOUS
<1>2. CASE m \in gone
  <2>1. LeftStep(left, m, gone) = left
    BY <1>2 DEF LeftStep
  <2>2. 1..n \subseteq 1..n + 1 /\ \A i \in 1..n + 1 : i \in 1..n \/ i = n + 1
    OBVIOUS
  <2>3. e \in [1..Len(left) -> 1..n + 1]
    BY <2>2 DEF Keeps
  <2>4. \A i \in 1..n + 1 : seq[i] \notin gone => \E j \in 1..Len(left) : e[j] = i
    BY <1>2, <2>2 DEF Keeps
  <2>5. Keeps(left, e, seq, gone, n + 1)
    BY <2>3, <2>4 DEF Keeps
  <2> QED BY <2>1, <2>5
<1>3. CASE m \notin gone
  <2> DEFINE d == [i \in 1..Len(left) + 1 |-> IF i <= Len(left) THEN e[i] ELSE n + 1]
  <2>1. LeftStep(left, m, gone) = longer
    BY <1>3 DEF LeftStep
  <2>2. /\ longer \in Seq(S) /\ Len(longer) = Len(left) + 1
        /\ longer[Len(left) + 1] = m
        /\ \A i \in 1..Len(left) : longer[i] = left[i]
    BY <1>1
  <2> HIDE DEF longer
  <2>3. d \in [1..Len(longer) -> 1..n + 1]
    BY <2>2 DEF Keeps
  <2>4. \A i \in 1..Len(longer) : longer[i] = seq[d[i]] /\ seq[d[i]] \notin gone
    BY <1>3, <2>2 DEF Keeps
  <2>5. \A i, j \in 1..Len(longer) : i < j => d[i] < d[j]
    BY <2>2 DEF Keeps
  <2>6. ASSUME NEW i \in 1..n + 1, seq[i] \notin gone
        PROVE  \E j \in 1..Len(longer) : d[j] = i
    <3>1. CASE i = n + 1
      <4> DEFINE last == Len(left) + 1
      <4>1. Len(left) \in Nat /\ last \in 1..last /\ Len(longer) = last /\ ~(last <= Len(left))
        BY <2>2
      <4>2. d[last] = n + 1
        BY <4>1
      <4> QED BY <3>1, <4>1, <4>2
    <3>2. CASE i # n + 1
      <4>1. PICK j \in 1..Len(left) : e[j] = i
        BY <2>6, <3>2 DEF Keeps
      <4>2. j \in 1..Len(longer) /\ d[j] = i
        BY <2>2, <4>1
      <4> QED BY <4>2
    <3> QED BY <3>1, <3>2
  <2> HIDE DEF d
  <2>7. Keeps(longer, d, seq, gone, n + 1)
    BY <2>3, <2>4, <2>5, <2>6 DEF Keeps
  <2> QED BY <2>1, <2>2, <2>7
<1> QED BY <1>2, <1>3

\* What is left of a sequence is what is not gone, in its order.
LEMMA LeftKeeps ==
  ASSUME NEW S, NEW seq \in Seq(S), NEW gone, NEW g, IsLeft(g, seq, gone)
  PROVE  /\ g[Len(seq)] \in Seq(S)
         /\ \E e : Keeps(g[Len(seq)], e, seq, gone, Len(seq))
<1> DEFINE P == {n \in Nat : g[n] \in Seq(S) /\ \E e : Keeps(g[n], e, seq, gone, n)}
<1>1. 0 \in P
  <2>1. g[0] = <<>>
    BY DEF IsLeft
  <2>2. <<>> \in Seq(S) /\ Len(<<>>) = 0
    OBVIOUS
  <2>3. Keeps(<<>>, [i \in 1..0 |-> i], seq, gone, 0)
    BY <2>2 DEF Keeps
  <2> QED BY <2>1, <2>2, <2>3
<1>2. ASSUME NEW n \in 0..Len(seq) - 1, n \in P PROVE n + 1 \in P
  <2>1. PICK e : Keeps(g[n], e, seq, gone, n)
    BY <1>2
  <2>2. g[n + 1] = LeftStep(g[n], seq[n + 1], gone)
    BY DEF IsLeft
  <2>3. g[n] \in Seq(S)
    BY <1>2
  <2>4. n + 1 \in Nat
    OBVIOUS
  <2> QED BY <2>1, <2>2, <2>3, <2>4, StepKeeps
<1>3. Len(seq) \in P
  <2> HIDE DEF P
  <2> QED BY <1>1, <1>2, InductionUpTo
<1> QED BY <1>3

KeptBefore(c, S, seq, gone) ==
  {d \in S \ gone : \E i, k \in DOMAIN seq : i < k /\ seq[i] = d /\ seq[k] = c}

\* Of a sequence without repetitions, the j-th that is kept comes after j - 1 that
\* are kept.
LEMMA KeptRank ==
  ASSUME NEW S, NEW seq \in Seq(S), IsInjective(seq), NEW gone,
         NEW left \in Seq(S), NEW e, Keeps(left, e, seq, gone, Len(seq)),
         NEW j \in 1..Len(left)
  PROVE  /\ IsFiniteSet(KeptBefore(left[j], S, seq, gone))
         /\ Cardinality(KeptBefore(left[j], S, seq, gone)) = j - 1
<1> DEFINE f == [k \in 1..j - 1 |-> left[k]]
           T == KeptBefore(left[j], S, seq, gone)
<1>0. T = {d \in S \ gone : \E i, k \in DOMAIN seq : i < k /\ seq[i] = d /\ seq[k] = left[j]}
  BY DEF KeptBefore
<1> HIDE DEF T
<1>1. DOMAIN seq = 1..Len(seq) /\ j \in Nat /\ Len(left) \in Nat
  OBVIOUS
<1>2. ASSUME NEW k \in 1..Len(left)
      PROVE  e[k] \in DOMAIN seq /\ left[k] = seq[e[k]] /\ left[k] \in S \ gone
  <2>1. e \in [1..Len(left) -> 1..Len(seq)] /\ left[k] = seq[e[k]] /\ left[k] \notin gone
    BY <1>2 DEF Keeps
  <2>2. left[k] \in S
    BY <1>2
  <2> QED BY <1>1, <1>2, <2>1, <2>2
<1>3. \A i, k \in 1..Len(left) : i < k => e[i] < e[k]
  BY DEF Keeps
<1>4. ASSUME NEW k \in 1..j - 1 PROVE f[k] \in T
  <2>1. k \in 1..Len(left) /\ k < j
    BY <1>1, <1>4
  <2>2. e[k] < e[j]
    BY <1>3, <2>1
  <2> QED BY <1>0, <1>2, <2>1, <2>2
<1>5. ASSUME NEW i \in 1..j - 1, NEW k \in 1..j - 1, f[i] = f[k] PROVE i = k
  <2>1. i \in 1..Len(left) /\ k \in 1..Len(left)
    BY <1>1
  <2>2. e[i] = e[k]
    BY <1>2, <1>5, <2>1 DEF IsInjective
  <2> QED BY <1>1, <1>2, <1>3, <2>1, <2>2
<1>6. ASSUME NEW d \in T PROVE \E k \in 1..j - 1 : f[k] = d
  <2>1. PICK i \in DOMAIN seq, m \in DOMAIN seq : i < m /\ seq[i] = d /\ seq[m] = left[j] /\ d \notin gone
    BY <1>0
  <2>2. m = e[j]
    BY <1>2, <2>1 DEF IsInjective
  <2>3. PICK k \in 1..Len(left) : e[k] = i
    BY <1>1, <2>1 DEF Keeps
  <2>4. k < j
    BY <1>1, <1>2, <1>3, <2>1, <2>2, <2>3
  <2> QED BY <1>1, <1>2, <2>1, <2>3, <2>4
<1>7. DOMAIN f = 1..j - 1 /\ f = [k \in 1..j - 1 |-> f[k]]
  OBVIOUS
<1> HIDE DEF f
<1>8. f \in Bijection(1..j - 1, T)
  <2> DEFINE D == 1..j - 1
  <2>1. f \in [D -> T]
    BY <1>4, <1>7
  <2>2. /\ \A a, b \in D : f[a] = f[b] => a = b
        /\ \A d \in T : \E a \in D : f[a] = d
    BY <1>5, <1>6
  <2> HIDE DEF D
  <2>3. f \in Bijection(D, T)
    BY ONLY <2>1, <2>2 DEF Bijection, Injection, Surjection, IsInjective
  <2> QED BY <2>3 DEF D
<1>9. IsFiniteSet(1..j - 1) /\ Cardinality(1..j - 1) = j - 1
  <2>1. j - 1 \in Nat
    BY <1>1
  <2> QED BY <2>1, FirstNumbers
<1>10. ExistsBijection(1..j - 1, T)
  BY <1>8 DEF ExistsBijection
<1> QED BY <1>9, <1>10, FS_Bijection DEF T
=============================================================================
