------------------------- MODULE AccountingChainProofs ------------------------
(***************************************************************************)
(* What the arithmetic of BalanceTrees guarantees for every deposit, every  *)
(* pair of fees that fits in it, all accounts and all payouts; and, from    *)
(* that, that whatever the two validators of a channel merge, in whatever   *)
(* order, the trees they produce keep the four promises of AccountingChain. *)
(***************************************************************************)
EXTENDS AccountingChain, FoldTheorems

-----------------------------------------------------------------------------
(* Sums.                                                                    *)

LEMMA SumIsSumOn ==
  ASSUME NEW t
  PROVE  SumMap(t) = SumOn(t, DOMAIN t)
BY DEF SumMap, FoldFunction, FoldFunctionOnSet, MapThenFoldSet, IsSum, SumOn

\* Of two trees the second of which gives nobody less, the sums tell whether it gives
\* anybody more.
LEMMA SumOnGrows ==
  ASSUME NEW t, NEW u, IsTree(t), IsTree(u), NEW S \in SUBSET DOMAIN u,
         \A a \in DOMAIN t \cap S : t[a] <= u[a]
  PROVE  /\ SumOn(t, S \cap DOMAIN t) <= SumOn(u, S)
         /\ SumOn(t, S \cap DOMAIN t) = SumOn(u, S) => \A a \in S : u[a] = BalanceOf(t, a)
<1> DEFINE D == DOMAIN t
           Grows(s) == /\ SumOn(t, s \cap D) <= SumOn(u, s)
                       /\ SumOn(t, s \cap D) = SumOn(u, s) =>
                            \A a \in s : u[a] = BalanceOf(t, a)
           P == {s \in SUBSET S : Grows(s)}
<1>1. ASSUME NEW s \in SUBSET S, \A x \in s : s \ {x} \in P
      PROVE  s \in P
  <2>1. CASE s = {}
    <3>1. s \cap D = {}
      BY <2>1
    <3>2. SumOn(t, s \cap D) = 0 /\ SumOn(u, s) = 0
      BY <2>1, <3>1, SumOnEmpty
    <3> QED BY <2>1, <3>2
  <2>2. CASE s # {}
    <3>1. PICK x \in s : TRUE
      BY <2>2
    <3> DEFINE r == s \ {x}
    <3>2. Grows(r)
      BY <1>1, <3>1
    <3>3. SumOn(u, s) = u[x] + SumOn(u, r) /\ SumOn(u, r) \in Nat /\ u[x] \in Nat
      BY <3>1, SumOnSplit, SumOnType DEF IsTree
    <3>4. SumOn(t, r \cap D) \in Nat
      BY SumOnType
    <3>5. CASE x \in D
      <4>1. (s \cap D) \ {x} = r \cap D
        OBVIOUS
      <4>2. SumOn(t, s \cap D) = t[x] + SumOn(t, r \cap D)
        BY <3>5, <4>1, SumOnSplit
      <4>3. t[x] \in Nat /\ t[x] <= u[x] /\ BalanceOf(t, x) = t[x]
        BY <3>5 DEF IsTree, BalanceOf
      <4> QED BY <3>2, <3>3, <3>4, <4>2, <4>3
    <3>6. CASE x \notin D
      <4>1. s \cap D = r \cap D
        BY <3>6
      <4>2. BalanceOf(t, x) = 0
        BY <3>6 DEF BalanceOf
      <4>3. SumOn(t, s \cap D) = SumOn(u, s) => u[x] = 0 /\ SumOn(t, r \cap D) = SumOn(u, r)
        BY <3>2, <3>3, <3>4, <4>1
      <4> QED BY <3>2, <3>3, <3>4, <4>1, <4>2, <4>3
    <3> QED BY <3>5, <3>6
  <2> QED BY <2>1, <2>2
<1>2. S \in P
  <2>1. IsFiniteSet(S)
    BY FS_Subset DEF IsTree
  <2>2. IsInductive(P, S)
    BY <1>1 DEF IsInductive
  <2> HIDE DEF P
  <2> QED BY <2>1, <2>2, SubsetInduction
<1> QED BY <1>2

LEMMA SumGrows ==
  ASSUME NEW t, NEW u, IsTree(t), IsTree(u), DOMAIN t \subseteq DOMAIN u,
         \A a \in DOMAIN t : t[a] <= u[a]
  PROVE  /\ SumMap(t) <= SumMap(u)
         /\ SumMap(t) = SumMap(u) => \A a \in DOMAIN u : u[a] = BalanceOf(t, a)
<1>1. DOMAIN u \cap DOMAIN t = DOMAIN t
  OBVIOUS
<1> QED BY <1>1, SumIsSumOn, SumOnGrows

\* An account that a tree lacks counts for nothing.
LEMMA SumOnSame ==
  ASSUME NEW t, NEW u, IsTree(t), IsTree(u), NEW S \in SUBSET DOMAIN u,
         \A a \in S : u[a] = BalanceOf(t, a)
  PROVE  SumOn(u, S) = SumOn(t, S \cap DOMAIN t)
<1> DEFINE D == DOMAIN t
           P == {s \in SUBSET S : SumOn(u, s) = SumOn(t, s \cap D)}
<1>1. ASSUME NEW s \in SUBSET S, \A x \in s : s \ {x} \in P
      PROVE  s \in P
  <2>1. CASE s = {}
    <3>1. s \cap D = {}
      BY <2>1
    <3> QED BY <2>1, <3>1, SumOnEmpty
  <2>2. CASE s # {}
    <3>1. PICK x \in s : TRUE
      BY <2>2
    <3> DEFINE r == s \ {x}
    <3>2. SumOn(u, r) = SumOn(t, r \cap D)
      BY <1>1, <3>1
    <3>3. SumOn(u, s) = BalanceOf(t, x) + SumOn(u, r) /\ SumOn(u, r) \in Nat
      BY <3>1, SumOnSplit, SumOnType
    <3>4. CASE x \in D
      <4>1. (s \cap D) \ {x} = r \cap D
        OBVIOUS
      <4>2. SumOn(t, s \cap D) = t[x] + SumOn(t, r \cap D)
        BY <3>4, <4>1, SumOnSplit
      <4> QED BY <3>2, <3>3, <3>4, <4>2 DEF BalanceOf
    <3>5. CASE x \notin D
      <4>1. s \cap D = r \cap D
        BY <3>5
      <4>2. BalanceOf(t, x) = 0
        BY <3>5 DEF BalanceOf
      <4>3. SumOn(u, s) = SumOn(t, s \cap D)
        BY <3>2, <3>3, <4>1, <4>2
      <4> QED BY <4>3
    <3> QED BY <3>4, <3>5
  <2> QED BY <2>1, <2>2
<1>2. S \in P
  <2>1. IsFiniteSet(S)
    BY FS_Subset DEF IsTree
  <2>2. IsInductive(P, S)
    BY <1>1 DEF IsInductive
  <2> HIDE DEF P
  <2> QED BY <2>1, <2>2, SubsetInduction
<1> QED BY <1>2

LEMMA SumType ==
  ASSUME NEW t, IsTree(t)
  PROVE  SumMap(t) \in Nat
BY SumIsSumOn, SumOnType

\* What an account is credited, the sum gains.
LEMMA SumOfCredit ==
  ASSUME NEW t, IsTree(t), NEW acc, NEW amount \in Nat
  PROVE  /\ IsTree(Credit(t, acc, amount))
         /\ DOMAIN Credit(t, acc, amount) = DOMAIN t \cup {acc}
         /\ \A a \in DOMAIN t : t[a] <= Credit(t, acc, amount)[a]
         /\ SumMap(Credit(t, acc, amount)) = SumMap(t) + amount
<1> DEFINE u == Credit(t, acc, amount)
           D == DOMAIN t
           rest == D \ {acc}
<1>1. \A a \in D : t[a] \in Nat
  BY DEF IsTree
<1>2. /\ DOMAIN u = D \cup {acc} /\ u \in [DOMAIN u -> Nat]
      /\ \A a \in D : t[a] <= u[a]
      /\ \A a \in rest : u[a] = t[a]
      /\ u[acc] = BalanceOf(t, acc) + amount
  BY <1>1 DEF Credit, BalanceOf
<1>3. IsTree(u)
  BY <1>2, FS_AddElement DEF IsTree
<1> HIDE DEF u
<1>4. SumMap(u) = u[acc] + SumOn(u, rest)
  <2>1. (D \cup {acc}) \ {acc} = rest
    OBVIOUS
  <2> QED BY <1>2, <1>3, <2>1, SumIsSumOn, SumOnSplit
<1>5. SumOn(u, rest) = SumOn(t, rest) /\ SumOn(t, rest) \in Nat
  <2>1. rest \cap D = rest /\ \A a \in rest : u[a] = BalanceOf(t, a)
    BY <1>2 DEF BalanceOf
  <2> QED BY <1>2, <1>3, <2>1, SumOnSame, SumOnType
<1>6. SumMap(t) = BalanceOf(t, acc) + SumOn(t, rest) /\ BalanceOf(t, acc) \in Nat
  <2>1. CASE acc \in D
    BY <1>1, <2>1, SumIsSumOn, SumOnSplit DEF BalanceOf
  <2>2. CASE acc \notin D
    <3>1. rest = D /\ BalanceOf(t, acc) = 0
      BY <2>2 DEF BalanceOf
    <3> QED BY <1>5, <3>1, SumIsSumOn
  <2> QED BY <2>1, <2>2
<1> QED BY <1>2, <1>3, <1>4, <1>5, <1>6 DEF u

-----------------------------------------------------------------------------
(* The folds of BalanceTrees over sequences: what each of them computes.    *)

\* The two validators' fees are what they are together.
IsFeeSum(g) ==
  g = [s \in SUBSET {1, 2} |-> IF s = {} THEN 0 ELSE g[s \ {Max(s)}] + Fees[Max(s)].fee]

\* A fold over {1, 2} takes 2 first and 1 next.
LEMMA OneTwo ==
  /\ Max({1, 2}) = 2 /\ {1, 2} \ {2} = {1}
  /\ Max({1}) = 1 /\ {1} \ {1} = {}
<1>1. Max({1, 2}) = 2
  BY DEF Max
<1>2. Max({1}) = 1
  BY DEF Max
<1> QED BY <1>1, <1>2

FirstFee == Fees[1].fee
SecondFee == Fees[2].fee

LEMMA FeeSum ==
  TotalValidatorFee = FirstFee + SecondFee
<1>1. DOMAIN Fees = {1, 2} /\ FirstFee \in Nat /\ SecondFee \in Nat
  <2>1. 1..2 = {1, 2}
    OBVIOUS
  <2> QED BY <2>1, DepositAssumption DEF FirstFee, SecondFee
<1> DEFINE g == [s \in SUBSET {1, 2} |->
                   IF s = {} THEN 0
                   ELSE IF s = {1} THEN FirstFee
                   ELSE IF s = {2} THEN SecondFee
                   ELSE FirstFee + SecondFee]
<1>2. ASSUME NEW s \in SUBSET {1, 2}
      PROVE  g[s] = IF s = {} THEN 0 ELSE g[s \ {Max(s)}] + Fees[Max(s)].fee
  <2>1. s = {} \/ s = {1} \/ s = {2} \/ s = {1, 2}
    OBVIOUS
  <2>2. CASE s = {}
    BY <2>2
  <2>3. CASE s = {1}
    BY <1>1, <2>3, OneTwo DEF FirstFee
  <2>4. CASE s = {2}
    <3>1. Max({2}) = 2 /\ {2} \ {2} = {}
      BY DEF Max
    <3>2. g[s] = SecondFee /\ g[{}] = 0
      BY <2>4
    <3> QED BY <1>1, <2>4, <3>1, <3>2 DEF SecondFee
  <2>5. CASE s = {1, 2}
    <3>1. g[{1, 2}] = FirstFee + SecondFee /\ g[{1}] = FirstFee
      OBVIOUS
    <3> QED BY <1>1, <2>5, <3>1, OneTwo DEF SecondFee
  <2> QED BY <2>1, <2>2, <2>3, <2>4, <2>5
<1>3. IsFeeSum(g)
  BY <1>2 DEF IsFeeSum
<1> DEFINE h == CHOOSE f : IsFeeSum(f)
<1>4. TotalValidatorFee = h[{1, 2}]
  BY <1>1 DEF TotalValidatorFee, FoldLeft, MapThenFoldSet, IsFeeSum
<1>5. IsFeeSum(h)
  BY <1>3
<1> HIDE DEF h, g
<1>6. h[{}] = 0
  BY <1>5 DEF IsFeeSum
<1>7. h[{1}] = h[{}] + FirstFee
  BY <1>5, OneTwo DEF IsFeeSum, FirstFee
<1>8. h[{1, 2}] = h[{1}] + SecondFee
  BY <1>5, OneTwo DEF IsFeeSum, SecondFee
<1> QED BY <1>1, <1>4, <1>6, <1>7, <1>8

LEMMA FeesFit ==
  /\ FirstFee \in Nat /\ SecondFee \in Nat /\ DepositAmount \in Nat \ {0}
  /\ TotalValidatorFee = FirstFee + SecondFee
  /\ TotalValidatorFee <= DepositAmount
<1>1. 1 \in DOMAIN Fees /\ 2 \in DOMAIN Fees
  BY DepositAssumption
<1>2. FirstFee \in Nat /\ SecondFee \in Nat
  BY <1>1, DepositAssumption DEF FirstFee, SecondFee
<1>3. DepositAmount \in Nat \ {0} /\ TotalValidatorFee <= DepositAmount
  BY DepositAssumption
<1> QED BY <1>2, <1>3, FeeSum

\* Nobody has less in u than in t.
Grows(t, u) == DOMAIN t \subseteq DOMAIN u /\ \A a \in DOMAIN t : t[a] <= u[a]

\* A tree that distributes at most the deposit.
WithinDeposit(t) == IsTree(t) /\ SumMap(t) <= DepositAmount

IsPayouts(payouts) ==
  /\ IsFiniteSet(DOMAIN payouts) /\ DOMAIN payouts \subseteq Int
  /\ \A i \in DOMAIN payouts : payouts[i].amount \in Nat

Pay(tree, p) == Credit(tree, p.acc, Min({DepositAmount - SumMap(tree), p.amount}))

LEMMA PayWithinDeposit ==
  ASSUME NEW t, WithinDeposit(t), NEW p, p.amount \in Nat
  PROVE  /\ WithinDeposit(Pay(t, p)) /\ Grows(t, Pay(t, p))
         /\ DOMAIN Pay(t, p) = DOMAIN t \cup {p.acc}
<1> DEFINE amount == Min({DepositAmount - SumMap(t), p.amount})
<1>1. IsTree(t) /\ SumMap(t) \in Nat /\ SumMap(t) <= DepositAmount /\ DepositAmount \in Nat
  BY SumType, FeesFit DEF WithinDeposit
<1>2. amount \in Nat /\ SumMap(t) + amount <= DepositAmount
  BY <1>1, MinOfTwo
<1>3. Pay(t, p) = Credit(t, p.acc, amount)
  BY DEF Pay
<1> HIDE DEF amount
<1>4. /\ IsTree(Pay(t, p)) /\ DOMAIN Pay(t, p) = DOMAIN t \cup {p.acc}
      /\ \A a \in DOMAIN t : t[a] <= Pay(t, p)[a]
      /\ SumMap(Pay(t, p)) = SumMap(t) + amount
  <2> DEFINE acc == p.acc
             u == Credit(t, acc, amount)
  <2> HIDE DEF acc
  <2>1. /\ IsTree(u) /\ DOMAIN u = DOMAIN t \cup {acc}
        /\ \A a \in DOMAIN t : t[a] <= u[a]
        /\ SumMap(u) = SumMap(t) + amount
    BY <1>1, <1>2, SumOfCredit
  <2>2. Pay(t, p) = u
    BY <1>3 DEF acc
  <2> HIDE DEF u
  <2> QED BY <2>1, <2>2 DEF acc
<1> QED BY <1>2, <1>4 DEF WithinDeposit, Grows

LEMMA GrowsTransitive ==
  ASSUME NEW t, NEW u, NEW w, IsTree(t), IsTree(u), IsTree(w), Grows(t, u), Grows(u, w)
  PROVE  Grows(t, w)
<1> SUFFICES ASSUME NEW a \in DOMAIN t PROVE a \in DOMAIN w /\ t[a] <= w[a]
  BY DEF Grows
<1>1. a \in DOMAIN u /\ a \in DOMAIN w /\ t[a] <= u[a] /\ u[a] <= w[a]
  BY DEF Grows
<1>2. t[a] \in Nat /\ u[a] \in Nat /\ w[a] \in Nat
  BY <1>1 DEF IsTree
<1> QED BY <1>1, <1>2

IsPaying(g, balances, payouts) ==
  g = [s \in SUBSET DOMAIN payouts |->
         IF s = {} THEN balances ELSE Pay(g[s \ {Max(s)}], payouts[Max(s)])]

\* The trees that payouts can make of balances.
Paid(balances, payouts) ==
  LET accounts == DOMAIN balances \cup {payouts[i].acc : i \in DOMAIN payouts}
  IN  {t \in UNION {[A -> Nat] : A \in SUBSET accounts} :
         WithinDeposit(t) /\ Grows(balances, t)}

LEMMA PayStaysPaid ==
  ASSUME NEW b, WithinDeposit(b), NEW payouts, IsPayouts(payouts),
         NEW t \in Paid(b, payouts), NEW i \in DOMAIN payouts
  PROVE  Pay(t, payouts[i]) \in Paid(b, payouts)
<1> DEFINE accounts == DOMAIN b \cup {payouts[j].acc : j \in DOMAIN payouts}
           u == Pay(t, payouts[i])
<1>1. WithinDeposit(t) /\ Grows(b, t) /\ DOMAIN t \subseteq accounts
  BY DEF Paid
<1>2. payouts[i].amount \in Nat /\ payouts[i].acc \in accounts
  BY DEF IsPayouts
<1>3. WithinDeposit(u) /\ Grows(t, u) /\ DOMAIN u = DOMAIN t \cup {payouts[i].acc}
  BY <1>1, <1>2, PayWithinDeposit
<1> HIDE DEF u
<1>4. Grows(b, u)
  BY <1>1, <1>3, GrowsTransitive DEF WithinDeposit
<1>5. u \in [DOMAIN u -> Nat] /\ DOMAIN u \in SUBSET accounts
  BY <1>1, <1>2, <1>3 DEF WithinDeposit, IsTree
<1>6. u \in UNION {[A -> Nat] : A \in SUBSET accounts}
  <2> HIDE DEF accounts
  <2> QED BY <1>5
<1> QED BY <1>3, <1>4, <1>6 DEF Paid, u

LEMMA PayingExists ==
  ASSUME NEW b, WithinDeposit(b), NEW payouts, IsPayouts(payouts)
  PROVE  \E g : IsPaying(g, b, payouts)
<1> DEFINE D == DOMAIN payouts
           V == Paid(b, payouts)
           op == [i \in D |-> [t \in V |-> Pay(t, payouts[i])]]
           ch == [s \in SUBSET D |-> Max(s)]
<1>1. IsFiniteSet(D) /\ D \subseteq Int
  BY DEF IsPayouts
<1>2. op \in [D -> [V -> V]]
  <2>1. \A i \in D, t \in V : Pay(t, payouts[i]) \in V
    BY PayStaysPaid
  <2> HIDE DEF V
  <2> QED BY <2>1
<1>3. Picks(ch, D)
  BY <1>1, MaxInSet, FS_Subset DEF Picks
<1>4. b \in V
  <2>1. b \in [DOMAIN b -> Nat] /\ Grows(b, b)
    BY DEF WithinDeposit, IsTree, Grows
  <2> QED BY <2>1 DEF Paid
<1>5. PICK g \in [SUBSET D -> V] : IsFold(g, b, op, ch, SUBSET D)
  <2> HIDE DEF D, V, op, ch
  <2> QED BY <1>1, <1>2, <1>3, <1>4, FoldExists
<1>6. ASSUME NEW s \in SUBSET D
      PROVE  g[s] = IF s = {} THEN b ELSE Pay(g[s \ {Max(s)}], payouts[Max(s)])
  <2>1. CASE s = {}
    BY <1>5, <2>1 DEF IsFold
  <2>2. CASE s # {}
    <3>1. ch[s] = Max(s) /\ Max(s) \in D /\ g[s \ {Max(s)}] \in V
      BY <1>3, <1>5, <2>2 DEF Picks
    <3>2. op[Max(s)][g[s \ {Max(s)}]] = Pay(g[s \ {Max(s)}], payouts[Max(s)])
      <4> HIDE DEF V
      <4> QED BY <3>1
    <3>3. g[s] = op[Max(s)][g[s \ {Max(s)}]]
      BY <1>5, <2>2, <3>1 DEF IsFold
    <3> QED BY <2>2, <3>2, <3>3
  <2> QED BY <2>1, <2>2
<1>7. IsPaying(g, b, payouts)
  BY <1>5, <1>6 DEF IsPaying
<1> QED BY <1>7

\* Payouts take nothing from anybody and never add up to more than the deposit.
LEMMA MergePayoutsIsPaid ==
  ASSUME NEW b, WithinDeposit(b), NEW payouts, IsPayouts(payouts)
  PROVE  /\ MergePayouts(b, payouts) \in Paid(b, payouts)
         /\ WithinDeposit(MergePayouts(b, payouts))
         /\ Grows(b, MergePayouts(b, payouts))
<1> DEFINE g == CHOOSE h : IsPaying(h, b, payouts)
           D == DOMAIN payouts
           P == {s \in SUBSET D : g[s] \in Paid(b, payouts)}
<1>1. IsPaying(g, b, payouts)
  BY PayingExists
<1>2. MergePayouts(b, payouts) = g[D]
  BY DEF MergePayouts, FoldLeft, MapThenFoldSet, IsPaying, Pay
<1> HIDE DEF g
<1>3. ASSUME NEW s \in SUBSET D, \A x \in s : s \ {x} \in P
      PROVE  g[s] \in Paid(b, payouts)
  <2>1. CASE s = {}
    <3>1. g[s] = b
      BY <1>1, <2>1 DEF IsPaying
    <3>2. b \in [DOMAIN b -> Nat] /\ Grows(b, b)
      BY DEF WithinDeposit, IsTree, Grows
    <3> QED BY <3>1, <3>2 DEF Paid
  <2>2. CASE s # {}
    <3>1. Max(s) \in s
      BY <2>2, MaxInSet, FS_Subset DEF IsPayouts
    <3>2. g[s] = Pay(g[s \ {Max(s)}], payouts[Max(s)])
      BY <1>1, <2>2 DEF IsPaying
    <3>3. g[s \ {Max(s)}] \in Paid(b, payouts) /\ Max(s) \in D
      BY <1>3, <3>1
    <3> QED BY <3>2, <3>3, PayStaysPaid
  <2> QED BY <2>1, <2>2
<1>4. D \in P
  <2>1. IsFiniteSet(D)
    BY DEF IsPayouts
  <2>2. IsInductive(P, D)
    BY <1>3 DEF IsInductive
  <2> HIDE DEF P
  <2> QED BY <2>1, <2>2, SubsetInduction
<1> QED BY <1>2, <1>4 DEF Paid

-----------------------------------------------------------------------------
(* Fees: the parts of BalancesAfterFees by name.                            *)

Share == DepositAmount - TotalValidatorFee

Adjusted(b) == [a \in DOMAIN b |-> (b[a] * Share) \div DepositAmount]

ErrorOf(b) == RoundingError(SumMap(b), SumMap(Adjusted(b)))

FeeOf(b, i) ==
  (Fees[i].fee * SumMap(b)) \div DepositAmount + (IF i = 1 THEN ErrorOf(b) ELSE 0)

CreditIfAny(t, acc, amount) == IF amount > 0 THEN Credit(t, acc, amount) ELSE t

PayFee(t, i, b) == CreditIfAny(t, Fees[i].addr, FeeOf(b, i))

IsFeePaying(g, b) ==
  g = [s \in SUBSET {1, 2} |->
         IF s = {} THEN Adjusted(b) ELSE PayFee(g[s \ {Max(s)}], <<1, 2>>[Max(s)], b)]

LEMMA AfterFeesIs ==
  ASSUME NEW b
  PROVE  BalancesAfterFees(b) = PayFee(PayFee(Adjusted(b), 1, b), 2, b)
<1> DEFINE g == [s \in SUBSET {1, 2} |->
                   IF s = {} THEN Adjusted(b)
                   ELSE IF s = {1} THEN PayFee(Adjusted(b), 1, b)
                   ELSE IF s = {2} THEN PayFee(Adjusted(b), 2, b)
                   ELSE PayFee(PayFee(Adjusted(b), 1, b), 2, b)]
<1>1. ASSUME NEW s \in SUBSET {1, 2}
      PROVE  g[s] = IF s = {} THEN Adjusted(b)
                    ELSE PayFee(g[s \ {Max(s)}], <<1, 2>>[Max(s)], b)
  <2>1. s = {} \/ s = {1} \/ s = {2} \/ s = {1, 2}
    OBVIOUS
  <2>2. CASE s = {}
    BY <2>2
  <2>3. CASE s = {1}
    <3>1. g[s] = PayFee(Adjusted(b), 1, b) /\ g[{}] = Adjusted(b)
      BY <2>3
    <3>2. <<1, 2>>[1] = 1
      OBVIOUS
    <3> HIDE DEF g
    <3> QED BY <2>3, <3>1, <3>2, OneTwo
  <2>4. CASE s = {2}
    <3>1. Max({2}) = 2 /\ {2} \ {2} = {}
      BY DEF Max
    <3>2. g[s] = PayFee(Adjusted(b), 2, b) /\ g[{}] = Adjusted(b)
      BY <2>4
    <3>3. <<1, 2>>[2] = 2
      OBVIOUS
    <3> HIDE DEF g
    <3> QED BY <2>4, <3>1, <3>2, <3>3
  <2>5. CASE s = {1, 2}
    <3>1. /\ g[{1, 2}] = PayFee(PayFee(Adjusted(b), 1, b), 2, b)
          /\ g[{1}] = PayFee(Adjusted(b), 1, b)
      OBVIOUS
    <3>2. <<1, 2>>[2] = 2
      OBVIOUS
    <3> HIDE DEF g
    <3> QED BY <2>5, <3>1, <3>2, OneTwo
  <2> QED BY <2>1, <2>2, <2>3, <2>4, <2>5
<1>2. IsFeePaying(g, b)
  BY <1>1 DEF IsFeePaying
<1> DEFINE h == CHOOSE f : IsFeePaying(f, b)
<1>3. BalancesAfterFees(b) = h[{1, 2}]
  <2>1. DOMAIN <<1, 2>> = {1, 2}
    OBVIOUS
  <2> QED
    BY <2>1 DEF BalancesAfterFees, FoldLeft, MapThenFoldSet, IsFeePaying, PayFee,
                CreditIfAny, FeeOf, ErrorOf, Adjusted, Share
<1>4. IsFeePaying(h, b)
  BY <1>2
<1> HIDE DEF h, g
<1>5. h[{}] = Adjusted(b)
  BY <1>4 DEF IsFeePaying
<1>6. h[{1}] = PayFee(h[{}], 1, b)
  BY <1>4, OneTwo DEF IsFeePaying
<1>7. h[{1, 2}] = PayFee(h[{1}], 2, b)
  BY <1>4, OneTwo DEF IsFeePaying
<1> QED BY <1>3, <1>5, <1>6, <1>7

LEMMA SumScale ==
  ASSUME NEW t, NEW u, IsTree(t), IsTree(u), DOMAIN t = DOMAIN u, NEW d \in Nat, NEW k \in Nat,
         \A a \in DOMAIN t : d * u[a] <= k * t[a]
  PROVE  d * SumMap(u) <= k * SumMap(t)
<1> DEFINE P == {s \in SUBSET DOMAIN t : d * SumOn(u, s) <= k * SumOn(t, s)}
<1>1. ASSUME NEW s \in SUBSET DOMAIN t, \A x \in s : s \ {x} \in P
      PROVE  s \in P
  <2>1. CASE s = {}
    <3>1. SumOn(u, s) = 0 /\ SumOn(t, s) = 0
      BY <2>1, SumOnEmpty
    <3> QED BY <3>1
  <2>2. CASE s # {}
    <3>1. PICK x \in s : TRUE
      BY <2>2
    <3> DEFINE r == s \ {x}
    <3>2. d * SumOn(u, r) <= k * SumOn(t, r)
      BY <1>1, <3>1
    <3>3. SumOn(u, s) = u[x] + SumOn(u, r) /\ SumOn(t, s) = t[x] + SumOn(t, r)
      BY SumOnSplit
    <3>4. SumOn(u, r) \in Nat /\ SumOn(t, r) \in Nat /\ u[x] \in Nat /\ t[x] \in Nat
      BY SumOnType DEF IsTree
    <3>5. d * u[x] <= k * t[x]
      BY <3>1
    <3> DEFINE ur == SumOn(u, r)
               tr == SumOn(t, r)
               ux == u[x]
               tx == t[x]
    <3>6. d * (ux + ur) <= k * (tx + tr)
      <4> HIDE DEF ur, tr, ux, tx, r, P
      <4>1. ur \in Nat /\ tr \in Nat /\ ux \in Nat /\ tx \in Nat
        BY <3>4 DEF ur, tr, ux, tx
      <4>2. d * ur <= k * tr /\ d * ux <= k * tx
        BY <3>2, <3>5 DEF ur, tr, ux, tx
      <4>3. d * (ux + ur) = d * ux + d * ur /\ k * (tx + tr) = k * tx + k * tr
        BY <4>1, Products
      <4>4. d * ux \in Nat /\ d * ur \in Nat /\ k * tx \in Nat /\ k * tr \in Nat
        BY <4>1, Products
      <4> QED BY <4>2, <4>3, <4>4
    <3> QED BY <3>3, <3>6
  <2> QED BY <2>1, <2>2
<1>2. DOMAIN t \in P
  <2>1. IsFiniteSet(DOMAIN t)
    BY DEF IsTree
  <2>2. IsInductive(P, DOMAIN t)
    BY <1>1 DEF IsInductive
  <2> HIDE DEF P
  <2> QED BY <2>1, <2>2, SubsetInduction
<1> QED BY <1>2, SumIsSumOn

LEMMA ShareType ==
  Share \in Nat /\ Share + FirstFee + SecondFee = DepositAmount
BY FeesFit DEF Share

\* Scaling down loses at most what the fees are there to take.
LEMMA AdjustedSum ==
  ASSUME NEW b, WithinDeposit(b)
  PROVE  /\ IsTree(Adjusted(b)) /\ DOMAIN Adjusted(b) = DOMAIN b
         /\ DepositAmount * SumMap(Adjusted(b)) <= Share * SumMap(b)
         /\ SumMap(Adjusted(b)) <= Share
<1>1. IsTree(b) /\ SumMap(b) \in Nat /\ SumMap(b) <= DepositAmount
  BY SumType DEF WithinDeposit
<1>2. DepositAmount \in Nat \ {0} /\ Share \in Nat
  BY FeesFit, ShareType
<1>3. ASSUME NEW a \in DOMAIN b
      PROVE  Adjusted(b)[a] \in Nat /\ DepositAmount * Adjusted(b)[a] <= Share * b[a]
  <2> DEFINE x == b[a]
  <2>1. x \in Nat
    BY <1>1 DEF IsTree
  <2>2. Adjusted(b)[a] = (x * Share) \div DepositAmount
    BY DEF Adjusted
  <2> HIDE DEF x
  <2>3. x * Share \in Nat /\ x * Share = Share * x
    BY <1>2, <2>1, Products
  <2> DEFINE y == x * Share
  <2>4. y \div DepositAmount \in Nat /\ DepositAmount * (y \div DepositAmount) <= y
    <3> HIDE DEF y
    <3> QED BY <1>2, <2>3, Floor DEF y
  <2> QED BY <2>2, <2>3, <2>4 DEF x
<1>4. DOMAIN Adjusted(b) = DOMAIN b /\ IsTree(Adjusted(b))
  <2>1. DOMAIN Adjusted(b) = DOMAIN b /\ IsFiniteSet(DOMAIN b)
    BY <1>1 DEF Adjusted, IsTree
  <2>2. Adjusted(b) \in [DOMAIN b -> Nat]
    BY <1>3, <2>1 DEF Adjusted
  <2> QED BY <2>1, <2>2 DEF IsTree
<1>5. DepositAmount * SumMap(Adjusted(b)) <= Share * SumMap(b)
  BY <1>1, <1>2, <1>3, <1>4, SumScale
<1>6. SumMap(Adjusted(b)) <= Share
  <2> DEFINE A == SumMap(Adjusted(b))
             S == SumMap(b)
  <2>1. A \in Nat
    BY <1>4, SumType
  <2> HIDE DEF A, S
  <2>2. Share * S <= Share * DepositAmount /\ Share * S \in Nat
    BY <1>1, <1>2, Products DEF S
  <2>3. DepositAmount * A \in Nat /\ Share * DepositAmount = DepositAmount * Share
    BY <1>2, <2>1, Products
  <2>4. DepositAmount * A <= DepositAmount * Share
    <3>1. Share * DepositAmount \in Nat
      BY <1>2, Products
    <3> QED BY <1>5, <2>2, <2>3, <3>1 DEF A, S
  <2> QED BY <1>2, <2>1, <2>4, Cancel DEF A
<1> QED BY <1>4, <1>5, <1>6

LEMMA ErrorType ==
  ASSUME NEW b, WithinDeposit(b)
  PROVE  /\ ErrorOf(b) \in Nat
         /\ SumMap(b) # DepositAmount => ErrorOf(b) = 0
         /\ SumMap(b) = DepositAmount => ErrorOf(b) = Share - SumMap(Adjusted(b))
<1>1. SumMap(Adjusted(b)) \in Nat /\ SumMap(Adjusted(b)) <= Share /\ Share \in Nat
  BY AdjustedSum, SumType, ShareType
<1>2. ErrorOf(b) = IF SumMap(b) = DepositAmount THEN Share - SumMap(Adjusted(b)) ELSE 0
  BY DEF ErrorOf, RoundingError, Share
<1> QED BY <1>1, <1>2

\* The part of a fee that is earned with distributed out of the deposit.
Earned(fee, distributed) == (fee * distributed) \div DepositAmount

LEMMA EarnedBounds ==
  ASSUME NEW fee \in Nat, NEW S \in Nat
  PROVE  /\ Earned(fee, S) \in Nat
         /\ DepositAmount * Earned(fee, S) <= fee * S
         /\ S = DepositAmount => Earned(fee, S) = fee
<1>1. DepositAmount \in Nat \ {0} /\ fee * S \in Nat
  BY FeesFit, Products
<1> DEFINE y == fee * S
<1>2. y \div DepositAmount \in Nat /\ DepositAmount * (y \div DepositAmount) <= y
  <2> HIDE DEF y
  <2> QED BY <1>1, Floor DEF y
<1>3. S = DepositAmount => y \div DepositAmount = fee
  BY <1>1, FloorOfProduct
<1> QED BY <1>2, <1>3 DEF Earned

LEMMA EarnedGrows ==
  ASSUME NEW fee \in Nat, NEW S \in Nat, NEW T \in Nat, S <= T
  PROVE  Earned(fee, S) <= Earned(fee, T)
<1> DEFINE y == fee * S
           z == fee * T
<1>1. DepositAmount \in Nat \ {0} /\ y \in Nat /\ z \in Nat /\ y <= z
  BY FeesFit, Products
<1> HIDE DEF y, z
<1>2. y \div DepositAmount <= z \div DepositAmount
  BY <1>1, FloorGrows
<1> QED BY <1>2 DEF y, z, Earned

LEMMA FeesOf ==
  ASSUME NEW b
  PROVE  /\ FeeOf(b, 1) = Earned(FirstFee, SumMap(b)) + ErrorOf(b)
         /\ FeeOf(b, 2) = Earned(SecondFee, SumMap(b)) + 0
BY DEF FeeOf, Earned, FirstFee, SecondFee

LEMMA CreditIfAnySum ==
  ASSUME NEW t, IsTree(t), NEW acc, NEW amount \in Nat
  PROVE  /\ IsTree(CreditIfAny(t, acc, amount))
         /\ SumMap(CreditIfAny(t, acc, amount)) = SumMap(t) + amount
<1>1. CASE amount > 0
  BY <1>1, SumOfCredit DEF CreditIfAny
<1>2. CASE amount = 0
  BY <1>2, SumType DEF CreditIfAny
<1> QED BY <1>1, <1>2

\* A tree after fees, and the sum of it.
LEMMA AfterFeesAdds ==
  ASSUME NEW b, WithinDeposit(b)
  PROVE  /\ IsTree(BalancesAfterFees(b))
         /\ SumMap(BalancesAfterFees(b)) =
              SumMap(Adjusted(b)) + FeeOf(b, 1) + FeeOf(b, 2)
         /\ FeeOf(b, 1) \in Nat /\ FeeOf(b, 2) \in Nat
<1>1. SumMap(b) \in Nat /\ IsTree(Adjusted(b)) /\ SumMap(Adjusted(b)) \in Nat
  BY AdjustedSum, SumType DEF WithinDeposit
<1>2. FeeOf(b, 1) \in Nat /\ FeeOf(b, 2) \in Nat
  <2>1. Earned(FirstFee, SumMap(b)) \in Nat /\ Earned(SecondFee, SumMap(b)) \in Nat
    BY <1>1, FeesFit, EarnedBounds
  <2>2. ErrorOf(b) \in Nat
    BY ErrorType
  <2> QED BY <2>1, <2>2, FeesOf
<1> DEFINE first == PayFee(Adjusted(b), 1, b)
           second == PayFee(first, 2, b)
<1>3. IsTree(first) /\ SumMap(first) = SumMap(Adjusted(b)) + FeeOf(b, 1)
  BY <1>1, <1>2, CreditIfAnySum DEF PayFee
<1>4. IsTree(second) /\ SumMap(second) = SumMap(first) + FeeOf(b, 2)
  <2> HIDE DEF first
  <2> QED BY <1>2, <1>3, CreditIfAnySum DEF PayFee
<1>5. BalancesAfterFees(b) = second
  BY AfterFeesIs
<1> HIDE DEF first, second
<1> QED BY <1>2, <1>3, <1>4, <1>5

\* Fees are taken out of what is earned, never added to it; and what the divisions
\* lose is in the tree again once the deposit is spent.
LEMMA AfterFeesSum ==
  ASSUME NEW b, WithinDeposit(b)
  PROVE  /\ WithinDeposit(BalancesAfterFees(b))
         /\ SumMap(BalancesAfterFees(b)) <= SumMap(b)
         /\ SumMap(BalancesAfterFees(b)) = DepositAmount <=> SumMap(b) = DepositAmount
<1> DEFINE S == SumMap(b)
           A == SumMap(Adjusted(b))
           T == SumMap(BalancesAfterFees(b))
           e1 == Earned(FirstFee, S)
           e2 == Earned(SecondFee, S)
<1>1. S \in Nat /\ S <= DepositAmount /\ IsTree(BalancesAfterFees(b)) /\ T \in Nat
  BY SumType, AfterFeesAdds DEF WithinDeposit
<1>2. /\ DepositAmount \in Nat \ {0} /\ FirstFee \in Nat /\ SecondFee \in Nat
      /\ Share \in Nat /\ Share + FirstFee + SecondFee = DepositAmount
  BY FeesFit, ShareType
<1>3. A \in Nat /\ A <= Share /\ DepositAmount * A <= Share * S
  BY AdjustedSum, SumType
<1>4. e1 \in Nat /\ e2 \in Nat
  BY <1>1, <1>2, EarnedBounds
<1>5. DepositAmount * e1 <= FirstFee * S /\ DepositAmount * e2 <= SecondFee * S
  BY <1>1, <1>2, EarnedBounds
<1>6. T = A + (e1 + ErrorOf(b)) + e2
  <2>1. T = A + FeeOf(b, 1) + FeeOf(b, 2)
    BY AfterFeesAdds
  <2>2. FeeOf(b, 2) = e2
    BY <1>4, FeesOf
  <2> QED BY <2>1, <2>2, FeesOf
<1>7. CASE S = DepositAmount
  <2>1. e1 = FirstFee /\ e2 = SecondFee
    BY <1>1, <1>2, <1>7, EarnedBounds
  <2>2. ErrorOf(b) = Share - A
    BY <1>7, ErrorType
  <2>3. T = DepositAmount
    <3> HIDE DEF A, T, e1, e2, S
    <3> QED BY <1>2, <1>3, <1>6, <2>1, <2>2
  <2> QED BY <1>1, <1>2, <1>7, <2>3 DEF WithinDeposit
<1>8. CASE S # DepositAmount
  <2>1. ErrorOf(b) = 0
    BY <1>8, ErrorType
  <2> HIDE DEF A, T, e1, e2, S
  <2>2. T = A + e1 + e2
    BY <1>3, <1>4, <1>6, <2>1
  <2>3. DepositAmount * T = DepositAmount * A + DepositAmount * e1 + DepositAmount * e2
    <3>1. DepositAmount * T = DepositAmount * (A + e1) + DepositAmount * e2
      BY <1>2, <1>3, <1>4, <2>2, Products
    <3>2. DepositAmount * (A + e1) = DepositAmount * A + DepositAmount * e1
      BY <1>2, <1>3, <1>4, Products
    <3> QED BY <3>1, <3>2
  <2>4. DepositAmount * S = Share * S + FirstFee * S + SecondFee * S
    <3>1. DepositAmount * S = (Share + FirstFee) * S + SecondFee * S
      BY <1>1, <1>2, Products
    <3>2. (Share + FirstFee) * S = Share * S + FirstFee * S
      BY <1>1, <1>2, Products
    <3> QED BY <3>1, <3>2
  <2>5. /\ Share * S \in Nat /\ FirstFee * S \in Nat /\ SecondFee * S \in Nat
        /\ DepositAmount * A \in Nat /\ DepositAmount * e1 \in Nat
        /\ DepositAmount * e2 \in Nat
    BY <1>1, <1>2, <1>3, <1>4, Products
  <2>6. DepositAmount * T <= DepositAmount * S
    BY <1>3, <1>5, <2>3, <2>4, <2>5
  <2>7. T <= S
    BY <1>1, <1>2, <2>6, Cancel
  <2>8. T <= DepositAmount /\ T # DepositAmount
    BY <1>1, <1>2, <1>8, <2>7
  <2> QED BY <1>1, <1>8, <2>7, <2>8 DEF WithinDeposit, T, S
<1> QED BY <1>7, <1>8

LEMMA CreditIfAnyGrows ==
  ASSUME NEW t, NEW u, IsTree(t), IsTree(u), Grows(t, u), NEW acc,
         NEW x \in Nat, NEW y \in Nat, x <= y
  PROVE  Grows(CreditIfAny(t, acc, x), CreditIfAny(u, acc, y))
<1> DEFINE tx == CreditIfAny(t, acc, x)
           uy == CreditIfAny(u, acc, y)
<1>1. /\ DOMAIN tx = IF x > 0 THEN DOMAIN t \cup {acc} ELSE DOMAIN t
      /\ DOMAIN uy = IF y > 0 THEN DOMAIN u \cup {acc} ELSE DOMAIN u
  BY DEF CreditIfAny, Credit
<1>2. DOMAIN t \subseteq DOMAIN u /\ \A a \in DOMAIN t : t[a] <= u[a]
  BY DEF Grows
<1>3. DOMAIN tx \subseteq DOMAIN uy
  <2>1. x > 0 => y > 0
    OBVIOUS
  <2> QED BY <1>1, <1>2, <2>1
<1>4. ASSUME NEW a \in DOMAIN tx PROVE tx[a] <= uy[a]
  <2>1. tx[a] = BalanceOf(t, a) + (IF a = acc THEN x ELSE 0)
    <3>1. BalanceOf(t, a) \in Nat
      BY DEF BalanceOf, IsTree
    <3>2. CASE x > 0
      BY <1>4, <3>2 DEF CreditIfAny, Credit
    <3>3. CASE x = 0
      <4>1. a \in DOMAIN t /\ tx[a] = t[a]
        BY <1>4, <3>3 DEF CreditIfAny
      <4> QED BY <3>1, <3>3, <4>1 DEF BalanceOf
    <3> QED BY <3>2, <3>3
  <2>2. uy[a] = BalanceOf(u, a) + (IF a = acc THEN y ELSE 0)
    <3>1. BalanceOf(u, a) \in Nat /\ a \in DOMAIN uy
      BY <1>3 DEF BalanceOf, IsTree
    <3>2. CASE y > 0
      BY <3>1, <3>2 DEF CreditIfAny, Credit
    <3>3. CASE y = 0
      <4>1. a \in DOMAIN u /\ uy[a] = u[a]
        BY <3>1, <3>3 DEF CreditIfAny
      <4> QED BY <3>1, <3>3, <4>1 DEF BalanceOf
    <3> QED BY <3>2, <3>3
  <2>3. BalanceOf(t, a) <= BalanceOf(u, a)
    BY <1>2 DEF BalanceOf, IsTree
  <2>4. BalanceOf(t, a) \in Nat /\ BalanceOf(u, a) \in Nat
    BY DEF BalanceOf, IsTree
  <2> HIDE DEF tx, uy
  <2> QED BY <2>1, <2>2, <2>3, <2>4
<1> HIDE DEF tx, uy
<1> QED BY <1>3, <1>4 DEF Grows, tx, uy

LEMMA AdjustedGrows ==
  ASSUME NEW b, NEW c, WithinDeposit(b), WithinDeposit(c), Grows(b, c)
  PROVE  Grows(Adjusted(b), Adjusted(c))
<1>1. DOMAIN b \subseteq DOMAIN c
  BY DEF Grows
<1>2. ASSUME NEW a \in DOMAIN b PROVE Adjusted(b)[a] <= Adjusted(c)[a]
  <2> DEFINE x == b[a]
             y == c[a]
  <2>1. x \in Nat /\ y \in Nat /\ x <= y
    BY <1>1 DEF Grows, WithinDeposit, IsTree
  <2>2. /\ Adjusted(b)[a] = (x * Share) \div DepositAmount
        /\ Adjusted(c)[a] = (y * Share) \div DepositAmount
    BY <1>1 DEF Adjusted
  <2> HIDE DEF x, y
  <2> DEFINE xs == x * Share
             ys == y * Share
  <2>3. DepositAmount \in Nat \ {0} /\ xs \in Nat /\ ys \in Nat /\ xs <= ys
    BY <2>1, FeesFit, ShareType, Products
  <2>4. xs \div DepositAmount <= ys \div DepositAmount
    <3> HIDE DEF xs, ys
    <3> QED BY <2>3, FloorGrows
  <2> QED BY <2>2, <2>4
<1>3. DOMAIN Adjusted(b) = DOMAIN b /\ DOMAIN Adjusted(c) = DOMAIN c
  BY DEF Adjusted
<1> QED BY <1>1, <1>2, <1>3 DEF Grows

\* The correction of the rounding is made once for good: a tree that has spent the
\* deposit can only be followed by one that gives everybody the same.
LEMMA ErrorGrows ==
  ASSUME NEW b, NEW c, WithinDeposit(b), WithinDeposit(c), Grows(b, c)
  PROVE  ErrorOf(b) <= ErrorOf(c)
<1>1. /\ IsTree(b) /\ IsTree(c) /\ SumMap(b) \in Nat /\ SumMap(c) \in Nat
      /\ SumMap(c) <= DepositAmount /\ DepositAmount \in Nat
  BY SumType, FeesFit DEF WithinDeposit
<1>2. SumMap(b) <= SumMap(c)
  BY <1>1, SumGrows DEF Grows
<1>3. CASE SumMap(b) # DepositAmount
  BY <1>3, ErrorType
<1>4. CASE SumMap(b) = DepositAmount
  <2>1. SumMap(c) = DepositAmount /\ SumMap(b) = SumMap(c)
    BY <1>1, <1>2, <1>4
  <2>2. \A a \in DOMAIN c : c[a] = BalanceOf(b, a)
    BY <1>1, <2>1, SumGrows DEF Grows
  <2> DEFINE t == Adjusted(b)
             u == Adjusted(c)
  <2>3. IsTree(t) /\ IsTree(u) /\ DOMAIN t = DOMAIN b /\ DOMAIN u = DOMAIN c
    BY AdjustedSum
  <2>4. ASSUME NEW a \in DOMAIN u PROVE u[a] = BalanceOf(t, a)
    <3>1. u[a] = (c[a] * Share) \div DepositAmount /\ c[a] = BalanceOf(b, a)
      BY <2>2, <2>3 DEF Adjusted
    <3>2. CASE a \in DOMAIN b
      BY <2>3, <3>1, <3>2 DEF Adjusted, BalanceOf
    <3>3. CASE a \notin DOMAIN b
      <4>1. c[a] = 0 /\ BalanceOf(t, a) = 0
        BY <2>3, <3>1, <3>3 DEF BalanceOf
      <4>2. 0 * Share = 0 /\ 0 \div DepositAmount = 0
        BY ShareType, FeesFit, Floor
      <4> QED BY <3>1, <4>1, <4>2
    <3> QED BY <3>2, <3>3
  <2>5. DOMAIN u \cap DOMAIN t = DOMAIN t
    BY <2>3 DEF Grows
  <2>6. SumMap(u) = SumMap(t)
    <3> HIDE DEF t, u
    <3>1. SumOn(u, DOMAIN u) = SumOn(t, DOMAIN u \cap DOMAIN t)
      BY <2>3, <2>4, SumOnSame
    <3> QED BY <2>5, <3>1, SumIsSumOn
  <2>7. ErrorOf(b) = ErrorOf(c)
    BY <2>1, <2>6 DEF ErrorOf
  <2> QED BY <2>7, ErrorType
<1> QED BY <1>3, <1>4

LEMMA FeeGrows ==
  ASSUME NEW b, NEW c, WithinDeposit(b), WithinDeposit(c), Grows(b, c)
  PROVE  FeeOf(b, 1) <= FeeOf(c, 1) /\ FeeOf(b, 2) <= FeeOf(c, 2)
<1>1. SumMap(b) \in Nat /\ SumMap(c) \in Nat /\ SumMap(b) <= SumMap(c)
  BY SumType, SumGrows DEF WithinDeposit, Grows
<1> DEFINE S == SumMap(b)
           T == SumMap(c)
<1>2. /\ Earned(FirstFee, S) \in Nat /\ Earned(FirstFee, T) \in Nat
      /\ Earned(SecondFee, S) \in Nat /\ Earned(SecondFee, T) \in Nat
  BY <1>1, FeesFit, EarnedBounds
<1>3. Earned(FirstFee, S) <= Earned(FirstFee, T) /\ Earned(SecondFee, S) <= Earned(SecondFee, T)
  BY <1>1, FeesFit, EarnedGrows
<1>4. ErrorOf(b) \in Nat /\ ErrorOf(c) \in Nat /\ ErrorOf(b) <= ErrorOf(c)
  BY ErrorType, ErrorGrows
<1> QED BY <1>2, <1>3, <1>4, FeesOf

\* Who has earned more is not paid less, whatever the fees take and the divisions lose.
LEMMA AfterFeesGrows ==
  ASSUME NEW b, NEW c, WithinDeposit(b), WithinDeposit(c), Grows(b, c)
  PROVE  Grows(BalancesAfterFees(b), BalancesAfterFees(c))
<1>1. IsTree(Adjusted(b)) /\ IsTree(Adjusted(c)) /\ Grows(Adjusted(b), Adjusted(c))
  BY AdjustedSum, AdjustedGrows
<1>2. /\ FeeOf(b, 1) \in Nat /\ FeeOf(c, 1) \in Nat /\ FeeOf(b, 1) <= FeeOf(c, 1)
      /\ FeeOf(b, 2) \in Nat /\ FeeOf(c, 2) \in Nat /\ FeeOf(b, 2) <= FeeOf(c, 2)
  BY AfterFeesAdds, FeeGrows
<1> DEFINE first(d) == PayFee(Adjusted(d), 1, d)
<1>3. IsTree(first(b)) /\ IsTree(first(c))
  BY <1>1, <1>2, CreditIfAnySum DEF PayFee
<1>4. Grows(first(b), first(c))
  BY <1>1, <1>2, CreditIfAnyGrows DEF PayFee
<1>5. Grows(PayFee(first(b), 2, b), PayFee(first(c), 2, c))
  <2> HIDE DEF first
  <2> QED BY <1>2, <1>3, <1>4, CreditIfAnyGrows DEF PayFee
<1> QED BY <1>5, AfterFeesIs

LEMMA AfterFeesIsTransition ==
  ASSUME NEW b, NEW c, WithinDeposit(b), WithinDeposit(c), Grows(b, c)
  PROVE  IsValidTransition(BalancesAfterFees(b), BalancesAfterFees(c))
<1> DEFINE t == BalancesAfterFees(b)
           u == BalancesAfterFees(c)
<1>1. WithinDeposit(t) /\ WithinDeposit(u) /\ Grows(t, u)
  BY AfterFeesSum, AfterFeesGrows
<1> HIDE DEF t, u
<1>2. /\ IsTree(t) /\ IsTree(u) /\ DOMAIN t \subseteq DOMAIN u
      /\ \A a \in DOMAIN t : t[a] <= u[a]
  BY <1>1 DEF WithinDeposit, Grows
<1>3. SumMap(t) <= SumMap(u) /\ SumMap(t) \in Nat /\ SumMap(u) \in Nat
  BY <1>2, SumGrows, SumType
<1>4. \A a \in DOMAIN u : u[a] \in Nat
  BY <1>2 DEF IsTree
<1>5. \A a \in DOMAIN t : t[a] \in Nat /\ u[a] \in Nat
  BY <1>2 DEF IsTree
<1>6. SumMap(u) <= DepositAmount
  BY <1>1 DEF WithinDeposit
<1>7. IsValidTransition(t, u)
  <2>1. SumMap(u) >= SumMap(t) /\ \A a \in DOMAIN t : u[a] >= t[a]
    BY <1>2, <1>3, <1>5
  <2>2. \A a \in DOMAIN u : u[a] >= 0
    BY <1>4
  <2> QED BY <1>2, <1>6, <2>1, <2>2 DEF IsValidTransition
<1> QED BY <1>7 DEF t, u

-----------------------------------------------------------------------------
(* Health.                                                                  *)

Mins(our, approved) == [acc \in DOMAIN our |-> Min({our[acc], BalanceOf(approved, acc)})]

LEMMA MinsBelow ==
  ASSUME NEW our, NEW approved, IsTree(our), IsTree(approved)
  PROVE  /\ IsTree(Mins(our, approved)) /\ DOMAIN Mins(our, approved) = DOMAIN our
         /\ \A a \in DOMAIN our : /\ Mins(our, approved)[a] <= our[a]
                                  /\ Mins(our, approved)[a] <= BalanceOf(approved, a)
         /\ \A a \in DOMAIN our : BalanceOf(approved, a) >= our[a] =>
                                    Mins(our, approved)[a] = our[a]
<1>1. ASSUME NEW a \in DOMAIN our
      PROVE  our[a] \in Nat /\ BalanceOf(approved, a) \in Nat
  BY DEF IsTree, BalanceOf
<1>2. ASSUME NEW a \in DOMAIN our
      PROVE  Mins(our, approved)[a] = IF our[a] <= BalanceOf(approved, a) THEN our[a]
                                      ELSE BalanceOf(approved, a)
  <2>1. our[a] \in Int /\ BalanceOf(approved, a) \in Int
    BY <1>1
  <2> QED BY <2>1, MinOfTwo DEF Mins
<1>3. DOMAIN Mins(our, approved) = DOMAIN our /\ IsFiniteSet(DOMAIN our)
  BY DEF Mins, IsTree
<1>4. Mins(our, approved) \in [DOMAIN our -> Nat]
  BY <1>1, <1>2, <1>3 DEF Mins
<1> QED BY <1>1, <1>2, <1>3, <1>4 DEF IsTree

\* What one account misses, the sum of the minima misses too.
LEMMA MinsMiss ==
  ASSUME NEW our, NEW approved, IsTree(our), IsTree(approved), NEW x \in DOMAIN our
  PROVE  SumMap(our) - SumMins(our, approved) >= our[x] - BalanceOf(approved, x)
<1> DEFINE mins == Mins(our, approved)
           D == DOMAIN our
           r == D \ {x}
<1>1. /\ IsTree(mins) /\ DOMAIN mins = D
      /\ \A a \in D : mins[a] <= our[a] /\ mins[a] <= BalanceOf(approved, a)
  BY MinsBelow
<1>2. SumMins(our, approved) = SumMap(mins)
  BY DEF SumMins, Mins
<1> HIDE DEF mins
<1>3. SumMap(our) = our[x] + SumOn(our, r)
  BY SumIsSumOn, SumOnSplit
<1>4. SumMap(mins) = mins[x] + SumOn(mins, r)
  BY <1>1, SumIsSumOn, SumOnSplit
<1>5. SumOn(mins, r) <= SumOn(our, r)
  <2>1. r \in SUBSET DOMAIN our /\ r \cap DOMAIN mins = r
    BY <1>1
  <2>2. \A a \in DOMAIN mins \cap r : mins[a] <= our[a]
    BY <1>1
  <2> HIDE DEF r
  <2> QED BY <1>1, <2>1, <2>2, SumOnGrows
<1>6. SumOn(mins, r) \in Nat /\ SumOn(our, r) \in Nat
  BY <1>1, SumOnType
<1>7. our[x] \in Nat /\ mins[x] \in Nat /\ BalanceOf(approved, x) \in Nat
  BY <1>1 DEF IsTree, BalanceOf
<1> QED BY <1>1, <1>2, <1>3, <1>4, <1>5, <1>6, <1>7

LEMMA HealthOfTrees ==
  ASSUME NEW our, NEW approved, WithinDeposit(our), WithinDeposit(approved)
  PROVE  /\ HealthPromilles(our, approved) \in 0..1000
         /\ (\A acc \in DOMAIN our : BalanceOf(approved, acc) >= our[acc])
              => HealthPromilles(our, approved) = 1000
         /\ (\E acc \in DOMAIN our :
                1000 * (our[acc] - BalanceOf(approved, acc)) >= DepositAmount)
              => HealthPromilles(our, approved) < 1000
<1> DEFINE O == SumMap(our)
           m == SumMins(our, approved)
           mins == Mins(our, approved)
           miss == (O - m) * 1000
<1>1. IsTree(our) /\ IsTree(approved) /\ O \in Nat /\ O <= DepositAmount
  BY SumType DEF WithinDeposit
<1>2. m = SumMap(mins)
  BY DEF SumMins, Mins
<1>3. m \in Nat /\ m <= O
  <2> HIDE DEF m, mins
  <2>1. IsTree(mins) /\ DOMAIN mins = DOMAIN our /\ \A a \in DOMAIN our : mins[a] <= our[a]
    BY <1>1, MinsBelow DEF mins
  <2> QED BY <1>1, <1>2, <2>1, SumGrows, SumType
<1>4. DepositAmount \in Nat \ {0} /\ miss \in Nat /\ miss <= DepositAmount * 1000
  <2> HIDE DEF O, m
  <2> QED BY <1>1, <1>3, FeesFit
<1>5. /\ miss \div DepositAmount \in Nat /\ DepositAmount * (miss \div DepositAmount) <= miss
      /\ miss < DepositAmount * (miss \div DepositAmount) + DepositAmount
  <2> HIDE DEF miss
  <2> QED BY <1>4, Floor
<1>6. miss \div DepositAmount <= 1000
  <2> DEFINE q == miss \div DepositAmount
  <2>1. q \in Nat /\ DepositAmount * q <= DepositAmount * 1000
    <3>1. DepositAmount * q \in Nat
      BY <1>4, <1>5
    <3> HIDE DEF q, miss
    <3> QED BY <1>4, <1>5, <3>1 DEF q
  <2> HIDE DEF q
  <2>2. q <= 1000
    BY <1>4, <2>1, Cancel
  <2> QED BY <2>2 DEF q
<1>7. HealthPromilles(our, approved) =
        IF m >= O THEN 1000 ELSE 1000 - miss \div DepositAmount
  BY DEF HealthPromilles
<1>8. HealthPromilles(our, approved) \in 0..1000
  <2> HIDE DEF O, m, miss
  <2> QED BY <1>5, <1>6, <1>7
<1>9. ASSUME \A acc \in DOMAIN our : BalanceOf(approved, acc) >= our[acc]
      PROVE  HealthPromilles(our, approved) = 1000
  <2>1. \A a \in DOMAIN our : mins[a] = our[a]
    BY <1>1, <1>9, MinsBelow
  <2>2. mins = our
    BY <1>1, <2>1 DEF Mins, IsTree
  <2>3. m = O
    BY <1>2, <2>2
  <2> HIDE DEF O, m, miss
  <2> QED BY <1>1, <1>7, <2>3
<1>10. ASSUME NEW acc \in DOMAIN our,
              1000 * (our[acc] - BalanceOf(approved, acc)) >= DepositAmount
       PROVE  HealthPromilles(our, approved) < 1000
  <2>1. O - m >= our[acc] - BalanceOf(approved, acc)
    BY <1>1, MinsMiss
  <2>2. our[acc] \in Nat /\ BalanceOf(approved, acc) \in Nat
    BY <1>1 DEF IsTree, BalanceOf
  <2>3. miss >= DepositAmount /\ m < O
    <3> HIDE DEF O, m
    <3> QED BY <1>1, <1>3, <1>4, <1>10, <2>1, <2>2
  <2>4. miss \div DepositAmount # 0
    <3> HIDE DEF miss
    <3> QED BY <1>4, <1>5, <2>3
  <2> HIDE DEF O, m, miss
  <2> QED BY <1>1, <1>3, <1>5, <1>7, <2>3, <2>4
<1> QED BY <1>8, <1>9, <1>10

-----------------------------------------------------------------------------
(* The chain of trees of two validators.                                    *)

\* A tree before fees is of the accounts that were paid and within the deposit; the
\* tree after fees is made of it.  Neither alone is inductive: what the fees leave is
\* not read again, so all there is to know of it comes from the tree before them.
ChainInv ==
  \A v \in Validators :
    /\ WithinDeposit(accounting[v].balancesBeforeFees)
    /\ accounting[v].balances = BalancesAfterFees(accounting[v].balancesBeforeFees)

IsAccounting == DOMAIN accounting = Validators

LEMMA EmptyWithinDeposit ==
  WithinDeposit(EmptyMap) /\ SumMap(EmptyMap) = 0
<1>1. DOMAIN EmptyMap = {} /\ IsTree(EmptyMap)
  BY FS_EmptySet DEF EmptyMap, IsTree
<1>2. SumMap(EmptyMap) = 0
  BY <1>1, SumIsSumOn, SumOnEmpty
<1> QED BY <1>1, <1>2, FeesFit DEF WithinDeposit

\* The first tree, which no fees were taken from yet, is what taking them would leave.
LEMMA EmptyAfterFees ==
  BalancesAfterFees(EmptyMap) = EmptyMap
<1>1. WithinDeposit(EmptyMap) /\ SumMap(EmptyMap) = 0
  BY EmptyWithinDeposit
<1>2. Adjusted(EmptyMap) = EmptyMap
  BY DEF Adjusted, EmptyMap
<1>3. FeeOf(EmptyMap, 1) = 0 /\ FeeOf(EmptyMap, 2) = 0
  <2>1. ErrorOf(EmptyMap) = 0
    BY <1>1, FeesFit, ErrorType
  <2>2. Earned(FirstFee, 0) = 0 /\ Earned(SecondFee, 0) = 0
    BY FeesFit, Floor DEF Earned
  <2> QED BY <1>1, <2>1, <2>2, FeesOf
<1>4. PayFee(EmptyMap, 1, EmptyMap) = EmptyMap /\ PayFee(EmptyMap, 2, EmptyMap) = EmptyMap
  BY <1>3 DEF PayFee, CreditIfAny
<1> QED BY <1>2, <1>4, AfterFeesIs

LEMMA AggregatesArePayouts ==
  \A aggr \in Aggregates : IsPayouts(aggr)
<1> SUFFICES ASSUME NEW aggr \in Aggregates PROVE IsPayouts(aggr)
  OBVIOUS
<1>1. Len(aggr) \in Nat /\ DOMAIN aggr = 1..Len(aggr)
  BY AggregatesAssumption
<1>2. \A i \in DOMAIN aggr : aggr[i].amount \in Nat
  BY AggregatesAssumption
<1>3. IsFiniteSet(1..Len(aggr))
  BY <1>1, FS_Interval
<1> QED BY <1>1, <1>2, <1>3 DEF IsPayouts

LEMMA InitChain ==
  Init => ChainInv /\ IsAccounting
<1> SUFFICES ASSUME Init PROVE ChainInv /\ IsAccounting
  OBVIOUS
<1>1. DOMAIN accounting = Validators
  BY DEF Init
<1>2. ASSUME NEW v \in Validators
      PROVE  accounting[v].balancesBeforeFees = EmptyMap /\ accounting[v].balances = EmptyMap
  BY DEF Init
<1> QED BY <1>1, <1>2, EmptyWithinDeposit, EmptyAfterFees DEF ChainInv, IsAccounting

\* What one tick does, to the validator that ticks and to the other.
LEMMA MergeStep ==
  ASSUME ChainInv, IsAccounting, NEW v \in Validators, NEW aggr \in Aggregates,
         MergeAggrs(v, aggr), NEW w \in Validators
  PROVE  /\ WithinDeposit(accounting[w].balancesBeforeFees)
         /\ WithinDeposit(accounting'[w].balancesBeforeFees)
         /\ Grows(accounting[w].balancesBeforeFees, accounting'[w].balancesBeforeFees)
         /\ accounting[w].balances = BalancesAfterFees(accounting[w].balancesBeforeFees)
         /\ accounting'[w].balances = BalancesAfterFees(accounting'[w].balancesBeforeFees)
<1> DEFINE b == accounting[w].balancesBeforeFees
<1>1. WithinDeposit(b) /\ accounting[w].balances = BalancesAfterFees(b)
  BY DEF ChainInv
<1>2. CASE w = v
  <2> DEFINE c == MergePayouts(b, aggr)
  <2>1. WithinDeposit(c) /\ Grows(b, c)
    <3> HIDE DEF b
    <3> QED BY <1>1, AggregatesArePayouts, MergePayoutsIsPaid
  <2>2. /\ accounting'[w].balancesBeforeFees = c
        /\ accounting'[w].balances = BalancesAfterFees(c)
    BY <1>2 DEF MergeAggrs, IsAccounting
  <2> HIDE DEF c
  <2> QED BY <1>1, <2>1, <2>2
<1>3. CASE w # v
  <2>1. accounting'[w] = accounting[w]
    BY <1>3 DEF MergeAggrs, IsAccounting
  <2>2. Grows(b, b)
    BY <1>1 DEF Grows, WithinDeposit, IsTree
  <2> QED BY <1>1, <2>1, <2>2
<1> QED BY <1>2, <1>3

LEMMA NextChain ==
  ChainInv /\ IsAccounting /\ [Next]_accounting => ChainInv' /\ IsAccounting'
<1> SUFFICES ASSUME ChainInv, IsAccounting, [Next]_accounting PROVE ChainInv' /\ IsAccounting'
  OBVIOUS
<1>1. CASE UNCHANGED accounting
  BY <1>1 DEF ChainInv, IsAccounting
<1>2. ASSUME NEW v \in Validators, NEW aggr \in Aggregates, MergeAggrs(v, aggr)
      PROVE  ChainInv' /\ IsAccounting'
  <2>1. IsAccounting'
    BY <1>2 DEF MergeAggrs, IsAccounting
  <2>2. ChainInv'
    BY <1>2, MergeStep DEF ChainInv
  <2> QED BY <2>1, <2>2
<1> QED BY <1>1, <1>2 DEF Next

\* Every tree before fees is within the deposit and its successor is made of it: what
\* the four theorems below rest on.
THEOREM ChainCorrect ==
  Spec => [](ChainInv /\ IsAccounting)
<1>1. Init => ChainInv /\ IsAccounting
  BY InitChain
<1>2. ChainInv /\ IsAccounting /\ [Next]_accounting => (ChainInv /\ IsAccounting)'
  BY NextChain
<1> QED BY <1>1, <1>2, PTL DEF Spec

\* No validator ever owes more than the deposit, and fees only ever take
\* (mergePayoutsIntoBalances, getBalancesAfterFeesTree).
THEOREM OverspendsNever ==
  Spec => []NeverOverspends
<1>1. ChainInv => NeverOverspends
  BY AfterFeesSum DEF ChainInv, NeverOverspends, WithinDeposit
<1> QED BY <1>1, ChainCorrect, PTL

\* A channel is exhausted after fees exactly when it is before them
\* (getBalancesAfterFeesTree's rounding correction, leader.js and follower.js).
THEOREM ExhaustedTogether ==
  Spec => []ExhaustedWhenDepositIsSpent
<1>1. ChainInv => ExhaustedWhenDepositIsSpent
  BY AfterFeesSum DEF ChainInv, ExhaustedWhenDepositIsSpent, IsExhausted
<1> QED BY <1>1, ChainCorrect, PTL

\* No validator ever produces a tree that its own transition rules refuse
\* (producer.js, followerRules.js isValidTransition).
THEOREM OwnTreesAreValid ==
  Spec => OwnTreesAreValidTransitions
<1> DEFINE Valid == \A v \in Validators :
                      IsValidTransition(accounting[v].balances, accounting'[v].balances)
<1>1. ChainInv /\ IsAccounting /\ [Next]_accounting => [Valid]_accounting
  <2> SUFFICES ASSUME ChainInv, IsAccounting, NEW v \in Validators, NEW aggr \in Aggregates,
                      MergeAggrs(v, aggr), NEW w \in Validators
               PROVE  IsValidTransition(accounting[w].balances, accounting'[w].balances)
    BY DEF Next
  <2> QED BY MergeStep, AfterFeesIsTransition
<1> QED BY <1>1, ChainCorrect, PTL DEF Spec, OwnTreesAreValidTransitions

\* The health a validator computes of the other's tree is a promille, full when the
\* tree gives nobody less, and not full when an account misses a promille of the
\* deposit (getHealthPromilles).
THEOREM HealthIsAgreement ==
  Spec => []PerfectHealthMeansAgreement
<1>1. ChainInv => PerfectHealthMeansAgreement
  <2> SUFFICES ASSUME ChainInv
               PROVE  PerfectHealthMeansAgreement
    OBVIOUS
  <2>1. \A v \in Validators : WithinDeposit(accounting[v].balances)
    BY AfterFeesSum DEF ChainInv
  <2> SUFFICES ASSUME NEW our \in Validators, NEW their \in Validators
               PROVE  LET ours == accounting[our].balances
                          theirs == accounting[their].balances
                      IN  /\ HealthPromilles(ours, theirs) \in 0..1000
                          /\ (\A acc \in DOMAIN ours : BalanceOf(theirs, acc) >= ours[acc])
                               => HealthPromilles(ours, theirs) = 1000
                          /\ (\E acc \in DOMAIN ours :
                                 1000 * (ours[acc] - BalanceOf(theirs, acc)) >= DepositAmount)
                               => HealthPromilles(ours, theirs) < 1000
    BY DEF PerfectHealthMeansAgreement
  <2> DEFINE ours == accounting[our].balances
             theirs == accounting[their].balances
  <2>2. WithinDeposit(ours) /\ WithinDeposit(theirs)
    BY <2>1
  <2>3. /\ HealthPromilles(ours, theirs) \in 0..1000
        /\ (\A acc \in DOMAIN ours : BalanceOf(theirs, acc) >= ours[acc])
             => HealthPromilles(ours, theirs) = 1000
        /\ (\E acc \in DOMAIN ours :
               1000 * (ours[acc] - BalanceOf(theirs, acc)) >= DepositAmount)
             => HealthPromilles(ours, theirs) < 1000
    <3> HIDE DEF ours, theirs
    <3> QED BY ONLY <2>2, HealthOfTrees
  <2> QED BY ONLY <2>3
<1> QED BY <1>1, ChainCorrect, PTL

-----------------------------------------------------------------------------
(* What Outpace relies on of the arithmetic.                                *)

\* Whoever may hold a balance: who is paid for events, and who is paid fees.
Accounts ==
  {Fees[1].addr, Fees[2].addr}
    \cup UNION {{aggr[i].acc : i \in DOMAIN aggr} : aggr \in Aggregates}

AllTrees == {t \in UNION {[A -> Nat] : A \in SUBSET Accounts} : WithinDeposit(t)}

Counted == INSTANCE TreeRules WITH
  Trees <- AllTrees, EmptyTree <- EmptyMap, MergeAggrs <- MergeBatch,
  AfterFees <- BalancesAfterFees, ValidTransition <- IsValidTransition,
  Health <- HealthPromilles, Full <- IsExhausted

LEMMA AllTreesAre ==
  ASSUME NEW t
  PROVE  t \in AllTrees <=> WithinDeposit(t) /\ DOMAIN t \subseteq Accounts
<1>1. ASSUME WithinDeposit(t), DOMAIN t \subseteq Accounts
      PROVE  t \in AllTrees
  <2>1. t \in [DOMAIN t -> Nat] /\ DOMAIN t \in SUBSET Accounts
    BY <1>1 DEF WithinDeposit, IsTree
  <2>2. t \in UNION {[A -> Nat] : A \in SUBSET Accounts}
    BY <2>1
  <2> QED BY <1>1, <2>2 DEF AllTrees
<1>2. ASSUME t \in AllTrees
      PROVE  WithinDeposit(t) /\ DOMAIN t \subseteq Accounts
  BY <1>2 DEF AllTrees
<1> QED BY <1>1, <1>2

LEMMA PaidTrees ==
  ASSUME NEW t \in AllTrees, NEW aggr \in Aggregates
  PROVE  MergePayouts(t, aggr) \in AllTrees /\ Grows(t, MergePayouts(t, aggr))
<1>1. WithinDeposit(t) /\ DOMAIN t \subseteq Accounts /\ IsPayouts(aggr)
  BY AllTreesAre, AggregatesArePayouts
<1> DEFINE u == MergePayouts(t, aggr)
<1>2. u \in Paid(t, aggr) /\ WithinDeposit(u) /\ Grows(t, u)
  BY <1>1, MergePayoutsIsPaid
<1> HIDE DEF u
<1>3. DOMAIN u \subseteq DOMAIN t \cup {aggr[i].acc : i \in DOMAIN aggr}
  BY <1>2 DEF Paid
<1>4. {aggr[i].acc : i \in DOMAIN aggr} \subseteq Accounts
  BY DEF Accounts
<1>5. u \in AllTrees
  BY <1>1, <1>2, <1>3, <1>4, AllTreesAre
<1> QED BY <1>2, <1>5 DEF u

IsMerging(g, tree, batch) ==
  g = [s \in SUBSET DOMAIN batch |->
         IF s = {} THEN tree ELSE MergePayouts(g[s \ {Max(s)}], batch[Max(s)])]

LEMMA MergingExists ==
  ASSUME NEW tree \in AllTrees, NEW batch \in Seq(Aggregates)
  PROVE  \E g \in [SUBSET DOMAIN batch -> AllTrees] : IsMerging(g, tree, batch)
<1> DEFINE D == DOMAIN batch
           op == [i \in D |-> [t \in AllTrees |-> MergePayouts(t, batch[i])]]
           ch == [s \in SUBSET D |-> Max(s)]
<1>1. IsFiniteSet(D) /\ D \subseteq Int /\ \A i \in D : batch[i] \in Aggregates
  <2>1. Len(batch) \in Nat /\ D = 1..Len(batch)
    OBVIOUS
  <2> QED BY <2>1, FS_Interval
<1>2. op \in [D -> [AllTrees -> AllTrees]]
  BY <1>1, PaidTrees
<1>3. Picks(ch, D)
  BY <1>1, MaxInSet, FS_Subset DEF Picks
<1>4. PICK g \in [SUBSET D -> AllTrees] : IsFold(g, tree, op, ch, SUBSET D)
  <2> HIDE DEF D, op, ch
  <2> QED BY <1>1, <1>2, <1>3, FoldExists
<1>5. ASSUME NEW s \in SUBSET D
      PROVE  g[s] = IF s = {} THEN tree ELSE MergePayouts(g[s \ {Max(s)}], batch[Max(s)])
  <2>1. CASE s = {}
    BY <1>4, <2>1 DEF IsFold
  <2>2. CASE s # {}
    <3>1. ch[s] = Max(s) /\ Max(s) \in D /\ g[s \ {Max(s)}] \in AllTrees
      BY <1>3, <1>4, <2>2 DEF Picks
    <3>2. op[Max(s)][g[s \ {Max(s)}]] = MergePayouts(g[s \ {Max(s)}], batch[Max(s)])
      BY <3>1
    <3>3. g[s] = op[Max(s)][g[s \ {Max(s)}]]
      BY <1>4, <2>2, <3>1 DEF IsFold
    <3> QED BY <2>2, <3>2, <3>3
  <2> QED BY <2>1, <2>2
<1>6. IsMerging(g, tree, batch)
  BY <1>4, <1>5 DEF IsMerging
<1> QED BY <1>4, <1>6

\* The trees that merging a batch goes through, one per aggregate.
IsRun(f, tree, batch) ==
  f[0] = tree /\ \A n \in 1..Len(batch) : f[n] = MergePayouts(f[n - 1], batch[n])

\* A batch is merged aggregate by aggregate.
LEMMA MergeBatchIsRun ==
  ASSUME NEW tree \in AllTrees, NEW batch \in Seq(Aggregates), NEW f, IsRun(f, tree, batch)
  PROVE  MergeBatch(tree, batch) = f[Len(batch)]
<1> DEFINE g == CHOOSE h : IsMerging(h, tree, batch)
           P == {n \in Nat : n <= Len(batch) => g[1..n] = f[n]}
<1>1. Len(batch) \in Nat /\ DOMAIN batch = 1..Len(batch)
  OBVIOUS
<1>2. IsMerging(g, tree, batch)
  BY MergingExists
<1>3. MergeBatch(tree, batch) = g[DOMAIN batch]
  BY DEF MergeBatch, FoldLeft, MapThenFoldSet, IsMerging
<1> HIDE DEF g
<1>4. 0 \in P
  <2>1. 1..0 = {}
    OBVIOUS
  <2>2. g[{}] = tree
    BY <1>2 DEF IsMerging
  <2> QED BY <2>1, <2>2 DEF IsRun
<1>5. ASSUME NEW n \in Nat, n \in P PROVE n + 1 \in P
  <2> SUFFICES ASSUME n + 1 <= Len(batch) PROVE g[1 .. n + 1] = f[n + 1]
    OBVIOUS
  <2> DEFINE s == 1 .. n + 1
  <2>1. s \in SUBSET DOMAIN batch /\ s # {}
    BY <1>1
  <2>2. Max(s) = n + 1
    <3>1. n + 1 \in s /\ \A y \in s : n + 1 >= y
      OBVIOUS
    <3>2. \A m \in s : (\A y \in s : m >= y) => m = n + 1
      BY <3>1
    <3> HIDE DEF s
    <3> QED BY <3>1, <3>2 DEF Max
  <2>3. s \ {n + 1} = 1..n
    OBVIOUS
  <2>4. g[s] = MergePayouts(g[s \ {Max(s)}], batch[Max(s)])
    <3> HIDE DEF s
    <3> QED BY <1>2, <2>1 DEF IsMerging
  <2>5. g[1..n] = f[n]
    BY <1>1, <1>5
  <2>6. f[n + 1] = MergePayouts(f[n], batch[n + 1])
    <3>1. n + 1 \in 1..Len(batch) /\ (n + 1) - 1 = n
      BY <1>1
    <3> QED BY <3>1 DEF IsRun
  <2> HIDE DEF s
  <2> QED BY <2>2, <2>3, <2>4, <2>5, <2>6 DEF s
<1>6. Len(batch) \in P
  <2> HIDE DEF P
  <2> QED BY <1>1, <1>4, <1>5, NatSetInduction
<1> QED BY <1>1, <1>3, <1>6

LEMMA RunExists ==
  ASSUME NEW tree \in AllTrees, NEW batch \in Seq(Aggregates)
  PROVE  \E f \in [0..Len(batch) -> AllTrees] : IsRun(f, tree, batch)
<1>1. Len(batch) \in Nat /\ DOMAIN batch = 1..Len(batch)
  OBVIOUS
<1>2. PICK g \in [SUBSET DOMAIN batch -> AllTrees] : IsMerging(g, tree, batch)
  BY MergingExists
<1> DEFINE f == [n \in 0..Len(batch) |-> g[1..n]]
<1>3. f \in [0..Len(batch) -> AllTrees]
  <2>1. \A n \in 0..Len(batch) : 1..n \in SUBSET DOMAIN batch
    BY <1>1
  <2> QED BY <1>2, <2>1
<1>4. f[0] = tree
  <2>1. 1..0 = {} /\ 0 \in 0..Len(batch)
    BY <1>1
  <2>2. g[{}] = tree
    BY <1>2 DEF IsMerging
  <2> QED BY <2>1, <2>2
<1>5. ASSUME NEW n \in 1..Len(batch)
      PROVE  f[n] = MergePayouts(f[n - 1], batch[n])
  <2> DEFINE s == 1..n
  <2>1. s \in SUBSET DOMAIN batch /\ s # {} /\ s \ {n} = 1 .. n - 1
    <3>1. s \ {n} = 1 .. n - 1
      OBVIOUS
    <3>2. n \in s
      OBVIOUS
    <3>3. s \subseteq 1..Len(batch)
      BY <1>1
    <3> QED BY <1>1, <3>1, <3>2, <3>3
  <2>2. Max(s) = n
    <3>1. n \in s /\ \A y \in s : n >= y
      OBVIOUS
    <3>2. \A m \in s : (\A y \in s : m >= y) => m = n
      BY <3>1
    <3> HIDE DEF s
    <3> QED BY <3>1, <3>2 DEF Max
  <2>3. g[s] = MergePayouts(g[s \ {Max(s)}], batch[Max(s)])
    <3> HIDE DEF s
    <3> QED BY <1>2, <2>1 DEF IsMerging
  <2>4. f[n] = g[s] /\ f[n - 1] = g[1 .. n - 1]
    BY <1>1
  <2> HIDE DEF s, f
  <2> QED BY <2>1, <2>2, <2>3, <2>4
<1> HIDE DEF f
<1> QED BY <1>3, <1>4, <1>5 DEF IsRun

\* What is merged in addition takes nothing from anybody.
LEMMA MergeBatchGrows ==
  ASSUME NEW tree \in AllTrees, NEW batch \in Seq(Aggregates)
  PROVE  MergeBatch(tree, batch) \in AllTrees /\ Grows(tree, MergeBatch(tree, batch))
<1>1. Len(batch) \in Nat /\ \A n \in 1..Len(batch) : batch[n] \in Aggregates
  OBVIOUS
<1>2. PICK f \in [0..Len(batch) -> AllTrees] : IsRun(f, tree, batch)
  BY RunExists
<1> DEFINE P == {n \in Nat : n <= Len(batch) => Grows(tree, f[n])}
<1>3. 0 \in P
  <2>1. f[0] = tree /\ IsTree(tree)
    BY <1>2, AllTreesAre DEF IsRun, WithinDeposit
  <2> QED BY <2>1 DEF Grows, IsTree
<1>4. ASSUME NEW n \in Nat, n \in P PROVE n + 1 \in P
  <2> SUFFICES ASSUME n + 1 <= Len(batch) PROVE Grows(tree, f[n + 1])
    OBVIOUS
  <2>1. n + 1 \in 1..Len(batch) /\ (n + 1) - 1 = n /\ n \in 0..Len(batch)
    BY <1>1
  <2>2. f[n + 1] = MergePayouts(f[n], batch[n + 1])
    BY <1>2, <2>1 DEF IsRun
  <2>3. f[n] \in AllTrees /\ batch[n + 1] \in Aggregates
    BY <1>1, <1>2, <2>1
  <2>4. f[n + 1] \in AllTrees /\ Grows(f[n], f[n + 1])
    BY <2>2, <2>3, PaidTrees
  <2>5. Grows(tree, f[n])
    BY <1>1, <1>4
  <2>6. IsTree(tree) /\ IsTree(f[n]) /\ IsTree(f[n + 1])
    BY <2>3, <2>4, AllTreesAre DEF WithinDeposit
  <2> QED BY <2>4, <2>5, <2>6, GrowsTransitive
<1>5. Len(batch) \in P
  <2> HIDE DEF P
  <2> QED BY <1>1, <1>3, <1>4, NatSetInduction
<1>6. MergeBatch(tree, batch) = f[Len(batch)]
  BY <1>2, MergeBatchIsRun
<1> QED BY <1>1, <1>2, <1>5, <1>6

\* Merging two batches one after the other is merging both at once.
LEMMA MergedInTwo ==
  ASSUME NEW tree \in AllTrees, NEW batch \in Seq(Aggregates), NEW k \in 0..Len(batch)
  PROVE  MergeBatch(MergeBatch(tree, SubSeq(batch, 1, k)),
                    SubSeq(batch, k + 1, Len(batch)))
           = MergeBatch(tree, batch)
<1> DEFINE first == SubSeq(batch, 1, k)
           rest == SubSeq(batch, k + 1, Len(batch))
           n == Len(batch)
<1>1. /\ n \in Nat /\ k \in 0..n
      /\ \A i \in 1..n : batch[i] \in Aggregates
  OBVIOUS
<1>2. first \in Seq(Aggregates) /\ Len(first) = k /\ \A i \in 1..k : first[i] = batch[i]
  OBVIOUS
<1>3. /\ rest \in Seq(Aggregates) /\ Len(rest) = n - k
      /\ \A i \in 1 .. n - k : rest[i] = batch[k + i]
  OBVIOUS
<1>4. PICK f \in [0..n -> AllTrees] : IsRun(f, tree, batch)
  BY RunExists
<1> DEFINE g == [i \in 0 .. n - k |-> f[k + i]]
<1> HIDE DEF first, rest
<1>5. f[0] = tree /\ \A i \in 1..n : f[i] = MergePayouts(f[i - 1], batch[i])
  BY <1>4 DEF IsRun
<1> HIDE DEF n
<1>6. IsRun(f, tree, first)
  <2>1. \A i \in 1..k : i \in 1..n
    BY <1>1
  <2> QED BY <1>2, <1>5, <2>1 DEF IsRun
<1>7. MergeBatch(tree, first) = f[k] /\ f[k] \in AllTrees
  BY <1>1, <1>2, <1>4, <1>6, MergeBatchIsRun
<1>8. IsRun(g, f[k], rest)
  <2>1. g[0] = f[k]
    BY <1>1
  <2>2. ASSUME NEW i \in 1 .. n - k
        PROVE  g[i] = MergePayouts(g[i - 1], rest[i])
    <3>1. k + i \in 1..n /\ i \in 0 .. n - k /\ i - 1 \in 0 .. n - k
      BY <1>1
    <3>2. g[i] = f[k + i] /\ g[i - 1] = f[k + (i - 1)] /\ k + (i - 1) = (k + i) - 1
      BY <1>1, <3>1
    <3>3. f[k + i] = MergePayouts(f[(k + i) - 1], batch[k + i])
      BY <1>5, <3>1
    <3> QED BY <1>3, <3>2, <3>3
  <2> HIDE DEF g
  <2> QED BY <1>3, <2>1, <2>2 DEF IsRun
<1>9. MergeBatch(f[k], rest) = f[n]
  <2>1. g[n - k] = f[n]
    <3>1. n - k \in 0 .. n - k /\ k + (n - k) = n
      BY <1>1
    <3> QED BY <3>1
  <2> HIDE DEF g
  <2> QED BY <1>3, <1>7, <1>8, <2>1, MergeBatchIsRun
<1>10. MergeBatch(tree, batch) = f[n]
  BY <1>4, MergeBatchIsRun DEF n
<1> QED BY <1>7, <1>9, <1>10 DEF first, rest, n

LEMMA EmptyBatch ==
  ASSUME NEW tree \in AllTrees
  PROVE  MergeBatch(tree, <<>>) = tree
<1> DEFINE f == [n \in {0} |-> tree]
<1>1. IsRun(f, tree, <<>>)
  <2>1. Len(<<>>) = 0 /\ 1..0 = {}
    OBVIOUS
  <2> QED BY <2>1 DEF IsRun
<1>2. <<>> \in Seq(Aggregates) /\ Len(<<>>) = 0 /\ f[0] = tree
  OBVIOUS
<1> HIDE DEF f
<1> QED BY <1>1, <1>2, MergeBatchIsRun

LEMMA AfterFeesAccounts ==
  ASSUME NEW tree \in AllTrees
  PROVE  BalancesAfterFees(tree) \in AllTrees
<1>1. WithinDeposit(tree) /\ DOMAIN tree \subseteq Accounts
  BY AllTreesAre
<1>2. WithinDeposit(BalancesAfterFees(tree))
  BY <1>1, AfterFeesSum
<1>3. DOMAIN BalancesAfterFees(tree) \subseteq Accounts
  <2>1. DOMAIN Adjusted(tree) \subseteq Accounts
    BY <1>1 DEF Adjusted
  <2>2. Fees[1].addr \in Accounts /\ Fees[2].addr \in Accounts
    BY DEF Accounts
  <2>3. ASSUME NEW t, DOMAIN t \subseteq Accounts, NEW acc \in Accounts, NEW amount
        PROVE  DOMAIN CreditIfAny(t, acc, amount) \subseteq Accounts
    BY <2>3 DEF CreditIfAny, Credit
  <2>4. DOMAIN PayFee(Adjusted(tree), 1, tree) \subseteq Accounts
    BY <2>1, <2>2, <2>3 DEF PayFee
  <2>5. DOMAIN PayFee(PayFee(Adjusted(tree), 1, tree), 2, tree) \subseteq Accounts
    BY <2>2, <2>3, <2>4 DEF PayFee
  <2> QED BY <2>5, AfterFeesIs
<1> QED BY <1>2, <1>3, AllTreesAre

\* Who counts more misses at least as much of a tree.
LEMMA MissGrows ==
  ASSUME NEW our, NEW more, NEW approved, IsTree(our), IsTree(more), IsTree(approved),
         Grows(our, more)
  PROVE  SumMap(our) - SumMins(our, approved) <= SumMap(more) - SumMins(more, approved)
<1> DEFINE D == DOMAIN our
           t == Mins(our, approved)
           u == Mins(more, approved)
           Less(s) == SumOn(our, s \cap D) - SumOn(t, s \cap D) <= SumOn(more, s) - SumOn(u, s)
           P == {s \in SUBSET DOMAIN more : Less(s)}
<1>1. IsTree(t) /\ DOMAIN t = D /\ IsTree(u) /\ DOMAIN u = DOMAIN more
  BY MinsBelow
<1>2. D \subseteq DOMAIN more /\ \A a \in D : our[a] <= more[a]
  BY DEF Grows
<1>3. ASSUME NEW a \in DOMAIN more
      PROVE  /\ more[a] \in Nat /\ u[a] \in Nat /\ u[a] <= more[a]
             /\ a \in D => our[a] \in Nat /\ t[a] \in Nat /\ our[a] - t[a] <= more[a] - u[a]
  <2>1. BalanceOf(approved, a) \in Nat /\ more[a] \in Nat /\ (a \in D => our[a] \in Nat)
    BY DEF IsTree, BalanceOf
  <2>2. u[a] = Min({more[a], BalanceOf(approved, a)})
    BY DEF Mins
  <2>3. a \in D => t[a] = Min({our[a], BalanceOf(approved, a)})
    BY DEF Mins
  <2>4. u[a] = IF more[a] <= BalanceOf(approved, a) THEN more[a] ELSE BalanceOf(approved, a)
    BY <2>1, <2>2, MinOfTwo
  <2>5. a \in D =>
          t[a] = IF our[a] <= BalanceOf(approved, a) THEN our[a] ELSE BalanceOf(approved, a)
    BY <2>1, <2>3, MinOfTwo
  <2> HIDE DEF t, u, D
  <2> QED BY <1>2, <2>1, <2>4, <2>5
<1> HIDE DEF t, u
<1>4. ASSUME NEW s \in SUBSET DOMAIN more, \A x \in s : s \ {x} \in P
      PROVE  Less(s)
  <2>1. CASE s = {}
    <3>1. s \cap D = {}
      BY <2>1
    <3>2. SumOn(our, {}) = 0 /\ SumOn(t, {}) = 0 /\ SumOn(more, {}) = 0 /\ SumOn(u, {}) = 0
      BY <1>1, SumOnEmpty
    <3> QED BY <2>1, <3>1, <3>2
  <2>2. CASE s # {}
    <3>1. PICK x \in s : TRUE
      BY <2>2
    <3> DEFINE r == s \ {x}
    <3>2. Less(r)
      BY <1>4, <3>1
    <3>3. /\ SumOn(more, s) = more[x] + SumOn(more, r) /\ SumOn(u, s) = u[x] + SumOn(u, r)
          /\ SumOn(more, r) \in Nat /\ SumOn(u, r) \in Nat
      BY <1>1, <3>1, SumOnSplit, SumOnType
    <3>4. SumOn(our, r \cap D) \in Nat /\ SumOn(t, r \cap D) \in Nat
      BY <1>1, SumOnType
    <3>5. more[x] \in Nat /\ u[x] \in Nat /\ u[x] <= more[x]
      BY <1>3, <3>1
    <3>6. CASE x \in D
      <4>1. (s \cap D) \ {x} = r \cap D
        OBVIOUS
      <4>2. /\ SumOn(our, s \cap D) = our[x] + SumOn(our, r \cap D)
            /\ SumOn(t, s \cap D) = t[x] + SumOn(t, r \cap D)
        BY <1>1, <3>6, <4>1, SumOnSplit
      <4>3. our[x] \in Nat /\ t[x] \in Nat /\ our[x] - t[x] <= more[x] - u[x]
        BY <1>3, <3>1, <3>6
      <4> HIDE DEF r, D
      <4> QED BY <3>2, <3>3, <3>4, <3>5, <4>2, <4>3
    <3>7. CASE x \notin D
      <4>1. s \cap D = r \cap D
        BY <3>7
      <4>2. SumOn(our, s \cap D) = SumOn(our, r \cap D) /\ SumOn(t, s \cap D) = SumOn(t, r \cap D)
        BY <4>1
      <4> HIDE DEF r, D
      <4> QED BY <3>2, <3>3, <3>4, <3>5, <4>2
    <3> QED BY <3>6, <3>7
  <2> QED BY <2>1, <2>2
<1>5. Less(DOMAIN more)
  <2>1. IsFiniteSet(DOMAIN more)
    BY DEF IsTree
  <2>2. IsInductive(P, DOMAIN more)
    BY <1>4 DEF IsInductive
  <2>3. DOMAIN more \in P
    <3> HIDE DEF P
    <3> QED BY <2>1, <2>2, SubsetInduction
  <2> QED BY <2>3
<1>6. DOMAIN more \cap D = D
  BY <1>2
<1>7. /\ SumMap(our) = SumOn(our, D) /\ SumMap(more) = SumOn(more, DOMAIN more)
      /\ SumMins(our, approved) = SumOn(t, D)
      /\ SumMins(more, approved) = SumOn(u, DOMAIN more)
  BY <1>1, SumIsSumOn DEF SumMins, Mins, t, u
<1> HIDE DEF D
<1> QED BY <1>5, <1>6, <1>7

LEMMA HealthFalls ==
  ASSUME NEW our, NEW more, NEW approved, WithinDeposit(our), WithinDeposit(more),
         WithinDeposit(approved), Grows(our, more)
  PROVE  HealthPromilles(more, approved) <= HealthPromilles(our, approved)
<1> DEFINE o == SumMap(our)
           m == SumMap(more)
           oMins == SumMins(our, approved)
           mMins == SumMins(more, approved)
           oMiss == (o - oMins) * 1000
           mMiss == (m - mMins) * 1000
<1>1. IsTree(our) /\ IsTree(more) /\ IsTree(approved) /\ DepositAmount \in Nat \ {0}
  BY FeesFit DEF WithinDeposit
<1>2. /\ o \in Nat /\ m \in Nat /\ oMins \in Nat /\ mMins \in Nat
      /\ oMins <= o /\ mMins <= m
  <2>1. ASSUME NEW t, IsTree(t)
        PROVE  SumMap(t) \in Nat /\ SumMins(t, approved) \in Nat /\ SumMins(t, approved) <= SumMap(t)
    <3> DEFINE mins == Mins(t, approved)
    <3>1. IsTree(mins) /\ DOMAIN mins = DOMAIN t /\ \A a \in DOMAIN t : mins[a] <= t[a]
      BY <1>1, <2>1, MinsBelow
    <3>2. SumMins(t, approved) = SumMap(mins)
      BY DEF SumMins, Mins
    <3> HIDE DEF mins
    <3> QED BY <2>1, <3>1, <3>2, SumGrows, SumType
  <2> QED BY <1>1, <2>1
<1>3. o - oMins <= m - mMins
  BY <1>1, MissGrows
<1>4. /\ HealthPromilles(our, approved) =
           IF oMins >= o THEN 1000 ELSE 1000 - oMiss \div DepositAmount
      /\ HealthPromilles(more, approved) =
           IF mMins >= m THEN 1000 ELSE 1000 - mMiss \div DepositAmount
  BY DEF HealthPromilles
<1>5. HealthPromilles(more, approved) \in 0..1000
  BY HealthOfTrees
<1> HIDE DEF o, m, oMins, mMins
<1>6. oMiss \in Nat /\ mMiss \in Nat /\ oMiss <= mMiss
  BY <1>2, <1>3
<1> HIDE DEF oMiss, mMiss
<1>7. oMiss \div DepositAmount <= mMiss \div DepositAmount
  BY <1>1, <1>6, FloorGrows
<1>8. oMiss \div DepositAmount \in Nat /\ mMiss \div DepositAmount \in Nat
  BY <1>1, <1>6, Floor
<1> QED BY <1>2, <1>3, <1>4, <1>5, <1>7, <1>8

LEMMA HealthType ==
  ASSUME NEW our \in AllTrees, NEW approved \in AllTrees
  PROVE  HealthPromilles(our, approved) \in Int
<1>1. HealthPromilles(our, approved) \in 0..1000
  BY HealthOfTrees, AllTreesAre
<1> QED BY <1>1

LEMMA ClosedTrees ==
  ASSUME NEW batches \in SUBSET Seq(Aggregates)
  PROVE  Counted!TreesAreClosed(batches)
<1>1. EmptyMap \in AllTrees
  <2>1. DOMAIN EmptyMap = {}
    BY DEF EmptyMap
  <2> QED BY <2>1, EmptyWithinDeposit, AllTreesAre
<1>2. \A tree \in AllTrees : BalancesAfterFees(tree) \in AllTrees
  BY AfterFeesAccounts
<1>3. \A tree \in AllTrees, batch \in batches : MergeBatch(tree, batch) \in AllTrees
  BY MergeBatchGrows
<1>4. \A tree \in AllTrees : IsExhausted(tree) \in BOOLEAN
  BY DEF IsExhausted
<1>5. \A our, tree \in AllTrees : HealthPromilles(our, tree) \in Int
  BY HealthType
<1> QED BY <1>1, <1>2, <1>3, <1>4, <1>5 DEF Counted!TreesAreClosed

LEMMA FollowsTheEmptyOne ==
  Counted!AnyTreeFollowsTheEmptyOne
<1> SUFFICES ASSUME NEW prev \in AllTrees, NEW next \in AllTrees, IsValidTransition(prev, next)
             PROVE  IsValidTransition(EmptyMap, next)
  BY DEF Counted!AnyTreeFollowsTheEmptyOne
<1>1. WithinDeposit(next) /\ SumMap(next) \in Nat /\ SumMap(EmptyMap) = 0
  BY EmptyWithinDeposit, SumType, AllTreesAre DEF WithinDeposit
<1>2. DOMAIN EmptyMap = {}
  BY DEF EmptyMap
<1> QED BY <1>1, <1>2 DEF IsValidTransition

LEMMA GoesOn ==
  ASSUME NEW histories \in SUBSET Seq(Aggregates)
  PROVE  Counted!MergingGoesOn(histories)
<1>1. EmptyMap \in AllTrees
  BY ClosedTrees DEF Counted!TreesAreClosed
<1>2. MergeBatch(EmptyMap, <<>>) = EmptyMap
  BY <1>1, EmptyBatch
<1>3. ASSUME NEW history \in histories, NEW k \in 0..Len(history)
      PROVE  MergeBatch(MergeBatch(EmptyMap, SubSeq(history, 1, k)),
                        SubSeq(history, k + 1, Len(history)))
               = MergeBatch(EmptyMap, history)
  BY <1>1, MergedInTwo
<1> QED BY <1>2, <1>3 DEF Counted!MergingGoesOn

LEMMA MoreIsStricter ==
  ASSUME NEW batches \in SUBSET Seq(Aggregates)
  PROVE  Counted!CountingMoreIsStricter(batches)
<1> SUFFICES ASSUME NEW our \in AllTrees, NEW tree \in AllTrees, NEW batch \in batches
             PROVE  HealthPromilles(BalancesAfterFees(MergeBatch(our, batch)), tree)
                      <= HealthPromilles(BalancesAfterFees(our), tree)
  BY DEF Counted!CountingMoreIsStricter
<1> DEFINE more == MergeBatch(our, batch)
<1>1. more \in AllTrees /\ Grows(our, more)
  BY MergeBatchGrows
<1> HIDE DEF more
<1>2. WithinDeposit(our) /\ WithinDeposit(more) /\ WithinDeposit(tree)
  BY <1>1, AllTreesAre
<1>3. /\ WithinDeposit(BalancesAfterFees(our)) /\ WithinDeposit(BalancesAfterFees(more))
      /\ Grows(BalancesAfterFees(our), BalancesAfterFees(more))
  BY <1>1, <1>2, AfterFeesSum, AfterFeesGrows
<1> QED BY <1>2, <1>3, HealthFalls DEF more

\* What mergeAggrs, getBalancesAfterFeesTree, isValidTransition and getHealthPromilles
\* compute is what the theorems about the protocol rely on, whatever batches the workers
\* read of the aggregates.
THEOREM ArithmeticIsAsAssumed ==
  ASSUME NEW batches \in SUBSET Seq(Aggregates)
  PROVE  /\ Counted!TreesAreClosed(batches)
         /\ Counted!AnyTreeFollowsTheEmptyOne
         /\ Counted!MergingGoesOn(batches)
         /\ Counted!CountingMoreIsStricter(batches)
BY ClosedTrees, FollowsTheEmptyOne, GoesOn, MoreIsStricter
=============================================================================
