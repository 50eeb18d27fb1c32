-------------------------- MODULE WorkerLoopProofs --------------------------
(***************************************************************************)
(* Theorems about the channels that a Sentry stores and the rounds in which *)
(* a worker ticks them, for any channels, requests, page sizes and clocks.  *)
(***************************************************************************)
EXTENDS WorkerLoop, FoldTheorems

CanPay(c) == TotalFee(Def[c]) <= Def[c].depositAmount

ReqTypes == [Requests -> {"sent", "checking", "refused", "exists", "created"}]

\* A request past its validation posts a channel that can pay, and one that was
\* told "created" finds its channel stored: so a second one cannot be told so.
CollectionInv ==
  /\ req \in ReqTypes
  /\ col \in Seq(Channels) /\ IsInjective(col)
  /\ \A c \in Stored : CanPay(c)
  /\ \A r \in Requests : req[r] = "checking" => CanPay(Posted[r])
  /\ \A r \in Requests : req[r] = "created" => Posted[r] \in Stored
  /\ \A r, s \in Requests :
       req[r] = "created" /\ req[s] = "created" /\ Posted[r] = Posted[s] => r = s

-----------------------------------------------------------------------------
(* What the helpers return.                                                 *)

\* InsertAt moves what is behind the place by one.
LEMMA InsertAtElements ==
  ASSUME NEW S, NEW seq \in Seq(S), NEW i \in 1..Len(seq) + 1, NEW e \in S
  PROVE  /\ InsertAt(seq, i, e) \in Seq(S)
         /\ Len(InsertAt(seq, i, e)) = Len(seq) + 1
         /\ \A k \in 1..Len(seq) + 1 :
              InsertAt(seq, i, e)[k] = IF k < i THEN seq[k] ELSE IF k = i THEN e ELSE seq[k - 1]
<1> DEFINE front == SubSeq(seq, 1, i - 1)
           back == SubSeq(seq, i, Len(seq))
<1>1. front \in Seq(S) /\ Len(front) = i - 1 /\ \A k \in 1..i - 1 : front[k] = seq[k]
  BY SubSeqProperties
<1>2. /\ back \in Seq(S) /\ Len(back) = Len(seq) - i + 1
      /\ \A k \in 1..Len(seq) - i + 1 : back[k] = seq[k + i - 1]
  BY SubSeqProperties
<1>3. <<e>> \in Seq(S) /\ Len(<<e>>) = 1 /\ <<e>>[1] = e
  OBVIOUS
<1> DEFINE upTo == front \o <<e>>
<1>4. InsertAt(seq, i, e) = upTo \o back
  BY DEF InsertAt
<1> HIDE DEF front, back
<1>5. upTo \in Seq(S) /\ Len(upTo) = i /\ \A k \in 1..i : upTo[k] = IF k < i THEN seq[k] ELSE e
  BY <1>1, <1>3, ConcatProperties
<1> HIDE DEF upTo
<1>6. /\ upTo \o back \in Seq(S) /\ Len(upTo \o back) = i + Len(back)
      /\ \A k \in 1..i + Len(back) : (upTo \o back)[k] = IF k <= i THEN upTo[k] ELSE back[k - i]
  BY <1>2, <1>5, ConcatProperties
<1>7. i + Len(back) = Len(seq) + 1
  BY <1>2
<1>8. ASSUME NEW k \in 1..Len(seq) + 1, k > i PROVE back[k - i] = seq[k - 1]
  <2>1. k - i \in 1..Len(seq) - i + 1
    BY <1>8
  <2> QED BY <1>2, <2>1
<1> QED BY <1>4, <1>5, <1>6, <1>7, <1>8

\* What InsertAt makes of a sequence without repetitions holds one element more.
LEMMA InsertAtOnce ==
  ASSUME NEW S, NEW seq \in Seq(S), NEW i \in 1..Len(seq) + 1, NEW e \in S,
         IsInjective(seq), e \notin ToSet(seq)
  PROVE  /\ IsInjective(InsertAt(seq, i, e))
         /\ ToSet(InsertAt(seq, i, e)) = ToSet(seq) \cup {e}
<1> DEFINE new == InsertAt(seq, i, e)
<1>1. /\ DOMAIN new = 1..Len(seq) + 1
      /\ \A k \in 1..Len(seq) + 1 :
           new[k] = IF k < i THEN seq[k] ELSE IF k = i THEN e ELSE seq[k - 1]
  BY InsertAtElements
<1> HIDE DEF new
<1>2. DOMAIN seq = 1..Len(seq) /\ \A k \in 1..Len(seq) : seq[k] # e /\ seq[k] \in ToSet(seq)
  BY DEF ToSet
<1>3. IsInjective(new)
  <2> SUFFICES ASSUME NEW a \in 1..Len(seq) + 1, NEW b \in 1..Len(seq) + 1, new[a] = new[b]
               PROVE  a = b
    BY <1>1 DEF IsInjective
  <2>1. ASSUME NEW x \in 1..Len(seq) + 1, x # i
        PROVE  new[x] = seq[IF x < i THEN x ELSE x - 1] /\ new[x] # e
    BY <1>1, <1>2, <2>1
  <2>2. new[i] = e
    BY <1>1
  <2>3. CASE a = i \/ b = i
    BY <2>1, <2>2, <2>3
  <2>4. CASE a # i /\ b # i
    <3> DEFINE from(x) == IF x < i THEN x ELSE x - 1
    <3>1. from(a) \in 1..Len(seq) /\ from(b) \in 1..Len(seq)
      BY <2>4
    <3>2. seq[from(a)] = seq[from(b)]
      BY <2>1, <2>4
    <3>3. from(a) = from(b)
      BY <1>2, <3>1, <3>2 DEF IsInjective
    <3> QED BY <2>4, <3>3
  <2> QED BY <2>3, <2>4
<1>4. ToSet(new) = ToSet(seq) \cup {e}
  <2>1. ASSUME NEW k \in 1..Len(seq) + 1 PROVE new[k] \in ToSet(seq) \cup {e}
    BY <1>1, <1>2
  <2>2. ASSUME NEW k \in 1..Len(seq) PROVE seq[k] \in ToSet(new)
    <3>1. CASE k < i
      BY <1>1, <3>1 DEF ToSet
    <3>2. CASE k >= i
      <4>1. k + 1 \in DOMAIN new /\ new[k + 1] = seq[k]
        BY <1>1, <3>2
      <4> QED BY <4>1 DEF ToSet
    <3> QED BY <3>1, <3>2
  <2>3. e \in ToSet(new)
    BY <1>1 DEF ToSet
  <2>4. ToSet(seq) \subseteq ToSet(new)
    BY <1>2, <2>2 DEF ToSet
  <2>5. ToSet(new) \subseteq ToSet(seq) \cup {e}
    BY <1>1, <2>1 DEF ToSet
  <2> QED BY <2>3, <2>4, <2>5
<1> QED BY <1>3, <1>4 DEF new

\* A new channel is put before, between or behind those that are stored.
LEMMA PlaceInBounds ==
  ASSUME col \in Seq(Channels), NEW c
  PROVE  Place(c) \in 1..Len(col) + 1
<1> DEFINE places == 1..Len(col)
           earlier == {d \in Stored : Def[d].validUntil <= Def[c].validUntil}
           f == [i \in places |-> col[i]]
<1>1. f \in Surjection(places, Stored)
  BY DEF Surjection, Stored, ToSet
<1>2. IsFiniteSet(places) /\ Cardinality(places) = Len(col)
  <2>1. Len(col) \in Nat
    OBVIOUS
  <2> QED BY <2>1, FirstNumbers
<1>3. IsFiniteSet(Stored) /\ Cardinality(Stored) <= Len(col)
  <2> HIDE DEF f, places
  <2> QED BY <1>1, <1>2, FS_Surjection
<1>4. IsFiniteSet(earlier) /\ Cardinality(earlier) <= Cardinality(Stored)
  BY <1>3, FS_Subset, earlier \in SUBSET Stored
<1>5. Cardinality(earlier) \in Nat /\ Cardinality(Stored) \in Nat
  BY <1>3, <1>4, FS_CardinalityType
<1> QED BY <1>3, <1>4, <1>5 DEF Place

-----------------------------------------------------------------------------
(* The collection.                                                          *)

\* What the collection says of channels is untouched by what leaves it alone.
LEMMA CollectionUntouched ==
  ASSUME CollectionInv, UNCHANGED <<col, req>>
  PROVE  CollectionInv'
BY DEF CollectionInv, CanPay, Stored

LEMMA ValidateKeepsCollection ==
  ASSUME CollectionInv, NEW r \in Requests, Validate(r)
  PROVE  CollectionInv'
<1>1. col' = col
  BY DEF Validate
<1>2. \/ req' = [req EXCEPT ![r] = "refused"]
      \/ req' = [req EXCEPT ![r] = "checking"] /\ CanPay(Posted[r])
  BY DEF Validate, PreValidated, IsChannelValid, PaysEnough, CanPay
<1> QED BY <1>1, <1>2 DEF CollectionInv, CanPay, Stored, ReqTypes

LEMMA RefuseKeepsCollection ==
  ASSUME CollectionInv, NEW r \in Requests, RefuseByChain(r)
  PROVE  CollectionInv'
BY DEF RefuseByChain, CollectionInv, CanPay, Stored, ReqTypes

LEMMA InsertKeepsCollection ==
  ASSUME CollectionInv, NEW r \in Requests, InsertChannel(r)
  PROVE  CollectionInv'
<1>1. CASE Posted[r] \in Stored
  <2>1. req' = [req EXCEPT ![r] = "exists"] /\ col' = col
    BY <1>1 DEF InsertChannel
  <2> QED BY <2>1 DEF CollectionInv, CanPay, Stored, ReqTypes
<1>2. CASE Posted[r] \notin Stored
  <2>1. /\ req' = [req EXCEPT ![r] = "created"]
        /\ col' = InsertAt(col, Place(Posted[r]), Posted[r])
    BY <1>2 DEF InsertChannel
  <2>2. Posted[r] \in Channels /\ CanPay(Posted[r])
    BY LoopAssumption DEF InsertChannel, CollectionInv
  <2>3. col \in Seq(Channels) /\ IsInjective(col) /\ Place(Posted[r]) \in 1..Len(col) + 1
    BY PlaceInBounds DEF CollectionInv
  <2>4. col' \in Seq(Channels)
    BY <2>1, <2>2, <2>3, InsertAtElements
  <2>5. IsInjective(col') /\ Stored' = Stored \cup {Posted[r]}
    BY <1>2, <2>1, <2>2, <2>3, InsertAtOnce DEF Stored
  <2>6. \A c \in Stored' : CanPay(c)
    BY <2>2, <2>5 DEF CollectionInv
  <2>7. req' \in ReqTypes /\ \A s \in Requests \ {r} : req'[s] = req[s]
    BY <2>1 DEF CollectionInv, ReqTypes
  <2>8. \A s \in Requests : req'[s] = "created" => s = r \/ Posted[s] \in Stored
    BY <2>7 DEF CollectionInv
  <2>9. \A s \in Requests : req'[s] = "checking" => CanPay(Posted[s])
    BY <2>2, <2>7 DEF CollectionInv
  <2>10. \A s, t \in Requests :
           req'[s] = "created" /\ req'[t] = "created" /\ Posted[s] = Posted[t] => s = t
    BY <1>2, <2>7, <2>8 DEF CollectionInv
  <2> QED BY <2>4, <2>5, <2>6, <2>7, <2>8, <2>9, <2>10 DEF CollectionInv, CanPay
<1> QED BY <1>1, <1>2

LEMMA InitIsSound == Init => CollectionInv
<1>1. \A c \in ToSet(InitialChannels) : CanPay(c)
  BY LoopAssumption DEF CanPay
<1> QED BY <1>1, LoopAssumption DEF Init, CollectionInv, ReqTypes, Stored

LEMMA CollectionInvInductive == Spec => []CollectionInv
<1>1. Init => CollectionInv
  BY InitIsSound
<1>2. CollectionInv /\ [Next]_vars => CollectionInv'
  <2> SUFFICES ASSUME CollectionInv, [Next]_vars PROVE CollectionInv'
    OBVIOUS
  <2>1. CASE UNCHANGED <<col, req>>
    BY <2>1, CollectionUntouched
  <2>2. ASSUME NEW r \in Requests, Validate(r) \/ RefuseByChain(r) \/ InsertChannel(r)
        PROVE  CollectionInv'
    BY <2>2, ValidateKeepsCollection, RefuseKeepsCollection, InsertKeepsCollection
  <2>3. ASSUME Round PROVE UNCHANGED <<col, req>>
    BY <2>3 DEF Round, CountChannels, ReadFirstPage, ReadPage, StartTicks, NextRound
  <2>4. ASSUME NEW c \in Channels, Settle(c) \/ FinishLate(c) PROVE UNCHANGED <<col, req>>
    BY <2>4 DEF Settle, FinishTick, TimeOutTick, FinishLate
  <2>5. ASSUME FailListing \/ PassTime \/ UNCHANGED vars PROVE UNCHANGED <<col, req>>
    BY <2>5 DEF FailListing, PassTime, vars
  <2> QED BY <2>1, <2>2, <2>3, <2>4, <2>5 DEF Next
<1> QED BY <1>1, <1>2, PTL DEF Spec

\* However requests that create a channel meet, the collection holds it once, one of
\* them is told so, and every channel can pay the fees of its validators.
THEOREM OnlySoundChannelsAreStored == Spec => []StoredOnceAndSound
<1>1. CollectionInv => StoredOnceAndSound
  BY DEF CollectionInv, StoredOnceAndSound, CanPay
<1> QED BY <1>1, CollectionInvInductive, PTL

-----------------------------------------------------------------------------
(* The list of channels.                                                    *)

Others(time) == {c \in Channels : ~Valid(c, time) \/ ~IsOurs(Def[c])}

LEMMA MatchingIsLeft ==
  ASSUME col \in Seq(Channels), NEW time
  PROVE  \E g : IsLeft(g, col, Others(time)) /\ Matching(time) = g[Len(col)]
<1> DEFINE P(g) == g = [n \in 0..Len(col) |->
                          IF n = 0 THEN <<>>
                          ELSE IF Valid(col[n], time) /\ IsOurs(Def[col[n]])
                          THEN Append(g[n - 1], col[n])
                          ELSE g[n - 1]]
<1>1. Matching(time) = (CHOOSE g : P(g))[Len(col)]
  BY DEF Matching
<1>2. ASSUME NEW g
      PROVE  P(g) <=> IsLeft(g, col, Others(time))
  <2>1. ASSUME NEW n \in 0..Len(col)
        PROVE  (IF n = 0 THEN <<>> ELSE LeftStep(g[n - 1], col[n], Others(time)))
                 = IF n = 0 THEN <<>>
                   ELSE IF Valid(col[n], time) /\ IsOurs(Def[col[n]])
                   THEN Append(g[n - 1], col[n])
                   ELSE g[n - 1]
    <3>1. CASE n = 0
      BY <3>1
    <3>2. CASE n # 0
      <4>1. col[n] \in Channels
        BY <3>2
      <4>2. col[n] \in Others(time) <=> ~(Valid(col[n], time) /\ IsOurs(Def[col[n]]))
        BY <4>1 DEF Others
      <4> QED BY <3>2, <4>2 DEF LeftStep
    <3> QED BY <3>1, <3>2
  <2> QED BY <2>1 DEF IsLeft
<1>3. \E g : P(g)
  <2>1. PICK g : IsLeft(g, col, Others(time))
    BY LeftExists
  <2>2. P(g)
    BY <1>2, <2>1
  <2> HIDE DEF P
  <2> QED BY <2>2
<1>4. P(CHOOSE g : P(g))
  <2> HIDE DEF P
  <2> QED BY <1>3
<1>5. IsLeft(CHOOSE g : P(g), col, Others(time))
  <2> DEFINE h == CHOOSE g : P(g)
  <2>1. P(h)
    BY <1>4
  <2> HIDE DEF h
  <2>2. IsLeft(h, col, Others(time))
    BY <1>2, <2>1
  <2> QED BY <2>2 DEF h
<1> HIDE DEF P
<1> QED BY <1>1, <1>5

\* The list holds the stored channels that match, each behind as many of them as
\* the queries meet before it.
LEMMA MatchingIs ==
  ASSUME col \in Seq(Channels), IsInjective(col), NEW time
  PROVE  /\ Matching(time) \in Seq(Channels)
         /\ \A k \in 1..Len(Matching(time)) :
              LET c == Matching(time)[k]
                  earlier == {d \in Stored : Valid(d, time) /\ IsOurs(Def[d]) /\ Before(d, c)}
              IN  /\ c \in Stored /\ Valid(c, time) /\ IsOurs(Def[c])
                  /\ IsFiniteSet(earlier) /\ Cardinality(earlier) = k - 1
         /\ \A c \in Stored : Valid(c, time) /\ IsOurs(Def[c]) =>
              \E k \in 1..Len(Matching(time)) : Matching(time)[k] = c
<1> DEFINE all == Matching(time)
<1>1. all \in Seq(Channels) /\ \E e : Keeps(all, e, col, Others(time), Len(col))
  BY MatchingIsLeft, LeftKeeps
<1>2. PICK e : Keeps(all, e, col, Others(time), Len(col))
  BY <1>1
<1> HIDE DEF all
<1>3. DOMAIN col = 1..Len(col) /\ \A i \in DOMAIN col : col[i] \in Stored
  BY DEF Stored, ToSet
<1>4. \A c \in Stored : c \in Channels
  BY DEF Stored, ToSet
<1>5. \A c \in Channels : c \notin Others(time) <=> Valid(c, time) /\ IsOurs(Def[c])
  BY DEF Others
<1>6. ASSUME NEW k \in 1..Len(all)
      PROVE  LET c == all[k]
                 earlier == {d \in Stored : Valid(d, time) /\ IsOurs(Def[d]) /\ Before(d, c)}
             IN  /\ c \in Stored /\ Valid(c, time) /\ IsOurs(Def[c])
                 /\ IsFiniteSet(earlier) /\ Cardinality(earlier) = k - 1
  <2> DEFINE c == all[k]
             earlier == {d \in Stored : Valid(d, time) /\ IsOurs(Def[d]) /\ Before(d, c)}
             T == KeptBefore(c, Channels, col, Others(time))
  <2>1. c \in Stored /\ c \notin Others(time)
    <3>1. e[k] \in 1..Len(col) /\ all[k] = col[e[k]] /\ col[e[k]] \notin Others(time)
      BY <1>2, <1>6 DEF Keeps
    <3> QED BY <1>3, <3>1
  <2>2. Valid(c, time) /\ IsOurs(Def[c])
    BY <1>4, <1>5, <2>1
  <2>3. IsFiniteSet(T) /\ Cardinality(T) = k - 1
    BY <1>1, <1>2, <1>6, KeptRank
  <2>4. T = earlier
    <3>1. ASSUME NEW d
          PROVE  d \in Channels \ Others(time) /\ Before(d, c)
                   <=> d \in Stored /\ Valid(d, time) /\ IsOurs(Def[d]) /\ Before(d, c)
      BY <1>3, <1>4, <1>5 DEF Before
    <3>2. \A d : d \in T <=> d \in Channels \ Others(time) /\ Before(d, c)
      BY DEF Before, KeptBefore
    <3> QED BY <3>1, <3>2
  <2> QED BY <2>1, <2>2, <2>3, <2>4
<1>7. ASSUME NEW c \in Stored, Valid(c, time) /\ IsOurs(Def[c])
      PROVE  \E k \in 1..Len(all) : all[k] = c
  <2>1. PICK i \in 1..Len(col) : col[i] = c
    BY <1>3, <1>7 DEF Stored, ToSet
  <2>2. col[i] \notin Others(time)
    BY <1>4, <1>5, <1>7, <2>1
  <2>3. PICK k \in 1..Len(all) : e[k] = i
    BY <1>2, <2>1, <2>2 DEF Keeps
  <2>4. all[k] = col[e[k]]
    BY <1>2, <2>3 DEF Keeps
  <2> QED BY <2>1, <2>3, <2>4
<1> QED BY <1>1, <1>6, <1>7 DEF all

\* Page p is the part of the list from p * CHANNELS_FIND_LIMIT on.
LEMMA PageIs ==
  ASSUME col \in Seq(Channels), NEW p \in Nat, NEW time
  PROVE  /\ Page(p, time) \in Seq(Channels)
         /\ \A j \in DOMAIN Page(p, time) :
              /\ j \in 1..CHANNELS_FIND_LIMIT
              /\ p * CHANNELS_FIND_LIMIT + j \in 1..Len(Matching(time))
              /\ Page(p, time)[j] = Matching(time)[p * CHANNELS_FIND_LIMIT + j]
         /\ \A j \in 1..CHANNELS_FIND_LIMIT :
              p * CHANNELS_FIND_LIMIT + j <= Len(Matching(time)) => j \in DOMAIN Page(p, time)
<1> DEFINE all == Matching(time)
           L == CHANNELS_FIND_LIMIT
           first == p * L
           last == Min({first + L, Len(all)})
           list == SubSeq(all, first + 1, last)
<1>1. Page(p, time) = list
  BY DEF Page
<1>2. all \in Seq(Channels)
  BY MatchingIsLeft, LeftKeeps
<1>3. L \in Nat /\ L >= 1 /\ first \in Nat
  BY LoopAssumption, Products
<1> HIDE DEF all, L, first
<1>4. Len(all) \in Nat
  BY <1>2
<1>5. last = IF first + L <= Len(all) THEN first + L ELSE Len(all)
  BY <1>3, <1>4, MinOfTwo
<1> HIDE DEF last
<1>6. last \in Nat /\ last <= Len(all) /\ last <= first + L
      /\ \A j \in 1..L : first + j <= Len(all) => first + j <= last
  BY <1>3, <1>4, <1>5
<1>7. \A i \in first + 1..last : i \in 1..Len(all) /\ all[i] \in Channels
  <2>1. \A i \in first + 1..last : i \in 1..Len(all)
    BY <1>3, <1>4, <1>6
  <2>2. \A i \in 1..Len(all) : all[i] \in Channels
    BY <1>2
  <2> QED BY <2>1, <2>2
<1>8. /\ list \in Seq(Channels)
      /\ Len(list) = IF first + 1 <= last THEN last - (first + 1) + 1 ELSE 0
      /\ \A i \in 1..last - (first + 1) + 1 : list[i] = all[first + 1 + i - 1]
  <2>1. first + 1 \in Int /\ last \in Int /\ \A i \in first + 1..last : all[i] \in Channels
    BY <1>3, <1>6, <1>7
  <2> QED BY <2>1, SubSeqProperties
<1> HIDE DEF list
<1>9. ASSUME NEW j \in DOMAIN list
      PROVE  j \in 1..L /\ first + j \in 1..Len(all) /\ list[j] = all[first + j]
  <2>1. j \in Nat /\ j >= 1 /\ j <= Len(list)
    BY <1>8
  <2>2. first + 1 <= last /\ j <= last - first
    BY <1>3, <1>6, <1>8, <2>1
  <2>3. j \in 1..last - (first + 1) + 1 /\ first + 1 + j - 1 = first + j
    BY <1>3, <1>6, <2>1, <2>2
  <2>4. list[j] = all[first + j]
    BY <1>8, <2>3
  <2> QED BY <1>3, <1>4, <1>6, <2>1, <2>2, <2>4
<1>10. ASSUME NEW j \in 1..L, first + j <= Len(all)
       PROVE  j \in DOMAIN list
  <2>1. first + j <= last /\ first + 1 <= last
    <3>1. first + j <= last
      BY ONLY <1>6, <1>10, j \in 1..L
    <3>2. first \in Nat /\ last \in Nat /\ j \in Nat /\ 1 <= j
      BY <1>3, <1>6
    <3> QED BY ONLY <3>1, <3>2
  <2>2. Len(list) = last - first
    <3>1. Len(list) = last - (first + 1) + 1
      BY ONLY <1>8, <2>1
    <3>2. last \in Nat /\ first \in Nat
      BY <1>3, <1>6
    <3> QED BY ONLY <3>1, <3>2
  <2>3. j <= Len(list) /\ Len(list) \in Nat
    BY <1>3, <1>6, <2>1, <2>2
  <2>4. DOMAIN list = 1..Len(list)
    BY <1>8
  <2> QED BY <1>3, <2>3, <2>4
<1> QED BY <1>1, <1>8, <1>9, <1>10 DEF all, L, first

\* Where the r-th channel of a list is: as the j-th of page i.
LEMMA PositionExists ==
  ASSUME NEW L \in Nat \ {0}, NEW n \in Nat, NEW r \in 1..n
  PROVE  \E i \in 1..(n + L - 1) \div L, j \in 1..L : r = (i - 1) * L + j
<1> DEFINE q == (r - 1) \div L
           j == r - L * q
<1>1. q \in Nat /\ L * q <= r - 1 /\ r - 1 < L * q + L
  BY Floor
<1> HIDE DEF q
<1>2. L * q \in Nat /\ j \in 1..L
  BY <1>1, Products
<1>3. q + 1 \in 1..(n + L - 1) \div L
  <2>1. L * (q + 1) = L * q + L /\ L * (q + 1) \in Nat
    BY <1>1, Products
  <2>2. L * (q + 1) <= n + L - 1 /\ n + L - 1 \in Nat
    BY <1>1, <2>1
  <2>3. ((q + 1) * L) \div L = q + 1
    <3>1. q + 1 \in Nat
      BY <1>1
    <3> QED BY <3>1, FloorOfProduct
  <2> DEFINE x == (q + 1) * L
             y == n + L - 1
  <2>4. x = L * (q + 1)
    BY <1>1
  <2>5. x \in Nat /\ y \in Nat /\ x <= y /\ x \div L = q + 1
    BY <2>1, <2>2, <2>3, <2>4
  <2> HIDE DEF x, y
  <2>6. x \div L <= y \div L /\ y \div L \in Nat
    BY <2>5, Floor, FloorGrows
  <2>7. q + 1 \in 1..y \div L
    BY <1>1, <2>5, <2>6
  <2> QED BY <2>7 DEF y
<1>4. r = q * L + j
  <2>1. q * L = L * q
    BY <1>1
  <2> QED BY <1>2, <2>1
<1> DEFINE i == q + 1
           pages == 1..(n + L - 1) \div L
<1>5. i \in pages
  BY ONLY <1>3
<1> HIDE DEF j
<1>6. j \in 1..L
  BY <1>2
<1>7. i - 1 = q
  BY <1>1
<1> HIDE DEF i, pages
<1>8. \E a \in pages, b \in 1..L : r = (a - 1) * L + b
  BY ONLY <1>4, <1>5, <1>6, <1>7
<1> QED BY ONLY <1>8 DEF pages

LEMMA PositionIsOne ==
  ASSUME NEW L \in Nat \ {0}, NEW i \in Nat \ {0}, NEW k \in Nat \ {0},
         NEW j \in 1..L, NEW m \in 1..L, (i - 1) * L + j = (k - 1) * L + m
  PROVE  i = k /\ j = m
<1>1. ASSUME NEW a \in Nat, NEW b \in Nat, NEW x \in 1..L, NEW y \in 1..L,
             a * L + x = b * L + y, a < b
      PROVE  FALSE
  <2>1. b - a \in Nat /\ b = a + (b - a) /\ b - a >= 1
    BY <1>1
  <2>2. b * L = a * L + (b - a) * L
    BY <2>1, Products
  <2>3. (b - a) * L >= L /\ (b - a) * L \in Nat /\ a * L \in Nat
    BY <2>1, Products
  <2> QED BY <1>1, <2>2, <2>3
<1>2. i - 1 \in Nat /\ k - 1 \in Nat
  OBVIOUS
<1>3. ~(i - 1 < k - 1) /\ ~(k - 1 < i - 1)
  BY <1>1, <1>2
<1>4. i = k
  BY <1>2, <1>3
<1>5. (i - 1) * L \in Nat
  BY <1>2, Products
<1> QED BY <1>4, <1>5

-----------------------------------------------------------------------------
(* What a round has read.                                                   *)

Lists == Seq(Channels)
PageLists == Seq(Lists \cup {Unread})

\* Ticks are awaited only while the round waits for them.
LoopInv ==
  /\ now \in 0..MaxTime /\ indexed \in BOOLEAN
  /\ loop \in [pc : {"idle", "counted", "paging", "ticking", "stopped"}, at : Nat,
               known : Lists, stored : SUBSET Channels, pages : PageLists]
  /\ loop.at <= now /\ loop.stored \subseteq Stored
  /\ awaited \in [Channels -> Nat] /\ late \in [Channels -> 0..MaxLate]
  /\ loop.pc # "ticking" => \A c \in Channels : awaited[c] = 0

Known == ToSet(loop.known)

\* What the round counted are the stored channels that matched then.
ListInv ==
  loop.pc \in {"counted", "paging"} =>
    /\ Known \subseteq loop.stored
    /\ \A d \in Known : IsOurs(Def[d])
    /\ \A d \in loop.stored : Valid(d, loop.at) /\ IsOurs(Def[d]) => d \in Known

\* Where c is in a list that it was not disturbed in.
Rank(c) == 1 + Cardinality({d \in Known : Before(d, c)})

\* Page i shows the undisturbed channels that belong there, and of those that the round
\* counted all that last.
IsPage(i, list) ==
  /\ \A j \in DOMAIN list :
       /\ j \in 1..CHANNELS_FIND_LIMIT /\ list[j] \in Stored
       /\ ~Disturbed(list[j]) => Rank(list[j]) = (i - 1) * CHANNELS_FIND_LIMIT + j
  /\ \A c \in Known, j \in 1..CHANNELS_FIND_LIMIT :
       Valid(c, now) /\ ~Disturbed(c) /\ Rank(c) = (i - 1) * CHANNELS_FIND_LIMIT + j =>
         j \in DOMAIN list /\ list[j] = c

PagesInv ==
  loop.pc = "paging" =>
    /\ Len(loop.pages) = Max({1, TotalPages(Len(loop.known))})
    /\ \A i \in DOMAIN loop.pages : loop.pages[i] # Unread => IsPage(i, loop.pages[i])

RoundsInv == CollectionInv /\ LoopInv /\ ListInv /\ PagesInv

LEMMA LoopNumbers ==
  ASSUME LoopInv
  PROVE  /\ now \in Nat /\ loop.at \in Nat /\ loop.at <= now
         /\ CHANNELS_FIND_LIMIT \in Nat \ {0}
         /\ \A c \in Channels : Def[c].validUntil \in Nat
BY LoopAssumption DEF LoopInv

\* Before an undisturbed channel a query finds what the round counted, whenever it asks.
LEMMA UndisturbedOrder ==
  ASSUME CollectionInv, LoopInv, ListInv, loop.pc \in {"counted", "paging"},
         NEW time \in loop.at..now, NEW c, ~Disturbed(c)
  PROVE  {d \in Stored : Valid(d, time) /\ IsOurs(Def[d]) /\ Before(d, c)}
           = {d \in Known : Before(d, c)}
<1>1. Stored \subseteq Channels
  BY DEF CollectionInv, Stored, ToSet
<1>2. Known \subseteq Stored /\ Known \subseteq loop.stored
  BY DEF LoopInv, ListInv
<1>3. ASSUME NEW d \in Stored, Valid(d, time), IsOurs(Def[d]), Before(d, c)
      PROVE  d \in Known
  <2>1. d \in loop.stored
    BY <1>3 DEF Disturbed
  <2>2. Valid(d, loop.at)
    BY <1>1, <1>3, LoopNumbers DEF Valid
  <2> QED BY <1>3, <2>1, <2>2 DEF ListInv
<1>4. ASSUME NEW d \in Known, Before(d, c)
      PROVE  Valid(d, time) /\ IsOurs(Def[d])
  <2>1. Valid(d, now)
    BY <1>2, <1>4 DEF Disturbed, Known
  <2>2. d \in Channels
    BY <1>1, <1>2
  <2>3. Valid(d, time)
    BY <2>1, <2>2, LoopNumbers DEF Valid
  <2> QED BY <2>3 DEF ListInv
<1> QED BY <1>2, <1>3, <1>4

LEMMA ReadIsPage ==
  ASSUME CollectionInv, LoopInv, ListInv, loop.pc \in {"counted", "paging"},
         NEW time \in loop.at..now, NEW i \in Nat \ {0}
  PROVE  IsPage(i, Page(i - 1, time))
<1> DEFINE all == Matching(time)
           list == Page(i - 1, time)
           first == (i - 1) * CHANNELS_FIND_LIMIT
<1>1. col \in Seq(Channels) /\ IsInjective(col) /\ i - 1 \in Nat
  BY DEF CollectionInv
<1>2. /\ \A j \in DOMAIN list :
           /\ j \in 1..CHANNELS_FIND_LIMIT
           /\ first + j \in 1..Len(all) /\ list[j] = all[first + j]
      /\ \A j \in 1..CHANNELS_FIND_LIMIT : first + j <= Len(all) => j \in DOMAIN list
  BY <1>1, PageIs
<1>3. /\ all \in Seq(Channels)
      /\ \A c \in Stored : Valid(c, time) /\ IsOurs(Def[c]) => \E k \in 1..Len(all) : all[k] = c
  BY <1>1, MatchingIs
<1>4. ASSUME NEW k \in 1..Len(all)
      PROVE  all[k] \in Stored /\ (~Disturbed(all[k]) => Rank(all[k]) = k)
  <2> DEFINE c == all[k]
             earlier == {d \in Stored : Valid(d, time) /\ IsOurs(Def[d]) /\ Before(d, c)}
  <2>1. c \in Stored /\ Cardinality(earlier) = k - 1
    BY <1>1, <1>4, MatchingIs
  <2>2. ASSUME ~Disturbed(c) PROVE earlier = {d \in Known : Before(d, c)}
    BY <2>2, UndisturbedOrder
  <2>3. ASSUME ~Disturbed(c) PROVE Cardinality({d \in Known : Before(d, c)}) = k - 1
    BY <2>1, <2>2, <2>3
  <2>4. k \in Nat
    BY <1>3
  <2> QED BY <2>1, <2>3, <2>4 DEF Rank
<1> HIDE DEF all, list, first
<1>5. ASSUME NEW c \in Known, NEW j \in 1..CHANNELS_FIND_LIMIT,
             Valid(c, now), ~Disturbed(c), Rank(c) = first + j
      PROVE  j \in DOMAIN list /\ list[j] = c
  <2>1. c \in Stored /\ c \in Channels /\ IsOurs(Def[c])
    BY DEF ListInv, LoopInv, CollectionInv, Stored, ToSet
  <2>2. Valid(c, time)
    BY <1>5, <2>1, LoopNumbers DEF Valid
  <2>3. PICK k \in 1..Len(all) : all[k] = c
    BY <1>3, <2>1, <2>2
  <2>4. k = first + j
    BY <1>4, <1>5, <2>3
  <2>5. first + j <= Len(all)
    BY <1>3, <2>3, <2>4
  <2>6. j \in DOMAIN list
    BY <1>2, <1>5, <2>5
  <2> QED BY <1>2, <2>3, <2>4, <2>6
<1>6. ASSUME NEW j \in DOMAIN list
      PROVE  /\ j \in 1..CHANNELS_FIND_LIMIT /\ list[j] \in Stored
             /\ ~Disturbed(list[j]) => Rank(list[j]) = first + j
  BY <1>2, <1>4, <1>6
<1> QED BY <1>5, <1>6 DEF IsPage, list, first

-----------------------------------------------------------------------------
(* What happens meanwhile.                                                  *)

\* InsertAt leaves the order of the others as it is.
LEMMA InsertAtOrder ==
  ASSUME NEW S, NEW seq \in Seq(S), NEW i \in 1..Len(seq) + 1, NEW e \in S, e \notin ToSet(seq),
         NEW new, new = InsertAt(seq, i, e), NEW c \in ToSet(seq), NEW d \in ToSet(seq)
  PROVE  (\E a, b \in DOMAIN new : a < b /\ new[a] = c /\ new[b] = d)
           <=> \E a, b \in DOMAIN seq : a < b /\ seq[a] = c /\ seq[b] = d
<1>1. /\ DOMAIN new = 1..Len(seq) + 1
      /\ \A k \in 1..Len(seq) + 1 :
           new[k] = IF k < i THEN seq[k] ELSE IF k = i THEN e ELSE seq[k - 1]
  <2>1. /\ InsertAt(seq, i, e) \in Seq(S) /\ Len(InsertAt(seq, i, e)) = Len(seq) + 1
        /\ \A k \in 1..Len(seq) + 1 :
             InsertAt(seq, i, e)[k] = IF k < i THEN seq[k] ELSE IF k = i THEN e ELSE seq[k - 1]
    BY ONLY InsertAtElements, seq \in Seq(S), i \in 1..Len(seq) + 1, e \in S
  <2>2. DOMAIN InsertAt(seq, i, e) = 1..Len(InsertAt(seq, i, e))
    BY <2>1
  <2> QED BY <2>1, <2>2
<1>2. DOMAIN seq = 1..Len(seq) /\ Len(seq) \in Nat /\ c # e /\ d # e
  BY DEF ToSet
<1>3. ASSUME NEW a \in DOMAIN seq, NEW b \in DOMAIN seq, a < b, seq[a] = c, seq[b] = d
      PROVE  \E x, y \in DOMAIN new : x < y /\ new[x] = c /\ new[y] = d
  <2> DEFINE to(k) == IF k < i THEN k ELSE k + 1
  <2>1. \A k \in DOMAIN seq : to(k) \in DOMAIN new /\ new[to(k)] = seq[k]
    BY <1>1, <1>2
  <2>2. to(a) < to(b)
    BY <1>2, <1>3
  <2> QED BY <1>3, <2>1, <2>2
<1>4. ASSUME NEW a \in DOMAIN new, NEW b \in DOMAIN new, a < b, new[a] = c, new[b] = d
      PROVE  \E x, y \in DOMAIN seq : x < y /\ seq[x] = c /\ seq[y] = d
  <2> DEFINE from(k) == IF k < i THEN k ELSE k - 1
  <2>1. a # i /\ b # i
    BY <1>1, <1>2, <1>4
  <2>2. from(a) \in DOMAIN seq /\ from(b) \in DOMAIN seq /\ seq[from(a)] = c /\ seq[from(b)] = d
    BY <1>1, <1>2, <1>4, <2>1
  <2>3. from(a) < from(b)
    BY <1>1, <1>2, <1>4, <2>1
  <2> QED BY <2>2, <2>3
<1> QED BY <1>3, <1>4

\* Time passes, and channels are added among those that are stored.
Goes ==
  /\ now' \in Nat /\ now <= now' /\ Stored \subseteq Stored'
  /\ \A c, d \in Stored : Before(d, c)' <=> Before(d, c)

LEMMA InsertGoes ==
  ASSUME CollectionInv, LoopInv, NEW r \in Requests, InsertChannel(r)
  PROVE  Goes
<1>1. now' = now /\ now \in Nat
  BY LoopNumbers DEF InsertChannel
<1>2. CASE Posted[r] \in Stored
  <2>1. col' = col
    BY <1>2 DEF InsertChannel
  <2> QED BY <1>1, <2>1 DEF Goes, Stored, Before
<1>3. CASE Posted[r] \notin Stored
  <2>1. col' = InsertAt(col, Place(Posted[r]), Posted[r])
    BY <1>3 DEF InsertChannel
  <2>2. Posted[r] \in Channels /\ col \in Seq(Channels) /\ IsInjective(col)
    BY LoopAssumption DEF CollectionInv
  <2>3. Place(Posted[r]) \in 1..Len(col) + 1
    BY <2>2, PlaceInBounds
  <2>4. Stored' = Stored \cup {Posted[r]}
    BY <1>3, <2>1, <2>2, <2>3, InsertAtOnce DEF Stored
  <2>5. \A c, d \in Stored : Before(d, c)' <=> Before(d, c)
    BY <1>3, <2>1, <2>2, <2>3, InsertAtOrder DEF Stored, Before
  <2> QED BY <1>1, <2>4, <2>5 DEF Goes
<1> QED BY <1>2, <1>3

\* A page that was read stays right.
LEMMA PageStays ==
  ASSUME CollectionInv, LoopInv, ListInv, loop.pc \in {"counted", "paging"}, Goes,
         loop'.known = loop.known, loop'.stored = loop.stored,
         NEW i, NEW list, IsPage(i, list)
  PROVE  IsPage(i, list)'
<1>1. Known \subseteq Stored /\ Known' = Known /\ Stored \subseteq Channels
  <2>1. Stored \subseteq Channels
    BY DEF CollectionInv, Stored, ToSet
  <2>2. Known \subseteq Stored
    BY DEF LoopInv, ListInv
  <2> QED BY <2>1, <2>2 DEF Known
<1>2. ASSUME NEW c \in Channels, Valid(c, now') PROVE Valid(c, now)
  BY <1>2, LoopNumbers DEF Goes, Valid
<1>3. ASSUME NEW c \in Stored, Disturbed(c) PROVE Disturbed(c)'
  <2>1. PICK d \in Stored : /\ Before(d, c)
                            /\ \/ d \in Known /\ ~Valid(d, now)
                               \/ d \notin loop.stored
    BY <1>3 DEF Disturbed, Known
  <2>2. d \in Stored' /\ Before(d, c)'
    BY <2>1 DEF Goes
  <2>3. ~Valid(d, now) => ~Valid(d, now')
    BY <1>1, <1>2
  <2> QED BY <1>1, <2>1, <2>2, <2>3 DEF Disturbed, Known, Valid
<1>4. ASSUME NEW c \in Stored PROVE Rank(c)' = Rank(c)
  <2>1. {d \in Known : Before(d, c)}' = {d \in Known : Before(d, c)}
    BY <1>1 DEF Goes
  <2> QED BY <2>1 DEF Rank
<1>5. ASSUME NEW j \in DOMAIN list
      PROVE  /\ j \in 1..CHANNELS_FIND_LIMIT /\ list[j] \in Stored'
             /\ ~Disturbed(list[j])' => Rank(list[j])' = (i - 1) * CHANNELS_FIND_LIMIT + j
  BY <1>3, <1>4 DEF IsPage, Goes
<1>6. ASSUME NEW c \in Known, NEW j \in 1..CHANNELS_FIND_LIMIT,
             Valid(c, now'), ~Disturbed(c)', Rank(c)' = (i - 1) * CHANNELS_FIND_LIMIT + j
      PROVE  j \in DOMAIN list /\ list[j] = c
  <2>1. /\ c \in Stored /\ Valid(c, now) /\ ~Disturbed(c)
        /\ Rank(c) = (i - 1) * CHANNELS_FIND_LIMIT + j
    BY <1>1, <1>2, <1>3, <1>4, <1>6
  <2> QED BY <2>1 DEF IsPage
<1> QED BY <1>1, <1>5, <1>6 DEF IsPage, Valid

LEMMA LoopUntouched ==
  ASSUME CollectionInv, LoopInv, ListInv, PagesInv, Goes, UNCHANGED loop
  PROVE  ListInv' /\ PagesInv'
<1>1. ListInv'
  BY DEF ListInv, Known, Valid
<1>2. ASSUME loop.pc = "paging", NEW i \in DOMAIN loop.pages, loop.pages[i] # Unread
      PROVE  IsPage(i, loop.pages[i])'
  <2>1. IsPage(i, loop.pages[i])
    BY <1>2 DEF PagesInv
  <2> DEFINE list == loop.pages[i]
  <2>2. list' = list
    OBVIOUS
  <2>3. IsPage(i, list)
    BY <2>1
  <2> QED BY <1>2, <2>3, PageStays DEF IsPage
<1> QED BY <1>1, <1>2 DEF PagesInv, TotalPages

-----------------------------------------------------------------------------
(* The steps of a round.                                                    *)

\* What is late on all channels together bounds what is late on one.
LEMMA LateIsBounded ==
  ASSUME LoopInv, LateTicks < MaxLate, NEW c \in Channels
  PROVE  late[c] < MaxLate
<1>1. LateTicks = SumOn(late, DOMAIN late)
  BY DEF LateTicks, FoldFunction, FoldFunctionOnSet, MapThenFoldSet, IsSum, SumOn
<1>2. DOMAIN late = Channels /\ late \in [DOMAIN late -> Nat] /\ MaxLate \in Nat
  BY LoopAssumption DEF LoopInv
<1>3. IsTree(late)
  BY <1>2, LoopAssumption DEF IsTree
<1>4. /\ SumOn(late, DOMAIN late) = late[c] + SumOn(late, DOMAIN late \ {c})
      /\ SumOn(late, DOMAIN late \ {c}) \in Nat
  BY <1>2, <1>3, SumOnSplit, SumOnType
<1>5. late[c] \in Nat
  BY <1>2
<1> QED BY <1>1, <1>2, <1>4, <1>5

\* Nothing that was stored is forgotten, or comes before what it came after.
LEMMA StillGoes ==
  ASSUME LoopInv, UNCHANGED col, now' = now \/ now' = now + 1
  PROVE  Goes
BY LoopNumbers DEF Goes, Stored, Before

LEMMA EmptyLists == <<>> \in Lists /\ <<>> \in PageLists
BY DEF Lists, PageLists

LEMMA CountKeeps ==
  ASSUME RoundsInv, CountChannels
  PROVE  LoopInv' /\ ListInv' /\ PagesInv'
<1>1. CollectionInv /\ LoopInv /\ col \in Seq(Channels) /\ IsInjective(col)
  BY DEF RoundsInv, CollectionInv
<1> DEFINE all == Matching(now)
<1>2. loop' = [pc |-> "counted", at |-> now, known |-> all, stored |-> Stored, pages |-> <<>>]
  BY DEF CountChannels, Idle
<1>3. loop.pc = "idle" /\ UNCHANGED <<now, col, indexed, awaited, late>>
  BY DEF CountChannels, ticks
<1>4. /\ all \in Seq(Channels)
      /\ \A k \in 1..Len(all) : all[k] \in Stored /\ IsOurs(Def[all[k]])
      /\ \A c \in Stored : Valid(c, now) /\ IsOurs(Def[c]) => \E k \in 1..Len(all) : all[k] = c
  BY <1>1, MatchingIs
<1> HIDE DEF all
<1>5. Stored \subseteq Channels /\ Stored' = Stored /\ now \in Nat
  BY <1>1, <1>3, LoopNumbers DEF Stored, ToSet
<1>6. LoopInv'
  BY <1>1, <1>2, <1>3, <1>4, <1>5, EmptyLists DEF LoopInv, Lists
<1>7. ListInv'
  <2>1. DOMAIN all = 1..Len(all) /\ ToSet(all) = {all[k] : k \in 1..Len(all)}
    BY <1>4 DEF ToSet
  <2>2. Known' = ToSet(all) /\ loop.stored' = Stored /\ loop.at' = now
    BY <1>2 DEF Known
  <2>3. Known' \subseteq Stored /\ \A d \in Known' : IsOurs(Def[d])
    BY <1>4, <2>1, <2>2
  <2>4. \A d \in Stored : Valid(d, now) /\ IsOurs(Def[d]) => d \in Known'
    BY <1>4, <2>1, <2>2
  <2> QED BY <2>2, <2>3, <2>4 DEF ListInv, Valid
<1>8. PagesInv'
  BY <1>2 DEF PagesInv
<1> QED BY <1>6, <1>7, <1>8

\* There is a page for every channel that was counted, and a first one for none.
LEMMA PagesSuffice ==
  ASSUME LoopInv
  PROVE  /\ TotalPages(Len(loop.known)) \in Nat
         /\ Max({1, TotalPages(Len(loop.known))}) \in Nat
         /\ 1 <= Max({1, TotalPages(Len(loop.known))})
         /\ TotalPages(Len(loop.known)) <= Max({1, TotalPages(Len(loop.known))})
<1> DEFINE n == Len(loop.known)
           up == n + CHANNELS_FIND_LIMIT - 1
           total == TotalPages(n)
<1>1. n \in Nat
  BY DEF LoopInv, Lists
<1> HIDE DEF n
<1>2. up \in Nat /\ CHANNELS_FIND_LIMIT \in Nat \ {0}
  BY <1>1, LoopNumbers
<1>3. total = up \div CHANNELS_FIND_LIMIT
  BY <1>1, LoopNumbers DEF TotalPages
<1> HIDE DEF up, total
<1>4. total \in Nat
  BY <1>2, <1>3, Floor
<1>5. Max({1, total}) = IF 1 >= total THEN 1 ELSE total
  BY <1>4, MaxOfTwo
<1> QED BY <1>4, <1>5 DEF total, n

LEMMA ReadFirstKeeps ==
  ASSUME RoundsInv, ReadFirstPage
  PROVE  LoopInv' /\ ListInv' /\ PagesInv'
<1>1. CollectionInv /\ LoopInv /\ ListInv /\ loop.pc = "counted" /\ col \in Seq(Channels)
  BY DEF RoundsInv, ReadFirstPage, CollectionInv
<1>2. UNCHANGED <<now, col, indexed, awaited, late>>
  BY DEF ReadFirstPage, ticks
<1> DEFINE N == Max({1, TotalPages(Len(loop.known))})
<1>3. PICK list : list = Page(1 - 1, loop.at)
  OBVIOUS
<1> DEFINE pages == [i \in 1..N |-> IF i = 1 THEN list ELSE Unread]
<1>4. loop' = [loop EXCEPT !.pc = "paging", !.at = now, !.pages = pages]
  BY <1>3 DEF ReadFirstPage
<1>5. N \in Nat /\ 1 <= N
  BY <1>1, PagesSuffice
<1>6. list \in Lists
  <2>1. 1 - 1 \in Nat
    OBVIOUS
  <2> QED BY <1>1, <1>3, <2>1, PageIs DEF Lists
<1> HIDE DEF N
<1>7. pages \in PageLists /\ Len(pages) = N /\ DOMAIN pages = 1..N
  <2> DEFINE S == Lists \cup {Unread}
  <2>1. list \in S /\ Unread \in S
    BY <1>6
  <2> HIDE DEF S
  <2>2. pages \in [1..N -> S]
    BY <2>1
  <2>3. pages \in Seq(S) /\ Len(pages) = N
    BY <1>5, <2>2
  <2> QED BY <2>3 DEF PageLists, S
<1>8. \A i \in 1..N : pages[i] # Unread => i = 1 /\ pages[i] = list
  OBVIOUS
<1> HIDE DEF pages
<1>9. LoopInv'
  <2>1. loop.stored \subseteq Stored' /\ now \in Nat /\ now <= now
    BY <1>1, <1>2, LoopNumbers DEF LoopInv, Stored
  <2> QED BY <1>1, <1>2, <1>4, <1>7, <2>1 DEF LoopInv
<1>10. loop'.known = loop.known /\ loop'.stored = loop.stored /\ loop'.pages = pages
       /\ loop'.at = now
  BY <1>1, <1>4 DEF LoopInv
<1>11. ListInv'
  <2>1. \A d \in loop.stored : Valid(d, now) => Valid(d, loop.at)
    BY <1>1, LoopNumbers DEF Valid, LoopInv
  <2>2. Known' = Known
    BY <1>10 DEF Known
  <2> QED BY <1>1, <1>10, <2>1, <2>2 DEF ListInv, Valid
<1>12. IsPage(1, list)'
  <2>1. IsPage(1, list)
    <3>1. loop.at \in loop.at..now /\ 1 \in Nat \ {0}
      BY <1>1, LoopNumbers
    <3> QED BY <1>1, <1>3, <3>1, ReadIsPage
  <2>2. Goes
    BY <1>1, <1>2, StillGoes
  <2> QED BY <1>1, <1>10, <2>1, <2>2, PageStays
<1>13. PagesInv'
  <2>1. Len(loop'.pages) = Max({1, TotalPages(Len(loop'.known))})
    BY <1>7, <1>10 DEF N
  <2>2. ASSUME NEW i \in DOMAIN loop'.pages, loop'.pages[i] # Unread
        PROVE  IsPage(i, loop.pages[i])'
    <3>1. i = 1 /\ loop'.pages[i] = list
      BY <1>7, <1>8, <1>10, <2>2
    <3> QED BY <1>12, <3>1 DEF IsPage
  <2> QED BY <2>1, <2>2 DEF PagesInv, TotalPages
<1> QED BY <1>9, <1>11, <1>13

LEMMA ReadPageKeeps ==
  ASSUME RoundsInv, NEW i \in DOMAIN loop.pages, ReadPage(i)
  PROVE  LoopInv' /\ ListInv' /\ PagesInv'
<1>1. CollectionInv /\ LoopInv /\ ListInv /\ PagesInv /\ loop.pc = "paging" /\ col \in Seq(Channels)
  BY DEF RoundsInv, ReadPage, CollectionInv
<1>2. UNCHANGED <<now, col, indexed, awaited, late>>
  BY DEF ReadPage, ticks
<1>3. PICK time \in loop.at..now : loop' = [loop EXCEPT !.pages[i] = Page(i - 1, time)]
  BY DEF ReadPage
<1>4. PICK list : list = Page(i - 1, time)
  OBVIOUS
<1>5. loop.pages \in PageLists
  BY <1>1 DEF LoopInv
<1>6. i \in Nat \ {0} /\ i - 1 \in Nat
  BY <1>5 DEF PageLists
<1>7. list \in Lists
  BY <1>1, <1>4, <1>6, PageIs DEF Lists
<1> DEFINE pages == [loop.pages EXCEPT ![i] = list]
<1>8. loop' = [loop EXCEPT !.pages = pages]
  BY <1>1, <1>3, <1>4 DEF LoopInv
<1>9. /\ pages \in PageLists /\ Len(pages) = Len(loop.pages) /\ DOMAIN pages = DOMAIN loop.pages
      /\ \A k \in DOMAIN pages : pages[k] = IF k = i THEN list ELSE loop.pages[k]
  <2> DEFINE S == Lists \cup {Unread}
  <2>1. list \in S /\ loop.pages \in Seq(S)
    BY <1>5, <1>7 DEF PageLists
  <2> HIDE DEF S
  <2>2. /\ pages \in Seq(S) /\ Len(pages) = Len(loop.pages)
        /\ \A k \in 1..Len(loop.pages) : pages[k] = IF k = i THEN list ELSE loop.pages[k]
    BY <2>1, ExceptSeq
  <2>3. DOMAIN pages = 1..Len(pages)
    BY <2>2
  <2> QED BY <2>1, <2>2, <2>3 DEF PageLists, S
<1> HIDE DEF pages
<1>10. LoopInv'
  BY <1>1, <1>2, <1>8, <1>9 DEF LoopInv, Stored
<1>11. /\ loop'.known = loop.known /\ loop'.stored = loop.stored /\ loop'.pages = pages
       /\ loop'.at = loop.at /\ loop'.pc = "paging"
  BY <1>1, <1>8 DEF LoopInv
<1>12. ListInv'
  BY <1>1, <1>11 DEF ListInv, Known, Valid
<1>13. Goes
  BY <1>1, <1>2, StillGoes
<1>14. ASSUME NEW k, NEW shown, IsPage(k, shown) PROVE IsPage(k, shown)'
  BY <1>1, <1>11, <1>13, <1>14, PageStays
<1>15. PagesInv'
  <2>1. Len(loop'.pages) = Max({1, TotalPages(Len(loop'.known))})
    BY <1>1, <1>9, <1>11 DEF PagesInv
  <2>2. ASSUME NEW k \in DOMAIN pages, pages[k] # Unread
        PROVE  IsPage(k, loop.pages[k])'
    <3>1. PICK shown : shown = pages[k]
      OBVIOUS
    <3>2. IsPage(k, shown)
      <4>1. CASE k = i
        <5>1. shown = list
          BY <1>9, <3>1, <4>1
        <5> QED BY <1>1, <1>4, <1>6, <4>1, <5>1, ReadIsPage
      <4>2. CASE k # i
        <5>1. shown = loop.pages[k] /\ k \in DOMAIN loop.pages
          BY <1>9, <3>1, <4>2
        <5> QED BY <1>1, <2>2, <3>1, <5>1 DEF PagesInv
      <4> QED BY <4>1, <4>2
    <3>3. IsPage(k, shown)' /\ loop'.pages[k] = shown
      BY <1>11, <1>14, <3>1, <3>2
    <3> QED BY <3>3 DEF IsPage
  <2> QED BY <1>11, <2>1, <2>2 DEF PagesInv, TotalPages
<1> QED BY <1>10, <1>12, <1>15

-----------------------------------------------------------------------------
(* The other steps.                                                         *)

\* A list of pages shows a channel finitely often.
LEMMA ShownFinitely ==
  ASSUME LoopInv, NEW c
  PROVE  IsFiniteSet(Shown(c, loop.pages)) /\ Cardinality(Shown(c, loop.pages)) \in Nat
<1> DEFINE places == 1..Len(loop.pages)
           columns == 1..CHANNELS_FIND_LIMIT
<1>1. loop.pages \in PageLists /\ Len(loop.pages) \in Nat /\ DOMAIN loop.pages = places
  <2>1. loop.pages \in PageLists
    BY DEF LoopInv
  <2> QED BY <2>1 DEF PageLists
<1>2. IsFiniteSet(places) /\ IsFiniteSet(columns)
  <2>1. 1 \in Int /\ Len(loop.pages) \in Int /\ CHANNELS_FIND_LIMIT \in Int
    BY <1>1, LoopNumbers
  <2> QED BY <2>1, FS_Interval
<1>3. Shown(c, loop.pages) \subseteq places \X columns
  BY <1>1 DEF Shown
<1> HIDE DEF places, columns
<1>4. IsFiniteSet(places \X columns)
  BY <1>2, FS_Product
<1> QED BY <1>3, <1>4, FS_Subset, FS_CardinalityType

LEMMA StartKeeps ==
  ASSUME RoundsInv, StartTicks
  PROVE  LoopInv' /\ ListInv' /\ PagesInv'
<1>1. LoopInv /\ now \in Nat
  BY LoopNumbers DEF RoundsInv
<1>2. UNCHANGED <<now, col, indexed, late>>
  BY DEF StartTicks
<1>3. loop' = [pc |-> "ticking", at |-> 0, known |-> <<>>, stored |-> {}, pages |-> <<>>]
  BY DEF StartTicks, Idle
<1>4. awaited' \in [Channels -> Nat]
  <2>1. awaited' = [c \in Channels |-> awaited[c] + Cardinality(Shown(c, loop.pages))]
    BY DEF StartTicks
  <2>2. \A c \in Channels : awaited[c] \in Nat /\ Cardinality(Shown(c, loop.pages)) \in Nat
    BY <1>1, ShownFinitely DEF LoopInv
  <2> QED BY <2>1, <2>2
<1> QED BY <1>1, <1>2, <1>3, <1>4, EmptyLists DEF LoopInv, ListInv, PagesInv, Stored

\* A round that is idle, stopped or begins again holds nothing.
LEMMA ClearedKeeps ==
  ASSUME RoundsInv, FailListing \/ NextRound
  PROVE  LoopInv' /\ ListInv' /\ PagesInv'
<1>1. LoopInv /\ now \in Nat /\ UNCHANGED <<now, col, indexed, awaited, late>>
  BY LoopNumbers DEF RoundsInv, FailListing, NextRound, ticks
<1>2. PICK pc \in {"idle", "stopped"} :
        loop' = [pc |-> pc, at |-> 0, known |-> <<>>, stored |-> {}, pages |-> <<>>]
  BY DEF FailListing, NextRound, Idle
<1>3. \A c \in Channels : awaited[c] = 0
  BY <1>1 DEF FailListing, NextRound, LoopInv
<1> QED BY <1>1, <1>2, <1>3, EmptyLists DEF LoopInv, ListInv, PagesInv, Stored

LEMMA SettleKeeps ==
  ASSUME RoundsInv, NEW c \in Channels, Settle(c) \/ FinishLate(c)
  PROVE  LoopInv' /\ ListInv' /\ PagesInv'
<1>1. CollectionInv /\ LoopInv /\ ListInv /\ PagesInv
  BY DEF RoundsInv
<1>2. UNCHANGED <<now, col, indexed, loop>>
  BY DEF Settle, FinishTick, TimeOutTick, FinishLate
<1>3. ListInv' /\ PagesInv'
  BY <1>1, <1>2, StillGoes, LoopUntouched
<1>4. \/ awaited' = awaited
      \/ awaited[c] > 0 /\ awaited' = [awaited EXCEPT ![c] = @ - 1]
  BY DEF Settle, FinishTick, TimeOutTick, FinishLate
<1>5. \/ late' = late
      \/ late' = [late EXCEPT ![c] = @ + 1] /\ LateTicks < MaxLate
      \/ late' = [late EXCEPT ![c] = @ - 1] /\ late[c] > 0
  BY DEF Settle, FinishTick, TimeOutTick, FinishLate
<1>6. /\ awaited' \in [Channels -> Nat]
      /\ loop.pc # "ticking" => \A d \in Channels : awaited'[d] = 0
  BY <1>1, <1>4 DEF LoopInv
<1>7. late' \in [Channels -> 0..MaxLate]
  <2>1. late \in [Channels -> 0..MaxLate] /\ MaxLate \in Nat
    BY <1>1, LoopAssumption DEF LoopInv
  <2>2. LateTicks < MaxLate => late[c] < MaxLate
    BY <1>1, LateIsBounded
  <2> QED BY <1>5, <2>1, <2>2
<1>8. LoopInv'
  BY <1>1, <1>2, <1>6, <1>7 DEF LoopInv, Stored
<1> QED BY <1>3, <1>8

LEMMA RequestKeeps ==
  ASSUME RoundsInv, NEW r \in Requests, Validate(r) \/ RefuseByChain(r) \/ InsertChannel(r)
  PROVE  LoopInv' /\ ListInv' /\ PagesInv'
<1>1. CollectionInv /\ LoopInv /\ ListInv /\ PagesInv
  BY DEF RoundsInv
<1>2. UNCHANGED <<now, indexed, loop, awaited, late>>
  BY DEF Validate, RefuseByChain, InsertChannel, ticks
<1>3. Goes
  <2>1. UNCHANGED col \/ InsertChannel(r)
    BY DEF Validate, RefuseByChain
  <2> QED BY <1>1, <1>2, <2>1, StillGoes, InsertGoes
<1>4. ListInv' /\ PagesInv'
  BY <1>1, <1>2, <1>3, LoopUntouched
<1>5. LoopInv'
  BY <1>1, <1>2, <1>3 DEF LoopInv, Goes
<1> QED BY <1>4, <1>5

LEMMA TimeKeeps ==
  ASSUME RoundsInv, PassTime \/ UNCHANGED vars
  PROVE  LoopInv' /\ ListInv' /\ PagesInv'
<1>1. CollectionInv /\ LoopInv /\ ListInv /\ PagesInv
  BY DEF RoundsInv
<1>2. UNCHANGED <<col, indexed, loop, awaited, late>>
  BY DEF PassTime, vars, ticks
<1>3. now' = now \/ (now' = now + 1 /\ now < MaxTime)
  BY DEF PassTime, vars
<1>4. Goes
  BY <1>1, <1>2, <1>3, StillGoes
<1>5. ListInv' /\ PagesInv'
  BY <1>1, <1>2, <1>4, LoopUntouched
<1>6. now' \in 0..MaxTime /\ loop.at <= now'
  BY <1>1, <1>3, LoopNumbers, LoopAssumption DEF LoopInv
<1>7. LoopInv'
  BY <1>1, <1>2, <1>6 DEF LoopInv, Stored
<1> QED BY <1>5, <1>7

LEMMA RoundsInvInductive == Spec => []RoundsInv
<1>1. Init => RoundsInv
  <2> SUFFICES ASSUME Init, CollectionInv PROVE LoopInv /\ ListInv /\ PagesInv
    BY InitIsSound DEF RoundsInv
  <2>1. loop = [pc |-> "idle", at |-> 0, known |-> <<>>, stored |-> {}, pages |-> <<>>]
    BY DEF Init, Idle
  <2>2. now = 0 /\ MaxTime \in Nat /\ MaxLate \in Nat
    BY LoopAssumption DEF Init
  <2>3. LoopInv
    BY <2>1, <2>2, EmptyLists DEF Init, LoopInv
  <2> QED BY <2>1, <2>3 DEF ListInv, PagesInv
<1>2. RoundsInv /\ [Next]_vars /\ CollectionInv' => RoundsInv'
  <2> SUFFICES ASSUME RoundsInv, [Next]_vars PROVE LoopInv' /\ ListInv' /\ PagesInv'
    BY DEF RoundsInv
  <2>1. CASE Round
    BY <2>1, CountKeeps, ReadFirstKeeps, ReadPageKeeps, StartKeeps, ClearedKeeps DEF Round
  <2> QED BY <2>1, ClearedKeeps, SettleKeeps, RequestKeeps, TimeKeeps DEF Next
<1> QED BY <1>1, <1>2, CollectionInvInductive, PTL DEF Spec

\* Whatever is counted, read, timed out and created, the variables are of their types;
\* no tick is awaited or late that is not of a channel, or less than never.
THEOREM WorkerTypeCorrect == Spec => []TypeOK
<1>1. RoundsInv => TypeOK
  BY LoopNumbers DEF RoundsInv, LoopInv, CollectionInv, TypeOK, ReqTypes, Lists, PageLists
<1> QED BY <1>1, RoundsInvInductive, PTL

-----------------------------------------------------------------------------
(* What a round ticks.                                                      *)

Complete == loop.pc = "paging" /\ Unread \notin Range(loop.pages)

LEMMA PagesArePages ==
  ASSUME RoundsInv, Complete
  PROVE  /\ DOMAIN loop.pages = 1..Len(loop.pages) /\ Len(loop.pages) \in Nat
         /\ TotalPages(Len(loop.known)) <= Len(loop.pages)
         /\ \A i \in DOMAIN loop.pages : IsPage(i, loop.pages[i])
<1>1. LoopInv /\ PagesInv /\ loop.pc = "paging"
  BY DEF RoundsInv, Complete
<1>2. DOMAIN loop.pages = 1..Len(loop.pages) /\ Len(loop.pages) \in Nat
  <2>1. loop.pages \in PageLists
    BY <1>1 DEF LoopInv
  <2> QED BY <2>1 DEF PageLists
<1>3. TotalPages(Len(loop.known)) <= Len(loop.pages)
  <2>1. Len(loop.pages) = Max({1, TotalPages(Len(loop.known))})
    BY <1>1 DEF PagesInv
  <2> QED BY <1>1, <2>1, PagesSuffice
<1>4. \A i \in DOMAIN loop.pages : loop.pages[i] # Unread
  BY DEF Complete, Range
<1> QED BY <1>1, <1>2, <1>3, <1>4 DEF PagesInv

\* An undisturbed channel is shown on one page only, and there once.
LEMMA ShownOnce ==
  ASSUME RoundsInv, Complete, NEW c \in Channels, ~Disturbed(c)
  PROVE  /\ \A a, b \in Shown(c, loop.pages) : a = b
         /\ Cardinality(Shown(c, loop.pages)) \in {0, 1}
         /\ Shown(c, loop.pages) # {} => Cardinality(Shown(c, loop.pages)) = 1
<1> DEFINE shown == Shown(c, loop.pages)
           L == CHANNELS_FIND_LIMIT
<1>1. ASSUME NEW a \in shown
      PROVE  /\ a = <<a[1], a[2]>> /\ a[1] \in Nat \ {0} /\ a[2] \in 1..L
             /\ Rank(c) = (a[1] - 1) * L + a[2]
  <2>1. /\ a = <<a[1], a[2]>> /\ a[1] \in DOMAIN loop.pages /\ a[2] \in 1..L
        /\ a[2] \in DOMAIN loop.pages[a[1]] /\ loop.pages[a[1]][a[2]] = c
    BY <1>1 DEF Shown
  <2>2. IsPage(a[1], loop.pages[a[1]]) /\ a[1] \in Nat \ {0}
    BY <2>1, PagesArePages
  <2> QED BY <2>1, <2>2 DEF IsPage
<1>2. L \in Nat \ {0}
  BY LoopNumbers DEF RoundsInv
<1> HIDE DEF shown, L
<1>3. ASSUME NEW a \in shown, NEW b \in shown
      PROVE  a = b
  <2>1. a[1] = b[1] /\ a[2] = b[2]
    <3>1. (a[1] - 1) * L + a[2] = (b[1] - 1) * L + b[2]
      BY <1>1
    <3> QED BY <1>1, <1>2, <3>1, PositionIsOne
  <2> QED BY <1>1, <2>1
<1>4. CASE shown = {}
  BY <1>3, <1>4, FS_EmptySet DEF shown
<1>5. CASE shown # {}
  <2>1. PICK a \in shown : TRUE
    BY <1>5
  <2>2. shown = {a}
    BY <1>3, <2>1
  <2>3. Cardinality(shown) = 1
    BY <2>2, FS_Singleton
  <2> QED BY <1>3, <1>5, <2>3 DEF shown
<1> QED BY <1>4, <1>5

\* Before a channel that was counted come fewer than were counted.
LEMMA RankInList ==
  ASSUME RoundsInv, loop.pc = "paging", NEW c \in Known
  PROVE  Rank(c) \in 1..Len(loop.known)
<1>1. CollectionInv /\ LoopInv
  BY DEF RoundsInv
<1>2. loop.known \in Lists
  BY <1>1 DEF LoopInv
<1> DEFINE places == 1..Len(loop.known)
           f == [i \in places |-> loop.known[i]]
           earlier == {d \in Known : Before(d, c)}
<1>3. f \in Surjection(places, Known) /\ Len(loop.known) \in Nat
  BY <1>2 DEF Surjection, Known, ToSet, Lists
<1>4. IsFiniteSet(places) /\ Cardinality(places) = Len(loop.known)
  BY <1>3, FirstNumbers
<1>5. IsFiniteSet(Known) /\ Cardinality(Known) <= Len(loop.known)
  <2> HIDE DEF f, places
  <2> QED BY <1>3, <1>4, FS_Surjection
<1>6. earlier \subseteq Known \ {c}
  <2>1. ~Before(c, c)
    BY <1>1 DEF Before, CollectionInv, IsInjective
  <2> QED BY <2>1
<1> HIDE DEF f, places, earlier
<1>7. IsFiniteSet(Known \ {c}) /\ Cardinality(Known \ {c}) = Cardinality(Known) - 1
  BY <1>5, FS_RemoveElement
<1>8. IsFiniteSet(earlier) /\ Cardinality(earlier) <= Cardinality(Known \ {c})
  BY <1>6, <1>7, FS_Subset
<1>9. Cardinality(earlier) \in Nat /\ Cardinality(Known) \in Nat
  BY <1>5, <1>8, FS_CardinalityType
<1>10. Rank(c) = 1 + Cardinality(earlier)
  BY DEF Rank, earlier
<1> QED BY <1>3, <1>5, <1>7, <1>8, <1>9, <1>10

\* The page on which a channel belongs is asked for, and shows it.
LEMMA ShownSomewhere ==
  ASSUME RoundsInv, Complete, NEW c \in Known, Valid(c, now), ~Disturbed(c)
  PROVE  Shown(c, loop.pages) # {}
<1> DEFINE n == Len(loop.known)
           L == CHANNELS_FIND_LIMIT
<1>1. n \in Nat /\ L \in Nat \ {0} /\ loop.pc = "paging"
  BY LoopNumbers DEF RoundsInv, LoopInv, Lists, Complete
<1>2. Rank(c) \in 1..n
  BY <1>1, RankInList
<1> HIDE DEF n, L
<1>3. PICK i \in 1..(n + L - 1) \div L, j \in 1..L : Rank(c) = (i - 1) * L + j
  BY <1>1, <1>2, PositionExists
<1>4. i \in DOMAIN loop.pages
  <2>1. TotalPages(n) = (n + L - 1) \div L
    BY DEF TotalPages, L
  <2> DEFINE total == (n + L - 1) \div L
  <2>2. total <= Len(loop.pages) /\ Len(loop.pages) \in Nat
    BY <2>1, PagesArePages DEF n
  <2>3. total \in Nat
    <3>1. n + L - 1 \in Nat
      BY <1>1
    <3> QED BY <1>1, <3>1, Floor
  <2>4. i \in 1..total
    OBVIOUS
  <2> HIDE DEF total
  <2>5. i \in 1..Len(loop.pages)
    BY <2>2, <2>3, <2>4
  <2> QED BY <2>5, PagesArePages
<1>5. IsPage(i, loop.pages[i])
  BY <1>4, PagesArePages
<1>6. j \in DOMAIN loop.pages[i] /\ loop.pages[i][j] = c
  BY <1>3, <1>5 DEF IsPage, L
<1>7. <<i, j>> \in Shown(c, loop.pages)
  BY <1>4, <1>6 DEF Shown, L
<1> QED BY <1>7

LEMMA StartTicksOnce ==
  ASSUME RoundsInv, StartTicks, NEW c \in Channels, ~Disturbed(c)
  PROVE  /\ awaited[c] = 0 /\ awaited'[c] \in {0, 1}
         /\ c \in Known /\ Valid(c, now) => awaited'[c] = 1
<1>1. Complete
  BY DEF StartTicks, Complete
<1>2. awaited[c] = 0
  BY DEF StartTicks, RoundsInv, LoopInv
<1>3. awaited'[c] = awaited[c] + Cardinality(Shown(c, loop.pages))
  BY DEF StartTicks
<1>4. Cardinality(Shown(c, loop.pages)) \in {0, 1}
  BY <1>1, ShownOnce
<1>5. c \in Known /\ Valid(c, now) => Cardinality(Shown(c, loop.pages)) = 1
  BY <1>1, ShownOnce, ShownSomewhere
<1> QED BY <1>2, <1>3, <1>4, <1>5

\* Only the start of its ticks gives a channel a tick to wait for.
LEMMA OnlyStartTicks ==
  ASSUME RoundsInv, [Next]_vars, ~StartTicks
  PROVE  /\ \A c \in Channels : ~(awaited'[c] > awaited[c])
         /\ ~(loop.pc = "paging" /\ loop'.pc = "ticking")
<1>1. LoopInv /\ awaited \in [Channels -> Nat]
  BY DEF RoundsInv, LoopInv
<1>2. \/ UNCHANGED awaited
      \/ \E c \in Channels : awaited[c] > 0 /\ awaited' = [awaited EXCEPT ![c] = @ - 1]
  BY DEF Next, Round, CountChannels, ReadFirstPage, ReadPage, NextRound, FailListing, Settle,
         FinishTick, TimeOutTick, FinishLate, Validate, RefuseByChain, InsertChannel, PassTime,
         vars, ticks
<1>3. \A c \in Channels : ~(awaited'[c] > awaited[c])
  BY <1>1, <1>2
<1>4. ~(loop.pc = "paging" /\ loop'.pc = "ticking")
  <2> SUFFICES ASSUME loop.pc = "paging" PROVE loop'.pc # "ticking"
    OBVIOUS
  <2>1. CASE Round
    <3>1. PICK i \in DOMAIN loop.pages : ReadPage(i)
      BY <2>1 DEF Round, CountChannels, ReadFirstPage, NextRound
    <3>2. \E list : loop' = [loop EXCEPT !.pages[i] = list]
      BY <3>1 DEF ReadPage
    <3> QED BY <1>1, <3>2 DEF LoopInv
  <2>2. CASE FailListing
    BY <2>2 DEF FailListing, Idle
  <2>3. CASE UNCHANGED loop
    BY <2>3
  <2>4. Round \/ FailListing \/ UNCHANGED loop
    BY DEF Next, Settle, FinishTick, TimeOutTick, FinishLate, Validate, RefuseByChain,
           InsertChannel, PassTime, vars
  <2> QED BY <2>1, <2>2, <2>3, <2>4
<1> QED BY <1>3, <1>4

\* A round ticks the channels that it counted and that last, each once, unless another
\* expired before it or came in between, in whatever order the pages are read.
THEOREM LastingChannelsTickOnce == Spec => TickedOnceUnlessDisturbed
<1>1. RoundsInv /\ [Next]_vars =>
        [loop.pc = "paging" /\ loop'.pc = "ticking" =>
           \A c \in ToSet(loop.known) :
             Valid(c, now) /\ ~Disturbed(c) => awaited'[c] = awaited[c] + 1]_vars
  <2> SUFFICES ASSUME RoundsInv, [Next]_vars, loop.pc = "paging", loop'.pc = "ticking",
                      NEW c \in ToSet(loop.known), Valid(c, now), ~Disturbed(c)
               PROVE  awaited'[c] = awaited[c] + 1
    OBVIOUS
  <2>1. StartTicks
    BY OnlyStartTicks
  <2>2. c \in Known /\ c \in Channels
    BY DEF Known, RoundsInv, LoopInv, CollectionInv, Stored, ToSet, Lists
  <2>3. awaited[c] = 0 /\ awaited'[c] = 1
    BY <2>1, <2>2, StartTicksOnce
  <2> QED BY <2>3
<1> QED BY <1>1, RoundsInvInductive, PTL DEF Spec, TickedOnceUnlessDisturbed

\* A second tick of a channel begins only behind one that timed out, or because the list
\* showed the channel twice, for a channel that expired before it or came in between.
THEOREM TicksDoNotOverlap == Spec => OneTickAtATime
<1>1. RoundsInv /\ [Next]_vars =>
        [\A c \in Channels :
           awaited'[c] > awaited[c] /\ awaited'[c] + late[c] > 1 =>
             late[c] > 0 \/ Disturbed(c)]_vars
  <2> SUFFICES ASSUME RoundsInv, [Next]_vars, NEW c \in Channels,
                      awaited'[c] > awaited[c], awaited'[c] + late[c] > 1, ~Disturbed(c)
               PROVE  late[c] > 0
    OBVIOUS
  <2>1. awaited[c] \in Nat /\ late[c] \in Nat
    BY LoopAssumption DEF RoundsInv, LoopInv
  <2>2. StartTicks
    BY OnlyStartTicks
  <2>3. awaited'[c] \in {0, 1}
    BY <2>2, StartTicksOnce
  <2> QED BY <2>1, <2>3
<1> QED BY <1>1, RoundsInvInductive, PTL DEF Spec, OneTickAtATime
=============================================================================
