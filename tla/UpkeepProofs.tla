----------------------------- MODULE UpkeepProofs ---------------------------
(***************************************************************************)
(* Theorems about the messages of a channel while its validators tick and   *)
(* the operator prunes: for any bounds, any HEARTBEAT_TIME, and whatever    *)
(* POSTs are lost, or late where the theorem does not exclude it.           *)
(***************************************************************************)
EXTENDS Upkeep, FoldTheorems, SequenceTheorems

-----------------------------------------------------------------------------
(* What deleting some of its messages leaves of a sequence.                 *)

LEMMA WithoutIsLeft ==
  ASSUME NEW seq, NEW gone
  PROVE  Without(seq, gone) = (CHOOSE g : IsLeft(g, seq, gone))[Len(seq)]
BY DEF Without, IsLeft, LeftStep

\* What is left of a sequence is what is not gone, in its order.
LEMMA WithoutKeeps ==
  ASSUME NEW S, NEW seq \in Seq(S), NEW gone
  PROVE  /\ Without(seq, gone) \in Seq(S)
         /\ \E e : Keeps(Without(seq, gone), e, seq, gone, Len(seq))
<1> DEFINE g == CHOOSE f : IsLeft(f, seq, gone)
<1>1. IsLeft(g, seq, gone) /\ Without(seq, gone) = g[Len(seq)]
  BY LeftExists, WithoutIsLeft
<1> HIDE DEF g
<1> QED BY <1>1, LeftKeeps

\* If the last one stays, it stays the last.
LEMMA LastStays ==
  ASSUME NEW S, NEW seq \in Seq(S), NEW gone, seq # <<>>, Last(seq) \notin gone
  PROVE  Without(seq, gone) # <<>> /\ Last(Without(seq, gone)) = Last(seq)
<1> DEFINE left == Without(seq, gone)
<1>1. left \in Seq(S)
  BY WithoutKeeps
<1>2. PICK e : Keeps(left, e, seq, gone, Len(seq))
  BY WithoutKeeps
<1> HIDE DEF left
<1>3. Len(seq) \in 1..Len(seq)
  OBVIOUS
<1>4. PICK j \in 1..Len(left) : e[j] = Len(seq)
  BY <1>2, <1>3 DEF Keeps, Last
<1>5. Len(left) \in 1..Len(left) /\ e[Len(left)] \in 1..Len(seq)
  BY <1>1, <1>2 DEF Keeps
<1>6. j = Len(left)
  BY <1>1, <1>2, <1>4, <1>5 DEF Keeps
<1>7. left[Len(left)] = seq[Len(seq)]
  BY <1>2, <1>4, <1>6 DEF Keeps
<1> QED BY <1>1, <1>4, <1>7 DEF Last, left

\* If none goes, all stay.
LEMMA AllStay ==
  ASSUME NEW S, NEW seq \in Seq(S), NEW gone, \A i \in 1..Len(seq) : seq[i] \notin gone
  PROVE  Without(seq, gone) = seq
<1> DEFINE g == CHOOSE f : IsLeft(f, seq, gone)
           P == {n \in Nat : /\ g[n] \in Seq(S) /\ Len(g[n]) = n
                             /\ \A i \in 1..n : g[n][i] = seq[i]}
<1>1. IsLeft(g, seq, gone) /\ Without(seq, gone) = g[Len(seq)]
  BY LeftExists, WithoutIsLeft
<1> HIDE DEF g
<1>2. 0 \in P
  <2>1. g[0] = <<>>
    BY <1>1 DEF IsLeft
  <2>2. <<>> \in Seq(S) /\ Len(<<>>) = 0 /\ 1..0 = {}
    OBVIOUS
  <2> QED BY <2>1, <2>2
<1>3. ASSUME NEW n \in 0..Len(seq) - 1, n \in P PROVE n + 1 \in P
  <2>1. g[n + 1] = Append(g[n], seq[n + 1])
    <3>1. g[n + 1] = LeftStep(g[n], seq[n + 1], gone)
      BY <1>1 DEF IsLeft
    <3>2. seq[n + 1] \notin gone
      OBVIOUS
    <3> QED BY <3>1, <3>2 DEF LeftStep
  <2>2. g[n] \in Seq(S) /\ Len(g[n]) = n /\ seq[n + 1] \in S
    <3>1. n + 1 \in 1..Len(seq)
      OBVIOUS
    <3>2. seq[n + 1] \in S
      BY <3>1
    <3> QED BY <1>3, <3>2
  <2>3. g[n + 1] \in Seq(S) /\ Len(g[n + 1]) = n + 1
    BY <2>1, <2>2
  <2>4. \A i \in 1..n + 1 : g[n + 1][i] = seq[i]
    BY <1>3, <2>1, <2>2
  <2> QED BY <2>3, <2>4
<1>4. Len(seq) \in P
  <2> HIDE DEF P
  <2> QED BY <1>2, <1>3, InductionUpTo
<1> QED BY <1>1, <1>4, SeqEqual

LEMMA InsertAtJoins ==
  ASSUME NEW S, NEW seq \in Seq(S), NEW e \in S, NEW n \in 0..Len(seq)
  PROVE  InsertAt(seq, n + 1, e) = (SubSeq(seq, 1, n) \o <<e>>) \o SubSeq(seq, n + 1, Len(seq))
<1> DEFINE k == n + 1
<1>1. InsertAt(seq, k, e) = (SubSeq(seq, 1, k - 1) \o <<e>>) \o SubSeq(seq, k, Len(seq))
  <2> HIDE DEF k
  <2> QED BY Zenon DEF InsertAt
<1>2. k - 1 = n
  OBVIOUS
<1>3. InsertAt(seq, k, e) = (SubSeq(seq, 1, n) \o <<e>>) \o SubSeq(seq, k, Len(seq))
  <2> HIDE DEF k
  <2> QED BY <1>1, <1>2, Zenon
<1> QED BY <1>3, Zenon

\* e is put behind the first n of old, which are size.
Puts(new, old, size, n, e) ==
  /\ n \in 0..size /\ new[n + 1] = e
  /\ \A i \in 1..n : new[i] = old[i]
  /\ \A i \in n + 2..size + 1 : new[i] = old[i - 1]

\* What inserting behind the first n does.
LEMMA InsertedAt ==
  ASSUME NEW S, NEW seq \in Seq(S), NEW e \in S, NEW n \in 0..Len(seq)
  PROVE  /\ InsertAt(seq, n + 1, e) \in Seq(S)
         /\ Len(InsertAt(seq, n + 1, e)) = Len(seq) + 1
         /\ Puts(InsertAt(seq, n + 1, e), seq, Len(seq), n, e)
<1>1. PICK a, b : a = SubSeq(seq, 1, n) /\ b = SubSeq(seq, n + 1, Len(seq))
  OBVIOUS
<1>2. /\ a \in Seq(S) /\ Len(a) = n
      /\ \A i \in 1..n : a[i] = seq[i]
  BY <1>1
<1>3. /\ b \in Seq(S) /\ Len(b) = Len(seq) - n
      /\ \A i \in 1..Len(seq) - n : b[i] = seq[n + i]
  BY <1>1
<1>4. PICK all : all = InsertAt(seq, n + 1, e)
  OBVIOUS
<1> PICK one : one = <<e>>
  OBVIOUS
<1>5. all = (a \o one) \o b
  BY <1>1, <1>4, InsertAtJoins, Zenon
<1>6. one \in Seq(S) /\ Len(one) = 1 /\ one[1] = e
  OBVIOUS
<1>7. PICK part : part = a \o one
  OBVIOUS
<1>8. /\ part \in Seq(S) /\ Len(part) = n + 1
      /\ \A i \in 1..n + 1 : part[i] = IF i <= n THEN a[i] ELSE one[i - n]
  <2>1. /\ part \in Seq(S) /\ Len(part) = Len(a) + Len(one)
        /\ \A i \in 1..Len(a) + Len(one) :
             part[i] = IF i <= Len(a) THEN a[i] ELSE one[i - Len(a)]
    BY <1>2, <1>6, <1>7, ConcatProperties
  <2> QED BY <1>2, <1>6, <2>1
<1>9. all = part \o b
  BY <1>5, <1>7, Zenon
<1>10. /\ all \in Seq(S) /\ Len(all) = Len(part) + Len(b)
       /\ \A i \in 1..Len(part) + Len(b) :
            all[i] = IF i <= Len(part) THEN part[i] ELSE b[i - Len(part)]
  BY <1>3, <1>8, <1>9, ConcatProperties
<1>11. Len(all) = Len(seq) + 1 /\ Len(seq) \in Nat
  BY <1>3, <1>8, <1>10
<1>12. all[n + 1] = e /\ \A i \in 1..n : all[i] = seq[i]
  BY <1>2, <1>6, <1>8, <1>10, <1>11
<1>13. ASSUME NEW i \in n + 2..Len(seq) + 1 PROVE all[i] = seq[i - 1]
  <2>1. all[i] = b[i - (n + 1)] /\ i - (n + 1) \in 1..Len(seq) - n
    BY <1>3, <1>8, <1>10, <1>11
  <2>2. n + (i - (n + 1)) = i - 1
    OBVIOUS
  <2> QED BY <1>3, <2>1, <2>2
<1>14. Puts(all, seq, Len(seq), n, e)
  BY <1>12, <1>13 DEF Puts
<1> QED BY <1>4, <1>10, <1>11, <1>14

\* The first  size  of a sequence are ordered by  received.
InOrder(seq, size) ==
  /\ \A i \in 1..size : seq[i].received \in Nat
  /\ \A i, j \in 1..size : i < j => seq[i].received <= seq[j].received

\* Inserting behind all that were received no later keeps the order.
LEMMA InsertedInOrder ==
  ASSUME NEW old, NEW new, NEW e, NEW size \in Nat, NEW n,
         Puts(new, old, size, n, e), InOrder(old, size), e.received \in Nat,
         \A i \in 1..n : old[i].received <= e.received,
         \A i \in n + 1..size : old[i].received > e.received
  PROVE  InOrder(new, size + 1)
<1> USE DEF Puts, InOrder
<1>0. ASSUME NEW i \in 1..size + 1 PROVE new[i].received \in Nat
  <2>1. CASE i \in 1..n
    BY <2>1
  <2>2. CASE i = n + 1
    BY <2>2
  <2>3. CASE i \in n + 2..size + 1
    <3>1. PICK h \in 1..size : h = i - 1
      BY <2>3
    <3> QED BY <2>3, <3>1
  <2> QED BY <2>1, <2>2, <2>3
<1> SUFFICES ASSUME NEW i \in 1..size + 1, NEW j \in 1..size + 1, i < j
             PROVE  new[i].received <= new[j].received
  BY <1>0
<1>1. CASE j \in 1..n
  <2>1. i \in 1..n /\ i \in 1..size /\ j \in 1..size
    BY <1>1
  <2> QED BY <1>1, <2>1
<1>2. CASE i \in 1..n /\ j = n + 1
  BY <1>2
<1>3. CASE i \in 1..n /\ j \in n + 2..size + 1
  <2>1. PICK k \in 1..size : k = j - 1 /\ i < k
    BY <1>3
  <2>2. new[i] = old[i] /\ new[j] = old[k] /\ i \in 1..size
    BY <1>3, <2>1
  <2> QED BY <2>1, <2>2
<1>4. CASE i = n + 1
  <2>1. j \in n + 2..size + 1
    BY <1>4
  <2>2. PICK k \in n + 1..size : k = j - 1
    BY <2>1
  <2>3. new[i] = e /\ new[j] = old[k] /\ k \in 1..size
    BY <1>4, <2>1, <2>2
  <2>4. old[k].received > e.received /\ old[k].received \in Nat
    BY <2>2, <2>3
  <2> QED BY <2>3, <2>4
<1>5. CASE i \in n + 2..size + 1
  <2>1. j \in n + 2..size + 1
    BY <1>5
  <2>2. PICK h, k \in 1..size : h = i - 1 /\ k = j - 1 /\ h < k
    BY <1>5, <2>1
  <2>3. new[i] = old[h] /\ new[j] = old[k]
    BY <1>5, <2>1, <2>2
  <2> QED BY <2>2, <2>3
<1>6. i \in 1..n \/ i = n + 1 \/ i \in n + 2..size + 1
  OBVIOUS
<1>7. j \in 1..n \/ j = n + 1 \/ j \in n + 2..size + 1
  OBVIOUS
<1> QED BY <1>1, <1>2, <1>3, <1>4, <1>5, <1>6, <1>7

-----------------------------------------------------------------------------
(* Types.                                                                   *)

Beats == {Beat(t) : t \in 0..MaxTime}
States == {State(n) : n \in 1..MaxStates}

RootsOf(kind) == IF kind \in Validators THEN Beats ELSE States

Message == [root : Roots, received : 0..MaxTime]

Posts == [kind : Kinds, root : Roots, received : 0..MaxTime + 1]

\* A POST under way has a root of its kind, and was received by now if it was at all.
PostOK(p) ==
  /\ p \in Posts /\ p.root \in RootsOf(p.kind)
  /\ p.received <= now \/ p.received = Unreceived

Asking == {"heartbeats", "fetched", "deleting"}

TypeInv ==
  /\ now \in 0..MaxTime /\ exhausted \in BOOLEAN
  /\ states \in 0..MaxStates /\ approved \in 0..states
  /\ beat \in 0..now + HEARTBEAT_TIME + 1
  /\ tick \in [pc : {"off", "working", "deciding", "waiting"},
               exhausted : BOOLEAN, latest : Roots]
  /\ prune \in [pc : {"idle", "started"} \cup Asking, runs : 0..MaxPrunes, since : 0..MaxTime,
                kept : SUBSET Roots, approved : Roots, all : BOOLEAN,
                asked : 0..MaxTime, inserting : SUBSET Posts]
  /\ faults \in [late : Nat, lost : Nat]
  /\ \A p \in posts : PostOK(p)

\* The messages are ordered by  received, and have a root of their kind.
MsgsInv ==
  /\ msgs \in [Kinds -> Seq(Message)]
  /\ \A kind \in Kinds : \A i \in 1..Len(msgs[kind]) :
       msgs[kind][i].root \in RootsOf(kind) /\ msgs[kind][i].received <= now
  /\ \A kind \in Kinds : \A i, j \in 1..Len(msgs[kind]) :
       i < j => msgs[kind][i].received <= msgs[kind][j].received

LEMMA ConstantsAreNat ==
  /\ HEARTBEAT_TIME \in Nat /\ MaxTime \in Nat /\ MaxStates \in Nat
  /\ MaxPosts \in Nat /\ MaxPrunes \in Nat /\ MaxFaults \in Nat
BY UpkeepAssumption

LEMMA RootsAreTold ==
  /\ Roots = Beats \cup States \cup {None}
  /\ \A r \in Beats : r[2] \in 0..MaxTime /\ r \notin States /\ r # None
  /\ None \notin States
  /\ \A t \in 0..MaxTime : Beat(t) \in Beats /\ Beat(t)[2] = t
  /\ \A n \in 1..MaxStates : State(n) \in States
BY DEF Roots, Beats, States, Beat, State, None

LEMMA NewestRootType ==
  ASSUME MsgsInv, NEW kind \in Kinds
  PROVE  /\ NewestRoot(kind) \in RootsOf(kind) \cup {None}
         /\ NewestRoot(kind) = None <=> msgs[kind] = <<>>
         /\ msgs[kind] # <<>> => NewestRoot(kind) = msgs[kind][Len(msgs[kind])].root
<1>1. msgs[kind] \in Seq(Message)
  BY DEF MsgsInv
<1>2. CASE msgs[kind] = <<>>
  BY <1>2 DEF NewestRoot
<1>3. CASE msgs[kind] # <<>>
  <2>1. Len(msgs[kind]) \in 1..Len(msgs[kind])
    BY <1>1, <1>3
  <2>2. msgs[kind][Len(msgs[kind])].root \in RootsOf(kind)
    BY <2>1 DEF MsgsInv
  <2>3. NewestRoot(kind) = msgs[kind][Len(msgs[kind])].root
    BY <1>3 DEF NewestRoot, Last
  <2>4. None \notin RootsOf(kind)
    BY RootsAreTold DEF RootsOf
  <2> QED BY <1>3, <2>2, <2>3, <2>4
<1> QED BY <1>2, <1>3

\* The newest n of a sequence are among its messages.  The newest of all is.
LEMMA NewestAreElements ==
  ASSUME NEW S, NEW seq \in Seq(S), NEW n \in 1..2
  PROVE  /\ Newest(seq, n) \subseteq S
         /\ seq # <<>> => Last(seq) \in Newest(seq, n)
         /\ n = 1 => \A m \in Newest(seq, n) : seq # <<>> /\ m = Last(seq)
<1> DEFINE first == Max({1, Len(seq) - n + 1})
           part == SubSeq(seq, first, Len(seq))
<1>1. first \in Nat /\ first >= 1 /\ (Len(seq) > 0 => first <= Len(seq))
      /\ (n = 1 /\ Len(seq) > 0 => first = Len(seq))
  <2>1. Max({1, Len(seq) - n + 1}) = IF Len(seq) - n + 1 >= 1 THEN Len(seq) - n + 1 ELSE 1
    BY DEF Max
  <2> QED BY <2>1
<1> HIDE DEF first
<1>2. /\ part \in Seq(S)
      /\ Len(part) = IF first <= Len(seq) THEN Len(seq) - first + 1 ELSE 0
      /\ \A i \in 1..Len(part) : part[i] = seq[first + i - 1]
  BY <1>1
<1> HIDE DEF part
<1>3. Newest(seq, n) = {part[i] : i \in 1..Len(part)}
  <2>1. DOMAIN part = 1..Len(part)
    BY <1>2
  <2> QED BY <2>1 DEF Newest, ToSet, part, first
<1>4. Newest(seq, n) \subseteq S
  BY <1>2, <1>3
<1>5. ASSUME seq # <<>> PROVE Last(seq) \in Newest(seq, n)
  <2>1. Len(seq) > 0
    BY <1>5
  <2>2. Len(part) \in 1..Len(part) /\ part[Len(part)] = seq[Len(seq)]
    BY <1>1, <1>2, <2>1
  <2> QED BY <1>3, <2>2 DEF Last
<1>6. ASSUME n = 1, NEW m \in Newest(seq, n) PROVE seq # <<>> /\ m = Last(seq)
  <2>1. PICK i \in 1..Len(part) : m = part[i]
    BY <1>3, <1>6
  <2>2. Len(seq) > 0 /\ i = 1
    BY <1>1, <1>2, <1>6, <2>1
  <2> QED BY <1>1, <1>2, <1>6, <2>1, <2>2 DEF Last
<1> QED BY <1>4, <1>5, <1>6

LEMMA NewestInSequence ==
  ASSUME NEW S, NEW seq \in Seq(S), NEW n \in 1..2
  PROVE  Newest(seq, n) \subseteq ToSet(seq)
<1>1. seq \in Seq(ToSet(seq))
  BY DEF ToSet
<1> QED BY <1>1, NewestAreElements

LEMMA LastApprovedType ==
  ASSUME MsgsInv
  PROVE  LastApproved \in States \cup {None}
<1>1. "ApproveState" \in Kinds /\ RootsOf("ApproveState") = States
  BY DEF Kinds, RootsOf, Validators
<1> QED BY <1>1, NewestRootType DEF LastApproved

LEMMA InitTypes == Init => TypeInv /\ MsgsInv
<1> SUFFICES ASSUME Init PROVE TypeInv /\ MsgsInv
  OBVIOUS
<1>1. None \in Roots
  BY RootsAreTold
<1>2. TypeInv
  <2>1. tick \in [pc : {"off", "working", "deciding", "waiting"},
                 exhausted : BOOLEAN, latest : Roots]
    BY <1>1 DEF Init, Off
  <2>2. prune \in [pc : {"idle", "started"} \cup Asking, runs : 0..MaxPrunes, since : 0..MaxTime,
                  kept : SUBSET Roots, approved : Roots, all : BOOLEAN,
                  asked : 0..MaxTime, inserting : SUBSET Posts]
    BY <1>1, ConstantsAreNat DEF Init, Idle
  <2>3. faults \in [late : Nat, lost : Nat] /\ posts = {}
    BY DEF Init
  <2>4. /\ now \in 0..MaxTime /\ exhausted \in BOOLEAN
        /\ states \in 0..MaxStates /\ approved \in 0..states
        /\ beat \in 0..now + HEARTBEAT_TIME + 1
    <3>1. now = 0 /\ exhausted = FALSE /\ states = 0 /\ approved = 0 /\ beat = 0
      BY DEF Init
    <3>2. now \in 0..MaxTime /\ states \in 0..MaxStates
      BY <3>1, ConstantsAreNat
    <3>3. approved \in 0..states /\ beat \in 0..now + HEARTBEAT_TIME + 1
      BY <3>1, ConstantsAreNat
    <3> QED BY <3>1, <3>2, <3>3
  <2> QED BY <2>1, <2>2, <2>3, <2>4 DEF TypeInv
<1>3. MsgsInv
  <2>1. <<>> \in Seq(Message) /\ Len(<<>>) = 0
    OBVIOUS
  <2> QED BY <2>1 DEF Init, MsgsInv
<1> QED BY <1>2, <1>3

MessageOf(p) == [root |-> p.root, received |-> p.received]

\* A message is inserted behind the first n of its kind.
Arrives(kind, m, n) ==
  /\ kind \in Kinds /\ m \in Message /\ m.root \in RootsOf(kind) /\ m.received <= now
  /\ n \in 0..Len(msgs[kind]) /\ Behind(msgs[kind], n, m.received)
  /\ msgs' = [msgs EXCEPT ![kind] = InsertAt(@, n + 1, m)]
  /\ now' = now /\ prune' = prune

LEMMA InsertArrives ==
  ASSUME TypeInv, NEW p \in posts, Insert(p)
  PROVE  /\ p.kind \in Kinds
         /\ \E n \in 0..Len(msgs[p.kind]) : Arrives(p.kind, MessageOf(p), n)
<1>1. PostOK(p) /\ p.received # Unreceived
  BY DEF TypeInv, Insert
<1>2. PICK n \in 0..Len(msgs[p.kind]) :
        /\ Behind(msgs[p.kind], n, p.received)
        /\ msgs' = [msgs EXCEPT ![p.kind] =
             InsertAt(@, n + 1, [root |-> p.root, received |-> p.received])]
  BY DEF Insert
<1>3. MessageOf(p) \in Message /\ MessageOf(p).root = p.root /\ MessageOf(p).received = p.received
  BY <1>1, ConstantsAreNat DEF PostOK, Posts, MessageOf, Message, Unreceived
<1>4. p.kind \in Kinds /\ p.received <= now /\ p.root \in RootsOf(p.kind)
  BY <1>1 DEF PostOK, Posts
<1>5. now' = now /\ prune' = prune
  BY DEF Insert
<1> QED BY <1>2, <1>3, <1>4, <1>5 DEF Arrives, MessageOf

LEMMA MsgsSteps ==
  ASSUME [Next]_vars
  PROVE  \/ Delete
         \/ \E p \in posts : Insert(p)
         \/ msgs' = msgs
<1>1. CASE Approve \/ SendFollowersHeartbeat
  BY <1>1 DEF Approve, SendFollowersHeartbeat
<1>2. ASSUME NEW p \in posts, Receive(p) \/ FailPost(p)
      PROVE  msgs' = msgs
  BY <1>2 DEF Receive, FailPost
<1>3. CASE StartTick \/ Propose \/ HeartbeatStep \/ TimeOut
  BY <1>3 DEF StartTick, Propose, HeartbeatStep, AskHeartbeat, SendHeartbeat, SkipHeartbeat,
              EndTick, TimeOut
<1>4. CASE Exhaust \/ PassTime
  BY <1>4 DEF Exhaust, PassTime
<1>5. CASE StartPrune \/ FetchHeartbeats \/ FetchApproved \/ FailToFetch \/ CompareValidUntil
  BY <1>5 DEF StartPrune, FetchHeartbeats, FetchApproved, FailToFetch, CompareValidUntil
<1>6. CASE UNCHANGED vars
  BY <1>6 DEF vars
<1> QED BY <1>1, <1>2, <1>3, <1>4, <1>5, <1>6 DEF Next

LEMMA TimePasses ==
  ASSUME TypeInv, [Next]_vars
  PROVE  now' \in 0..MaxTime /\ now <= now' /\ (Delete => now' = now)
<1>1. CASE PassTime
  <2>1. ~Delete
    BY <1>1 DEF PassTime, Delete, Idle
  <2> QED BY <1>1, <2>1, ConstantsAreNat DEF PassTime, TypeInv
<1>2. CASE now' = now
  BY <1>2 DEF TypeInv
<1>3. ~PassTime => now' = now
  BY DEF Next, vars, StartTick, Propose, HeartbeatStep, AskHeartbeat, SendHeartbeat,
         SkipHeartbeat, EndTick, TimeOut, Approve, SendFollowersHeartbeat, Receive, Insert, FailPost,
         Exhaust, StartPrune, FetchHeartbeats, FetchApproved, FailToFetch, CompareValidUntil, Delete
<1> QED BY <1>1, <1>2, <1>3

LEMMA ArrivalInserts ==
  ASSUME MsgsInv, NEW kind, NEW m, NEW n, Arrives(kind, m, n)
  PROVE  /\ DOMAIN msgs' = Kinds
         /\ \A k \in Kinds : k # kind => msgs'[k] = msgs[k]
         /\ msgs'[kind] \in Seq(Message) /\ Len(msgs'[kind]) = Len(msgs[kind]) + 1
         /\ Puts(msgs'[kind], msgs[kind], Len(msgs[kind]), n, m)
<1>1. /\ kind \in Kinds /\ msgs[kind] \in Seq(Message) /\ DOMAIN msgs = Kinds
      /\ m \in Message /\ n \in 0..Len(msgs[kind])
  BY DEF Arrives, MsgsInv
<1>2. /\ DOMAIN msgs' = Kinds
      /\ msgs'[kind] = InsertAt(msgs[kind], n + 1, m)
      /\ \A k \in Kinds : k # kind => msgs'[k] = msgs[k]
  BY <1>1 DEF Arrives
<1> QED BY <1>1, <1>2, InsertedAt

LEMMA DeleteLeaves ==
  ASSUME MsgsInv, Delete, NEW kind \in Kinds
  PROVE  /\ msgs'[kind] = Without(msgs[kind], {m \in ToSet(msgs[kind]) : Obsolete(kind, m)})
         /\ msgs'[kind] \in Seq(Message)
         /\ \E e : Keeps(msgs'[kind], e, msgs[kind],
                          {m \in ToSet(msgs[kind]) : Obsolete(kind, m)}, Len(msgs[kind]))
<1>1. msgs'[kind] = Without(msgs[kind], {m \in ToSet(msgs[kind]) : Obsolete(kind, m)})
  BY DEF Delete
<1>2. msgs[kind] \in Seq(Message)
  BY DEF MsgsInv
<1> QED BY <1>1, <1>2, WithoutKeeps

LEMMA NextMsgs ==
  ASSUME TypeInv, MsgsInv, [Next]_vars
  PROVE  MsgsInv'
<1>0. now \in Nat /\ now' \in Nat /\ now <= now'
  BY TimePasses DEF TypeInv
<1>1. CASE msgs' = msgs
  <2>1. ASSUME NEW kind \in Kinds, NEW i \in 1..Len(msgs[kind])
        PROVE  msgs[kind][i].received \in Nat
    <3>1. msgs[kind][i] \in Message
      BY DEF MsgsInv
    <3> QED BY <3>1, ConstantsAreNat DEF Message
  <2> QED BY <1>0, <1>1, <2>1 DEF MsgsInv
<1>2. ASSUME NEW kind, NEW m, NEW n, Arrives(kind, m, n) PROVE MsgsInv'
  <2>1. ASSUME NEW k \in Kinds
        PROVE  /\ msgs'[k] \in Seq(Message)
               /\ \A i \in 1..Len(msgs'[k]) :
                    msgs'[k][i].root \in RootsOf(k) /\ msgs'[k][i].received <= now'
               /\ \A i, j \in 1..Len(msgs'[k]) :
                    i < j => msgs'[k][i].received <= msgs'[k][j].received
    <3>1. CASE k # kind
      <4>1. msgs'[k] = msgs[k] /\ now' = now
        BY <1>2, <3>1, ArrivalInserts DEF Arrives
      <4> QED BY <4>1 DEF MsgsInv
    <3>2. CASE k = kind
      <4>1. PICK size \in Nat : size = Len(msgs[k])
        BY DEF MsgsInv
      <4>2. /\ msgs'[k] \in Seq(Message) /\ Len(msgs'[k]) = size + 1
            /\ Puts(msgs'[k], msgs[k], size, n, m)
        BY <1>2, <3>2, <4>1, ArrivalInserts
      <4>3. InOrder(msgs[k], size)
        <5>1. msgs[k] \in Seq(Message)
          BY DEF MsgsInv
        <5>2. \A i \in 1..size : msgs[k][i] \in Message
          BY <4>1, <5>1
        <5> QED BY <4>1, <5>2, ConstantsAreNat DEF InOrder, MsgsInv, Message
      <4>4. /\ n \in 0..size /\ now' = now
            /\ m.root \in RootsOf(k) /\ m.received <= now /\ m.received \in Nat
            /\ \A i \in 1..n : msgs[k][i].received <= m.received
            /\ \A i \in n + 1..size : msgs[k][i].received > m.received
        BY <1>2, <3>2, <4>1, ConstantsAreNat DEF Arrives, Behind, Message
      <4>5. ASSUME NEW i \in 1..size + 1
            PROVE  msgs'[k][i].root \in RootsOf(k) /\ msgs'[k][i].received <= now
        <5>0. \A h \in 1..size : msgs[k][h].root \in RootsOf(k) /\ msgs[k][h].received <= now
          BY <4>1 DEF MsgsInv
        <5>1. CASE i \in 1..n
          <6>1. msgs'[k][i] = msgs[k][i] /\ i \in 1..size
            BY <4>2, <4>4, <5>1 DEF Puts
          <6> QED BY <5>0, <6>1
        <5>2. CASE i = n + 1
          <6>1. msgs'[k][i] = m
            BY <4>2, <5>2 DEF Puts
          <6> QED BY <4>4, <6>1
        <5>3. CASE i \in n + 2..size + 1
          <6>1. PICK h \in 1..size : h = i - 1
            BY <4>4, <5>3
          <6>2. msgs'[k][i] = msgs[k][h]
            BY <4>2, <5>3, <6>1 DEF Puts
          <6> QED BY <5>0, <6>2
        <5>4. i \in 1..n \/ i = n + 1 \/ i \in n + 2..size + 1
          BY <4>4
        <5> QED BY <5>1, <5>2, <5>3, <5>4
      <4>6. InOrder(msgs'[k], size + 1)
        BY <4>2, <4>3, <4>4, InsertedInOrder
      <4> QED BY <4>2, <4>4, <4>5, <4>6 DEF InOrder
    <3> QED BY <3>1, <3>2
  <2>2. msgs' \in [Kinds -> Seq(Message)]
    <3>1. msgs' = [k \in Kinds |-> msgs'[k]]
      BY <1>2 DEF Arrives, MsgsInv
    <3> QED BY <2>1, <3>1
  <2> QED BY <2>1, <2>2 DEF MsgsInv
<1>3. CASE Delete
  <2>1. ASSUME NEW k \in Kinds
        PROVE  /\ msgs'[k] \in Seq(Message)
               /\ \A i \in 1..Len(msgs'[k]) :
                    msgs'[k][i].root \in RootsOf(k) /\ msgs'[k][i].received <= now'
               /\ \A i, j \in 1..Len(msgs'[k]) :
                    i < j => msgs'[k][i].received <= msgs'[k][j].received
    <3> DEFINE gone == {m \in ToSet(msgs[k]) : Obsolete(k, m)}
    <3>1. PICK e : Keeps(msgs'[k], e, msgs[k], gone, Len(msgs[k]))
      BY <1>3, DeleteLeaves
    <3>2. msgs'[k] \in Seq(Message)
      BY <1>3, DeleteLeaves
    <3> HIDE DEF gone
    <3>3. now' = now
      BY <1>3 DEF Delete
    <3>4. /\ \A i \in 1..Len(msgs[k]) :
               msgs[k][i].root \in RootsOf(k) /\ msgs[k][i].received <= now
          /\ \A i, j \in 1..Len(msgs[k]) :
               i < j => msgs[k][i].received <= msgs[k][j].received
      BY DEF MsgsInv
    <3>5. /\ \A i \in 1..Len(msgs'[k]) : msgs'[k][i] = msgs[k][e[i]] /\ e[i] \in 1..Len(msgs[k])
          /\ \A i, j \in 1..Len(msgs'[k]) : i < j => e[i] < e[j]
      BY <3>1 DEF Keeps
    <3> QED BY <3>2, <3>3, <3>4, <3>5
  <2>2. msgs' \in [Kinds -> Seq(Message)]
    <3>1. msgs' = [k \in Kinds |-> msgs'[k]]
      BY <1>3 DEF Delete
    <3> QED BY <2>1, <3>1
  <2> QED BY <2>1, <2>2 DEF MsgsInv
<1>4. ASSUME NEW p \in posts, Insert(p) PROVE MsgsInv'
  BY <1>2, <1>4, InsertArrives
<1> QED BY <1>1, <1>3, <1>4, MsgsSteps

\* Which steps change what.
PruneStep ==
  \/ StartPrune \/ FetchHeartbeats \/ FetchApproved \/ FailToFetch
  \/ CompareValidUntil \/ Delete

Handled(p) == p \in posts /\ (Receive(p) \/ Insert(p) \/ FailPost(p))

LEMMA WhoChangesWhat ==
  ASSUME [Next]_vars
  PROVE  /\ StartTick \/ AskHeartbeat \/ SendHeartbeat \/ tick' = Off \/ tick' = tick
         /\ PruneStep \/ prune' = prune
         /\ \/ Propose \/ SendHeartbeat \/ Approve \/ SendFollowersHeartbeat
            \/ (\E p : Handled(p)) \/ posts' = posts
         /\ Propose \/ states' = states
         /\ Approve \/ approved' = approved
         /\ SendFollowersHeartbeat \/ beat' = beat
         /\ Exhaust \/ exhausted' = exhausted
         /\ \/ TimeOut \/ LosePost
            \/ faults' = faults
<1>1. CASE HeartbeatStep
  BY <1>1 DEF HeartbeatStep, AskHeartbeat, SendHeartbeat, SkipHeartbeat, EndTick, channel, protocol
<1>2. CASE TimeOut
  BY <1>2 DEF TimeOut, channel, protocol
<1>3. CASE StartTick \/ Propose
  BY <1>3 DEF StartTick, Propose, channel, protocol
<1>4. CASE Approve \/ SendFollowersHeartbeat
  BY <1>4 DEF Approve, SendFollowersHeartbeat, FollowerPosts, channel, protocol
<1>5. CASE Exhaust \/ PassTime
  BY <1>5 DEF Exhaust, PassTime, channel, protocol
<1>6. ASSUME NEW p \in posts, Receive(p) \/ Insert(p)
      PROVE  /\ tick' = tick /\ prune' = prune /\ UNCHANGED <<channel, protocol, faults>>
             /\ Handled(p)
  BY <1>6 DEF Receive, Insert, Handled
<1>7. ASSUME NEW p \in posts, FailPost(p)
      PROVE  /\ tick' = tick /\ prune' = prune /\ UNCHANGED <<channel, protocol>> /\ LosePost
             /\ Handled(p)
  BY <1>7 DEF FailPost, Handled
<1>8. CASE PruneStep
  BY <1>8 DEF PruneStep, StartPrune, FetchHeartbeats, FetchApproved, FailToFetch,
              CompareValidUntil, Delete, channel, protocol
<1>9. CASE UNCHANGED vars
  BY <1>9 DEF vars
<1> QED BY <1>1, <1>2, <1>3, <1>4, <1>5, <1>6, <1>7, <1>8, <1>9 DEF Next, PruneStep, channel, protocol

TickTypes == [pc : {"off", "working", "deciding", "waiting"}, exhausted : BOOLEAN, latest : Roots]

PruneTypes == [pc : {"idle", "started"} \cup Asking, runs : 0..MaxPrunes, since : 0..MaxTime,
               kept : SUBSET Roots, approved : Roots, all : BOOLEAN,
               asked : 0..MaxTime, inserting : SUBSET Posts]

LEMMA NextTickTypes ==
  ASSUME TypeInv, MsgsInv, [Next]_vars
  PROVE  tick' \in TickTypes
<1>1. tick \in TickTypes
  BY DEF TypeInv, TickTypes
<1>2. Off \in TickTypes
  BY RootsAreTold DEF Off, TickTypes
<1>3. CASE StartTick
  BY <1>2, <1>3 DEF StartTick, Off, TypeInv, TickTypes
<1>4. CASE AskHeartbeat
  <2>1. NewestRoot("leader") \in Roots
    BY NewestRootType, RootsAreTold DEF Kinds, Validators, RootsOf
  <2> QED BY <1>1, <1>4, <2>1 DEF AskHeartbeat, TickTypes
<1>5. CASE SendHeartbeat
  <2>1. PICK off \in TickTypes : tick' = [off EXCEPT !.pc = "waiting"]
    BY <1>2, <1>5 DEF SendHeartbeat
  <2> QED BY <2>1 DEF TickTypes
<1> QED BY <1>1, <1>2, <1>3, <1>4, <1>5, WhoChangesWhat

LEMMA NextPruneTypes ==
  ASSUME TypeInv, MsgsInv, [Next]_vars
  PROVE  prune' \in PruneTypes
<1>1. prune \in PruneTypes
  BY DEF TypeInv, PruneTypes
<1>2. ASSUME NEW n \in 0..MaxPrunes PROVE Idle(n) \in PruneTypes
  BY RootsAreTold, ConstantsAreNat DEF Idle, PruneTypes
<1>3. CASE StartPrune
  <2>1. Idle(prune.runs + 1) \in PruneTypes
    BY <1>1, <1>2, <1>3, ConstantsAreNat DEF StartPrune, PruneTypes
  <2>2. PICK x \in PruneTypes, since \in 0..MaxTime :
          prune' = [x EXCEPT !.pc = "started", !.since = since]
    BY <1>3, <2>1 DEF StartPrune
  <2> QED BY <2>2 DEF PruneTypes
<1>4. CASE FetchHeartbeats
  <2>1. {m.root : m \in LastHeartbeats} \subseteq Roots
    <3>1. ASSUME NEW v \in Validators, NEW m \in Newest(msgs[v], 2) PROVE m.root \in Roots
      <4>1. v \in Kinds /\ msgs[v] \in Seq(Message)
        BY DEF Kinds, MsgsInv
      <4>2. m \in Message
        BY <4>1, NewestAreElements
      <4> QED BY <4>2 DEF Message
    <3> QED BY <3>1 DEF LastHeartbeats
  <2>2. {p \in posts : p.received # Unreceived} \subseteq Posts
    BY DEF TypeInv, PostOK
  <2>3. PICK kept \in SUBSET Roots, inserting \in SUBSET Posts :
          prune' = [prune EXCEPT !.pc = "heartbeats", !.kept = kept, !.asked = now,
                                 !.inserting = inserting]
    BY <1>4, <2>1, <2>2 DEF FetchHeartbeats
  <2>4. now \in 0..MaxTime
    BY DEF TypeInv
  <2> QED BY <1>1, <2>3, <2>4 DEF PruneTypes, Asking
<1>5. CASE FetchApproved
  <2>1. LastApproved \in Roots
    BY LastApprovedType, RootsAreTold
  <2> QED BY <1>1, <1>5, <2>1 DEF FetchApproved, PruneTypes, Asking
<1>6. CASE FailToFetch \/ Delete
  <2>1. prune' = Idle(prune.runs)
    BY <1>6 DEF FailToFetch, Delete
  <2> QED BY <1>1, <1>2, <2>1 DEF PruneTypes
<1>7. CASE CompareValidUntil
  <2>1. Expired \in BOOLEAN
    BY DEF Expired
  <2> QED BY <1>1, <1>7, <2>1 DEF CompareValidUntil, PruneTypes, Asking
<1> QED BY <1>1, <1>3, <1>4, <1>5, <1>6, <1>7, WhoChangesWhat DEF PruneStep

LEMMA PostAdds ==
  ASSUME TypeInv, NEW kind \in Kinds, NEW root \in RootsOf(kind), NEW received,
         received = now \/ received = Unreceived, Post(kind, root, received), now' = now
  PROVE  \A p \in posts' : PostOK(p)'
<1>1. posts' = posts \cup {[kind |-> kind, root |-> root, received |-> received]}
  BY DEF Post
<1>2. root \in Roots
  BY RootsAreTold DEF RootsOf
<1>3. received \in 0..MaxTime + 1 /\ now \in Nat
  BY ConstantsAreNat DEF TypeInv, Unreceived
<1>4. ASSUME NEW p, p = [kind |-> kind, root |-> root, received |-> received]
      PROVE  PostOK(p)
  <2>1. p.kind = kind /\ p.root = root /\ p.received = received
    BY <1>4
  <2>2. p \in Posts
    BY <1>2, <1>3, <1>4 DEF Posts
  <2> QED BY <1>3, <2>1, <2>2 DEF PostOK
<1>5. ASSUME NEW p, PostOK(p) PROVE PostOK(p)'
  BY <1>5 DEF PostOK
<1> QED BY <1>1, <1>4, <1>5 DEF TypeInv

LEMMA NextPosts ==
  ASSUME TypeInv, [Next]_vars
  PROVE  \A p \in posts' : PostOK(p)'
<1>0. now \in 0..MaxTime /\ now' \in Nat /\ now <= now'
  BY TimePasses DEF TypeInv
<1>1. ASSUME NEW p, PostOK(p) PROVE PostOK(p)'
  BY <1>0, <1>1, ConstantsAreNat DEF PostOK, Posts
<1>2. CASE Propose
  <2>1. /\ State(states + 1) \in RootsOf("NewState") /\ "NewState" \in Kinds
        /\ Post("NewState", State(states + 1), Unreceived) /\ now' = now
    BY <1>2, RootsAreTold, ConstantsAreNat DEF Propose, TypeInv, RootsOf, Validators, Kinds
  <2> QED BY <2>1, PostAdds
<1>3. CASE SendHeartbeat
  <2>1. /\ Beat(now) \in RootsOf("leader") /\ "leader" \in Kinds
        /\ Post("leader", Beat(now), Unreceived) /\ now' = now
    BY <1>0, <1>3, RootsAreTold DEF SendHeartbeat, RootsOf, Validators, Kinds
  <2> QED BY <2>1, PostAdds
<1>4. CASE Approve
  <2>1. PICK n \in approved + 1..states : FollowerPosts("ApproveState", State(n))
    BY <1>4 DEF Approve
  <2>2. State(n) \in RootsOf("ApproveState") /\ "ApproveState" \in Kinds /\ now' = now
    BY <1>4, RootsAreTold, ConstantsAreNat DEF TypeInv, RootsOf, Validators, Kinds, Approve
  <2>3. CASE Post("ApproveState", State(n), now)
    BY <2>2, <2>3, PostAdds
  <2>4. CASE posts' = posts
    BY <1>1, <2>4 DEF TypeInv
  <2> QED BY <2>1, <2>3, <2>4 DEF FollowerPosts
<1>5. CASE SendFollowersHeartbeat
  <2>1. Beat(now) \in RootsOf("follower") /\ "follower" \in Kinds /\ now' = now
    BY <1>0, <1>5, RootsAreTold DEF RootsOf, Validators, Kinds, SendFollowersHeartbeat
  <2>2. CASE Post("follower", Beat(now), now)
    BY <2>1, <2>2, PostAdds
  <2>3. CASE posts' = posts
    BY <1>1, <2>3 DEF TypeInv
  <2> QED BY <1>5, <2>2, <2>3 DEF FollowerPosts, SendFollowersHeartbeat
<1>6. ASSUME NEW p, Handled(p) PROVE \A q \in posts' : PostOK(q)'
  <2>1. CASE Receive(p)
    <3>1. PICK r : r = [p EXCEPT !.received = now]
      OBVIOUS
    <3>2. PostOK(p)
      BY <1>6 DEF Handled, TypeInv
    <3>3. PostOK(r)
      <4>1. r \in Posts /\ r.received = now /\ r.root = p.root /\ r.kind = p.kind
        BY <1>0, <3>1, <3>2, ConstantsAreNat DEF PostOK, Posts
      <4> QED BY <1>0, <3>2, <4>1 DEF PostOK
    <3>4. posts' = (posts \ {p}) \cup {r}
      BY <2>1, <3>1 DEF Receive
    <3> QED BY <1>1, <3>3, <3>4 DEF TypeInv
  <2>2. CASE Insert(p) \/ FailPost(p)
    <3>1. posts' = posts \ {p}
      BY <2>2 DEF Insert, FailPost
    <3> QED BY <1>1, <3>1 DEF TypeInv
  <2> QED BY <1>6, <2>1, <2>2 DEF Handled
<1>7. CASE posts' = posts
  BY <1>1, <1>7 DEF TypeInv
<1> QED BY <1>2, <1>3, <1>4, <1>5, <1>6, <1>7, WhoChangesWhat

LEMMA NextTypes ==
  ASSUME TypeInv, MsgsInv, [Next]_vars
  PROVE  TypeInv'
<1>1. /\ now' \in 0..MaxTime /\ now \in 0..MaxTime /\ now <= now'
      /\ tick' \in TickTypes /\ prune' \in PruneTypes
  BY TimePasses, NextTickTypes, NextPruneTypes DEF TypeInv
<1>2. exhausted' \in BOOLEAN
  BY WhoChangesWhat DEF TypeInv, Exhaust
<1>3. states' \in 0..MaxStates /\ states <= states'
  <2>1. CASE Propose
    BY <2>1, ConstantsAreNat DEF Propose, TypeInv
  <2> QED BY <2>1, WhoChangesWhat, ConstantsAreNat DEF TypeInv
<1>4. approved' \in 0..states'
  <2>1. CASE Approve
    BY <2>1, ConstantsAreNat DEF Approve, TypeInv
  <2> QED BY <1>3, <2>1, WhoChangesWhat, ConstantsAreNat DEF TypeInv
<1>5. beat' \in 0..now' + HEARTBEAT_TIME + 1
  <2>1. CASE SendFollowersHeartbeat
    BY <1>1, <2>1, ConstantsAreNat DEF SendFollowersHeartbeat, TypeInv
  <2> QED BY <1>1, <2>1, WhoChangesWhat, ConstantsAreNat DEF TypeInv
<1>6. faults' \in [late : Nat, lost : Nat]
  BY WhoChangesWhat DEF TimeOut, LosePost, TypeInv
<1>7. \A p \in posts' : PostOK(p)'
  BY NextPosts
<1> QED BY <1>1, <1>2, <1>3, <1>4, <1>5, <1>6, <1>7 DEF TypeInv, TickTypes, PruneTypes

MessagesInv == TypeInv /\ MsgsInv

THEOREM MessagesInvariant == Spec => []MessagesInv
<1>1. MessagesInv /\ [Next]_vars => MessagesInv'
  BY NextMsgs, NextTypes DEF MessagesInv
<1>2. Init => MessagesInv
  BY InitTypes DEF MessagesInv
<1> QED BY <1>1, <1>2, PTL DEF Spec

\* The clock, the messages, the POSTs, the tick and the script are what they are meant
\* to be, and the messages of each kind are ordered by the time of their receipt.
THEOREM UpkeepTypeCorrect == Spec => []TypeOK
<1>1. ASSUME MessagesInv PROVE TypeOK
  <2>1. msgs \in [Kinds -> Seq([root : Roots, received : 0..now])]
    <3>1. ASSUME NEW kind \in Kinds
          PROVE  msgs[kind] \in Seq([root : Roots, received : 0..now])
      <4> DEFINE Received == [root : Roots, received : 0..now]
      <4>1. msgs[kind] \in Seq(Message)
        BY <1>1 DEF MessagesInv, MsgsInv
      <4>2. ASSUME NEW i \in 1..Len(msgs[kind])
            PROVE  msgs[kind][i] \in Received
        <5>1. msgs[kind][i] \in Message
          BY <4>1
        <5>2. msgs[kind][i].received <= now
          BY <1>1 DEF MessagesInv, MsgsInv
        <5>3. msgs[kind][i].received \in 0..now
          BY <1>1, <5>1, <5>2, ConstantsAreNat DEF Message, MessagesInv, TypeInv
        <5>4. PICK root \in Roots, received \in 0..MaxTime :
                msgs[kind][i] = [root |-> root, received |-> received]
          BY <5>1 DEF Message
        <5>5. received \in 0..now
          BY <5>3, <5>4
        <5> QED BY <5>4, <5>5
      <4> HIDE DEF Received
      <4>3. msgs[kind] \in Seq(Received)
        BY <4>1, <4>2
      <4> QED BY <4>3 DEF Received
    <3>2. msgs = [kind \in Kinds |-> msgs[kind]]
      BY <1>1 DEF MessagesInv, MsgsInv
    <3> QED BY <3>1, <3>2
  <2>2. \A kind \in Kinds : \A i, j \in DOMAIN msgs[kind] :
          i < j => msgs[kind][i].received <= msgs[kind][j].received
    <3>1. ASSUME NEW kind \in Kinds PROVE DOMAIN msgs[kind] = 1..Len(msgs[kind])
      <4>1. msgs[kind] \in Seq(Message)
        BY <1>1 DEF MessagesInv, MsgsInv
      <4> QED BY <4>1
    <3> QED BY <1>1, <3>1 DEF MessagesInv, MsgsInv
  <2>3. ASSUME NEW p \in posts
        PROVE  p \in [kind : Kinds, root : Roots, received : 0..now \cup {Unreceived}]
    <3>1. PostOK(p) /\ now \in Nat
      BY <1>1 DEF MessagesInv, TypeInv
    <3>2. PICK kind \in Kinds, root \in Roots, received \in 0..MaxTime + 1 :
            p = [kind |-> kind, root |-> root, received |-> received]
      BY <3>1 DEF PostOK, Posts
    <3>3. received \in 0..now \cup {Unreceived}
      BY <3>1, <3>2, ConstantsAreNat DEF PostOK
    <3> QED BY <3>2, <3>3
  <2> QED BY <1>1, <2>1, <2>2, <2>3 DEF MessagesInv, TypeInv, TypeOK
<1> QED BY <1>1, MessagesInvariant, PTL

-----------------------------------------------------------------------------
(* What the script has asked for, when it deletes.                          *)

\* The newest heartbeat is kept, or it was not there when the script asked.
SafeNewest(v) ==
  msgs[v] # <<>> =>
    \/ Last(msgs[v]).root \in prune.kept
    \/ UnderWay(v, Last(msgs[v])) \/ prune.asked <= Last(msgs[v]).received

\* What is stored later was under way when the script asked, or is received later.
PruneInv ==
  /\ prune.pc \in Asking =>
       /\ prune.asked <= now
       /\ \A p \in posts : p \in prune.inserting \/ prune.asked <= p.received
       /\ \A v \in Validators : SafeNewest(v)
  /\ prune.pc = "heartbeats" => prune.kept \subseteq Beats
  /\ prune.pc \in {"fetched", "deleting"} =>
       /\ prune.approved \in States \cup {None} /\ prune.approved \in prune.kept
       /\ prune.kept \subseteq Beats \cup {prune.approved}

\* A POST that was not under way before is received now, or later.
LEMMA PostsAreNew ==
  ASSUME TypeInv, [Next]_vars, NEW p \in posts', p \notin posts
  PROVE  p.received = now \/ p.received = Unreceived
<1>1. ASSUME NEW kind, NEW root, NEW received, Post(kind, root, received)
      PROVE  p.received = received
  <2>1. posts' = posts \cup {[kind |-> kind, root |-> root, received |-> received]}
    BY <1>1 DEF Post
  <2> QED BY <2>1
<1>2. CASE Propose \/ SendHeartbeat
  BY <1>1, <1>2 DEF Propose, SendHeartbeat
<1>3. CASE Approve \/ SendFollowersHeartbeat
  BY <1>1, <1>3 DEF Approve, SendFollowersHeartbeat, FollowerPosts
<1>4. ASSUME NEW q, Handled(q) PROVE p.received = now
  <2>1. Receive(q) /\ q \in posts
    BY <1>4 DEF Handled, Insert, FailPost
  <2>2. p = [q EXCEPT !.received = now] /\ PostOK(q)
    BY <2>1 DEF Receive, TypeInv
  <2> QED BY <2>2 DEF PostOK, Posts
<1> QED BY <1>2, <1>3, <1>4, WhoChangesWhat

LEMMA NextPrune ==
  ASSUME MessagesInv, PruneInv, [Next]_vars
  PROVE  PruneInv'
<1>0. TypeInv /\ MsgsInv /\ now \in Nat /\ now' \in Nat /\ now <= now'
  BY TimePasses DEF MessagesInv, TypeInv
<1>1. CASE prune' = prune
  <2>1. ASSUME prune.pc \in Asking
        PROVE  /\ prune.asked <= now'
               /\ \A p \in posts' : p \in prune.inserting \/ prune.asked <= p.received
    <3>1. prune.asked <= now /\ prune.asked \in Nat /\ now \in 0..MaxTime
      BY <1>0, <2>1, ConstantsAreNat DEF PruneInv, TypeInv
    <3>2. ASSUME NEW p \in posts'
          PROVE  p \in prune.inserting \/ prune.asked <= p.received
      <4>1. CASE p \in posts
        BY <2>1, <4>1 DEF PruneInv
      <4>2. CASE p \notin posts
        BY <1>0, <3>1, <4>2, PostsAreNew, ConstantsAreNat DEF Unreceived
      <4> QED BY <4>1, <4>2
    <3> QED BY <1>0, <3>1, <3>2
  <2>2. ASSUME prune.pc \in Asking, NEW v \in Validators PROVE SafeNewest(v)'
    <3>1. SafeNewest(v)
      BY <2>2 DEF PruneInv
    <3>0. v \in Kinds
      BY DEF Kinds
    <3>2. CASE msgs' = msgs
      BY <1>1, <3>1, <3>2 DEF SafeNewest, UnderWay
    <3>3. ASSUME NEW p \in posts, Insert(p) PROVE SafeNewest(v)'
      <4>0. PICK n \in 0..Len(msgs[p.kind]) : Arrives(p.kind, MessageOf(p), n)
        BY <1>0, <3>3, InsertArrives
      <4>1. CASE p.kind # v
        <5>1. msgs'[v] = msgs[v]
          BY <1>0, <3>0, <4>0, <4>1, ArrivalInserts
        <5> QED BY <1>1, <3>1, <5>1 DEF SafeNewest, UnderWay
      <4>2. CASE p.kind = v
        <5> PICK size \in Nat : size = Len(msgs[v])
          BY <1>0 DEF MsgsInv, Kinds
        <5>1. /\ Len(msgs'[v]) = size + 1 /\ n \in 0..size
              /\ msgs'[v][n + 1] = MessageOf(p)
              /\ \A i \in n + 2..size + 1 : msgs'[v][i] = msgs[v][i - 1]
          <6>1. n \in 0..size
            BY <4>0, <4>2 DEF Arrives
          <6> QED BY <1>0, <4>0, <4>2, <6>1, ArrivalInserts DEF Puts
        <5>2. CASE n = size
          <6>1. Last(msgs'[v]) = MessageOf(p)
            BY <5>1, <5>2 DEF Last
          <6>2. p \in prune.inserting \/ prune.asked <= p.received
            BY <2>2 DEF PruneInv
          <6>3. p = [kind |-> v, root |-> p.root, received |-> p.received]
            BY <1>0, <4>2 DEF TypeInv, PostOK, Posts
          <6>4. PICK m : m = MessageOf(p)
            OBVIOUS
          <6>5. m.root = p.root /\ m.received = p.received /\ Last(msgs'[v]) = m
            BY <6>1, <6>4 DEF MessageOf
          <6> QED BY <1>1, <6>2, <6>3, <6>5 DEF SafeNewest, UnderWay
        <5>3. CASE n # size
          <6>1. size + 1 \in n + 2..size + 1 /\ size + 1 - 1 = size
            BY <5>1, <5>3
          <6>2. msgs'[v][size + 1] = msgs[v][size]
            <7>1. PICK k : k = size + 1
              OBVIOUS
            <7>2. k \in n + 2..size + 1 /\ k - 1 = size
              BY <6>1, <7>1
            <7>3. msgs'[v][k] = msgs[v][k - 1]
              BY <5>1, <7>2
            <7> QED BY <7>1, <7>2, <7>3
          <6>3. Last(msgs'[v]) = Last(msgs[v]) /\ msgs[v] # <<>>
            <7>1. size # 0
              BY <5>1, <5>3
            <7> QED BY <5>1, <6>2, <7>1 DEF Last
          <6> QED BY <1>1, <3>1, <6>3 DEF SafeNewest, UnderWay
        <5> QED BY <5>2, <5>3
      <4> QED BY <4>1, <4>2
    <3>4. CASE Delete
      <4>1. prune'.pc = "idle"
        BY <3>4 DEF Delete, Idle
      <4> QED BY <1>1, <2>2, <4>1 DEF Asking
    <3> QED BY <1>0, <3>2, <3>3, <3>4, MsgsSteps
  <2> QED BY <1>1, <2>1, <2>2 DEF PruneInv
<1>2. CASE StartPrune
  <2>1. prune'.pc = "started"
    BY <1>2 DEF StartPrune, Idle
  <2> QED BY <2>1 DEF PruneInv, Asking
<1>3. CASE FetchHeartbeats
  <2>1. /\ prune'.pc = "heartbeats" /\ prune'.asked = now
        /\ prune'.kept = {m.root : m \in LastHeartbeats}
        /\ prune'.inserting = {p \in posts : p.received # Unreceived}
    BY <1>0, <1>3 DEF FetchHeartbeats, TypeInv
  <2>2. now' = now /\ msgs' = msgs /\ posts' = posts
    BY <1>3 DEF FetchHeartbeats
  <2>5. \A p \in posts' : p \in prune'.inserting \/ prune'.asked <= p.received
    <3>1. \A p \in posts : p \in prune'.inserting \/ p.received = Unreceived
      BY <2>1
    <3>2. now \in 0..MaxTime
      BY <1>0 DEF TypeInv
    <3>3. now <= Unreceived
      BY <3>2, ConstantsAreNat DEF Unreceived
    <3> QED BY <2>1, <2>2, <3>1, <3>3
  <2>3. ASSUME NEW v \in Validators
        PROVE  /\ \A m \in Newest(msgs[v], 2) : m.root \in Beats
               /\ SafeNewest(v)'
    <3>1. v \in Kinds /\ msgs[v] \in Seq(Message)
      BY <1>0 DEF Kinds, MsgsInv
    <3>2. msgs[v] # <<>> => Last(msgs[v]) \in Newest(msgs[v], 2)
      BY <3>1, NewestAreElements
    <3>3. Newest(msgs[v], 2) \subseteq ToSet(msgs[v])
      BY <3>1, NewestInSequence
    <3>4. ASSUME NEW m \in ToSet(msgs[v]) PROVE m.root \in Beats
      <4>1. PICK i \in DOMAIN msgs[v] : m = msgs[v][i]
        BY DEF ToSet
      <4>2. i \in 1..Len(msgs[v])
        BY <3>1
      <4> QED BY <1>0, <3>1, <4>1, <4>2 DEF MsgsInv, RootsOf
    <3>5. msgs[v] # <<>> => Last(msgs[v]).root \in prune'.kept
      BY <2>1, <3>2 DEF LastHeartbeats
    <3> QED BY <2>2, <3>3, <3>4, <3>5 DEF SafeNewest
  <2>4. prune'.kept \subseteq Beats
    BY <2>1, <2>3 DEF LastHeartbeats
  <2> QED BY <1>0, <2>1, <2>2, <2>3, <2>4, <2>5 DEF PruneInv
<1>4. CASE FetchApproved
  <2>1. /\ prune'.pc = "fetched" /\ prune'.asked = prune.asked
        /\ prune'.inserting = prune.inserting
        /\ prune'.approved = LastApproved /\ prune'.kept = prune.kept \cup {LastApproved}
    BY <1>0, <1>4 DEF FetchApproved, TypeInv
  <2>2. now' = now /\ msgs' = msgs /\ posts' = posts /\ prune.pc = "heartbeats"
    BY <1>4 DEF FetchApproved
  <2>3. /\ prune.asked <= now /\ prune.kept \subseteq Beats /\ \A v \in Validators : SafeNewest(v)
        /\ \A p \in posts : p \in prune.inserting \/ prune.asked <= p.received
    BY <2>2 DEF PruneInv, Asking
  <2>4. \A v \in Validators : SafeNewest(v)'
    BY <2>1, <2>2, <2>3 DEF SafeNewest, UnderWay
  <2>5. LastApproved \in States \cup {None}
    BY <1>0, LastApprovedType
  <2> QED BY <2>1, <2>2, <2>3, <2>4, <2>5 DEF PruneInv
<1>5. CASE FailToFetch \/ Delete
  <2>1. prune'.pc = "idle"
    BY <1>5 DEF FailToFetch, Delete, Idle
  <2> QED BY <2>1 DEF PruneInv, Asking
<1>6. CASE CompareValidUntil
  <2>1. /\ prune'.pc = "deleting" /\ prune.pc = "fetched" /\ prune'.asked = prune.asked
        /\ prune'.inserting = prune.inserting /\ posts' = posts
        /\ prune'.approved = prune.approved /\ prune'.kept = prune.kept
        /\ now' = now /\ msgs' = msgs
    BY <1>0, <1>6 DEF CompareValidUntil, TypeInv
  <2>2. \A v \in Validators : SafeNewest(v)'
    BY <2>1 DEF PruneInv, SafeNewest, UnderWay, Asking
  <2> QED BY <2>1, <2>2 DEF PruneInv, Asking
<1> QED BY <1>1, <1>2, <1>3, <1>4, <1>5, <1>6, WhoChangesWhat DEF PruneStep

THEOREM PruneInvariant == Spec => []PruneInv
<1>1. Init => PruneInv
  BY DEF Init, Idle, PruneInv, Asking
<1>2. MessagesInv /\ PruneInv /\ [Next]_vars => PruneInv'
  BY NextPrune
<1> QED BY <1>1, <1>2, MessagesInvariant, PTL DEF Spec

\* prune.js takes the newest heartbeat of a validator in a channel that is in use only
\* if its timestamp is not before the heartbeat's receipt, and the heartbeat was not yet
\* stored when last-approved was asked: its insert was slow, or it was received later.
THEOREM PruningSparesTheNewest == Spec => NewestHeartbeatSurvives
<1> DEFINE Spares ==
      Delete /\ ~prune.all =>
        \A v \in Validators : \A m \in Newest(msgs[v], 1) :
          \/ m \in ToSet(msgs'[v])
          \/ m.received <= prune.since /\ (UnderWay(v, m) \/ prune.asked <= m.received)
<1>1. ASSUME MessagesInv, PruneInv PROVE Spares
  <2> SUFFICES ASSUME Delete, ~prune.all, NEW v \in Validators, NEW m \in Newest(msgs[v], 1),
                      ~(m.received <= prune.since /\ (UnderWay(v, m) \/ prune.asked <= m.received))
               PROVE  m \in ToSet(msgs'[v])
    OBVIOUS
  <2> DEFINE gone == {n \in ToSet(msgs[v]) : Obsolete(v, n)}
  <2>1. v \in Kinds /\ msgs[v] \in Seq(Message)
    BY <1>1 DEF Kinds, MsgsInv, MessagesInv
  <2>2. msgs[v] # <<>> /\ m = Last(msgs[v])
    BY <2>1, NewestAreElements
  <2>3. SafeNewest(v)
    BY <1>1 DEF PruneInv, Delete, Asking
  <2>4. ~Obsolete(v, m)
    BY <2>2, <2>3 DEF Obsolete, SafeNewest
  <2>5. msgs'[v] = Without(msgs[v], gone) /\ msgs'[v] \in Seq(Message)
    BY <1>1, <2>1, DeleteLeaves DEF MessagesInv
  <2>6. m \notin gone
    BY <2>4
  <2> HIDE DEF gone
  <2>7. msgs'[v] # <<>> /\ Last(msgs'[v]) = m
    BY <2>1, <2>2, <2>5, <2>6, LastStays
  <2>8. Len(msgs'[v]) \in DOMAIN msgs'[v]
    BY <2>5, <2>7
  <2> QED BY <2>7, <2>8 DEF ToSet, Last
<1>2. MessagesInv /\ PruneInv /\ [Next]_vars => [Spares]_vars
  BY <1>1
<1> HIDE DEF Spares
<1>3. Spec => [][Spares]_vars
  BY <1>2, MessagesInvariant, PruneInvariant, PTL DEF Spec
<1> QED BY <1>3 DEF NewestHeartbeatSurvives, Spares

LEMMA ApprovalSurvives ==
  ASSUME MessagesInv, PruneInv, Delete, LastApproved = prune.approved
  PROVE  LastApproved' = LastApproved
<1>0. /\ MsgsInv
      /\ prune.approved \in prune.kept /\ prune.kept \subseteq Beats \cup {prune.approved}
  BY DEF MessagesInv, PruneInv, Delete
<1> DEFINE gone(kind) == {m \in ToSet(msgs[kind]) : Obsolete(kind, m)}
<1>1. ASSUME NEW kind \in {"NewState", "ApproveState"}
      PROVE  /\ kind \in Kinds /\ kind \notin Validators /\ msgs[kind] \in Seq(Message)
             /\ msgs'[kind] = Without(msgs[kind], gone(kind)) /\ msgs'[kind] \in Seq(Message)
             /\ \E e : Keeps(msgs'[kind], e, msgs[kind], gone(kind), Len(msgs[kind]))
             /\ \A i \in 1..Len(msgs[kind]) :
                  msgs[kind][i] \in ToSet(msgs[kind]) /\ msgs[kind][i].root \in States
  <2>1. kind \in Kinds /\ kind \notin Validators
    BY DEF Kinds, Validators
  <2>2. msgs[kind] \in Seq(Message)
    BY <1>0, <2>1 DEF MsgsInv
  <2>3. \A i \in 1..Len(msgs[kind]) :
          msgs[kind][i] \in ToSet(msgs[kind]) /\ msgs[kind][i].root \in States
    BY <1>0, <2>1, <2>2 DEF MsgsInv, RootsOf, ToSet
  <2> QED BY <1>0, <2>1, <2>2, <2>3, DeleteLeaves
<1>2. CASE ~prune.all
  <2>1. ASSUME NEW kind \in {"NewState", "ApproveState"} PROVE msgs'[kind] = msgs[kind]
    <3>1. \A i \in 1..Len(msgs[kind]) : msgs[kind][i] \notin gone(kind)
      BY <1>1, <1>2 DEF Obsolete
    <3>2. msgs[kind] \in Seq(Message) /\ msgs'[kind] = Without(msgs[kind], gone(kind))
      BY <1>1
    <3> HIDE DEF gone
    <3> QED BY <3>1, <3>2, AllStay
  <2>2. msgs'["NewState"] = msgs["NewState"] /\ msgs'["ApproveState"] = msgs["ApproveState"]
    BY <2>1
  <2> QED BY <2>2 DEF LastApproved, NewestRoot, HasNewState
<1>3. CASE prune.all /\ LastApproved = None
  <2>1. PICK e : Keeps(msgs'["ApproveState"], e, msgs["ApproveState"], gone("ApproveState"),
                       Len(msgs["ApproveState"]))
    BY <1>1
  <2>2. ASSUME NEW i \in 1..Len(msgs'["ApproveState"]) PROVE FALSE
    <3>1. /\ e[i] \in 1..Len(msgs["ApproveState"])
          /\ msgs["ApproveState"][e[i]] \notin gone("ApproveState")
      BY <2>1 DEF Keeps
    <3>2. /\ msgs["ApproveState"][e[i]] \in ToSet(msgs["ApproveState"])
          /\ msgs["ApproveState"][e[i]].root \in States
      BY <1>1, <3>1
    <3>3. msgs["ApproveState"][e[i]].root \notin prune.kept
      BY <1>0, <1>3, <3>2, RootsAreTold
    <3> QED BY <1>3, <3>1, <3>2, <3>3 DEF Obsolete
  <2>3. msgs'["ApproveState"] = <<>>
    BY <1>1, <2>2
  <2>4. LastApproved' = None
    BY <2>3 DEF LastApproved, NewestRoot
  <2> QED BY <1>3, <2>4
<1>4. CASE prune.all /\ LastApproved # None
  <2>1. /\ NewestRoot("ApproveState") = LastApproved /\ HasNewState(LastApproved)
        /\ LastApproved \in prune.kept
    BY <1>0, <1>4 DEF LastApproved
  <2>2. msgs["ApproveState"] # <<>> /\ Last(msgs["ApproveState"]).root = LastApproved
    BY <1>4, <2>1 DEF NewestRoot
  <2>3. Last(msgs["ApproveState"]) \notin gone("ApproveState")
    BY <2>1, <2>2 DEF Obsolete
  <2>4. msgs'["ApproveState"] # <<>> /\ Last(msgs'["ApproveState"]) = Last(msgs["ApproveState"])
    <3>1. msgs["ApproveState"] \in Seq(Message)
          /\ msgs'["ApproveState"] = Without(msgs["ApproveState"], gone("ApproveState"))
      BY <1>1
    <3> HIDE DEF gone
    <3> QED BY <2>2, <2>3, <3>1, LastStays
  <2>5. NewestRoot("ApproveState")' = LastApproved
    BY <2>2, <2>4 DEF NewestRoot
  <2>6. \E m \in ToSet(msgs'["NewState"]) : m.root = LastApproved
    <3>1. PICK m \in ToSet(msgs["NewState"]) : m.root = LastApproved
      BY <2>1 DEF HasNewState
    <3>2. PICK i \in 1..Len(msgs["NewState"]) : m = msgs["NewState"][i]
      BY <1>1 DEF ToSet
    <3>3. m \notin gone("NewState")
      BY <2>1, <3>1 DEF Obsolete
    <3>4. PICK e : Keeps(msgs'["NewState"], e, msgs["NewState"], gone("NewState"),
                         Len(msgs["NewState"]))
      BY <1>1
    <3> HIDE DEF gone
    <3>5. PICK j \in 1..Len(msgs'["NewState"]) : msgs'["NewState"][j] = m
      BY <3>2, <3>3, <3>4 DEF Keeps
    <3>6. j \in DOMAIN msgs'["NewState"]
      BY <1>1
    <3> QED BY <3>1, <3>5, <3>6 DEF ToSet
  <2>7. HasNewState(NewestRoot("ApproveState"))'
    BY <2>5, <2>6 DEF HasNewState
  <2> QED BY <2>5, <2>7 DEF LastApproved
<1> QED BY <1>2, <1>3, <1>4

\* What last-approved serves outlives the script, although that deletes all other
\* messages of an expired channel, unless another state was approved after it asked.
THEOREM PruningSparesTheApproved == Spec => ApprovedSurvivesPruning
<1> DEFINE Spares == Delete /\ LastApproved = prune.approved => LastApproved' = LastApproved
<1>1. MessagesInv /\ PruneInv /\ [Next]_vars => [Spares]_vars
  BY ApprovalSurvives
<1> HIDE DEF Spares
<1>2. Spec => [][Spares]_vars
  BY <1>1, MessagesInvariant, PruneInvariant, PTL DEF Spec
<1> QED BY <1>2 DEF ApprovedSurvivesPruning, Spares

-----------------------------------------------------------------------------
(* The leader's heartbeats.                                                 *)

Mine == msgs["leader"]
BeatOf(i) == msgs["leader"][i].root[2]

\* While no POST is late: the one heartbeat under way is awaited, is later than all
\* that are stored by more than HEARTBEAT_TIME, and is received after them; and while a tick decides
\* whether to send one, none is stored that is newer than the one it has read.
ApartInv ==
  faults.late = 0 =>
    /\ \A i, j \in 1..Len(Mine) : i < j => BeatOf(j) > BeatOf(i) + HEARTBEAT_TIME
    /\ \A p \in posts : p.kind = "leader" =>
         /\ tick.pc = "waiting"
         /\ \A i \in 1..Len(Mine) :
              p.root[2] > BeatOf(i) + HEARTBEAT_TIME /\ Mine[i].received <= p.received
    /\ \A p, q \in posts : p.kind = "leader" /\ q.kind = "leader" => p = q
    /\ tick.pc = "deciding" =>
         /\ tick.latest = None => Mine = <<>>
         /\ \A i \in 1..Len(Mine) : BeatOf(i) <= tick.latest[2]

LEMMA MineType ==
  ASSUME MessagesInv
  PROVE  /\ Mine \in Seq(Message) /\ Len(Mine) \in Nat
         /\ \A i \in 1..Len(Mine) :
              /\ Mine[i].root \in Beats /\ BeatOf(i) \in Nat
              /\ Mine[i].received \in Nat /\ Mine[i].received <= now
<1>1. "leader" \in Kinds /\ RootsOf("leader") = Beats
  BY DEF Kinds, Validators, RootsOf
<1>2. /\ Mine \in Seq(Message)
      /\ \A i \in 1..Len(Mine) : Mine[i].root \in Beats /\ Mine[i].received <= now
  BY <1>1 DEF MessagesInv, MsgsInv, Mine
<1>3. \A i \in 1..Len(Mine) : Mine[i] \in Message
  BY <1>2
<1>4. \A i \in 1..Len(Mine) : Mine[i].received \in Nat
  BY <1>3, ConstantsAreNat DEF Message
<1> QED BY <1>2, <1>4, RootsAreTold DEF BeatOf, Mine

Unposted == \A p \in posts : p.kind # "leader"

\* Nothing of the leader's heartbeats is touched, or a tick ends or starts.
LEMMA QuietStep ==
  ASSUME ApartInv, faults.late = 0, Mine' = Mine,
         \A p \in posts' : p.kind = "leader" => p \in posts,
         tick' = tick \/ (tick'.pc # "deciding" /\ Unposted)
  PROVE  ApartInv'
<1>1. \A i : BeatOf(i)' = BeatOf(i)
  BY DEF Mine, BeatOf
<1>2. \A i, j \in 1..Len(Mine)' : i < j => BeatOf(j)' > BeatOf(i)' + HEARTBEAT_TIME
  BY <1>1 DEF ApartInv
<1>3. \A p, q \in posts' : p.kind = "leader" /\ q.kind = "leader" => p = q
  BY DEF ApartInv
<1>4. CASE tick' = tick
  BY <1>1, <1>2, <1>3, <1>4 DEF ApartInv
<1>5. CASE tick'.pc # "deciding" /\ Unposted
  <2>1. \A p \in posts' : p.kind # "leader"
    BY <1>5 DEF Unposted
  <2> QED BY <1>2, <1>5, <2>1 DEF ApartInv
<1> QED BY <1>4, <1>5

\* The heartbeat under way is received after all that are stored, and so is stored
\* after them.
LEMMA HeartbeatReceived ==
  ASSUME MessagesInv, ApartInv, faults.late = 0, NEW p \in posts, Receive(p)
  PROVE  ApartInv'
<1>1. PICK r : r = [p EXCEPT !.received = now]
  OBVIOUS
<1>2. posts' = (posts \ {p}) \cup {r} /\ tick' = tick /\ Mine' = Mine
  BY <1>1 DEF Receive, Mine
<1>3. r.kind = p.kind /\ r.root = p.root /\ r.received = now
  BY <1>1 DEF MessagesInv, TypeInv, PostOK, Posts
<1>4. \A i : BeatOf(i)' = BeatOf(i)
  BY <1>2 DEF BeatOf, Mine
<1>5. \A i, j \in 1..Len(Mine)' : i < j => BeatOf(j)' > BeatOf(i)' + HEARTBEAT_TIME
  BY <1>2, <1>4 DEF ApartInv
<1>6. ASSUME NEW q \in posts', q.kind = "leader"
      PROVE  /\ tick'.pc = "waiting"
             /\ \A i \in 1..Len(Mine) :
                  q.root[2] > BeatOf(i) + HEARTBEAT_TIME /\ Mine[i].received <= q.received
  <2>1. CASE q \in posts
    BY <1>2, <1>6, <2>1 DEF ApartInv
  <2>2. CASE q = r
    <3>1. p.kind = "leader"
      BY <1>3, <1>6, <2>2
    <3> QED BY <1>2, <1>3, <2>2, <3>1, MineType DEF ApartInv
  <2> QED BY <1>2, <2>1, <2>2
<1>7. \A q, u \in posts' : q.kind = "leader" /\ u.kind = "leader" => q = u
  BY <1>2, <1>3 DEF ApartInv
<1>8. tick'.pc = "deciding" =>
        /\ tick'.latest = None => Mine = <<>>
        /\ \A i \in 1..Len(Mine) : BeatOf(i) <= tick'.latest[2]
  BY <1>2 DEF ApartInv
<1> QED BY <1>2, <1>4, <1>5, <1>6, <1>7, <1>8 DEF ApartInv

LEMMA HeartbeatArrives ==
  ASSUME MessagesInv, ApartInv, faults.late = 0, NEW p \in posts, Insert(p), p.kind = "leader"
  PROVE  ApartInv'
<1> PICK n \in Nat : n = Len(Mine)
  BY MineType
<1>1. PICK k \in 0..n : Arrives("leader", MessageOf(p), k)
  BY InsertArrives DEF MessagesInv, Mine
<1>0. k = n
  <2> SUFFICES ASSUME k # n PROVE FALSE
    OBVIOUS
  <2>1. n \in k + 1..n /\ n \in 1..n
    OBVIOUS
  <2>2. MessageOf(p).received = p.received
    BY DEF MessageOf
  <2>3. Mine[n].received > p.received
    BY <1>1, <2>1, <2>2 DEF Arrives, Behind, Mine
  <2>4. Mine[n].received <= p.received /\ Mine[n].received \in Nat
    BY <2>1, MineType DEF ApartInv
  <2>5. p.received \in Nat
    BY ConstantsAreNat DEF MessagesInv, TypeInv, PostOK, Posts
  <2> QED BY <2>3, <2>4, <2>5
<1>2. /\ Len(Mine') = n + 1 /\ Mine'[n + 1] = MessageOf(p)
      /\ \A i \in 1..n : Mine'[i] = Mine[i]
  BY <1>0, <1>1, ArrivalInserts DEF MessagesInv, Mine, Puts
<1>3. BeatOf(n + 1)' = p.root[2] /\ \A i \in 1..n : BeatOf(i)' = BeatOf(i)
  <2>1. Mine'[n + 1].root = p.root
    BY <1>2 DEF MessageOf
  <2> QED BY <1>2, <2>1 DEF BeatOf, Mine
<1>4. /\ \A i, j \in 1..n : i < j => BeatOf(j) > BeatOf(i) + HEARTBEAT_TIME
      /\ \A i \in 1..n : p.root[2] > BeatOf(i) + HEARTBEAT_TIME
      /\ tick.pc = "waiting"
  BY DEF ApartInv
<1>5. \A i, j \in 1..n + 1 : i < j => BeatOf(j)' > BeatOf(i)' + HEARTBEAT_TIME
  <2> SUFFICES ASSUME NEW i \in 1..n + 1, NEW j \in 1..n + 1, i < j
               PROVE  BeatOf(j)' > BeatOf(i)' + HEARTBEAT_TIME
    OBVIOUS
  <2>1. i \in 1..n /\ BeatOf(i)' = BeatOf(i)
    BY <1>3
  <2>2. CASE j \in 1..n
    <3>1. BeatOf(j)' = BeatOf(j)
      BY <1>3, <2>2
    <3> QED BY <1>4, <2>1, <2>2, <3>1
  <2>3. CASE j = n + 1
    <3>1. BeatOf(j)' = p.root[2]
      BY <1>3, <2>3
    <3> QED BY <1>4, <2>1, <3>1
  <2> QED BY <2>2, <2>3
<1>6. posts' = posts \ {p} /\ tick' = tick
  BY DEF Insert
<1>7. \A q \in posts' : q.kind # "leader"
  BY <1>6 DEF ApartInv
<1> QED BY <1>2, <1>4, <1>5, <1>6, <1>7 DEF ApartInv

LEMMA HeartbeatsDeleted ==
  ASSUME MessagesInv, ApartInv, faults.late = 0, Delete
  PROVE  ApartInv'
<1>1. posts' = posts /\ tick' = tick /\ faults' = faults
  BY DEF Delete
<1>2. PICK gone, e : Keeps(Mine', e, Mine, gone, Len(Mine))
  BY DeleteLeaves DEF MessagesInv, Mine, Kinds, Validators
<1>3. ASSUME NEW i \in 1..Len(Mine')
      PROVE  e[i] \in 1..Len(Mine) /\ BeatOf(i)' = BeatOf(e[i])
  BY <1>2 DEF Keeps, BeatOf, Mine
<1>4. \A i, j \in 1..Len(Mine') : i < j => e[i] < e[j]
  BY <1>2 DEF Keeps
<1>5. Mine = <<>> => Mine' = <<>>
  <2>1. Mine' \in Seq(Message)
    BY DeleteLeaves DEF MessagesInv, Mine, Kinds, Validators
  <2>2. Mine = <<>> => Len(Mine) = 0
    OBVIOUS
  <2>3. Len(Mine') # 0 => 1 \in 1..Len(Mine')
    BY <2>1
  <2> QED BY <1>3, <2>1, <2>2, <2>3
<1>6. \A i, j \in 1..Len(Mine') : i < j => BeatOf(j)' > BeatOf(i)' + HEARTBEAT_TIME
  BY <1>3, <1>4 DEF ApartInv
<1>7. ASSUME NEW p \in posts', p.kind = "leader"
      PROVE  /\ tick'.pc = "waiting"
             /\ \A i \in 1..Len(Mine') :
                  p.root[2] > BeatOf(i)' + HEARTBEAT_TIME /\ Mine'[i].received <= p.received
  <2>1. \A i \in 1..Len(Mine') : Mine'[i] = Mine[e[i]]
    BY <1>2 DEF Keeps
  <2> QED BY <1>1, <1>3, <1>7, <2>1 DEF ApartInv
<1>8. ASSUME tick'.pc = "deciding"
      PROVE  /\ tick'.latest = None => Mine' = <<>>
             /\ \A i \in 1..Len(Mine') : BeatOf(i)' <= tick'.latest[2]
  BY <1>1, <1>3, <1>5, <1>8 DEF ApartInv
<1>9. \A p, q \in posts' : p.kind = "leader" /\ q.kind = "leader" => p = q
  BY <1>1 DEF ApartInv
<1> QED BY <1>6, <1>7, <1>8, <1>9 DEF ApartInv

LEMMA NextApart ==
  ASSUME MessagesInv, ApartInv, [Next]_vars
  PROVE  ApartInv'
<1> SUFFICES ASSUME faults'.late = 0 PROVE ApartInv'
  BY DEF ApartInv
<1>0. TypeInv /\ MsgsInv
  BY DEF MessagesInv
<1>1. faults.late = 0 /\ ~TimeOut
  <2>1. faults \in [late : Nat, lost : Nat]
    BY <1>0 DEF TypeInv
  <2> QED BY <2>1, WhoChangesWhat DEF TimeOut, LosePost
<1>2. CASE AskHeartbeat
  <2>1. /\ tick'.pc = "deciding" /\ tick'.latest = NewestRoot("leader") /\ tick.pc = "working"
        /\ Mine' = Mine /\ posts' = posts
        /\ \A i : BeatOf(i)' = BeatOf(i)
    BY <1>0, <1>2 DEF AskHeartbeat, TypeInv, Mine, BeatOf
  <2>2. NewestRoot("leader") = None => Mine = <<>>
    BY <1>0, NewestRootType DEF Kinds, Validators, Mine
  <2>3. ASSUME NEW i \in 1..Len(Mine) PROVE BeatOf(i) <= NewestRoot("leader")[2]
    <3>1. Len(Mine) \in 1..Len(Mine) /\ Mine # <<>>
      BY MineType
    <3>2. NewestRoot("leader")[2] = BeatOf(Len(Mine))
      BY <1>0, <3>1, NewestRootType DEF Kinds, Validators, Mine, BeatOf
    <3>3. BeatOf(i) \in Nat /\ BeatOf(Len(Mine)) \in Nat
      BY <3>1, MineType
    <3>4. i < Len(Mine) => BeatOf(Len(Mine)) > BeatOf(i) + HEARTBEAT_TIME
      BY <1>1, <3>1 DEF ApartInv
    <3> QED BY <3>1, <3>2, <3>3, <3>4, MineType, ConstantsAreNat
  <2> QED BY <1>1, <2>1, <2>2, <2>3 DEF ApartInv
<1>3. CASE SendHeartbeat
  <2>1. /\ tick'.pc = "waiting" /\ tick.pc = "deciding" /\ ShouldSend
        /\ posts' = posts \cup {[kind |-> "leader", root |-> Beat(now), received |-> Unreceived]}
        /\ Mine' = Mine
        /\ \A i : BeatOf(i)' = BeatOf(i)
    BY <1>0, <1>3 DEF SendHeartbeat, Post, Off, Mine, BeatOf
  <2>2. \A p \in posts : p.kind # "leader"
    BY <1>1, <2>1 DEF ApartInv
  <2>3. Beat(now)[2] = now /\ now \in Nat
    BY <1>0, RootsAreTold DEF TypeInv
  <2>4. ASSUME NEW i \in 1..Len(Mine) PROVE now > BeatOf(i) + HEARTBEAT_TIME
    <3>1. BeatOf(i) <= tick.latest[2] /\ tick.latest # None /\ BeatOf(i) \in Nat
      BY <1>1, <2>1, MineType DEF ApartInv
    <3>2. now > tick.latest[2] + HEARTBEAT_TIME
      BY <2>1, <3>1 DEF ShouldSend
    <3>3. tick.latest[2] \in Nat
      BY <1>0, <3>1, RootsAreTold DEF TypeInv, States, State
    <3> QED BY <2>3, <3>1, <3>2, <3>3, ConstantsAreNat
  <2>5. \A i \in 1..Len(Mine) : Mine[i].received <= Unreceived
    <3>1. now \in 0..MaxTime
      BY <1>0 DEF TypeInv
    <3> QED BY <3>1, MineType, ConstantsAreNat DEF Unreceived
  <2>6. PICK b : b = [kind |-> "leader", root |-> Beat(now), received |-> Unreceived]
    OBVIOUS
  <2>7. b.root[2] = now /\ b.received = Unreceived /\ posts' = posts \cup {b}
    BY <2>1, <2>3, <2>6
  <2>8. \A p \in posts' : p.kind = "leader" => p = b
    BY <2>2, <2>7
  <2> QED BY <1>1, <2>1, <2>4, <2>5, <2>7, <2>8 DEF ApartInv
<1>4. CASE SkipHeartbeat \/ EndTick \/ StartTick
  <2>1. Mine' = Mine /\ posts' = posts /\ tick'.pc # "deciding"
    <3>1. Mine' = Mine /\ posts' = posts
      BY <1>4 DEF SkipHeartbeat, EndTick, StartTick, Mine
    <3>2. CASE StartTick
      <4>1. tick'.pc = "working"
        BY <3>2 DEF StartTick, Off
      <4> QED BY <3>1, <4>1
    <3>3. CASE tick' = Off
      <4>1. tick'.pc = "off"
        BY <3>3 DEF Off
      <4> QED BY <3>1, <4>1
    <3> QED BY <1>4, <3>2, <3>3 DEF SkipHeartbeat, EndTick
  <2>2. Unposted
    BY <1>1, <1>4 DEF ApartInv, SkipHeartbeat, EndTick, StartTick, Unposted, Unanswered
  <2> QED BY <1>1, <2>1, <2>2, QuietStep
<1>5. CASE Propose
  <2>1. posts' = posts \cup
          {[kind |-> "NewState", root |-> State(states + 1), received |-> Unreceived]}
    BY <1>5 DEF Propose, Post
  <2>2. Mine' = Mine /\ tick' = tick
    BY <1>5 DEF Propose, Mine
  <2> QED BY <1>1, <2>1, <2>2, QuietStep
<1>6. CASE Approve \/ SendFollowersHeartbeat
  <2>1. Mine' = Mine /\ tick' = tick
    BY <1>6 DEF Approve, SendFollowersHeartbeat, Mine
  <2>2. PICK kind \in {"ApproveState", "follower"} : \E root : FollowerPosts(kind, root)
    BY <1>6 DEF Approve, SendFollowersHeartbeat
  <2>3. ASSUME NEW p \in posts', p.kind = "leader" PROVE p \in posts
    BY <2>2, <2>3 DEF FollowerPosts, Post
  <2> QED BY <1>1, <2>1, <2>3, QuietStep
<1>7. ASSUME NEW p \in posts, Receive(p) PROVE ApartInv'
  BY <1>1, <1>7, HeartbeatReceived
<1>8. ASSUME NEW p \in posts, Insert(p) PROVE ApartInv'
  <2>1. CASE p.kind = "leader"
    BY <1>1, <1>8, <2>1, HeartbeatArrives
  <2>2. CASE p.kind # "leader"
    <3>1. posts' = posts \ {p} /\ tick' = tick
      BY <1>8 DEF Insert
    <3>2. Mine' = Mine
      BY <1>0, <1>8, <2>2 DEF Insert, MsgsInv, Mine
    <3> QED BY <1>1, <3>1, <3>2, QuietStep
  <2> QED BY <2>1, <2>2
<1>9. ASSUME NEW p \in posts, FailPost(p) PROVE ApartInv'
  <2>1. posts' = posts \ {p} /\ tick' = tick /\ Mine' = Mine
    BY <1>9 DEF FailPost, Mine
  <2> QED BY <1>1, <2>1, QuietStep
<1>10. CASE Exhaust \/ PassTime
  <2>1. posts' = posts /\ tick' = tick /\ Mine' = Mine
    BY <1>10 DEF Exhaust, PassTime, Mine
  <2> QED BY <1>1, <2>1, QuietStep
<1>11. CASE StartPrune \/ FetchHeartbeats \/ FetchApproved \/ FailToFetch \/ CompareValidUntil
  <2>1. posts' = posts /\ tick' = tick /\ Mine' = Mine
    BY <1>11 DEF StartPrune, FetchHeartbeats, FetchApproved, FailToFetch, CompareValidUntil, Mine
  <2> QED BY <1>1, <2>1, QuietStep
<1>12. CASE Delete
  BY <1>1, <1>12, HeartbeatsDeleted
<1>13. CASE UNCHANGED vars
  <2>1. posts' = posts /\ tick' = tick /\ Mine' = Mine
    BY <1>13 DEF vars, Mine
  <2> QED BY <1>1, <2>1, QuietStep
<1> QED BY <1>1, <1>2, <1>3, <1>4, <1>5, <1>6, <1>7, <1>8, <1>9, <1>10, <1>11, <1>12, <1>13
        DEF Next, HeartbeatStep

\* heartbeat() reads the newest heartbeat before it sends one: while no POST outlives
\* its tick, the leader's are more than HEARTBEAT_TIME apart, whatever is pruned or lost.
THEOREM LeaderBeatsApart == Spec => []HeartbeatsApart
<1>1. Init => ApartInv
  <2>1. ASSUME Init PROVE ApartInv
    <3>1. posts = {} /\ tick.pc = "off" /\ Len(Mine) = 0
      BY <2>1 DEF Init, Off, Mine, Kinds, Validators
    <3> QED BY <3>1 DEF ApartInv
  <2> QED BY <2>1
<1>2. MessagesInv /\ ApartInv /\ [Next]_vars => ApartInv'
  BY NextApart
<1>3. ASSUME MessagesInv, ApartInv PROVE HeartbeatsApart
  <2>1. DOMAIN Mine = 1..Len(Mine)
    BY <1>3, MineType
  <2> QED BY <1>3, <2>1 DEF ApartInv, HeartbeatsApart, Mine, BeatOf
<1> QED BY <1>1, <1>2, <1>3, MessagesInvariant, PTL DEF Spec
=============================================================================
