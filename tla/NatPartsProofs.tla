---------------------------- MODULE NatPartsProofs ---------------------------
(***************************************************************************)
(* Proofs about the NAT modules, for any nodes, calls, endpoints, lists    *)
(* and bounds: hole punching, the state machine and its metrics, the list  *)
(* of providers, NAT-PMP and PCP, and the detection of IPv6 and of the NAT *)
(* type.  Each part has an inductive invariant; the last theorem puts them *)
(* together to NatSafe of MCNet.                                           *)
(***************************************************************************)
EXTENDS MCNet, FiniteSetTheorems, SequenceTheorems, WellFoundedInduction, TLAPS

-----------------------------------------------------------------------------
(* Orders on finite sets, and lists put in order *)

\* The place of each element in a finite ordered set.
RankIn(S, R) == [x \in S |-> Cardinality({y \in S : y = x \/ <<y, x>> \in R})]

\* A finite set with a strict total order can be enumerated in its order.
LEMMA Enumerated ==
  ASSUME NEW S, IsFiniteSet(S), NEW R \in SUBSET (S \X S),
         \A x \in S : <<x, x>> \notin R,
         \A x, y, z \in S : <<x, y>> \in R /\ <<y, z>> \in R => <<x, z>> \in R,
         \A x, y \in S : x = y \/ <<x, y>> \in R \/ <<y, x>> \in R
  PROVE  /\ RankIn(S, R) \in [S -> 1..Cardinality(S)]
         /\ \A x, y \in S : <<x, y>> \in R <=> RankIn(S, R)[x] < RankIn(S, R)[y]
         /\ \A k \in 1..Cardinality(S) : \E x \in S : RankIn(S, R)[x] = k
<1> DEFINE Below(x) == {y \in S : y = x \/ <<y, x>> \in R}
           rank == RankIn(S, R)
<1>0. Cardinality(S) \in Nat
  BY FS_CardinalityType
<1>1. ASSUME NEW x \in S
      PROVE  IsFiniteSet(Below(x)) /\ Cardinality(Below(x)) \in 1..Cardinality(S)
  <2>1. Below(x) \subseteq S /\ x \in Below(x)
    OBVIOUS
  <2> HIDE DEF Below
  <2>2. IsFiniteSet(Below(x)) /\ Cardinality(Below(x)) <= Cardinality(S)
    BY <2>1, FS_Subset
  <2>3. Cardinality(Below(x)) \in Nat /\ Cardinality(Below(x)) # 0
    BY <2>1, <2>2, FS_CardinalityType, FS_EmptySet
  <2> QED  BY <1>0, <2>2, <2>3
<1>2. ASSUME NEW x \in S, NEW y \in S, <<x, y>> \in R
      PROVE  Cardinality(Below(x)) < Cardinality(Below(y))
  <2>1. Below(x) \subseteq Below(y)
    BY <1>2
  <2>2. y \in Below(y) /\ y \notin Below(x)
    BY <1>2
  <2> HIDE DEF Below
  <2>3. Cardinality(Below(x)) <= Cardinality(Below(y)) /\ Cardinality(Below(x)) # Cardinality(Below(y))
    BY <1>1, <2>1, <2>2, FS_Subset
  <2> QED  BY <1>1, <2>3
<1>3. \A x \in S : rank[x] = Cardinality(Below(x))
  BY DEF RankIn
<1>4. rank \in [S -> 1..Cardinality(S)]
  <2>1. rank = [x \in S |-> Cardinality(Below(x))]
    BY DEF RankIn
  <2> HIDE DEF rank, Below
  <2> QED  BY <1>1, <2>1
<1> HIDE DEF Below, rank
<1>5. \A x, y \in S : <<x, y>> \in R => rank[x] < rank[y]
  BY <1>2, <1>3
<1>6. \A x, y \in S : rank[x] < rank[y] => <<x, y>> \in R
  <2>1. \A x, y \in S : rank[x] \in Nat /\ rank[y] \in Nat
    BY <1>0, <1>4
  <2>2. \A x, y \in S : rank[x] < rank[y] => x # y /\ ~ rank[y] < rank[x]
    BY <2>1
  <2> QED  BY <1>5, <2>2
<1>7. rank \in Injection(S, 1..Cardinality(S))
  <2>1. \A x, y \in S : rank[x] = rank[y] => x = y
    <3> SUFFICES ASSUME NEW x \in S, NEW y \in S, rank[x] = rank[y], x # y PROVE FALSE
      OBVIOUS
    <3>1. rank[x] \in Nat /\ rank[y] \in Nat
      BY <1>0, <1>4
    <3>2. ~ rank[x] < rank[y] /\ ~ rank[y] < rank[x]
      BY <3>1
    <3>3. <<x, y>> \in R \/ <<y, x>> \in R
      OBVIOUS
    <3> QED  BY <1>5, <3>2, <3>3
  <2> QED  BY <1>4, <2>1 DEF Injection, IsInjective
<1>8. IsFiniteSet(1..Cardinality(S)) /\ Cardinality(1..Cardinality(S)) = Cardinality(S)
  BY <1>0, FS_Interval
<1>9. rank \in Surjection(S, 1..Cardinality(S))
  BY <1>7, <1>8, FS_Injection
<1>10. \A k \in 1..Cardinality(S) : \E x \in S : rank[x] = k
  BY <1>9 DEF Surjection
<1> QED  BY <1>4, <1>5, <1>6, <1>10 DEF rank

\* Any list of numbers has a stable ranking.
LEMMA Sortable ==
  ASSUME NEW n \in Nat, NEW v \in [1..n -> Int]
  PROVE  \E p \in Injection(1..n, 1..n) : \A k, l \in 1..n : k < l =>
           v[p[k]] < v[p[l]] \/ (v[p[k]] = v[p[l]] /\ p[k] < p[l])
<1> DEFINE S == 1..n
           R == {r \in S \X S : v[r[1]] < v[r[2]] \/ (v[r[1]] = v[r[2]] /\ r[1] < r[2])}
           rank == RankIn(S, R)
           p == [k \in S |-> CHOOSE i \in S : rank[i] = k]
<1>1. IsFiniteSet(S) /\ Cardinality(S) = n
  BY FS_Interval
<1>2. \A i, j \in S : <<i, j>> \in R <=> (v[i] < v[j] \/ (v[i] = v[j] /\ i < j))
  OBVIOUS
<1>3. R \in SUBSET (S \X S)
  OBVIOUS
<1> HIDE DEF R
<1>4. \A i \in S : i \in Nat /\ v[i] \in Int
  OBVIOUS
<1>5. \A i \in S : <<i, i>> \notin R
  BY <1>2, <1>4
<1>6. \A i, j, m \in S : <<i, j>> \in R /\ <<j, m>> \in R => <<i, m>> \in R
  <2> SUFFICES ASSUME NEW i \in S, NEW j \in S, NEW m \in S, <<i, j>> \in R, <<j, m>> \in R
               PROVE  <<i, m>> \in R
    OBVIOUS
  <2>1. (v[i] < v[j] \/ (v[i] = v[j] /\ i < j)) /\ (v[j] < v[m] \/ (v[j] = v[m] /\ j < m))
    BY <1>2
  <2>2. v[i] < v[m] \/ (v[i] = v[m] /\ i < m)
    BY <1>4, <2>1
  <2> QED  BY <1>2, <2>2
<1>7. \A i, j \in S : i = j \/ <<i, j>> \in R \/ <<j, i>> \in R
  <2> SUFFICES ASSUME NEW i \in S, NEW j \in S, i # j
               PROVE  <<i, j>> \in R \/ <<j, i>> \in R
    OBVIOUS
  <2>1. (v[i] < v[j] \/ (v[i] = v[j] /\ i < j)) \/ (v[j] < v[i] \/ (v[j] = v[i] /\ j < i))
    BY <1>4
  <2> QED  BY <1>2, <2>1
<1>8. /\ rank \in [S -> 1..Cardinality(S)]
      /\ \A i, j \in S : <<i, j>> \in R <=> rank[i] < rank[j]
      /\ \A k \in 1..Cardinality(S) : \E i \in S : rank[i] = k
  BY <1>1, <1>3, <1>5, <1>6, <1>7, Enumerated
<1> HIDE DEF rank
<1>9. \A k \in S : p[k] \in S /\ rank[p[k]] = k
  BY <1>1, <1>8
<1>10. p \in [S -> S]
  BY <1>9
<1> HIDE DEF p
<1>11. p \in Injection(S, S)
  <2>1. \A k, l \in S : p[k] = p[l] => k = l
    BY <1>9
  <2> HIDE DEF S
  <2> QED  BY <1>10, <2>1 DEF Injection, IsInjective
<1>12. ASSUME NEW k \in S, NEW l \in S, k < l
       PROVE  v[p[k]] < v[p[l]] \/ (v[p[k]] = v[p[l]] /\ p[k] < p[l])
  <2>1. rank[p[k]] < rank[p[l]] /\ p[k] \in S /\ p[l] \in S
    BY <1>9, <1>12
  <2>2. <<p[k], p[l]>> \in R
    BY <1>8, <2>1
  <2> QED  BY <1>2, <2>1, <2>2
<1> QED  BY <1>11, <1>12

\* A ranking leaves no position out.
LEMMA RankingOnto ==
  ASSUME NEW n \in Nat, NEW p \in Injection(1..n, 1..n)
  PROVE  /\ p \in [1..n -> 1..n]
         /\ \A k, l \in 1..n : p[k] = p[l] => k = l
         /\ \A i \in 1..n : \E k \in 1..n : p[k] = i
<1>1. IsFiniteSet(1..n)
  BY FS_Interval
<1>2. p \in Surjection(1..n, 1..n)
  BY <1>1, FS_Injection
<1> QED  BY <1>2 DEF Injection, IsInjective, Surjection

-----------------------------------------------------------------------------
(* HolePunch *)

\* The types that matter, and where an address can come from: packets under way opened
\* their sender's NAT, and those in a socket found the NAT of the receiver open.
HoleInv ==
  /\ opened \in [Host -> SUBSET Host] /\ socket \in [Host -> SUBSET Host]
  /\ confirmed \in [Punch -> Host \cup {Nobody}]
  /\ flying \subseteq Punch /\ \A f \in flying : f[2] \in opened[f[1]]
  /\ \A n \in Host : \A m \in socket[n] : m \in opened[n] /\ n \in opened[m]
  /\ HolesAreMutual

\* Each step of a call, and the arrival of a burst.
LEMMA HoleStep == HoleInv /\ [HPNext]_hpvars => HoleInv'
<1> SUFFICES ASSUME HoleInv, [HPNext]_hpvars PROVE HoleInv'
  OBVIOUS
<1> USE DEF HoleInv, HolesAreMutual
<1>0. \A x \in Punch : x[1] \in Host /\ x[2] \in Host
  BY PunchPairs
<1>1. CASE UNCHANGED <<opened, socket, confirmed, flying>>
  BY <1>1
<1>2. ASSUME NEW x \in Punch, Burst(x) PROVE HoleInv'
  <2>1. opened' \in [Host -> SUBSET Host] /\ \A n \in Host : opened[n] \subseteq opened'[n]
    BY <1>0, <1>2 DEF Burst
  <2>2. x[2] \in opened'[x[1]]
    BY <1>0, <1>2 DEF Burst
  <2>3. flying' \subseteq flying \cup {x} /\ UNCHANGED <<socket, confirmed>>
    BY <1>2 DEF Burst
  <2>4. flying' \subseteq Punch /\ \A f \in flying' : f[2] \in opened'[f[1]]
    BY <1>0, <2>1, <2>2, <2>3
  <2>5. \A n \in Host : \A m \in socket[n] : m \in opened'[n] /\ n \in opened'[m]
    BY <2>1
  <2>6. \A y \in Punch : confirmed[y] # Nobody =>
          confirmed[y] \in opened'[y[1]] /\ y[1] \in opened'[confirmed[y]]
    BY <1>0, <2>1
  <2> QED  BY <2>1, <2>3, <2>4, <2>5, <2>6
<1>3. ASSUME NEW f \in Host \X Host, Arrive(f) PROVE HoleInv'
  <2>1. f \in flying /\ f[1] \in Host /\ f[2] \in Host /\ f[2] \in opened[f[1]]
    BY <1>3 DEF Arrive
  <2>2. socket' \in [Host -> SUBSET Host]
    BY <1>3, <2>1 DEF Arrive
  <2>3. \A n \in Host : \A m \in socket'[n] :
          m \in socket[n] \/ (n = f[2] /\ m = f[1] /\ f[1] \in opened[f[2]])
    BY <1>3, <2>1 DEF Arrive
  <2>4. \A n \in Host : \A m \in socket'[n] : m \in opened[n] /\ n \in opened[m]
    BY <2>1, <2>3
  <2> QED  BY <1>3, <2>2, <2>4 DEF Arrive
<1>4. ASSUME NEW x \in Punch, PunchAnswered(x) PROVE HoleInv'
  <2>1. PICK m \in socket[x[1]] : confirmed' = [confirmed EXCEPT ![x] = m]
    BY <1>4 DEF PunchAnswered
  <2>2. socket' \in [Host -> SUBSET Host] /\ \A n \in Host : socket'[n] \subseteq socket[n]
    BY <1>0, <1>4 DEF PunchAnswered
  <2>3. m \in Host /\ m \in opened[x[1]] /\ x[1] \in opened[m]
    BY <1>0
  <2>4. confirmed' \in [Punch -> Host \cup {Nobody}]
    BY <2>1, <2>3
  <2>5. \A y \in Punch : confirmed'[y] # Nobody =>
          confirmed'[y] \in opened[y[1]] /\ y[1] \in opened[confirmed'[y]]
    BY <2>1, <2>3
  <2>6. \A n \in Host : \A k \in socket'[n] : k \in opened[n] /\ n \in opened[k]
    BY <2>2
  <2> QED  BY <1>4, <2>2, <2>4, <2>5, <2>6 DEF PunchAnswered
<1>5. ASSUME NEW x \in Punch, StartPunch(x) \/ NoAnswer(x) \/ PunchAgain(x) \/ GiveUp(x)
      PROVE UNCHANGED <<opened, socket, confirmed, flying>>
  BY <1>5 DEF StartPunch, NoAnswer, PunchAgain, GiveUp
<1>6. CASE UNCHANGED hpvars
  BY <1>1, <1>6 DEF hpvars
<1> QED  BY <1>1, <1>2, <1>3, <1>4, <1>5, <1>6 DEF HPNext, PunchStep

\* A confirmed address is one to which the node had punched and which had punched to it,
\* whatever was lost and whosever packet was taken for the answer.
THEOREM HolesAlwaysMutual == HPSpec => []HolesAreMutual
<1>1. HPInit => HoleInv
  BY DEF HPInit, HoleInv, HolesAreMutual
<1>2. HoleInv => HolesAreMutual
  BY DEF HoleInv
<1> QED  BY <1>1, <1>2, HoleStep, PTL DEF HPSpec

\* Calls that ended, for the counters of their node.
Over(n) == {x \in Punch : x[1] = n /\ punch[x] \in {"ok", "failed"}}

\* A packet for the call is under way or in the socket, or it was taken by some call.
Near(x)  == Back(x) \in flying \/ x[2] \in socket[x[1]]
Taken(x) == \E y \in Punch : y[1] = x[1] /\ confirmed[y] = x[2]

\* An attempt is left while a call is under way; a call that a packet of its peer was to
\* reach is not at its last pause before some call has taken one.
PunchInv ==
  /\ HPTypeOK /\ HoleInv
  /\ \A x \in Punch : punch[x] = "idle" => retry[x] = 0
  /\ \A x \in Punch : punch[x] \in {"send", "wait", "pause"} => retry[x] < MaxRetries
  /\ \A x \in Punch : confirmed[x] # Nobody => punch[x] = "ok"
  /\ \A x \in met : punch[x] # "idle" /\ x[2] \in opened[x[1]]
  /\ losses = 0 => \A x \in met : Near(x) \/ Taken(x)
  /\ losses = 0 => \A x \in met : punch[x] \in {"last", "failed"} => Taken(x)

CountInv ==
  \A n \in Host : total[n] = good[n] + bad[n] /\ total[n] = Cardinality(Over(n))

LEMMA OverFinite == \A n \in Host : IsFiniteSet(Over(n))
  BY PunchPairs, FS_Subset DEF Over

\* What a call took it keeps.
LEMMA TakenStays ==
  ASSUME PunchInv, NEW c \in Punch, punch[c] = "wait", NEW n \in Host,
         confirmed' = [confirmed EXCEPT ![c] = n]
  PROVE  \A x \in Punch : Taken(x) => Taken(x)'
<1> SUFFICES ASSUME NEW x \in Punch, Taken(x) PROVE \E y \in Punch : y[1] = x[1] /\ confirmed'[y] = x[2]
  BY DEF Taken
<1>1. PICK y \in Punch : y[1] = x[1] /\ confirmed[y] = x[2]
  BY DEF Taken
<1>2. y # c
  BY <1>1, PunchPairs, NobodyIsNone DEF PunchInv
<1>3. confirmed'[y] = confirmed[y]
  BY <1>2 DEF PunchInv, HPTypeOK
<1> QED  BY <1>1, <1>3

LEMMA PunchTypeStep == ASSUME PunchInv, [HPNext]_hpvars PROVE HPTypeOK'
<1> USE RetriesNat, PunchPairs DEF PunchInv, HPTypeOK
<1>1. ASSUME NEW x \in Punch, StartPunch(x) PROVE HPTypeOK'
  BY <1>1 DEF StartPunch, PunchTo
<1>2. ASSUME NEW x \in Punch, Burst(x) PROVE HPTypeOK'
  <2>1. x[1] \in Host /\ x[2] \in Host /\ x \in Host \X Host
    OBVIOUS
  <2>2. met' \subseteq Punch
    BY <1>2 DEF Burst, Expecting
  <2>3. flying' \subseteq Host \X Host /\ losses' \in 0..MaxLoss
    BY <1>2, <2>1 DEF Burst
  <2>4. opened' \in [Host -> SUBSET Host]
    BY <1>2, <2>1 DEF Burst
  <2> QED  BY <1>2, <2>2, <2>3, <2>4 DEF Burst, PunchTo
<1>3. ASSUME NEW f \in Host \X Host, Arrive(f) PROVE HPTypeOK'
  <2>1. socket' \in [Host -> SUBSET Host]
    BY <1>3 DEF Arrive
  <2> QED  BY <1>3, <2>1 DEF Arrive
<1>4. ASSUME NEW x \in Punch, PunchAnswered(x) PROVE HPTypeOK'
  <2>1. x[1] \in Host
    OBVIOUS
  <2>2. socket' \in [Host -> SUBSET Host] /\ confirmed' \in [Punch -> Host \cup {Nobody}]
    BY <1>4, <2>1 DEF PunchAnswered
  <2>3. total' \in [Host -> Nat] /\ good' \in [Host -> Nat] /\ bad' \in [Host -> Nat]
    BY <1>4, <2>1 DEF PunchAnswered, Record
  <2> QED  BY <1>4, <2>2, <2>3 DEF PunchAnswered, PunchTo
<1>5. ASSUME NEW x \in Punch, NoAnswer(x) PROVE HPTypeOK'
  <2>1. retry' \in [Punch -> 0..MaxRetries]
    BY <1>5 DEF NoAnswer
  <2> QED  BY <1>5, <2>1 DEF NoAnswer, PunchTo
<1>6. ASSUME NEW x \in Punch, PunchAgain(x) PROVE HPTypeOK'
  BY <1>6 DEF PunchAgain, PunchTo
<1>7. ASSUME NEW x \in Punch, GiveUp(x) PROVE HPTypeOK'
  <2>1. x[1] \in Host
    OBVIOUS
  <2>2. total' \in [Host -> Nat] /\ good' \in [Host -> Nat] /\ bad' \in [Host -> Nat]
    BY <1>7, <2>1 DEF GiveUp, Record
  <2> QED  BY <1>7, <2>2 DEF GiveUp, PunchTo
<1>8. CASE UNCHANGED hpvars
  BY <1>8 DEF hpvars
<1> QED  BY <1>1, <1>2, <1>3, <1>4, <1>5, <1>6, <1>7, <1>8 DEF HPNext, PunchStep

\* A burst puts a packet on its way to every call that it makes expect one.
LEMMA BurstStep == ASSUME PunchInv, NEW x \in Punch, Burst(x), HPTypeOK', HoleInv' PROVE PunchInv'
<1>1. /\ punch[x] = "send" /\ punch' = [punch EXCEPT ![x] = "wait"]
      /\ UNCHANGED <<retry, confirmed, socket, total, good, bad>>
      /\ \A n \in Host : opened[n] \subseteq opened'[n]
      /\ flying \subseteq flying' /\ met \subseteq met'
  BY DEF Burst, PunchTo, PunchInv, HPTypeOK
<1>2. ASSUME NEW y \in met', y \notin met
      PROVE  y = Back(x) /\ y \in Punch /\ punch[y] \in {"send", "wait", "pause"} /\ y[2] \in opened[y[1]]
  BY <1>2 DEF Burst, Expecting
<1>3. losses' = 0 => losses = 0 /\ x \in flying'
  BY RetriesNat DEF Burst, PunchInv, HPTypeOK
<1>4. \A y \in Punch : y # x => punch'[y] = punch[y]
  BY <1>1 DEF PunchInv, HPTypeOK
<1>5. punch'[x] = "wait"
  BY <1>1 DEF PunchInv, HPTypeOK
<1>6. Back(Back(x)) = x
  BY PunchPairs DEF Back
<1>7. \A y \in met' : y \in Punch /\ punch'[y] # "idle" /\ y[2] \in opened'[y[1]]
  <2>1. \A y \in Punch : y[1] \in Host
    BY PunchPairs
  <2> QED  BY <1>1, <1>2, <1>4, <1>5, <2>1 DEF PunchInv, HPTypeOK
<1>8. ASSUME losses' = 0, NEW y \in met' PROVE Near(y)' \/ Taken(y)'
  <2>1. CASE y \in met
    BY <1>1, <1>3, <1>8, <2>1 DEF PunchInv, Near, Taken
  <2>2. CASE y \notin met
    BY <1>2, <1>3, <1>6, <1>8, <2>2 DEF Near
  <2> QED  BY <2>1, <2>2
<1>9. ASSUME losses' = 0, NEW y \in met', punch'[y] \in {"last", "failed"} PROVE Taken(y)'
  <2>1. y \in met /\ punch[y] \in {"last", "failed"}
    BY <1>2, <1>4, <1>5, <1>7, <1>9
  <2> QED  BY <1>1, <1>3, <1>9, <2>1 DEF PunchInv, Taken
<1>10. /\ \A y \in Punch : punch'[y] = "idle" => retry'[y] = 0
       /\ \A y \in Punch : punch'[y] \in {"send", "wait", "pause"} => retry'[y] < MaxRetries
       /\ \A y \in Punch : confirmed'[y] # Nobody => punch'[y] = "ok"
  BY <1>1, <1>4, <1>5 DEF PunchInv
<1> QED  BY <1>7, <1>8, <1>9, <1>10 DEF PunchInv

\* The NAT that expects a packet lets it in.
LEMMA ArriveStep ==
  ASSUME PunchInv, NEW f \in Host \X Host, Arrive(f), HPTypeOK', HoleInv' PROVE PunchInv'
<1>1. UNCHANGED <<punch, retry, confirmed, opened, met, losses>> /\ flying' = flying \ {f}
  BY DEF Arrive
<1>2. /\ \A n \in Host : socket[n] \subseteq socket'[n]
      /\ f[1] \in opened[f[2]] => f[1] \in socket'[f[2]]
  BY DEF Arrive, PunchInv, HPTypeOK
<1>3. ASSUME losses = 0, NEW x \in met PROVE Near(x)' \/ Taken(x)'
  <2>1. x \in Punch /\ x[1] \in Host /\ x[2] \in opened[x[1]]
    BY PunchPairs DEF PunchInv, HPTypeOK
  <2>2. CASE Taken(x)
    BY <1>1, <2>2 DEF Taken
  <2>3. CASE x[2] \in socket[x[1]]
    BY <1>2, <2>1, <2>3 DEF Near
  <2>4. CASE Back(x) \in flying /\ Back(x) # f
    BY <1>1, <2>4 DEF Near, Back
  <2>5. CASE Back(x) = f
    <3>1. f[1] = x[2] /\ f[2] = x[1]
      BY <2>5 DEF Back
    <3> QED  BY <1>2, <2>1, <3>1 DEF Near
  <2> QED  BY <1>3, <2>2, <2>3, <2>4, <2>5 DEF PunchInv, Near
<1> QED  BY <1>1, <1>3 DEF PunchInv, Taken

\* Whoever answers a call leaves its packet with it.
LEMMA AnsweredStep ==
  ASSUME PunchInv, NEW c \in Punch, PunchAnswered(c), HPTypeOK', HoleInv' PROVE PunchInv'
<1>0. c[1] \in Host
  BY PunchPairs
<1>1. /\ punch[c] = "wait" /\ punch' = [punch EXCEPT ![c] = "ok"]
      /\ UNCHANGED <<retry, opened, flying, met, losses>>
  BY DEF PunchAnswered, PunchTo
<1>2. PICK n \in socket[c[1]] :
        /\ confirmed' = [confirmed EXCEPT ![c] = n]
        /\ socket' = [socket EXCEPT ![c[1]] = @ \ {n}] \/ socket' = socket
  BY DEF PunchAnswered
<1>3. n \in Host
  BY <1>0 DEF PunchInv, HPTypeOK
<1>4. \A x \in Punch : Taken(x) => Taken(x)'
  BY <1>1, <1>2, <1>3, TakenStays
<1>5. \A y \in Punch : y # c => punch'[y] = punch[y] /\ confirmed'[y] = confirmed[y]
  BY <1>1, <1>2 DEF PunchInv, HPTypeOK
<1>6. punch'[c] = "ok" /\ confirmed'[c] = n
  BY <1>1, <1>2 DEF PunchInv, HPTypeOK
<1>7. ASSUME losses = 0, NEW x \in met PROVE Near(x)' \/ Taken(x)'
  <2>1. x \in Punch /\ x[1] \in Host
    BY PunchPairs DEF PunchInv, HPTypeOK
  <2>2. CASE Taken(x)
    BY <1>4, <2>1, <2>2
  <2>3. CASE Back(x) \in flying
    BY <1>1, <2>3 DEF Near, Back
  <2>4. CASE x[2] \in socket[x[1]] /\ ~(x[1] = c[1] /\ x[2] = n)
    <3>1. x[2] \in socket'[x[1]]
      BY <1>0, <1>2, <2>1, <2>4 DEF PunchInv, HPTypeOK
    <3> QED  BY <3>1 DEF Near
  <2>5. CASE x[1] = c[1] /\ x[2] = n
    BY <1>6, <2>5 DEF Taken
  <2> QED  BY <1>7, <2>2, <2>3, <2>4, <2>5 DEF PunchInv, Near
<1>8. ASSUME losses = 0, NEW x \in met, punch'[x] \in {"last", "failed"} PROVE Taken(x)'
  <2>1. x \in Punch
    BY DEF PunchInv, HPTypeOK
  <2>2. punch[x] \in {"last", "failed"}
    BY <1>5, <1>6, <1>8, <2>1
  <2> QED  BY <1>4, <1>8, <2>1, <2>2 DEF PunchInv
<1>9. \A x \in met : x \in Punch
  BY DEF PunchInv, HPTypeOK
<1> QED  BY <1>1, <1>5, <1>6, <1>7, <1>8, <1>9 DEF PunchInv

\* A call that gives up has looked into an empty socket with nothing under way to it.
LEMMA NoAnswerStep ==
  ASSUME PunchInv, NEW c \in Punch, NoAnswer(c), HPTypeOK', HoleInv' PROVE PunchInv'
<1>1. /\ punch[c] = "wait" /\ socket[c[1]] = {} /\ \A f \in flying : f[2] # c[1]
      /\ retry' = [retry EXCEPT ![c] = @ + 1]
      /\ punch' = [punch EXCEPT ![c] = IF retry'[c] = MaxRetries THEN "last" ELSE "pause"]
      /\ UNCHANGED <<confirmed, opened, flying, socket, met, losses>>
  BY DEF NoAnswer, PunchTo
<1>2. \A y \in Punch : y # c => punch'[y] = punch[y] /\ retry'[y] = retry[y]
  BY <1>1 DEF PunchInv, HPTypeOK
<1>3. /\ retry'[c] = retry[c] + 1 /\ retry[c] \in Nat /\ retry[c] < MaxRetries
      /\ punch'[c] = IF retry'[c] = MaxRetries THEN "last" ELSE "pause"
  BY <1>1 DEF PunchInv, HPTypeOK
<1>4. ASSUME losses = 0, NEW x \in met, punch'[x] \in {"last", "failed"} PROVE Taken(x)
  <2>1. x \in Punch
    BY DEF PunchInv, HPTypeOK
  <2>2. CASE x = c
    <3>1. ~ Near(x)
      BY <1>1, <2>2 DEF Near, Back
    <3> QED  BY <1>4, <3>1 DEF PunchInv
  <2>3. CASE x # c
    BY <1>2, <1>4, <2>1, <2>3 DEF PunchInv
  <2> QED  BY <2>2, <2>3
<1>5. \A x \in met : x \in Punch
  BY DEF PunchInv, HPTypeOK
<1>6. \A x \in Punch : (Taken(x) => Taken(x)') /\ (Near(x) => Near(x)')
  BY <1>1 DEF Taken, Near, Back
<1>7. /\ \A y \in Punch : punch'[y] = "idle" => retry'[y] = 0
      /\ \A y \in Punch : punch'[y] \in {"send", "wait", "pause"} => retry'[y] < MaxRetries
  BY <1>2, <1>3, RetriesNat DEF PunchInv
<1>8. \A y \in Punch : confirmed'[y] # Nobody => punch'[y] = "ok"
  BY <1>1, <1>2 DEF PunchInv
<1>9. \A y \in met' : punch'[y] # "idle" /\ y[2] \in opened'[y[1]]
  BY <1>1, <1>2, <1>3, <1>5 DEF PunchInv
<1> QED  BY <1>1, <1>4, <1>5, <1>6, <1>7, <1>8, <1>9 DEF PunchInv

\* Every step of the calls and of the network.
LEMMA PunchInvStep == PunchInv /\ [HPNext]_hpvars => PunchInv'
<1> SUFFICES ASSUME PunchInv, [HPNext]_hpvars PROVE PunchInv'
  OBVIOUS
<1>0. HPTypeOK' /\ HoleInv'
  BY PunchTypeStep, HoleStep DEF PunchInv
<1>1. ASSUME NEW x \in Punch, Burst(x) PROVE PunchInv'
  BY <1>0, <1>1, BurstStep
<1>2. ASSUME NEW f \in Host \X Host, Arrive(f) PROVE PunchInv'
  BY <1>0, <1>2, ArriveStep
<1>3. ASSUME NEW x \in Punch, PunchAnswered(x) PROVE PunchInv'
  BY <1>0, <1>3, AnsweredStep
<1>4. ASSUME NEW x \in Punch, NoAnswer(x) PROVE PunchInv'
  BY <1>0, <1>4, NoAnswerStep
<1>5. ASSUME NEW x \in Punch, StartPunch(x) \/ PunchAgain(x) \/ GiveUp(x) PROVE PunchInv'
  <2>1. /\ punch' = [punch EXCEPT ![x] = punch'[x]]
        /\ UNCHANGED <<retry, confirmed, opened, flying, socket, met, losses>>
    BY <1>5 DEF StartPunch, PunchAgain, GiveUp, PunchTo, PunchInv, HPTypeOK
  <2>2. \/ punch[x] = "idle" /\ punch'[x] = IF MaxRetries = 0 THEN "last" ELSE "send"
        \/ punch[x] = "pause" /\ punch'[x] = "send"
        \/ punch[x] = "last" /\ punch'[x] = "failed"
    BY <1>5 DEF StartPunch, PunchAgain, GiveUp, PunchTo, PunchInv, HPTypeOK
  <2>3. \A y \in Punch : y # x => punch'[y] = punch[y]
    BY <2>1 DEF PunchInv, HPTypeOK
  <2>4. \A y \in Punch : (Taken(y) => Taken(y)') /\ (Near(y) => Near(y)')
    BY <2>1 DEF Taken, Near, Back
  <2>5. met \subseteq Punch
    BY DEF PunchInv, HPTypeOK
  <2>6. x \in met => punch[x] # "idle"
    BY DEF PunchInv
  <2>7. \A y \in met : punch'[y] \in {"last", "failed"} => punch[y] \in {"last", "failed"}
    BY <2>2, <2>3, <2>5, <2>6
  <2>8. /\ \A y \in Punch : punch'[y] = "idle" => retry'[y] = 0
        /\ \A y \in Punch : punch'[y] \in {"send", "wait", "pause"} => retry'[y] < MaxRetries
    BY <2>1, <2>2, <2>3, RetriesNat DEF PunchInv
  <2>9. \A y \in Punch : confirmed'[y] # Nobody => punch'[y] = "ok"
    BY <2>1, <2>2, <2>3 DEF PunchInv
  <2>10. \A y \in met' : punch'[y] # "idle" /\ y[2] \in opened'[y[1]]
    BY <2>1, <2>2, <2>3, <2>5 DEF PunchInv
  <2> QED  BY <1>0, <2>1, <2>4, <2>5, <2>7, <2>8, <2>9, <2>10 DEF PunchInv
<1>6. CASE UNCHANGED hpvars
  BY <1>0, <1>6 DEF hpvars, PunchInv, Near, Taken, Back
<1> QED  BY <1>1, <1>2, <1>3, <1>4, <1>5, <1>6 DEF HPNext, PunchStep

\* A call that ends is counted once, and no other call is.
LEMMA OverStep ==
  ASSUME HPTypeOK, CountInv, NEW c \in Punch, punch[c] \notin {"ok", "failed"},
         NEW s \in {"ok", "failed"}, punch' = [punch EXCEPT ![c] = s]
  PROVE  \A n \in Host : /\ Cardinality(Over(n)) \in Nat
                         /\ Cardinality(Over(n)') = Cardinality(Over(n)) + (IF n = c[1] THEN 1 ELSE 0)
<1> TAKE n \in Host
<1>1. IsFiniteSet(Over(n)) /\ c \notin Over(n)
  BY OverFinite DEF Over
<1>2. Cardinality(Over(n)) \in Nat
  BY <1>1, FS_CardinalityType
<1>3. CASE n = c[1]
  <2>1. Over(n)' = Over(n) \cup {c}
    BY <1>3 DEF Over, HPTypeOK
  <2>2. Cardinality(Over(n) \cup {c}) = Cardinality(Over(n)) + 1
    BY <1>1, FS_AddElement
  <2> QED  BY <1>2, <1>3, <2>1, <2>2
<1>4. CASE n # c[1]
  <2>1. Over(n)' = Over(n)
    BY <1>4 DEF Over, HPTypeOK
  <2> QED  BY <1>2, <1>4, <2>1
<1> QED  BY <1>3, <1>4

LEMMA CountStep == ASSUME HPTypeOK, CountInv, [HPNext]_hpvars PROVE CountInv'
<1>1. ASSUME NEW c \in Punch, PunchAnswered(c) PROVE CountInv'
  <2>1. punch[c] = "wait" /\ punch' = [punch EXCEPT ![c] = "ok"]
    BY <1>1 DEF PunchAnswered, PunchTo
  <2>2. /\ total' = [total EXCEPT ![c[1]] = @ + 1] /\ good' = [good EXCEPT ![c[1]] = @ + 1]
        /\ bad' = bad
    BY <1>1 DEF PunchAnswered, Record
  <2>3. \A n \in Host : /\ Cardinality(Over(n)) \in Nat
                        /\ Cardinality(Over(n)') = Cardinality(Over(n)) + (IF n = c[1] THEN 1 ELSE 0)
    BY <2>1, OverStep
  <2> QED  BY <2>2, <2>3 DEF CountInv, HPTypeOK
<1>2. ASSUME NEW c \in Punch, GiveUp(c) PROVE CountInv'
  <2>1. punch[c] = "last" /\ punch' = [punch EXCEPT ![c] = "failed"]
    BY <1>2 DEF GiveUp, PunchTo
  <2>2. /\ total' = [total EXCEPT ![c[1]] = @ + 1] /\ bad' = [bad EXCEPT ![c[1]] = @ + 1]
        /\ good' = good
    BY <1>2 DEF GiveUp, Record
  <2>3. \A n \in Host : /\ Cardinality(Over(n)) \in Nat
                        /\ Cardinality(Over(n)') = Cardinality(Over(n)) + (IF n = c[1] THEN 1 ELSE 0)
    BY <2>1, OverStep
  <2> QED  BY <2>2, <2>3 DEF CountInv, HPTypeOK
<1>3. ASSUME UNCHANGED <<total, good, bad>>,
             \A x \in Punch : punch'[x] \in {"ok", "failed"} <=> punch[x] \in {"ok", "failed"}
      PROVE  CountInv'
  BY <1>3 DEF CountInv, Over
<1>4. ASSUME NEW x \in Punch, StartPunch(x) \/ Burst(x) \/ NoAnswer(x) \/ PunchAgain(x) PROVE CountInv'
  BY <1>3, <1>4 DEF StartPunch, Burst, NoAnswer, PunchAgain, PunchTo, HPTypeOK
<1>5. ASSUME NEW f \in Host \X Host, Arrive(f) PROVE CountInv'
  BY <1>3, <1>5 DEF Arrive
<1>6. CASE UNCHANGED hpvars
  BY <1>3, <1>6 DEF hpvars
<1> QED  BY <1>1, <1>2, <1>4, <1>5, <1>6 DEF HPNext, PunchStep

\* What the calls promise together.
PunchSafe == HPTypeOK /\ HolesAreMutual /\ HoleIsUsed /\ PunchesCounted

LEMMA PunchInit == HPInit => PunchInv /\ CountInv
<1> SUFFICES ASSUME HPInit PROVE PunchInv /\ CountInv
  OBVIOUS
<1>1. HPTypeOK
  BY RetriesNat DEF HPInit, HPTypeOK
<1>2. \A n \in Host : Over(n) = {}
  BY DEF HPInit, Over
<1>3. CountInv
  BY <1>2, FS_EmptySet DEF HPInit, CountInv
<1> QED  BY <1>1, <1>3 DEF HPInit, PunchInv, HoleInv, HolesAreMutual

LEMMA PunchIsSafe == PunchInv /\ CountInv => PunchSafe
<1> SUFFICES ASSUME PunchInv, CountInv PROVE PunchSafe
  OBVIOUS
<1>1. HoleIsUsed
  <2> SUFFICES ASSUME NEW x \in Punch, losses = 0, x \in met, punch[x] = "failed"
               PROVE  \E y \in Punch \ {x} : y[1] = x[1] /\ confirmed[y] = x[2]
    BY DEF HoleIsUsed
  <2>1. PICK y \in Punch : y[1] = x[1] /\ confirmed[y] = x[2]
    BY DEF PunchInv, Taken
  <2>2. y # x
    BY <2>1, PunchPairs, NobodyIsNone DEF PunchInv
  <2> QED  BY <2>1, <2>2
<1>2. PunchesCounted
  BY DEF CountInv, PunchesCounted, Over
<1> QED  BY <1>1, <1>2 DEF PunchSafe, PunchInv, HoleInv

-----------------------------------------------------------------------------
(* NatState *)

\* Where the history ends, which at the start is where the machine starts.
Ended == IF past = <<>> THEN "uninitialized" ELSE past[Len(past)][2]

\* Who holds the lock of the history: one mover for writing, which has pushed what it
\* will write, or reporters, which saw the history as it still is.
StateInv ==
  /\ natState \in NatStates /\ past \in Seq(NatStates \X NatStates)
  /\ move \in [Mover -> [at : {"idle", "false", "allowed", "pushed", "true"},
                         from : NatStates, to : NatStates]]
  /\ reported \in [Reporter -> [at : {"idle", "state", "done"},
                              from : NatStates, to : NatStates]]
  /\ historyLock = {} => Ended = natState
  /\ historyLock # {} => reading = {}
  /\ \A m \in Mover : move[m].at = "pushed" => historyLock = {m} /\ Ended = move[m].to
  /\ \A r \in Reporter : reported[r].at = "state" => r \in reading /\ reported[r].from = Ended
  /\ ReportsAddUp

\* What is pushed last is what the history ends in, however it is capped.
LEMMA CappedEnds ==
  ASSUME NEW h \in Seq(NatStates \X NatStates), NEW e \in NatStates \X NatStates
  PROVE  /\ Capped(Append(h, e)) \in Seq(NatStates \X NatStates)
         /\ Capped(Append(h, e)) # <<>>
         /\ Capped(Append(h, e))[Len(Capped(Append(h, e)))] = e
<1> DEFINE g == Append(h, e)
<1>1. g \in Seq(NatStates \X NatStates) /\ Len(g) = Len(h) + 1 /\ g[Len(g)] = e /\ Len(h) \in Nat
  OBVIOUS
<1> HIDE DEF g
<1> SUFFICES /\ Capped(g) \in Seq(NatStates \X NatStates) /\ Capped(g) # <<>>
             /\ Capped(g)[Len(Capped(g))] = e
  BY DEF g
<1>2. CASE Len(g) > MaxHistory
  <2>1. Len(g) >= 2 /\ Capped(g) = Tail(g)
    BY <1>1, <1>2, HistoryNat DEF Capped
  <2>2. Tail(g) \in Seq(NatStates \X NatStates) /\ Len(Tail(g)) = Len(g) - 1
    BY <1>1, <2>1
  <2>3. Tail(g)[Len(g) - 1] = g[Len(g)]
    BY <1>1, <2>1
  <2>4. Len(Tail(g)) # 0
    BY <1>1, <2>1, <2>2
  <2>5. Tail(g) # <<>>
    <3>1. Len(<<>>) = 0
      OBVIOUS
    <3>2. Tail(g) = <<>> => Len(Tail(g)) = Len(<<>>)
      BY ONLY TRUE, Zenon
    <3> QED  BY ONLY <2>4, <3>1, <3>2, Zenon
  <2> QED  BY <1>1, <2>1, <2>2, <2>3, <2>5
<1>3. CASE ~(Len(g) > MaxHistory)
  <2>1. Capped(g) = g /\ g # <<>>
    BY <1>1, <1>3 DEF Capped
  <2> QED  BY <1>1, <2>1
<1> QED  BY <1>2, <1>3

\* The mover's check, its two writes, and the reporter's two reads.
LEMMA StateStep == StateInv /\ [NSNext]_nsvars => StateInv'
<1> SUFFICES ASSUME StateInv, [NSNext]_nsvars PROVE StateInv'
  OBVIOUS
<1> USE DEF StateInv, ReportsAddUp
<1>1. ASSUME NEW m \in Mover, LookState(m) PROVE StateInv'
  <2>1. PICK to \in NatStates, at \in {"allowed", "false"} :
          move' = [move EXCEPT ![m] = [at |-> at, from |-> natState, to |-> to]]
    BY <1>1, TargetsAreStates DEF LookState
  <2>2. move' \in [Mover -> [at : {"idle", "false", "allowed", "pushed", "true"},
                             from : NatStates, to : NatStates]]
    BY <2>1
  <2>3. \A k \in Mover : move'[k].at = "pushed" => move[k].at = "pushed" /\ move'[k].to = move[k].to
    BY <2>1
  <2>4. UNCHANGED <<natState, past, historyLock, reading, reported>> /\ Ended' = Ended
    BY <1>1 DEF LookState, Ended
  <2> QED  BY <2>2, <2>3, <2>4
<1>2. ASSUME NEW m \in Mover, Push(m) PROVE StateInv'
  <2>1. /\ historyLock = {} /\ reading = {} /\ historyLock' = {m}
        /\ move' = [move EXCEPT ![m].at = "pushed"] /\ UNCHANGED <<natState, reading, reported>>
        /\ past' = Capped(Append(past, <<move[m].from, move[m].to>>))
    BY <1>2 DEF Push
  <2>2. <<move[m].from, move[m].to>> \in NatStates \X NatStates
    OBVIOUS
  <2>3. past' \in Seq(NatStates \X NatStates) /\ Ended' = move[m].to
    <3> DEFINE p == past'
               e == <<move[m].from, move[m].to>>
    <3>1. p = Capped(Append(past, e)) /\ past \in Seq(NatStates \X NatStates)
      BY <2>1
    <3>2. e \in NatStates \X NatStates /\ e[2] = move[m].to
      BY <2>2
    <3> HIDE DEF p, e
    <3>3. p \in Seq(NatStates \X NatStates) /\ p # <<>> /\ p[Len(p)] = e
      <4> DEFINE c == Capped(Append(past, e))
      <4>1. c \in Seq(NatStates \X NatStates) /\ c # <<>> /\ c[Len(c)] = e
        BY <3>1, <3>2, CappedEnds
      <4> HIDE DEF c
      <4> QED  BY <3>1, <4>1 DEF c
    <3> QED  BY <3>2, <3>3 DEF Ended, p
  <2>4. \A k \in Mover : move[k].at # "pushed"
    BY <2>1
  <2>5. \A k \in Mover : move'[k].at = "pushed" => k = m /\ move'[k].to = move[m].to
    BY <2>1, <2>4
  <2>6. move' \in [Mover -> [at : {"idle", "false", "allowed", "pushed", "true"},
                             from : NatStates, to : NatStates]]
    BY <2>1
  <2> QED  BY <2>1, <2>3, <2>5, <2>6
<1>3. ASSUME NEW m \in Mover, Write(m) PROVE StateInv'
  <2>1. /\ move[m].at = "pushed" /\ natState' = move[m].to /\ historyLock' = {}
        /\ move' = [move EXCEPT ![m].at = "true"] /\ UNCHANGED <<past, reading, reported>>
    BY <1>3 DEF Write
  <2>2. historyLock = {m} /\ Ended' = Ended /\ Ended = move[m].to
    BY <2>1 DEF Ended
  <2>3. \A k \in Mover : move'[k].at # "pushed"
    BY <2>1, <2>2
  <2>4. move' \in [Mover -> [at : {"idle", "false", "allowed", "pushed", "true"},
                             from : NatStates, to : NatStates]]
    BY <2>1
  <2> QED  BY <2>1, <2>2, <2>3, <2>4
<1>4. ASSUME NEW r \in Reporter, ReadHistory(r) PROVE StateInv'
  <2>1. /\ historyLock = {} /\ reading' = reading \cup {r}
        /\ reported' = [reported EXCEPT ![r] = [at |-> "state", to |-> natState, from |-> Ended]]
        /\ UNCHANGED <<natState, past, historyLock, move>> /\ Ended' = Ended
    BY <1>4 DEF ReadHistory, Ended
  <2>2. Ended \in NatStates
    BY <2>1
  <2>3. reported' \in [Reporter -> [at : {"idle", "state", "done"},
                                   from : NatStates, to : NatStates]]
    BY <2>1, <2>2
  <2> QED  BY <2>1, <2>3
<1>5. ASSUME NEW r \in Reporter, ReadState(r) PROVE StateInv'
  <2>1. /\ reported[r].at = "state" /\ reading' = reading \ {r}
        /\ reported' = [reported EXCEPT ![r].at = "done", ![r].to = natState]
        /\ UNCHANGED <<natState, past, historyLock, move>> /\ Ended' = Ended
    BY <1>5 DEF ReadState, Ended
  <2>2. historyLock = {} /\ reported[r].from = natState
    BY <2>1
  <2>3. reported' \in [Reporter -> [at : {"idle", "state", "done"},
                                   from : NatStates, to : NatStates]]
    BY <2>1
  <2> QED  BY <2>1, <2>2, <2>3
<1>6. CASE UNCHANGED nsvars
  BY <1>6 DEF nsvars, Ended
<1> QED  BY <1>1, <1>2, <1>3, <1>4, <1>5, <1>6 DEF NSNext

\* A new state machine.
LEMMA StateInit == NSInit => StateInv
  BY DEF NSInit, StateInv, ReportsAddUp, Ended, NatStates

\* The cap holds, and who holds a lock is a call.
LEMMA StateTypeStep == ASSUME NSTypeOK, StateInv, StateInv', [NSNext]_nsvars PROVE NSTypeOK'
<1> SUFFICES Len(past') <= MaxHistory /\ historyLock' \subseteq Mover /\ reading' \subseteq Reporter
  BY DEF NSTypeOK, StateInv
<1> USE DEF NSTypeOK
<1>1. ASSUME NEW m \in Mover, Push(m) PROVE Len(past') <= MaxHistory
  <2> DEFINE e == <<move[m].from, move[m].to>>
  <2>1. past' = Capped(Append(past, e)) /\ e \in NatStates \X NatStates
    BY <1>1 DEF Push
  <2> HIDE DEF e
  <2> DEFINE g == Append(past, e)
  <2>2. g \in Seq(NatStates \X NatStates) /\ Len(g) = Len(past) + 1 /\ Len(past) \in Nat
    BY <2>1
  <2>3. past' = Capped(g)
    BY <2>1
  <2> HIDE DEF g
  <2>4. g # <<>> => Len(Tail(g)) = Len(g) - 1
    BY <2>2
  <2>5. Len(g) > MaxHistory => g # <<>>
    BY <2>2, HistoryNat
  <2> QED  BY <2>2, <2>3, <2>4, <2>5, HistoryNat DEF Capped
<1>2. ASSUME NEW m \in Mover, LookState(m) \/ Push(m) \/ Write(m)
      PROVE  historyLock' \subseteq Mover /\ reading' \subseteq Reporter
  BY <1>2 DEF LookState, Push, Write
<1>3. ASSUME NEW m \in Mover, LookState(m) \/ Write(m) PROVE past' = past
  BY <1>3 DEF LookState, Write
<1>4. ASSUME NEW r \in Reporter, ReadHistory(r) \/ ReadState(r)
      PROVE  past' = past /\ historyLock' \subseteq Mover /\ reading' \subseteq Reporter
  BY <1>4 DEF ReadHistory, ReadState
<1>5. CASE UNCHANGED nsvars
  BY <1>5 DEF nsvars
<1> QED  BY <1>1, <1>2, <1>3, <1>4, <1>5 DEF NSNext

LEMMA StateTypeInit == NSInit => NSTypeOK
  BY HistoryNat DEF NSInit, NSTypeOK, NatStates

\* When nobody is between its two writes, the history ends where the machine is, although
\* two transitions may have started from one state.
THEOREM HistoryAlwaysTells == NSSpec => []HistoryTells
<1>1. StateInv => HistoryTells
  BY DEF StateInv, HistoryTells, Ended
<1> QED  BY <1>1, StateInit, StateStep, PTL DEF NSSpec

\* A report accounts for the time since the last transition under the state to which this
\* transition led (state.rs:268-280).
THEOREM ReportsAlwaysAddUp == NSSpec => []ReportsAddUp
<1>1. StateInv => ReportsAddUp
  BY DEF StateInv
<1> QED  BY <1>1, StateInit, StateStep, PTL DEF NSSpec

-----------------------------------------------------------------------------
(* Lemmas about sequences and numbers *)

\* A set of numbers has a least one: the intervals up to its elements are finite.
LEMMA HasLeast ==
  ASSUME NEW S, S \subseteq Nat, S # {} PROVE \E i \in S : \A j \in S : i <= j
<1> DEFINE U == {0..i : i \in S}
           R == StrictSubsetOrdering(Nat)
<1>1. U \subseteq FiniteSubsetsOf(Nat) /\ U # {}
  <2>1. \A i \in Nat : IsFiniteSet(0..i) /\ 0..i \subseteq Nat
    BY FS_Interval
  <2> QED  BY <2>1, Zenon DEF FiniteSubsetsOf
<1>2. IsWellFoundedOn(R, FiniteSubsetsOf(Nat))
  BY FS_StrictSubsetOrderingWellFounded
<1>3. \E u \in U : \A v \in U : ~(<<v, u>> \in R)
  <2> HIDE DEF U, R
  <2> QED  BY <1>1, <1>2, WFMin
<1>4. PICK i \in S : \A j \in S : ~(<<0..j, 0..i>> \in R)
  BY <1>3
<1>5. ASSUME NEW j \in S, j < i PROVE FALSE
  <2>1. 0..j \subseteq 0..i /\ 0..j # 0..i
    <3>1. i \in 0..i /\ i \notin 0..j
      BY <1>5
    <3> QED  BY <1>5, <3>1
  <2>2. 0..j \subseteq Nat /\ 0..i \subseteq Nat
    OBVIOUS
  <2>3. <<0..j, 0..i>> \in R
    <3> HIDE <1>4
    <3> QED  BY <2>1, <2>2, Zenon DEF StrictSubsetOrdering
  <2> QED  BY <1>4, <2>3
<1> QED  BY <1>4, <1>5

\* What stands where after an element was put in, or taken out.
LEMMA InsertShape ==
  ASSUME NEW S, NEW q \in Seq(S), NEW i \in 1..Len(q) + 1, NEW e \in S
  PROVE  /\ InsertAt(q, i, e) \in Seq(S) /\ Len(InsertAt(q, i, e)) = Len(q) + 1
         /\ \A j \in 1..Len(q) + 1 :
              InsertAt(q, i, e)[j] = IF j < i THEN q[j] ELSE IF j = i THEN e ELSE q[j - 1]
<1>1. i \in Nat /\ Len(q) \in Nat /\ 1 <= i /\ i <= Len(q) + 1
  OBVIOUS
<1> DEFINE low == SubSeq(q, 1, i - 1)
           high == SubSeq(q, i, Len(q))
<1>2. low \in Seq(S) /\ Len(low) = i - 1 /\ \A j \in 1..(i - 1) : low[j] = q[j]
  OBVIOUS
<1>3. high \in Seq(S) /\ Len(high) = Len(q) - i + 1 /\ \A j \in 1..(Len(q) - i + 1) : high[j] = q[i + j - 1]
  OBVIOUS
<1>4. InsertAt(q, i, e) = low \o <<e>> \o high
  BY DEF InsertAt
<1> HIDE DEF low, high
<1> DEFINE mid == low \o <<e>>
<1>5. mid \in Seq(S) /\ Len(mid) = i /\ \A j \in 1..i : mid[j] = IF j < i THEN q[j] ELSE e
  BY <1>1, <1>2
<1> HIDE DEF mid
<1> DEFINE whole == mid \o high
<1>6. whole \in Seq(S) /\ Len(whole) = Len(q) + 1
  BY <1>1, <1>3, <1>5
<1>7. ASSUME NEW j \in 1..Len(q) + 1
      PROVE  whole[j] = IF j < i THEN q[j] ELSE IF j = i THEN e ELSE q[j - 1]
  <2>1. CASE j <= i
    BY <1>1, <1>3, <1>5, <2>1
  <2>2. CASE j > i
    <3>1. j - i \in 1..(Len(q) - i + 1) /\ whole[j] = high[j - i]
      BY <1>1, <1>3, <1>5, <2>2
    <3>2. high[j - i] = q[i + (j - i) - 1]
      BY <1>3, <3>1
    <3> QED  BY <1>1, <2>2, <3>1, <3>2
  <2>3. j <= i \/ j > i
    BY <1>1
  <2> QED  BY <2>1, <2>2, <2>3, Zenon
<1> QED  BY <1>4, <1>6, <1>7 DEF mid

LEMMA RemoveShape ==
  ASSUME NEW S, NEW q \in Seq(S), NEW i \in 1..Len(q)
  PROVE  /\ RemoveAt(q, i) \in Seq(S) /\ Len(RemoveAt(q, i)) = Len(q) - 1
         /\ \A j \in 1..(Len(q) - 1) : RemoveAt(q, i)[j] = IF j < i THEN q[j] ELSE q[j + 1]
<1>1. i \in Nat /\ Len(q) \in Nat /\ 1 <= i /\ i <= Len(q)
  OBVIOUS
<1> DEFINE low == SubSeq(q, 1, i - 1)
           high == SubSeq(q, i + 1, Len(q))
<1>2. low \in Seq(S) /\ Len(low) = i - 1 /\ \A j \in 1..(i - 1) : low[j] = q[j]
  OBVIOUS
<1>3. high \in Seq(S) /\ Len(high) = Len(q) - i /\ \A j \in 1..(Len(q) - i) : high[j] = q[i + j]
  BY <1>1
<1>4. RemoveAt(q, i) = low \o high
  BY DEF RemoveAt
<1> HIDE DEF low, high
<1> DEFINE whole == low \o high
<1>5. whole \in Seq(S) /\ Len(whole) = Len(q) - 1
  <2>1. whole \in Seq(S) /\ Len(whole) = Len(low) + Len(high)
    BY <1>2, <1>3, ConcatProperties
  <2> HIDE DEF whole
  <2> QED  BY <1>1, <1>2, <1>3, <2>1
<1>6. ASSUME NEW j \in 1..(Len(q) - 1) PROVE whole[j] = IF j < i THEN q[j] ELSE q[j + 1]
  <2>1. CASE j < i
    BY <1>1, <1>2, <1>3, <2>1
  <2>2. CASE j >= i
    <3>1. j - (i - 1) \in 1..(Len(q) - i) /\ whole[j] = high[j - (i - 1)]
      BY <1>1, <1>2, <1>3, <2>2
    <3>2. high[j - (i - 1)] = q[i + (j - (i - 1))]
      BY <1>3, <3>1
    <3> QED  BY <1>1, <2>2, <3>1, <3>2
  <2>3. j < i \/ j >= i
    BY <1>1
  <2> QED  BY <2>1, <2>2, <2>3, Zenon
<1> QED  BY <1>4, <1>5, <1>6

-----------------------------------------------------------------------------
(* NatMetrics *)

\* The providers stand by priority, each name once.
ProviderInv == providers \in Seq(Provider) /\ ProvidersSorted

LEMMA RegisterStep == ASSUME ProviderInv, NEW p \in Provider, RegisterProvider(p) PROVE ProviderInv'
<1> USE DEF ProviderInv, ProvidersSorted
<1> DEFINE behind == {i \in DOMAIN providers : providers[i].priority > p.priority}
           pos == IF behind = {} THEN Len(providers) + 1
                  ELSE CHOOSE i \in behind : \A j \in behind : i <= j
<1>0. \A i \in DOMAIN providers : providers[i] \in Provider /\ providers[i].priority \in Nat
  BY PrioritiesNat
<1>1. /\ pos \in 1..Len(providers) + 1
      /\ \A j \in DOMAIN providers : j < pos => providers[j].priority <= p.priority
      /\ \A j \in DOMAIN providers : j >= pos => providers[j].priority > p.priority
  <2>0. DOMAIN providers = 1..Len(providers) /\ Len(providers) \in Nat /\ p.priority \in Nat
    BY PrioritiesNat
  <2>1. CASE behind = {}
    BY <1>0, <2>0, <2>1
  <2>2. CASE behind # {}
    <3>1. behind \subseteq Nat
      BY <2>0
    <3>2. \E i \in behind : \A j \in behind : i <= j
      <4> HIDE DEF behind
      <4> QED  BY <2>2, <3>1, HasLeast
    <3>3. pos \in behind /\ \A j \in behind : pos <= j
      <4>1. pos = CHOOSE i \in behind : \A j \in behind : i <= j
        BY <2>2
      <4> HIDE DEF behind, pos
      <4> QED  BY <3>2, <4>1
    <3> HIDE DEF pos
    <3>4. pos \in DOMAIN providers /\ pos \in Nat /\ providers[pos].priority > p.priority
      BY <2>0, <3>3
    <3>5. ASSUME NEW j \in DOMAIN providers, j < pos PROVE providers[j].priority <= p.priority
      <4>1. j \notin behind
        BY <2>0, <3>3, <3>4, <3>5
      <4> QED  BY <1>0, <2>0, <4>1
    <3>6. ASSUME NEW j \in DOMAIN providers, j >= pos PROVE providers[j].priority > p.priority
      <4>1. j = pos \/ pos < j
        BY <2>0, <3>4, <3>6
      <4>2. pos < j => providers[pos].priority <= providers[j].priority
        BY <3>4
      <4> QED  BY <1>0, <2>0, <3>4, <4>1, <4>2
    <3> QED  BY <2>0, <3>4, <3>5, <3>6
  <2> QED  BY <2>1, <2>2
<1>2. providers' = InsertAt(providers, pos, p) /\ \A i \in DOMAIN providers : providers[i].name # p.name
  BY DEF RegisterProvider
<1> HIDE DEF pos
<1>3. /\ providers' \in Seq(Provider) /\ Len(providers') = Len(providers) + 1
      /\ \A j \in 1..Len(providers) + 1 :
           providers'[j] = IF j < pos THEN providers[j] ELSE IF j = pos THEN p ELSE providers[j - 1]
  <2>1. PICK q \in Seq(Provider) : q = providers
    OBVIOUS
  <2>2. pos \in 1..Len(q) + 1
    BY <1>1, <2>1
  <2> QED  BY <1>2, <2>1, <2>2, InsertShape
<1>4. ASSUME NEW i \in DOMAIN providers', NEW j \in DOMAIN providers', i < j
      PROVE  providers'[i].name # providers'[j].name /\ providers'[i].priority <= providers'[j].priority
  <2>0. /\ i \in 1..Len(providers) + 1 /\ j \in 1..Len(providers) + 1 /\ Len(providers) \in Nat
        /\ pos \in Nat /\ DOMAIN providers = 1..Len(providers) /\ p.priority \in Nat
    BY <1>1, <1>3, PrioritiesNat
  <2>1. providers'[i] = (IF i < pos THEN providers[i] ELSE IF i = pos THEN p ELSE providers[i - 1])
    BY <1>3, <2>0
  <2>2. providers'[j] = (IF j < pos THEN providers[j] ELSE IF j = pos THEN p ELSE providers[j - 1])
    BY <1>3, <2>0
  <2>3. CASE j < pos
    BY <1>1, <1>4, <2>0, <2>1, <2>2, <2>3
  <2>4. CASE j = pos
    <3>1. i < pos /\ i \in DOMAIN providers
      BY <1>1, <1>4, <2>0, <2>4
    <3> QED  BY <1>0, <1>1, <1>2, <2>0, <2>1, <2>2, <2>4, <3>1
  <2>5. CASE j > pos
    <3>1. j - 1 \in DOMAIN providers /\ j - 1 >= pos
      BY <1>1, <2>0, <2>5
    <3>2. CASE i = pos
      BY <1>0, <1>1, <1>2, <2>0, <2>1, <2>2, <2>5, <3>1, <3>2
    <3>3. CASE i < pos
      <4>1. i \in DOMAIN providers /\ i < j - 1
        BY <1>1, <2>0, <3>1, <3>3
      <4> QED  BY <2>0, <2>1, <2>2, <2>5, <3>1, <3>3, <4>1
    <3>4. CASE i > pos
      <4>1. i - 1 \in DOMAIN providers /\ i - 1 < j - 1
        BY <1>1, <1>4, <2>0, <3>4
      <4> QED  BY <2>0, <2>1, <2>2, <2>5, <3>1, <3>4, <4>1
    <3> QED  BY <2>0, <3>2, <3>3, <3>4
  <2> QED  BY <2>0, <2>3, <2>4, <2>5
<1> QED  BY <1>3, <1>4

LEMMA UnregisterStep == ASSUME ProviderInv, NEW p \in Provider, Unregister(p) PROVE ProviderInv'
<1> USE DEF ProviderInv, ProvidersSorted
<1>1. PICK k \in DOMAIN providers : providers' = RemoveAt(providers, k)
  BY DEF Unregister
<1>2. /\ providers' \in Seq(Provider) /\ Len(providers') = Len(providers) - 1
      /\ \A j \in 1..(Len(providers) - 1) :
           providers'[j] = IF j < k THEN providers[j] ELSE providers[j + 1]
  <2>1. PICK q \in Seq(Provider) : q = providers
    OBVIOUS
  <2>2. k \in 1..Len(q)
    BY <2>1
  <2> QED  BY <1>1, <2>1, <2>2, RemoveShape
<1>3. ASSUME NEW i \in DOMAIN providers', NEW j \in DOMAIN providers', i < j
      PROVE  providers'[i].name # providers'[j].name /\ providers'[i].priority <= providers'[j].priority
  <2>0. /\ i \in 1..(Len(providers) - 1) /\ j \in 1..(Len(providers) - 1) /\ Len(providers) \in Nat
        /\ k \in Nat /\ DOMAIN providers = 1..Len(providers)
    BY <1>2
  <2>1. providers'[i] = (IF i < k THEN providers[i] ELSE providers[i + 1])
    BY <1>2, <2>0
  <2>2. providers'[j] = (IF j < k THEN providers[j] ELSE providers[j + 1])
    BY <1>2, <2>0
  <2>3. CASE i < k
    BY <1>3, <2>0, <2>1, <2>2, <2>3
  <2>4. CASE i >= k
    BY <1>3, <2>0, <2>1, <2>2, <2>4
  <2> QED  BY <2>0, <2>3, <2>4
<1> QED  BY <1>2, <1>3

\* Only the registry changes the registry.
LEMMA ProviderStep == ProviderInv /\ [MXNext]_mxvars => ProviderInv'
<1>1. ASSUME UNCHANGED providers, ProviderInv PROVE ProviderInv'
  BY <1>1 DEF ProviderInv, ProvidersSorted
<1>2. MetricsNext \/ UNCHANGED mxvars => UNCHANGED providers
  BY DEF mxvars, MetricsNext, CountMapping, RecordLatency, RecordRecent, CountCheck, CountReached,
         SumLatency, SumChecks, SumReached, SumCounts, SumStep
<1> QED  BY <1>1, <1>2, RegisterStep, UnregisterStep DEF MXNext, ProvidersNext

\* The counters, the window, and which of its records the recorder with the lock owes.
Owing(at) == \E r \in DOMAIN Recorder : recording[r] = at
Cap(n)  == IF n < MaxSamples THEN n ELSE MaxSamples
Room(n) == IF n < MaxOperations THEN n ELSE MaxOperations
Millis == {Recorder[r].ms : r \in DOMAIN Recorder}

MetricInv ==
  /\ recording \in [DOMAIN Recorder -> {"idle", "latency", "recent", "done"}]
  /\ okCount \in Nat /\ badCount \in Nat
  /\ samples \in Seq(Millis) /\ recent \in Seq(DOMAIN Recorder)
  /\ \A r \in DOMAIN Recorder : recording[r] \in {"latency", "recent"} <=> countLock = {r}
  /\ countLock = {} \/ \E r \in DOMAIN Recorder : countLock = {r}
  /\ Owing("latency") => okCount + badCount > 0
  /\ Owing("recent") => okCount + badCount > 0
  /\ Len(samples) = Cap(IF Owing("latency") THEN okCount + badCount - 1 ELSE okCount + badCount)
  /\ Len(recent) = Room(IF countLock # {} THEN okCount + badCount - 1 ELSE okCount + badCount)

\* A summary on its way, and one that is done.
SummaryInv ==
  /\ \A s \in Summary : DOMAIN summing[s] = DOMAIN NoSummary /\ Len(summing[s].samples) \in Nat
  /\ DOMAIN summing = Summary
  /\ \A s \in Summary : summing[s].at \in {"checks", "reached", "counts"} =>
       Len(summing[s].samples) <= okCount + badCount
  /\ SummaryCovers

\* A window after one more sample.
LEMMA WindowShape ==
  ASSUME NEW S, NEW q \in Seq(S), NEW e \in S, NEW n \in Nat, Len(q) = Cap(n)
  PROVE  LET kept == IF Len(q) >= MaxSamples THEN Tail(q) ELSE q IN
         Append(kept, e) \in Seq(S) /\ Len(Append(kept, e)) = Cap(n + 1)
<1> USE SamplesNat
<1>1. Len(q) \in Nat /\ (Len(q) >= MaxSamples => q # <<>>)
  BY EmptySeq, LenProperties
<1>2. q # <<>> => Tail(q) \in Seq(S) /\ Len(Tail(q)) = Len(q) - 1
  BY HeadTailProperties
<1>3. \A z \in Seq(S) : Append(z, e) \in Seq(S) /\ Append(z, e) # <<>> /\ Len(Append(z, e)) = Len(z) + 1
  BY AppendProperties
<1> QED  BY <1>1, <1>2, <1>3 DEF Cap

Trimmed(q) == IF Len(q) > MaxOperations THEN Tail(q) ELSE q

LEMMA RecentShape ==
  ASSUME NEW S, NEW q \in Seq(S), NEW e \in S, NEW n \in Nat, Len(q) = Room(n)
  PROVE  Trimmed(Append(q, e)) \in Seq(S) /\ Len(Trimmed(Append(q, e))) = Room(n + 1)
<1> USE SamplesNat
<1>1. Len(q) \in Nat
  BY LenProperties
<1>2. PICK z \in Seq(S) : z = Append(q, e) /\ z # <<>> /\ Len(z) = Len(q) + 1
  BY AppendProperties
<1>3. Tail(z) \in Seq(S) /\ Len(Tail(z)) = Len(z) - 1
  BY <1>2, HeadTailProperties
<1>4. Trimmed(z) \in Seq(S) /\ Len(Trimmed(z)) = Room(n + 1)
  BY <1>1, <1>2, <1>3 DEF Room, Trimmed
<1> QED  BY <1>2, <1>4

\* What a window that took one more entry shows: the entry, then what was there before.
Pushed(z, q, e) ==
  /\ Len(z) > 0 /\ Len(z) <= Len(q) + 1 /\ z[Len(z)] = e
  /\ \A j \in Nat : j + 1 < Len(z) => z[Len(z) - (j + 1)] = q[Len(q) - j]

LEMMA AppendPushes ==
  ASSUME NEW S, NEW q \in Seq(S), NEW e \in S
  PROVE  Pushed(Append(q, e), q, e)
<1>1. Len(q) \in Nat
  BY LenProperties
<1>2. PICK z \in Seq(S) : z = Append(q, e) /\ Len(z) = Len(q) + 1 /\ z[Len(q) + 1] = e
                         /\ \A i \in 1..Len(q) : z[i] = q[i]
  <2>1. /\ Append(q, e) \in Seq(S)
        /\ Append(q, e) # << >>
        /\ Len(Append(q, e)) = Len(q)+1
        /\ \A i \in 1.. Len(q) : Append(q, e)[i] = q[i]
        /\ Append(q, e)[Len(q)+1] = e
    BY AppendProperties
  <2> QED  BY <2>1, Zenon
<1>3. ASSUME NEW j \in Nat, j + 1 < Len(z)
      PROVE  z[Len(z) - (j + 1)] = q[Len(q) - j]
  <2>1. Len(q) - j \in 1..Len(q) /\ Len(z) - (j + 1) = Len(q) - j
    BY <1>1, <1>2, <1>3
  <2> QED  BY <1>2, <2>1
<1>4. Len(z) > 0 /\ Len(z) <= Len(q) + 1 /\ z[Len(z)] = e
  BY <1>1, <1>2
<1>5. Pushed(z, q, e)
  BY <1>3, <1>4 DEF Pushed
<1> QED  BY <1>2, <1>5

\* Dropping the oldest of more than one entries, before or after, changes none of this.
LEMMA TailPushes ==
  ASSUME NEW S, NEW z \in Seq(S), NEW q \in Seq(S), NEW e \in S, Pushed(z, q, e), Len(z) > 1
  PROVE  Pushed(Tail(z), q, e)
<1>1. Len(z) \in Nat /\ Len(q) \in Nat /\ z # <<>>
  BY LenProperties, EmptySeq
<1>2. PICK y \in Seq(S) : y = Tail(z) /\ Len(y) = Len(z) - 1 /\ \A i \in 1..Len(y) : y[i] = z[i + 1]
  BY <1>1, HeadTailProperties
<1>3. ASSUME NEW j \in Nat, j + 1 < Len(y)
      PROVE  y[Len(y) - (j + 1)] = q[Len(q) - j]
  <2>1. /\ Len(y) - (j + 1) \in 1..Len(y) /\ (Len(y) - (j + 1)) + 1 = Len(z) - (j + 1)
        /\ j + 1 < Len(z)
    BY <1>1, <1>2, <1>3
  <2> QED  BY <1>2, <2>1 DEF Pushed
<1>4. y[Len(y)] = e
  <2>1. Len(y) \in 1..Len(y) /\ Len(y) + 1 = Len(z)
    BY <1>1, <1>2
  <2> QED  BY <1>2, <2>1 DEF Pushed
<1>5. Len(y) > 0 /\ Len(y) <= Len(q) + 1
  BY <1>1, <1>2 DEF Pushed
<1>6. Pushed(y, q, e)
  BY <1>3, <1>4, <1>5 DEF Pushed
<1> QED  BY <1>2, <1>6

\* The window of the latencies makes room before it takes the new one.
LEMMA WindowPushes ==
  ASSUME NEW S, NEW q \in Seq(S), NEW e \in S, q # <<>>
  PROVE  Pushed(Append(Tail(q), e), q, e)
<1>1. PICK t \in Seq(S) : t = Tail(q) /\ Len(t) = Len(q) - 1 /\ \A i \in 1..Len(t) : t[i] = q[i + 1]
  BY HeadTailProperties
<1>2. Len(q) \in Nat /\ Len(t) \in Nat
  BY LenProperties
<1>3. PICK z \in Seq(S) : z = Append(t, e) /\ Pushed(z, t, e)
  BY AppendPushes, AppendProperties
<1>4. ASSUME NEW j \in Nat, j + 1 < Len(z)
      PROVE  z[Len(z) - (j + 1)] = q[Len(q) - j]
  <2>1. z[Len(z) - (j + 1)] = t[Len(t) - j] /\ Len(z) <= Len(t) + 1
    BY <1>3, <1>4 DEF Pushed
  <2>2. Len(z) \in Nat
    BY <1>3, LenProperties
  <2>3. Len(t) - j \in 1..Len(t) /\ (Len(t) - j) + 1 = Len(q) - j
    BY <1>1, <1>2, <1>4, <2>1, <2>2
  <2> QED  BY <1>1, <2>1, <2>3
<1>5. Len(z) > 0 /\ Len(z) <= Len(q) + 1 /\ z[Len(z)] = e
  <2>1. Len(z) \in Nat
    BY <1>3, LenProperties
  <2>2. Len(z) > 0 /\ Len(z) <= Len(t) + 1 /\ z[Len(z)] = e
    BY <1>3 DEF Pushed
  <2>3. Len(t) = Len(q) - 1
    BY <1>1
  <2> QED  BY <1>2, <2>1, <2>2, <2>3
<1>6. Pushed(z, q, e)
  BY <1>4, <1>5 DEF Pushed
<1> QED  BY <1>1, <1>3, <1>6

\* The two windows end with the same operations; while a recorder stands between the
\* two, the latencies are one ahead.
InStep(ahead) ==
  \A i \in Nat : i < Len(recent) /\ i + ahead < Len(samples) =>
    samples[Len(samples) - (i + ahead)] = Recorder[recent[Len(recent) - i]].ms

AlignInv ==
  /\ ~ Owing("recent") => InStep(0)
  /\ \A r \in DOMAIN Recorder : recording[r] = "recent" =>
       InStep(1) /\ Len(samples) > 0 /\ samples[Len(samples)] = Recorder[r].ms

LEMMA AlignStep ==
  ASSUME MetricInv, AlignInv, NEW r \in DOMAIN Recorder,
         CountMapping(r) \/ RecordLatency(r) \/ RecordRecent(r)
  PROVE  AlignInv'
<1> USE SamplesNat DEF MetricInv
<1>0. Len(samples) \in Nat /\ Len(recent) \in Nat /\ Recorder[r].ms \in Millis
  BY LenProperties DEF Millis
<1>1. CASE CountMapping(r)
  <2>1. /\ countLock = {} /\ recording' = [recording EXCEPT ![r] = "latency"]
        /\ UNCHANGED <<samples, recent>>
    BY <1>1 DEF CountMapping
  <2>2. \A t \in DOMAIN Recorder : recording[t] # "recent" /\ recording'[t] # "recent"
    BY <2>1
  <2>3. InStep(0)
    BY <2>2 DEF AlignInv, Owing
  <2>4. InStep(0)'
    BY <2>1, <2>3 DEF InStep
  <2> QED  BY <2>2, <2>4 DEF AlignInv
<1>2. CASE RecordLatency(r)
  <2>1. /\ recording[r] = "latency" /\ recording' = [recording EXCEPT ![r] = "recent"]
        /\ samples' = Append(IF Len(samples) >= MaxSamples THEN Tail(samples) ELSE samples, Recorder[r].ms)
        /\ UNCHANGED recent
    BY <1>2 DEF RecordLatency
  <2>2. \A t \in DOMAIN Recorder : t # r => recording[t] # "recent" /\ recording'[t] # "recent"
    BY <2>1
  <2>3. InStep(0) /\ recording'[r] = "recent"
    BY <2>1, <2>2 DEF AlignInv, Owing
  <2>4. PICK q \in Seq(Millis), e \in Millis : q = samples /\ e = Recorder[r].ms
    BY <1>0
  <2>5. PICK z : z = samples' /\ Pushed(z, q, e) /\ Len(z) \in Nat
    <3>1. CASE Len(samples) >= MaxSamples
      <4>1. q # <<>> /\ Tail(q) \in Seq(Millis)
        BY <1>0, <2>4, <3>1, EmptySeq, HeadTailProperties
      <4>2. Append(Tail(q), e) \in Seq(Millis) /\ Pushed(Append(Tail(q), e), q, e)
        BY <2>4, <4>1, WindowPushes, AppendProperties
      <4> QED  BY <2>1, <2>4, <3>1, <4>2, LenProperties
    <3>2. CASE ~ (Len(samples) >= MaxSamples)
      <4>1. Append(q, e) \in Seq(Millis) /\ Pushed(Append(q, e), q, e)
        BY <2>4, AppendPushes, AppendProperties
      <4> QED  BY <2>1, <2>4, <3>2, <4>1, LenProperties
    <3> QED  BY <3>1, <3>2
  <2>6. InStep(1)'
    <3> SUFFICES ASSUME NEW i \in Nat, i < Len(recent), i + 1 < Len(z)
                 PROVE  z[Len(z) - (i + 1)] = Recorder[recent[Len(recent) - i]].ms
      BY <2>1, <2>5 DEF InStep
    <3>1. z[Len(z) - (i + 1)] = q[Len(q) - i] /\ Len(z) <= Len(q) + 1
      BY <2>5 DEF Pushed
    <3>2. i + 0 < Len(samples) /\ Len(samples) - (i + 0) = Len(samples) - i
      BY <1>0, <2>4, <2>5, <3>1
    <3>3. samples[Len(samples) - i] = Recorder[recent[Len(recent) - i]].ms
      BY <2>3, <3>2 DEF InStep
    <3> QED  BY <2>4, <3>1, <3>3
  <2>7. Len(samples') > 0 /\ samples'[Len(samples')] = Recorder[r].ms
    BY <2>4, <2>5 DEF Pushed
  <2>8. Owing("recent")'
    BY <2>3 DEF Owing
  <2> QED  BY <2>2, <2>6, <2>7, <2>8 DEF AlignInv
<1>3. CASE RecordRecent(r)
  <2>1. /\ recording[r] = "recent" /\ recording' = [recording EXCEPT ![r] = "done"]
        /\ recent' = (LET all == Append(recent, r) IN IF Len(all) > MaxOperations THEN Tail(all) ELSE all)
        /\ UNCHANGED samples
    BY <1>3 DEF RecordRecent
  <2>2. \A t \in DOMAIN Recorder : recording'[t] # "recent"
    BY <2>1
  <2>3. InStep(1) /\ Len(samples) > 0 /\ samples[Len(samples)] = Recorder[r].ms
    BY <2>1 DEF AlignInv
  <2>4. PICK q \in Seq(DOMAIN Recorder) : q = recent
    OBVIOUS
  <2>5. PICK z : z = recent' /\ Pushed(z, q, r) /\ Len(z) \in Nat
    <3>1. PICK y \in Seq(DOMAIN Recorder) : y = Append(q, r) /\ Pushed(y, q, r)
      BY AppendPushes, AppendProperties
    <3>2. recent' = IF Len(y) > MaxOperations THEN Tail(y) ELSE y
      BY <2>1, <2>4, <3>1
    <3>3. Len(y) \in Nat
      BY <3>1, LenProperties
    <3>4. CASE Len(y) > MaxOperations
      <4>1. Len(y) > 1 /\ y # <<>>
        BY <3>3, <3>4, EmptySeq
      <4>2. Tail(y) \in Seq(DOMAIN Recorder) /\ Pushed(Tail(y), q, r)
        BY <2>4, <3>1, <4>1, TailPushes, HeadTailProperties
      <4> QED  BY <3>2, <3>4, <4>2, LenProperties
    <3>5. CASE ~ (Len(y) > MaxOperations)
      BY <3>1, <3>2, <3>3, <3>5
    <3> QED  BY <3>4, <3>5
  <2>6. InStep(0)'
    <3> SUFFICES ASSUME NEW i \in Nat, i < Len(z), i + 0 < Len(samples)
                 PROVE  samples[Len(samples) - (i + 0)] = Recorder[z[Len(z) - i]].ms
      BY <2>1, <2>5 DEF InStep
    <3>0. i + 0 = i
      OBVIOUS
    <3> SUFFICES samples[Len(samples) - i] = Recorder[z[Len(z) - i]].ms
      BY <3>0
    <3>1. CASE i = 0
      BY <1>0, <2>3, <2>5, <3>0, <3>1 DEF Pushed
    <3>2. CASE i # 0
      <4>1. PICK j \in Nat : i = j + 1
        BY <3>2
      <4>2. z[Len(z) - (j + 1)] = q[Len(q) - j] /\ Len(z) <= Len(q) + 1
        BY <2>5, <4>1 DEF Pushed
      <4>3. j < Len(recent) /\ j + 1 < Len(samples)
        BY <1>0, <2>4, <2>5, <3>0, <4>1, <4>2
      <4>4. samples[Len(samples) - (j + 1)] = Recorder[recent[Len(recent) - j]].ms
        BY <2>3, <4>3 DEF InStep
      <4> QED  BY <2>4, <4>1, <4>2, <4>4
    <3> QED  BY <3>1, <3>2
  <2> QED  BY <2>2, <2>6 DEF AlignInv
<1> QED  BY <1>1, <1>2, <1>3

LEMMA AlignMetricStep == MetricInv /\ AlignInv /\ [MXNext]_mxvars => AlignInv'
<1>1. ASSUME UNCHANGED <<recording, samples, recent>>, AlignInv PROVE AlignInv'
  BY <1>1 DEF AlignInv, Owing, InStep
<1>2. ASSUME NEW p \in Provider, RegisterProvider(p) \/ Unregister(p)
      PROVE  UNCHANGED <<recording, samples, recent>>
  BY <1>2 DEF RegisterProvider, Unregister
<1>3. ASSUME NEW c \in DOMAIN Checker, CountCheck(c) \/ CountReached(c)
      PROVE  UNCHANGED <<recording, samples, recent>>
  BY <1>3 DEF CountCheck, CountReached
<1>4. ASSUME NEW s \in Summary, SumLatency(s) \/ SumChecks(s) \/ SumReached(s) \/ SumCounts(s)
      PROVE  UNCHANGED <<recording, samples, recent>>
  BY <1>4 DEF SumLatency, SumChecks, SumReached, SumCounts, SumStep
<1>5. CASE UNCHANGED mxvars
  BY <1>1, <1>5 DEF mxvars
<1> QED  BY <1>1, <1>2, <1>3, <1>4, <1>5, AlignStep DEF MXNext, MetricsNext, ProvidersNext

\* record_mapping() pays what it owes one by one, and holds the lock meanwhile.
LEMMA RecordStep ==
  ASSUME MetricInv, NEW r \in DOMAIN Recorder, CountMapping(r) \/ RecordLatency(r) \/ RecordRecent(r)
  PROVE  MetricInv'
<1> USE SamplesNat DEF MetricInv
<1> DEFINE n == okCount + badCount
<1>0. n \in Nat /\ Recorder[r].ms \in Millis
  BY DEF Millis
<1>1. CASE CountMapping(r)
  <2>1. /\ countLock = {} /\ countLock' = {r} /\ recording' = [recording EXCEPT ![r] = "latency"]
        /\ okCount' \in Nat /\ badCount' \in Nat /\ okCount' + badCount' = n + 1
        /\ UNCHANGED <<samples, recent>>
    BY <1>1 DEF CountMapping
  <2>2. \A t \in DOMAIN Recorder : recording[t] \notin {"latency", "recent"}
    BY <2>1
  <2>3. \A t \in DOMAIN Recorder : recording'[t] = IF t = r THEN "latency" ELSE recording[t]
    BY <2>1
  <2>4. ~ Owing("latency") /\ Owing("latency")' /\ ~ Owing("recent")'
    BY <2>2, <2>3 DEF Owing
  <2>5. Len(samples) = Cap(n) /\ Len(recent) = Room(n)
    BY <2>1, <2>4
  <2>6. \A t \in DOMAIN Recorder : recording'[t] \in {"latency", "recent"} <=> countLock' = {t}
    BY <2>1, <2>2, <2>3
  <2>7. okCount' + badCount' > 0 /\ okCount' + badCount' - 1 = n
    <3>1. PICK ko \in Nat, kb \in Nat : okCount' = ko /\ badCount' = kb
      BY <2>1
    <3> HIDE DEF MetricInv
    <3> QED  BY <1>0, <2>1, <3>1
  <2>8. Len(samples') = Cap(okCount' + badCount' - 1) /\ Len(recent') = Room(okCount' + badCount' - 1)
    <3> HIDE DEF MetricInv, n
    <3> QED  BY <2>1, <2>5, <2>7, Zenon
  <2> QED  BY <2>1, <2>4, <2>6, <2>7, <2>8
<1>2. CASE RecordLatency(r)
  <2>1. /\ recording[r] = "latency" /\ recording' = [recording EXCEPT ![r] = "recent"]
        /\ samples' = Append(IF Len(samples) >= MaxSamples THEN Tail(samples) ELSE samples, Recorder[r].ms)
        /\ UNCHANGED <<okCount, badCount, countLock, recent>>
    BY <1>2 DEF RecordLatency
  <2>2. countLock = {r} /\ Owing("latency") /\ n > 0
    BY <2>1 DEF Owing
  <2>3. \A t \in DOMAIN Recorder : recording'[t] = IF t = r THEN "recent" ELSE recording[t]
    BY <2>1
  <2>4. \A t \in DOMAIN Recorder : t # r => recording[t] \notin {"latency", "recent"}
    BY <2>2
  <2>5. ~ Owing("latency")' /\ Owing("recent")'
    BY <2>3, <2>4 DEF Owing
  <2>6. samples' \in Seq(Millis) /\ Len(samples') = Cap(n)
    <3>1. PICK e \in Millis, k \in Nat : e = Recorder[r].ms /\ k = n - 1
      BY <1>0, <2>2
    <3>2. samples \in Seq(Millis) /\ Len(samples) = Cap(k) /\ k + 1 = n
      BY <1>0, <2>2, <3>1
    <3>3. Append(IF Len(samples) >= MaxSamples THEN Tail(samples) ELSE samples, e) \in Seq(Millis)
          /\ Len(Append(IF Len(samples) >= MaxSamples THEN Tail(samples) ELSE samples, e)) = Cap(k + 1)
      BY <3>2, WindowShape
    <3> QED  BY <2>1, <3>1, <3>2, <3>3
  <2>7. \A t \in DOMAIN Recorder : recording'[t] \in {"latency", "recent"} <=> countLock' = {t}
    BY <2>1, <2>2, <2>3, <2>4
  <2> QED  BY <2>1, <2>2, <2>5, <2>6, <2>7
<1>3. CASE RecordRecent(r)
  <2>1. /\ recording[r] = "recent" /\ recording' = [recording EXCEPT ![r] = "done"] /\ countLock' = {}
        /\ recent' = (LET all == Append(recent, r) IN IF Len(all) > MaxOperations THEN Tail(all) ELSE all)
        /\ UNCHANGED <<okCount, badCount, samples>>
    BY <1>3 DEF RecordRecent
  <2>2. countLock = {r} /\ Owing("recent") /\ n > 0
    BY <2>1 DEF Owing
  <2>3. \A t \in DOMAIN Recorder : recording'[t] = IF t = r THEN "done" ELSE recording[t]
    BY <2>1
  <2>4. \A t \in DOMAIN Recorder : t # r => recording[t] \notin {"latency", "recent"}
    BY <2>2
  <2>5. ~ Owing("latency")' /\ ~ Owing("recent")' /\ ~ Owing("latency")
    BY <2>1, <2>3, <2>4 DEF Owing
  <2>6. recent' \in Seq(DOMAIN Recorder) /\ Len(recent') = Room(n)
    <3>1. PICK k \in Nat : k = n - 1
      BY <1>0, <2>2
    <3>2. recent \in Seq(DOMAIN Recorder) /\ Len(recent) = Room(k) /\ k + 1 = n
      BY <1>0, <2>2, <3>1
    <3>3. PICK q \in Seq(DOMAIN Recorder) : q = recent
      BY <3>2
    <3>4. recent' = Trimmed(Append(q, r))
      BY <2>1, <3>3 DEF Trimmed
    <3>5. Len(q) = Room(k)
      BY <3>2, <3>3
    <3>6. Trimmed(Append(q, r)) \in Seq(DOMAIN Recorder) /\ Len(Trimmed(Append(q, r))) = Room(k + 1)
      <4> HIDE DEF MetricInv
      <4> QED  BY <3>5, RecentShape
    <3> QED  BY <3>2, <3>4, <3>6
  <2>7. \A t \in DOMAIN Recorder : recording'[t] \in {"latency", "recent"} <=> countLock' = {t}
    BY <2>1, <2>3, <2>4
  <2> QED  BY <2>1, <2>5, <2>6, <2>7
<1> QED  BY <1>1, <1>2, <1>3

LEMMA MetricStep == MetricInv /\ [MXNext]_mxvars => MetricInv'
<1>1. ASSUME UNCHANGED <<recording, okCount, badCount, countLock, samples, recent>>, MetricInv
      PROVE  MetricInv'
  BY <1>1 DEF MetricInv, Owing
<1>2. ASSUME NEW p \in Provider, RegisterProvider(p) \/ Unregister(p)
      PROVE  UNCHANGED <<recording, okCount, badCount, countLock, samples, recent>>
  BY <1>2 DEF RegisterProvider, Unregister
<1>3. ASSUME NEW c \in DOMAIN Checker, CountCheck(c) \/ CountReached(c)
      PROVE  UNCHANGED <<recording, okCount, badCount, countLock, samples, recent>>
  BY <1>3 DEF CountCheck, CountReached
<1>4. ASSUME NEW s \in Summary, SumLatency(s) \/ SumChecks(s) \/ SumReached(s) \/ SumCounts(s)
      PROVE  UNCHANGED <<recording, okCount, badCount, countLock, samples, recent>>
  BY <1>4 DEF SumLatency, SumChecks, SumReached, SumCounts, SumStep
<1>5. CASE UNCHANGED mxvars
  BY <1>1, <1>5 DEF mxvars
<1> QED  BY <1>1, <1>2, <1>3, <1>4, <1>5, RecordStep DEF MXNext, MetricsNext, ProvidersNext

\* The counters only grow, so what covered the samples when they were read still does.
LEMMA SummaryStep == ASSUME MetricInv, SummaryInv, [MXNext]_mxvars PROVE SummaryInv'
<1> USE DEF SummaryInv, SummaryCovers, NoSummary
<1> DEFINE n == okCount + badCount
<1>0. okCount \in Nat /\ badCount \in Nat /\ Len(samples) \in Nat /\ Len(samples) <= okCount + badCount
  <2>1. n \in Nat /\ Len(samples) = Cap(IF Owing("latency") THEN n - 1 ELSE n) /\ (Owing("latency") => n > 0)
    BY DEF MetricInv
  <2>2. Len(samples) <= n
    <3> HIDE DEF n
    <3>1. \A k \in Nat : Cap(k) <= k
      BY SamplesNat DEF Cap
    <3> QED  BY <2>1, <3>1
  <2> QED  BY <2>2 DEF MetricInv
<1>1. ASSUME UNCHANGED summing, okCount' \in Nat, badCount' \in Nat, okCount' + badCount' >= n
      PROVE  SummaryInv'
  <2>1. okCount' + badCount' >= n /\ okCount' + badCount' \in Nat /\ n \in Nat
    BY <1>0, <1>1
  <2>2. \A s \in Summary : Len(summing[s].samples) \in Nat
    OBVIOUS
  <2>3. \A s \in Summary : summing[s].at \in {"checks", "reached", "counts"} => Len(summing[s].samples) <= n
    OBVIOUS
  <2>4. ASSUME NEW s \in Summary, summing[s].at \in {"checks", "reached", "counts"}
        PROVE  Len(summing[s].samples) <= okCount' + badCount'
    <3> DEFINE len == Len(summing[s].samples)
               late == okCount' + badCount'
    <3>1. len \in Nat /\ len <= n
      BY <2>2, <2>3, <2>4
    <3> HIDE DEF n, len, late, SummaryInv
    <3>2. late \in Nat /\ n \in Nat /\ late >= n
      BY <2>1 DEF late
    <3>3. len <= late
      BY <3>1, <3>2
    <3> QED  BY <3>3 DEF len, late
  <2> QED  BY <1>1, <2>2, <2>4
<1>2. ASSUME NEW s \in Summary, NEW from, NEW to \in {"checks", "reached", "counts", "done"}, NEW taken,
             SumStep(s, from, to, taken), DOMAIN taken = DOMAIN NoSummary,
             Len(taken.samples) \in Nat,
             to # "done" => Len(taken.samples) <= n,
             to = "done" => Len(taken.samples) <= taken.ok + taken.bad
      PROVE  SummaryInv'
  <2>1. summing' = [summing EXCEPT ![s] = [taken EXCEPT !.at = to]] /\ UNCHANGED <<okCount, badCount>>
    BY <1>2 DEF SumStep
  <2> DEFINE new == [taken EXCEPT !.at = to]
  <2>2. new.at = to /\ new.samples = taken.samples /\ new.ok = taken.ok /\ new.bad = taken.bad
        /\ DOMAIN new = DOMAIN NoSummary
    BY <1>2
  <2>3. summing' = [summing EXCEPT ![s] = new]
    BY <2>1
  <2> HIDE DEF new
  <2>4. summing'[s] = new /\ \A t \in Summary : t # s => summing'[t] = summing[t]
    BY <2>3
  <2>5. DOMAIN summing' = Summary
    BY <2>3
  <2> QED  BY <1>2, <2>1, <2>2, <2>4, <2>5
<1>3. ASSUME NEW s \in Summary, SumLatency(s) PROVE SummaryInv'
  <2> DEFINE taken == [summing[s] EXCEPT !.samples = samples]
  <2>1. DOMAIN taken = DOMAIN NoSummary /\ taken.samples = samples
    OBVIOUS
  <2>2. SumStep(s, "idle", "checks", taken)
    BY <1>3 DEF SumLatency
  <2> HIDE DEF taken
  <2> QED  BY <1>0, <1>2, <2>1, <2>2
<1>4. ASSUME NEW s \in Summary, SumChecks(s) PROVE SummaryInv'
  <2> DEFINE taken == [summing[s] EXCEPT !.checks = checks]
  <2>1. DOMAIN taken = DOMAIN NoSummary /\ taken.samples = summing[s].samples
    OBVIOUS
  <2>2. SumStep(s, "checks", "reached", taken)
    BY <1>4 DEF SumChecks
  <2>3. Len(taken.samples) \in Nat /\ Len(taken.samples) <= n
    BY <2>1, <2>2 DEF SumStep
  <2> HIDE DEF taken
  <2> QED  BY <1>2, <2>1, <2>2, <2>3
<1>5. ASSUME NEW s \in Summary, SumReached(s) PROVE SummaryInv'
  <2> DEFINE taken == [summing[s] EXCEPT !.reached = reached]
  <2>1. DOMAIN taken = DOMAIN NoSummary /\ taken.samples = summing[s].samples
    OBVIOUS
  <2>2. SumStep(s, "reached", "counts", taken)
    BY <1>5 DEF SumReached
  <2>3. Len(taken.samples) \in Nat /\ Len(taken.samples) <= n
    BY <2>1, <2>2 DEF SumStep
  <2> HIDE DEF taken
  <2> QED  BY <1>2, <2>1, <2>2, <2>3
<1>6. ASSUME NEW s \in Summary, SumCounts(s) PROVE SummaryInv'
  <2> DEFINE taken == [summing[s] EXCEPT !.ok = okCount, !.bad = badCount]
  <2>1. DOMAIN taken = DOMAIN NoSummary /\ taken.samples = summing[s].samples
        /\ taken.ok = okCount /\ taken.bad = badCount
    OBVIOUS
  <2>2. SumStep(s, "counts", "done", taken)
    BY <1>6 DEF SumCounts
  <2>3. Len(taken.samples) \in Nat /\ Len(taken.samples) <= taken.ok + taken.bad
    BY <2>1, <2>2 DEF SumStep
  <2> HIDE DEF taken
  <2> QED  BY <1>2, <2>1, <2>2, <2>3
<1>7. ASSUME NEW r \in DOMAIN Recorder, CountMapping(r) PROVE SummaryInv'
  <2>1. PICK ko \in Nat, kb \in Nat : okCount' = ko /\ badCount' = kb
    BY <1>0, <1>7 DEF CountMapping
  <2>2. ko + kb >= n
    BY <1>0, <1>7, <2>1 DEF CountMapping
  <2>3. okCount' + badCount' >= n
    BY <2>1, <2>2
  <2> QED  BY <1>1, <1>7, <2>1, <2>3 DEF CountMapping
<1>8. ASSUME UNCHANGED <<summing, okCount, badCount>> PROVE SummaryInv'
  BY <1>8
<1>9. ASSUME NEW r \in DOMAIN Recorder, RecordLatency(r) \/ RecordRecent(r) PROVE SummaryInv'
  BY <1>8, <1>9 DEF RecordLatency, RecordRecent
<1>10. ASSUME NEW c \in DOMAIN Checker, CountCheck(c) \/ CountReached(c) PROVE SummaryInv'
  BY <1>8, <1>10 DEF CountCheck, CountReached
<1>11. ASSUME NEW p \in Provider, RegisterProvider(p) \/ Unregister(p) PROVE SummaryInv'
  BY <1>8, <1>11 DEF RegisterProvider, Unregister
<1>12. CASE UNCHANGED mxvars
  BY <1>8, <1>12 DEF mxvars
<1> QED
  BY <1>3, <1>4, <1>5, <1>6, <1>7, <1>9, <1>10, <1>11, <1>12 DEF MXNext, MetricsNext, ProvidersNext

\* The pairs that SumOf counts.
Pairs(q) == UNION {{i} \X (1..q[i]) : i \in DOMAIN q}

LEMMA PairsShape ==
  ASSUME NEW q \in Seq(Nat)
  PROVE  \A x : x \in Pairs(q) <=> \E i \in 1..Len(q) : \E j \in 1..q[i] : x = <<i, j>>
<1>1. DOMAIN q = 1..Len(q)
  OBVIOUS
<1> QED  BY <1>1 DEF Pairs

\* A sample that is added raises the sum by its value.
LEMMA PairsAppended ==
  ASSUME NEW q \in Seq(Nat), NEW e \in Nat, IsFiniteSet(Pairs(q))
  PROVE  IsFiniteSet(Pairs(Append(q, e))) /\ SumOf(Append(q, e)) = SumOf(q) + e
<1> DEFINE n == Len(q)
           z == Append(q, e)
           New == {n + 1} \X (1..e)
<1>1. n \in Nat /\ \A i \in 1..n : q[i] \in Nat
  OBVIOUS
<1>2. z \in Seq(Nat) /\ Len(z) = n + 1 /\ z[n + 1] = e /\ \A i \in 1..n : z[i] = q[i]
  BY AppendProperties
<1> HIDE DEF z
<1>3. Pairs(z) = Pairs(q) \cup New
  <2>1. \A i : i \in 1..(n + 1) <=> i \in 1..n \/ i = n + 1
    BY <1>1
  <2>2. \A x : x \in Pairs(z) <=> \E i \in 1..(n + 1) : \E j \in 1..z[i] : x = <<i, j>>
    BY <1>2, PairsShape
  <2>3. \A x : x \in Pairs(q) <=> \E i \in 1..n : \E j \in 1..q[i] : x = <<i, j>>
    BY PairsShape
  <2>4. \A x : x \in New <=> \E j \in 1..e : x = <<n + 1, j>>
    OBVIOUS
  <2> HIDE DEF New
  <2>5. ASSUME NEW x \in Pairs(z) PROVE x \in Pairs(q) \/ x \in New
    <3>1. PICK i \in 1..(n + 1) : \E j \in 1..z[i] : x = <<i, j>>
      BY <2>2
    <3>2. CASE i \in 1..n
      BY <1>2, <2>3, <3>1, <3>2
    <3>3. CASE i = n + 1
      BY <1>2, <2>4, <3>1, <3>3
    <3> QED  BY <2>1, <3>2, <3>3
  <2>6. ASSUME NEW x \in Pairs(q) PROVE x \in Pairs(z)
    <3>1. PICK i \in 1..n : \E j \in 1..q[i] : x = <<i, j>>
      BY <2>3
    <3> QED  BY <1>2, <2>1, <2>2, <3>1
  <2>7. ASSUME NEW x \in New PROVE x \in Pairs(z)
    <3>1. PICK j \in 1..e : x = <<n + 1, j>>
      BY <2>4
    <3> QED  BY <1>2, <2>1, <2>2, <3>1
  <2> QED  BY <2>5, <2>6, <2>7
<1>4. Pairs(q) \cap New = {}
  <2>1. \A x \in Pairs(q) : x[1] # n + 1
    BY <1>1, PairsShape
  <2> QED  BY <2>1
<1>5. IsFiniteSet(New) /\ Cardinality(New) = e
  <2>1. IsFiniteSet({n + 1}) /\ Cardinality({n + 1}) = 1
    BY FS_Singleton
  <2>2. IsFiniteSet(1..e) /\ Cardinality(1..e) = e
    BY FS_Interval
  <2>3. IsFiniteSet(New) /\ Cardinality(New) = Cardinality({n + 1}) * Cardinality(1..e)
    BY <2>1, <2>2, FS_Product
  <2> QED  BY <2>1, <2>2, <2>3
<1> HIDE DEF New
<1>6. IsFiniteSet(Pairs(z)) /\ Cardinality(Pairs(z)) = Cardinality(Pairs(q)) + e
  <2>1. Cardinality(Pairs(q)) \in Nat /\ Cardinality(Pairs(q) \cap New) = 0
    BY <1>4, FS_CardinalityType, FS_EmptySet
  <2>2. Cardinality(Pairs(q) \cup New) = Cardinality(Pairs(q)) + Cardinality(New) - Cardinality(Pairs(q) \cap New)
    BY <1>5, FS_Union
  <2>3. IsFiniteSet(Pairs(q) \cup New)
    BY <1>5, FS_Union
  <2>4. Cardinality(Pairs(z)) = Cardinality(Pairs(q)) + e
    BY <1>3, <1>5, <2>1, <2>2
  <2> QED  BY <1>3, <2>3, <2>4
<1> QED  BY <1>6 DEF SumOf, Pairs, z

\* A sample that leaves takes its value out of the sum.
LEMMA PairsShifted ==
  ASSUME NEW q \in Seq(Nat), q # <<>>, IsFiniteSet(Pairs(q))
  PROVE  /\ IsFiniteSet(Pairs(Tail(q))) /\ SumOf(Tail(q)) \in Nat /\ Head(q) \in Nat
         /\ SumOf(q) = SumOf(Tail(q)) + Head(q)
<1> DEFINE n == Len(q)
           z == Tail(q)
           Gone == {1} \X (1..q[1])
           Rest == {x \in Pairs(q) : x[1] # 1}
           f == [x \in Pairs(z) |-> <<x[1] + 1, x[2]>>]
<1>1. n \in Nat /\ n >= 1 /\ \A i \in 1..n : q[i] \in Nat
  BY EmptySeq
<1>2. /\ z \in Seq(Nat) /\ Len(z) = n - 1 /\ \A i \in 1..(n - 1) : z[i] = q[i + 1]
      /\ Head(q) = q[1]
  BY HeadTailProperties
<1> HIDE DEF z
<1>3. \A x : x \in Pairs(q) <=> \E i \in 1..n : \E j \in 1..q[i] : x = <<i, j>>
  BY PairsShape
<1>4. \A x : x \in Pairs(z) <=> \E i \in 1..(n - 1) : \E j \in 1..z[i] : x = <<i, j>>
  <2>1. \A x : x \in Pairs(z) <=> \E i \in 1..Len(z) : \E j \in 1..z[i] : x = <<i, j>>
    BY <1>2, PairsShape
  <2> QED  BY <1>2, <2>1
<1>5. \A x : x \in Gone <=> \E j \in 1..q[1] : x = <<1, j>>
  OBVIOUS
<1>6. Pairs(q) = Gone \cup Rest /\ Gone \cap Rest = {}
  <2>1. \A x \in Gone : x \in Pairs(q) /\ x[1] = 1
    BY <1>1, <1>3, <1>5
  <2>2. \A x \in Pairs(q) : x[1] = 1 => x \in Gone
    BY <1>1, <1>3, <1>5
  <2> HIDE DEF Gone
  <2> QED  BY <2>1, <2>2
<1>7. \A x \in Pairs(z) : f[x] \in Rest
  <2> SUFFICES ASSUME NEW i \in 1..(n - 1), NEW j \in 1..z[i] PROVE <<i + 1, j>> \in Rest
    BY <1>4
  <2>1. i + 1 \in 1..n /\ i + 1 # 1 /\ j \in 1..q[i + 1]
    BY <1>1, <1>2
  <2> QED  BY <1>3, <2>1
<1>8. \A x, y \in Pairs(z) : f[x] = f[y] => x = y
  <2> SUFFICES ASSUME NEW i \in 1..(n - 1), NEW j \in 1..z[i], NEW k \in 1..(n - 1), NEW l \in 1..z[k],
                      <<i + 1, j>> = <<k + 1, l>>
               PROVE  <<i, j>> = <<k, l>>
    BY <1>4
  <2> QED  BY <1>1
<1>9. \A y \in Rest : \E x \in Pairs(z) : f[x] = y
  <2> SUFFICES ASSUME NEW y \in Rest PROVE \E x \in Pairs(z) : f[x] = y
    OBVIOUS
  <2>a. PICK i \in 1..n : \E j \in 1..q[i] : y = <<i, j>>
    BY <1>3
  <2>b. PICK j \in 1..q[i] : y = <<i, j>>
    BY <2>a
  <2>0. i # 1
    BY <2>b
  <2>1. i - 1 \in 1..(n - 1) /\ (i - 1) + 1 = i
    BY <1>1, <2>0
  <2>2. j \in 1..z[i - 1]
    BY <1>2, <2>1
  <2>3. <<i - 1, j>> \in Pairs(z)
    BY <1>4, <2>1, <2>2
  <2>4. f[<<i - 1, j>>] = <<i, j>>
    BY <2>1, <2>3
  <2> QED  BY <2>b, <2>3, <2>4
<1>10. f \in [Pairs(z) -> Rest]
  BY <1>7
<1>11. IsFiniteSet(Rest) /\ Cardinality(Rest) \in Nat
  BY FS_Subset, FS_CardinalityType
<1> HIDE DEF f, Rest
<1>12. f \in Injection(Pairs(z), Rest) /\ f \in Surjection(Pairs(z), Rest)
  BY <1>8, <1>9, <1>10 DEF Injection, IsInjective, Surjection
<1>13. IsFiniteSet(Pairs(z)) /\ Cardinality(Pairs(z)) = Cardinality(Rest)
  BY <1>11, <1>12, FS_Injection
<1>14. IsFiniteSet(Gone) /\ Cardinality(Gone) = q[1]
  <2>1. IsFiniteSet({1}) /\ Cardinality({1}) = 1
    BY FS_Singleton
  <2>2. PICK m \in Nat : m = q[1]
    BY <1>1
  <2>3. IsFiniteSet(1..m) /\ Cardinality(1..m) = m
    BY FS_Interval
  <2>4. IsFiniteSet({1} \X (1..m)) /\ Cardinality({1} \X (1..m)) = Cardinality({1}) * Cardinality(1..m)
    BY <2>1, <2>3, FS_Product
  <2>5. Cardinality({1} \X (1..m)) = m
    BY <2>1, <2>3, <2>4
  <2> QED  BY <2>2, <2>4, <2>5
<1> HIDE DEF Gone
<1>15. Cardinality(Gone \cup Rest) = Cardinality(Gone) + Cardinality(Rest) - Cardinality(Gone \cap Rest)
  BY <1>11, <1>14, FS_Union
<1>16. Cardinality(Pairs(q)) = Cardinality(Pairs(z)) + q[1] /\ q[1] \in Nat
  <2>1. Cardinality(Gone \cap Rest) = 0 /\ q[1] \in Nat
    <3>1. Cardinality(Gone \cap Rest) = 0
      BY <1>6, FS_EmptySet
    <3> QED  BY <1>1, <3>1
  <2>2. Cardinality(Gone \cup Rest) = q[1] + Cardinality(Rest)
    BY <1>11, <1>14, <1>15, <2>1
  <2> QED  BY <1>6, <1>11, <1>13, <2>1, <2>2
<1> QED  BY <1>2, <1>11, <1>13, <1>16 DEF SumOf, Pairs, z

\* What sort_unstable() makes of a window.
LEMMA SortedShape ==
  ASSUME NEW q \in Seq(Nat)
  PROVE  /\ \A k \in 1..Len(q) : Sorted(q)[k] \in Nat /\ \E i \in 1..Len(q) : q[i] = Sorted(q)[k]
         /\ \A k, l \in 1..Len(q) : k <= l => Sorted(q)[k] <= Sorted(q)[l]
         /\ \A i \in 1..Len(q) : \E k \in 1..Len(q) : q[i] = Sorted(q)[k]
<1> DEFINE p == CHOOSE r \in Injection(DOMAIN q, DOMAIN q) :
                  \A k, l \in DOMAIN q : k < l => q[r[k]] <= q[r[l]]
<1>0. PICK n \in Nat : n = Len(q)
  OBVIOUS
<1>1. DOMAIN q = 1..n /\ \A i \in 1..n : q[i] \in Nat
  BY <1>0
<1>2. q \in [1..n -> Int]
  BY <1>1
<1>3. PICK r \in Injection(1..n, 1..n) : \A k, l \in 1..n : k < l =>
           q[r[k]] < q[r[l]] \/ (q[r[k]] = q[r[l]] /\ r[k] < r[l])
  BY <1>1, <1>2, Sortable
<1>4. \A k, l \in 1..n : k < l => q[r[k]] <= q[r[l]]
  <2>1. \A k \in 1..n : r[k] \in 1..n
    BY <1>0, <1>3, RankingOnto
  <2>2. \A k \in 1..n : q[r[k]] \in Nat
    BY <1>1, <2>1
  <2> QED  BY <1>3, <2>2
<1>5. p \in Injection(DOMAIN q, DOMAIN q) /\ \A k, l \in DOMAIN q : k < l => q[p[k]] <= q[p[l]]
  BY <1>1, <1>4
<1>6. Sorted(q) = [k \in 1..n |-> q[p[k]]]
  BY <1>1 DEF Sorted
<1> HIDE DEF p
<1>7. /\ \A k \in 1..n : p[k] \in 1..n
      /\ \A i \in 1..n : \E k \in 1..n : p[k] = i
  BY <1>0, <1>1, <1>5, RankingOnto
<1>8. \A k \in 1..n : Sorted(q)[k] = q[p[k]] /\ q[p[k]] \in Nat
  BY <1>1, <1>6, <1>7
<1>9. \A k, l \in 1..n : k <= l => Sorted(q)[k] <= Sorted(q)[l]
  <2> SUFFICES ASSUME NEW k \in 1..n, NEW l \in 1..n, k <= l PROVE q[p[k]] <= q[p[l]]
    BY <1>8
  <2>1. CASE k = l
    BY <1>8, <2>1
  <2>2. CASE k < l
    BY <1>1, <1>5, <2>2
  <2> QED  BY <1>1, <2>1, <2>2
<1>10. \A k \in 1..n : Sorted(q)[k] \in Nat /\ \E i \in 1..n : q[i] = Sorted(q)[k]
  BY <1>7, <1>8
<1>11. ASSUME NEW i \in 1..n PROVE \E k \in 1..n : q[i] = Sorted(q)[k]
  <2>1. PICK k \in 1..n : p[k] = i
    BY <1>7
  <2>2. Sorted(q)[k] = q[i]
    BY <1>8, <2>1
  <2> QED  BY <2>2
<1>12. 1..n = 1..Len(q)
  BY <1>0
<1> QED  BY <1>9, <1>10, <1>11, <1>12

\* At which place of the sorted window a percentile stands.
Place(n, p) == (IF (p * n) \div 100 < n THEN (p * n) \div 100 ELSE n - 1) + 1

LEMMA PlaceShape ==
  ASSUME NEW n \in Nat \ {0}
  PROVE  /\ Place(n, 50) \in 1..n /\ Place(n, 95) \in 1..n /\ Place(n, 99) \in 1..n
         /\ Place(n, 50) <= Place(n, 95) /\ Place(n, 95) <= Place(n, 99)
         /\ n < 20 => Place(n, 95) = n
BY DEF Place

LEMMA PercentileShape ==
  ASSUME NEW q \in Seq(Nat), q # <<>>
  PROVE  /\ \A p \in {50, 95, 99} : \E i \in DOMAIN q : q[i] = Percentile(q, p)
         /\ Percentile(q, 50) <= Percentile(q, 95) /\ Percentile(q, 95) <= Percentile(q, 99)
         /\ \A i \in DOMAIN q : Len(q) < 20 => q[i] <= Percentile(q, 95)
<1>1. PICK n \in Nat \ {0} : n = Len(q)
  BY EmptySeq
<1>2. PICK a \in 1..n, b \in 1..n, c \in 1..n :
        /\ a = Place(n, 50) /\ b = Place(n, 95) /\ c = Place(n, 99)
        /\ a <= b /\ b <= c /\ (n < 20 => b = n)
  BY <1>1, PlaceShape
<1>3. /\ Percentile(q, 50) = Sorted(q)[a] /\ Percentile(q, 95) = Sorted(q)[b]
      /\ Percentile(q, 99) = Sorted(q)[c]
  BY <1>1, <1>2 DEF Percentile, Place
<1>4. /\ \A k \in 1..n : Sorted(q)[k] \in Nat /\ \E i \in 1..n : q[i] = Sorted(q)[k]
      /\ \A k, l \in 1..n : k <= l => Sorted(q)[k] <= Sorted(q)[l]
      /\ \A i \in 1..n : \E k \in 1..n : q[i] = Sorted(q)[k]
  BY <1>1, SortedShape
<1>5. \A p \in {50, 95, 99} : \E i \in 1..n : q[i] = Percentile(q, p)
  <2>1. \E i \in 1..n : q[i] = Sorted(q)[a]
    BY <1>2, <1>4
  <2>2. \E i \in 1..n : q[i] = Sorted(q)[b]
    BY <1>2, <1>4
  <2>3. \E i \in 1..n : q[i] = Sorted(q)[c]
    BY <1>2, <1>4
  <2> QED  BY <1>3, <2>1, <2>2, <2>3
<1>6. Percentile(q, 50) <= Percentile(q, 95) /\ Percentile(q, 95) <= Percentile(q, 99)
  <2>1. Sorted(q)[a] <= Sorted(q)[b]
    BY <1>2, <1>4
  <2>2. Sorted(q)[b] <= Sorted(q)[c]
    BY <1>2, <1>4
  <2> QED  BY <1>3, <2>1, <2>2
<1>7. \A i \in 1..n : n < 20 => q[i] <= Percentile(q, 95)
  <2> SUFFICES ASSUME NEW i \in 1..n, n < 20 PROVE q[i] <= Sorted(q)[b]
    BY <1>3
  <2>1. PICK k \in 1..n : q[i] = Sorted(q)[k]
    BY <1>4
  <2>2. k <= b
    BY <1>1, <1>2, <2>1
  <2>3. Sorted(q)[k] <= Sorted(q)[b]
    BY <1>2, <1>4, <2>1, <2>2
  <2> QED  BY <2>1, <2>3
<1>8. DOMAIN q = 1..n
  BY <1>1
<1>9. \A i \in DOMAIN q : Len(q) < 20 => q[i] <= Percentile(q, 95)
  BY <1>1, <1>7, <1>8
<1>10. \A p \in {50, 95, 99} : \E i \in DOMAIN q : q[i] = Percentile(q, p)
  BY <1>5, <1>8
<1> QED  BY <1>6, <1>9, <1>10

LEMMA SeqOfMore ==
  ASSUME NEW S, NEW T, S \subseteq T, NEW q \in Seq(S)
  PROVE  q \in Seq(T)
<1>1. PICK n \in Nat : n = Len(q)
  OBVIOUS
<1>2. q \in [1..n -> S]
  BY <1>1
<1>3. q \in [1..n -> T]
  BY <1>2
<1> QED  BY <1>3

\* The sum belongs to the window as long as each sample that leaves is taken out of it.
LatencyInv == IsFiniteSet(Pairs(samples)) /\ sampleSum = SumOf(samples)

LEMMA WindowIsSafe == MetricInv /\ LatencyInv => WindowAddsUp
<1> SUFFICES ASSUME MetricInv, LatencyInv PROVE WindowAddsUp
  OBVIOUS
<1>1. samples \in Seq(Nat) /\ Len(samples) \in Nat /\ DOMAIN samples = 1..Len(samples)
  <2>1. Millis \subseteq Nat
    BY LatenciesNat DEF Millis
  <2>2. samples \in Seq(Millis)
    BY DEF MetricInv
  <2>3. samples \in Seq(Nat)
    BY <2>1, <2>2, SeqOfMore
  <2> QED  BY <2>3
<1>2. Len(samples) <= MaxSamples
  <2>1. PICK k \in Int : k = IF Owing("latency") THEN okCount + badCount - 1 ELSE okCount + badCount
    BY DEF MetricInv
  <2>2. Len(samples) = Cap(k)
    BY <2>1 DEF MetricInv
  <2>3. \A m \in Int : Cap(m) <= MaxSamples
    BY SamplesNat DEF Cap
  <2> QED  BY <2>2, <2>3
<1>3. ASSUME samples # <<>>
      PROVE  /\ \A p \in {50, 95, 99} : \E i \in DOMAIN samples : samples[i] = Percentile(samples, p)
             /\ Percentile(samples, 50) <= Percentile(samples, 95)
             /\ Percentile(samples, 95) <= Percentile(samples, 99)
             /\ \A i \in DOMAIN samples : Len(samples) < 20 => samples[i] <= Percentile(samples, 95)
  BY <1>1, <1>3, PercentileShape
<1> QED  BY <1>2, <1>3 DEF WindowAddsUp, LatencyInv

LEMMA LatencyStep == ASSUME MetricInv, LatencyInv, [MXNext]_mxvars PROVE LatencyInv'
<1>1. CASE UNCHANGED <<samples, sampleSum>>
  BY <1>1 DEF LatencyInv
<1>2. ASSUME NEW r \in DOMAIN Recorder, RecordLatency(r) PROVE LatencyInv'
  <2> DEFINE full == Len(samples) >= MaxSamples
             kept == IF full THEN Tail(samples) ELSE samples
             e == Recorder[r].ms
  <2>1. samples \in Seq(Nat) /\ e \in Nat
    <3>1. Millis \subseteq Nat
      BY LatenciesNat DEF Millis
    <3>2. samples \in Seq(Millis)
      BY DEF MetricInv
    <3>3. e \in Nat
      BY LatenciesNat
    <3>4. samples \in Seq(Nat)
      BY <3>1, <3>2, SeqOfMore
    <3> HIDE DEF e
    <3> QED  BY <3>3, <3>4
  <2>2. IsFiniteSet(Pairs(samples)) /\ sampleSum = SumOf(samples) /\ SumOf(samples) \in Nat
    BY FS_CardinalityType DEF LatencyInv, SumOf, Pairs
  <2>3. /\ samples' = Append(kept, e)
        /\ sampleSum' = (IF full THEN sampleSum - Head(samples) ELSE sampleSum) + e
    BY <1>2 DEF RecordLatency
  <2>4. /\ kept \in Seq(Nat) /\ IsFiniteSet(Pairs(kept)) /\ SumOf(kept) \in Nat
        /\ (IF full THEN sampleSum - Head(samples) ELSE sampleSum) = SumOf(kept)
    <3>1. CASE full
      <4>1. samples # <<>>
        BY <3>1, SamplesNat, EmptySeq
      <4>2. Tail(samples) \in Seq(Nat)
        BY <2>1, <4>1, HeadTailProperties
      <4>3. /\ IsFiniteSet(Pairs(Tail(samples))) /\ SumOf(Tail(samples)) \in Nat /\ Head(samples) \in Nat
            /\ SumOf(samples) = SumOf(Tail(samples)) + Head(samples)
        BY <2>1, <2>2, <4>1, PairsShifted
      <4> QED  BY <2>2, <3>1, <4>2, <4>3
    <3>2. CASE ~ full
      BY <2>1, <2>2, <3>2
    <3> QED  BY <3>1, <3>2
  <2> HIDE DEF kept, e, full
  <2>5. IsFiniteSet(Pairs(Append(kept, e))) /\ SumOf(Append(kept, e)) = SumOf(kept) + e
    BY <2>1, <2>4, PairsAppended
  <2> QED  BY <2>3, <2>4, <2>5 DEF LatencyInv
<1>3. ASSUME NEW r \in DOMAIN Recorder, CountMapping(r) \/ RecordRecent(r)
      PROVE  UNCHANGED <<samples, sampleSum>>
  BY <1>3 DEF CountMapping, RecordRecent
<1>4. ASSUME NEW c \in DOMAIN Checker, CountCheck(c) \/ CountReached(c)
      PROVE  UNCHANGED <<samples, sampleSum>>
  BY <1>4 DEF CountCheck, CountReached
<1>5. ASSUME NEW s \in Summary, SumLatency(s) \/ SumChecks(s) \/ SumReached(s) \/ SumCounts(s)
      PROVE  UNCHANGED <<samples, sampleSum>>
  BY <1>5 DEF SumLatency, SumChecks, SumReached, SumCounts, SumStep
<1>6. ASSUME NEW p \in Provider, RegisterProvider(p) \/ Unregister(p)
      PROVE  UNCHANGED <<samples, sampleSum>>
  BY <1>6 DEF RegisterProvider, Unregister
<1>7. UNCHANGED mxvars => UNCHANGED <<samples, sampleSum>>
  BY DEF mxvars
<1> QED  BY <1>1, <1>2, <1>3, <1>4, <1>5, <1>6, <1>7 DEF MXNext, MetricsNext, ProvidersNext

MetricSafe == WindowAddsUp /\ SummaryCovers /\ RecordsAgree /\ ProvidersSorted

LEMMA MetricInit == MXInit => MetricInv /\ AlignInv /\ LatencyInv /\ SummaryInv /\ ProviderInv
<1> SUFFICES ASSUME MXInit PROVE MetricInv /\ AlignInv /\ LatencyInv /\ SummaryInv /\ ProviderInv
  OBVIOUS
<1>1. /\ \A S : <<>> \in Seq(S) /\ Len(<<>>) = 0
      /\ ~ Owing("latency") /\ ~ Owing("recent")
  BY EmptySeq DEF MXInit, Owing
<1>2. MetricInv
  BY <1>1, SamplesNat DEF MXInit, MetricInv, Cap, Room
<1>3. SummaryInv
  BY <1>1 DEF MXInit, SummaryInv, SummaryCovers, NoSummary
<1>4. ProviderInv
  BY <1>1 DEF MXInit, ProviderInv, ProvidersSorted
<1>5. LatencyInv
  <2>1. Pairs(<<>>) = {}
    BY DEF Pairs
  <2> QED  BY <2>1, FS_EmptySet DEF MXInit, LatencyInv, SumOf, Pairs
<1>6. AlignInv
  BY <1>1 DEF MXInit, AlignInv, InStep, Owing
<1> QED  BY <1>2, <1>3, <1>4, <1>5, <1>6

LEMMA MetricIsSafe == MetricInv /\ AlignInv /\ LatencyInv /\ SummaryInv /\ ProviderInv => MetricSafe
<1> SUFFICES ASSUME MetricInv, AlignInv, LatencyInv, SummaryInv, ProviderInv PROVE MetricSafe
  OBVIOUS
<1>1. RecordsAgree
  <2> SUFFICES ASSUME countLock = {}
               PROVE  /\ Len(samples) = Cap(okCount + badCount) /\ Len(recent) = Room(okCount + badCount)
                      /\ \A i \in 0..(AtMost(Len(samples), Len(recent)) - 1) :
                           samples[Len(samples) - i] = Recorder[recent[Len(recent) - i]].ms
    BY DEF RecordsAgree, Cap, Room, AtMost
  <2>1. ~ Owing("latency") /\ ~ Owing("recent")
    BY DEF MetricInv, Owing
  <2>2. Len(samples) = Cap(okCount + badCount) /\ Len(recent) = Room(okCount + badCount)
    BY <2>1 DEF MetricInv
  <2>3. Len(samples) \in Nat /\ Len(recent) \in Nat /\ InStep(0)
    BY <2>1, LenProperties DEF MetricInv, AlignInv
  <2>4. ASSUME NEW i \in 0..(AtMost(Len(samples), Len(recent)) - 1)
        PROVE  samples[Len(samples) - i] = Recorder[recent[Len(recent) - i]].ms
    <3>1. i \in Nat /\ i < Len(recent) /\ i + 0 < Len(samples) /\ Len(samples) - (i + 0) = Len(samples) - i
      BY <2>3, <2>4 DEF AtMost
    <3> QED  BY <2>3, <3>1 DEF InStep
  <2> QED  BY <2>2, <2>4
<1> QED  BY <1>1, WindowIsSafe DEF MetricSafe, SummaryInv, ProviderInv

-----------------------------------------------------------------------------
(* PortProtocols *)

\* What the answer in a socket says of the gateway: it spoke once, of this call, and what
\* it granted stands until it serves another call for the port.
\* Why a call reports success: the gateway served it, or refused it without a lifetime.
TakenRight(c) ==
  /\ \/ gateDid[c] = "yes"
     \/ gateDid[c] = "refused" /\ Speaks[c] # "pmp" /\ said[c].lifetime = 0
  /\ got[c] = said[c].outer

PortInv ==
  /\ PPTypeOK
  /\ said \in [Asker -> [opcode : {"none", "foreign", "probe", "map", "unmap"}, result : Nat,
                         lifetime : Nat, epoch : Nat, outer : Outer \cup {0}]]
  /\ \A c \in Asker :
       /\ ask[c].at = "idle" => gateDid[c] = "no"
       /\ ask[c].at # "idle" => ask[c].port \in Inner
       /\ gateDid[c] = "no" => said[c] = Silence
       /\ gateDid[c] = "yes" => said[c].opcode = ask[c].op
       /\ gateDid[c] = "refused" => said[c].opcode = "foreign" \/ said[c].result # 0
       /\ gateDid[c] = "yes" /\ ask[c].op # "probe" /\ latest[ask[c].port] = {c}
            => gate[ask[c].port] = said[c].outer
       /\ ask[c].at = "ok" => TakenRight(c)

\* The gateway serves a call.
LEMMA ServeStep ==
  ASSUME PortInv, NEW c \in Asker, Due(c), NEW p \in Outer \cup {0}, NEW res \in Nat, NEW life \in Nat,
         Reply(c, res, life, p), gateDid' = [gateDid EXCEPT ![c] = "yes"],
         UNCHANGED <<ask, got>>,
         \/ ask[c].op = "probe" /\ UNCHANGED <<gate, latest>>
         \/ /\ gate' = [gate EXCEPT ![ask[c].port] = p]
            /\ latest' = [latest EXCEPT ![ask[c].port] = {c}]
  PROVE  PortInv'
<1> USE AnswersNat DEF PortInv, PPTypeOK, TakenRight
<1>1. ask[c].at = "sent" /\ gateDid[c] = "no" /\ ask[c].port \in Inner
  BY DEF Due
<1> DEFINE new == [opcode |-> ask[c].op, result |-> res, lifetime |-> life, epoch |-> Epoch, outer |-> p]
<1>2. said' = [said EXCEPT ![c] = new]
  BY DEF Reply
<1>3. new \in [opcode : {"none", "foreign", "probe", "map", "unmap"}, result : Nat,
               lifetime : Nat, epoch : Nat, outer : Outer \cup {0}]
  OBVIOUS
<1>4. new.opcode = ask[c].op /\ new.outer = p
  OBVIOUS
<1> HIDE DEF new
<1>5. /\ said' \in [Asker -> [opcode : {"none", "foreign", "probe", "map", "unmap"}, result : Nat,
                              lifetime : Nat, epoch : Nat, outer : Outer \cup {0}]]
      /\ said'[c] = new /\ \A d \in Asker : d # c => said'[d] = said[d] /\ gateDid'[d] = gateDid[d]
      /\ gateDid'[c] = "yes"
  BY <1>2, <1>3
<1>6. PPTypeOK'
  <2>1. gate' \in [Inner -> Outer \cup {0}] /\ latest' \in [Inner -> SUBSET Asker]
    <3>1. CASE UNCHANGED <<gate, latest>>
      BY <3>1
    <3>2. CASE gate' = [gate EXCEPT ![ask[c].port] = p] /\ latest' = [latest EXCEPT ![ask[c].port] = {c}]
      BY <3>2
    <3> QED  BY <3>1, <3>2
  <2>2. gateDid' \in [Asker -> {"no", "yes", "refused"}]
    OBVIOUS
  <2> QED  BY <2>1, <2>2
<1>7. ASSUME NEW d \in Asker, gateDid'[d] = "yes", ask[d].op # "probe", latest'[ask[d].port] = {d}
      PROVE  gate'[ask[d].port] = said'[d].outer
  <2>1. ask[d].port \in Inner
    BY <1>1, <1>5, <1>7
  <2>2. CASE d = c
    BY <1>1, <1>4, <1>5, <1>7, <2>2
  <2>3. CASE d # c
    <3>1. CASE UNCHANGED <<gate, latest>>
      <4>1. latest[ask[d].port] = {d} /\ gate'[ask[d].port] = gate[ask[d].port]
        BY <1>7, <3>1
      <4> QED  BY <1>5, <1>7, <2>3, <4>1
    <3>2. CASE gate' = [gate EXCEPT ![ask[c].port] = p] /\ latest' = [latest EXCEPT ![ask[c].port] = {c}]
      <4>1. ask[d].port # ask[c].port
        BY <1>1, <1>7, <2>1, <2>3, <3>2
      <4>2. latest[ask[d].port] = {d} /\ gate'[ask[d].port] = gate[ask[d].port]
        BY <1>1, <1>7, <2>1, <3>2, <4>1
      <4> QED  BY <1>5, <1>7, <2>3, <4>2
    <3> QED  BY <3>1, <3>2
  <2> QED  BY <2>2, <2>3
<1>8. ASSUME NEW d \in Asker
      PROVE  /\ ask[d].at = "idle" => gateDid'[d] = "no"
             /\ gateDid'[d] = "no" => said'[d] = Silence
             /\ gateDid'[d] = "yes" => said'[d].opcode = ask[d].op
             /\ gateDid'[d] = "refused" =>
                  said'[d].opcode = "foreign" \/ said'[d].result # 0
             /\ ask[d].at = "ok" => TakenRight(d)'
  <2>1. CASE d = c
    BY <1>1, <1>4, <1>5, <2>1
  <2>2. CASE d # c
    BY <1>5, <2>2
  <2> QED  BY <2>1, <2>2
<1> QED  BY <1>5, <1>6, <1>7, <1>8

\* The gateway refuses a call.
LEMMA RefuseStep == ASSUME PortInv, NEW c \in Asker, RouterRefuses(c) PROVE PortInv'
<1> USE AnswersNat DEF PortInv, PPTypeOK, TakenRight
<1>1. /\ ask[c].at = "sent" /\ gateDid[c] = "no" /\ ask[c].port \in Inner
      /\ gateDid' = [gateDid EXCEPT ![c] = "refused"] /\ UNCHANGED <<ask, got, gate, latest>>
  BY DEF RouterRefuses, Due
<1>2. PICK new \in [opcode : {"none", "foreign", "probe", "map", "unmap"}, result : Nat,
                    lifetime : Nat, epoch : Nat, outer : Outer \cup {0}] :
        /\ said' = [said EXCEPT ![c] = new]
        /\ new.opcode = "foreign" \/ new.result # 0
  <2>1. CASE Speaks[c] \in KnownProto
    <3>0. PICK life \in {0, Lifetime} : Reply(c, 2, life, 0)
      BY <2>1 DEF RouterRefuses
    <3> DEFINE new == [opcode |-> ask[c].op, result |-> 2, lifetime |-> life, epoch |-> Epoch, outer |-> 0]
    <3>1. said' = [said EXCEPT ![c] = new]
      BY <3>0 DEF Reply
    <3>2. /\ new.result # 0
          /\ new \in [opcode : {"none", "foreign", "probe", "map", "unmap"}, result : Nat,
                      lifetime : Nat, epoch : Nat, outer : Outer \cup {0}]
      OBVIOUS
    <3> HIDE DEF new
    <3> QED  BY <3>1, <3>2
  <2>2. CASE Speaks[c] \notin KnownProto
    <3> DEFINE new == [Silence EXCEPT !.opcode = "foreign", !.result = 1]
    <3>1. said' = [said EXCEPT ![c] = new]
      BY <2>2 DEF RouterRefuses
    <3>2. new.opcode = "foreign"
          /\ new \in [opcode : {"none", "foreign", "probe", "map", "unmap"}, result : Nat,
                      lifetime : Nat, epoch : Nat, outer : Outer \cup {0}]
      BY DEF Silence
    <3> HIDE DEF new
    <3> QED  BY <3>1, <3>2
  <2> QED  BY <2>1, <2>2
<1>3. /\ said' \in [Asker -> [opcode : {"none", "foreign", "probe", "map", "unmap"}, result : Nat,
                              lifetime : Nat, epoch : Nat, outer : Outer \cup {0}]]
      /\ said'[c] = new /\ \A d \in Asker : d # c => said'[d] = said[d] /\ gateDid'[d] = gateDid[d]
      /\ gateDid'[c] = "refused"
  BY <1>1, <1>2
<1>4. PPTypeOK'
  BY <1>1
<1> QED  BY <1>1, <1>2, <1>3, <1>4

\* A call is sent, takes its answer, or waits no longer.
LEMMA AskStep == ASSUME PortInv, NEW c \in Asker, SendAsk(c) \/ TakeReply(c) \/ AskTimeout(c) PROVE PortInv'
<1> USE AnswersNat DEF PortInv, PPTypeOK, TakenRight
<1>1. CASE SendAsk(c)
  <2>1. PICK op \in {"probe", "map", "unmap"}, i \in Inner :
          ask' = [ask EXCEPT ![c] = [at |-> "sent", op |-> op, port |-> i]]
    BY <1>1 DEF SendAsk
  <2>2. ask[c].at = "idle" /\ UNCHANGED <<said, got, gate, gateDid, latest>>
    BY <1>1 DEF SendAsk
  <2>3. PPTypeOK'
    BY <2>1, <2>2
  <2>4. ask'[c].at = "sent" /\ ask'[c].port \in Inner /\ \A d \in Asker : d # c => ask'[d] = ask[d]
    BY <2>1
  <2>5. gateDid[c] = "no" /\ said[c] = Silence
    BY <2>2
  <2>6. ASSUME NEW d \in Asker
        PROVE  /\ ask'[d].at = "idle" => gateDid[d] = "no"
               /\ ask'[d].at # "idle" => ask'[d].port \in Inner
               /\ gateDid[d] = "yes" => ask'[d] = ask[d]
               /\ ask'[d].at = "ok" => ask'[d] = ask[d]
    BY <2>4, <2>5
  <2> QED  BY <2>2, <2>3, <2>6
<1>2. CASE TakeReply(c)
  <2>1. PICK at \in {"ok", "code", "err"} :
          /\ ask' = [ask EXCEPT ![c].at = at]
          /\ at = IF said[c].opcode # ask[c].op THEN "err" ELSE IF ResultCode(c) = 0 THEN "ok" ELSE "code"
    BY <1>2 DEF TakeReply
  <2>2. /\ ask[c].at = "sent" /\ said[c] # Silence
        /\ got' = [got EXCEPT ![c] = IF said[c].opcode = ask[c].op THEN said[c].outer ELSE 0]
        /\ UNCHANGED <<said, gate, gateDid, latest>>
    BY <1>2 DEF TakeReply
  <2>3. /\ ask'[c].at = at /\ ask'[c].op = ask[c].op /\ ask'[c].port = ask[c].port
        /\ \A d \in Asker : d # c => ask'[d] = ask[d] /\ got'[d] = got[d]
    BY <2>1, <2>2
  <2>4. PPTypeOK'
    BY <2>1, <2>2
  <2>5. at = "ok" => /\ \/ gateDid[c] = "yes"
                        \/ gateDid[c] = "refused" /\ Speaks[c] # "pmp" /\ said[c].lifetime = 0
                     /\ got'[c] = said[c].outer
    <3>1. CASE said[c].opcode = ask[c].op /\ ResultCode(c) = 0
      <4>1. gateDid[c] # "no" /\ said[c].opcode # "foreign"
        BY <2>2, <3>1
      <4>2. gateDid[c] = "refused" => said[c].result # 0
        BY <4>1
      <4>3. gateDid[c] = "yes" \/ (Speaks[c] # "pmp" /\ said[c].lifetime = 0)
        BY <3>1, <4>1, <4>2 DEF ResultCode
      <4> QED  BY <2>2, <3>1, <4>1, <4>3
    <3>2. CASE ~ (said[c].opcode = ask[c].op /\ ResultCode(c) = 0)
      BY <2>1, <3>2
    <3> QED  BY <3>1, <3>2
  <2>6. ASSUME NEW d \in Asker
        PROVE  /\ ask'[d].at = "idle" => gateDid[d] = "no"
               /\ ask'[d].at # "idle" => ask'[d].port \in Inner
               /\ ask'[d].op = ask[d].op /\ ask'[d].port = ask[d].port
               /\ ask'[d].at = "ok" => TakenRight(d)'
    <3>1. CASE d = c
      BY <2>1, <2>2, <2>3, <2>5, <3>1
    <3>2. CASE d # c
      BY <2>2, <2>3, <3>2
    <3> QED  BY <3>1, <3>2
  <2> QED  BY <2>2, <2>4, <2>6
<1>3. CASE AskTimeout(c)
  <2>1. /\ ask[c].at = "sent" /\ ask' = [ask EXCEPT ![c].at = "err"]
        /\ UNCHANGED <<said, got, gate, gateDid, latest>>
    BY <1>3 DEF AskTimeout
  <2>2. /\ ask'[c].at = "err" /\ ask'[c].op = ask[c].op /\ ask'[c].port = ask[c].port
        /\ \A d \in Asker : d # c => ask'[d] = ask[d]
    BY <2>1
  <2>3. PPTypeOK'
    BY <2>1
  <2> QED  BY <2>1, <2>2, <2>3
<1> QED  BY <1>1, <1>2, <1>3

LEMMA PortStep == PortInv /\ [PPNext]_ppvars => PortInv'
<1> SUFFICES ASSUME PortInv, [PPNext]_ppvars PROVE PortInv'
  OBVIOUS
<1>1. ASSUME NEW c \in Asker, Grant(c) PROVE PortInv'
  <2>1. PICK p \in Outer : gate' = [gate EXCEPT ![ask[c].port] = p] /\ Reply(c, 0, Lifetime, p)
    BY <1>1 DEF Grant
  <2> QED  BY <1>1, <2>1, ServeStep, AnswersNat DEF Grant
<1>2. ASSUME NEW c \in Asker, Release(c) PROVE PortInv'
  BY <1>2, ServeStep DEF Release
<1>3. ASSUME NEW c \in Asker, Announce(c) PROVE PortInv'
  BY <1>3, ServeStep DEF Announce
<1>4. CASE UNCHANGED ppvars
  BY <1>4 DEF ppvars, PortInv, PPTypeOK, TakenRight
<1> QED  BY <1>1, <1>2, <1>3, <1>4, RefuseStep, AskStep DEF PPNext

\* What the two clients promise.
PortSafe == PPTypeOK /\ PmpTellsTheGate /\ RefusalsAreSeen

LEMMA PortInit == PPInit => PortInv
<1> SUFFICES ASSUME PPInit PROVE PortInv
  OBVIOUS
<1>1. Silence \in [opcode : {"none", "foreign", "probe", "map", "unmap"}, result : Nat,
                   lifetime : Nat, epoch : Nat, outer : Outer \cup {0}]
  BY DEF Silence
<1>2. PPTypeOK
  BY DEF PPInit, PPTypeOK
<1> QED  BY <1>1, <1>2 DEF PPInit, PortInv

LEMMA PortIsSafe == PortInv => PortSafe
  BY DEF PortInv, PortSafe, PmpTellsTheGate, RefusalsAreSeen, TakenRight

-----------------------------------------------------------------------------
(* Ipv6 *)

\* Between its two writes a detection has written the address of a global interface.
Ipv6Inv == PickIsReachable /\ (detecting = "global" => "global" \in found /\ globalAddr)

LEMMA Ipv6Step == Ipv6Inv /\ [IVNext]_ivvars => Ipv6Inv'
<1> SUFFICES ASSUME Ipv6Inv, [IVNext]_ivvars PROVE Ipv6Inv'
  OBVIOUS
<1> USE DEF Ipv6Inv, PickIsReachable
<1>1. CASE FacesChange
  BY <1>1 DEF FacesChange, First
<1>2. CASE Detect
  <2>1. Best = "global" => "global" \in faces
    BY DEF Best, FindGlobal
  <2>2. Best # "no"
    BY DEF Best
  <2> HIDE DEF First
  <2> QED  BY <1>2, <2>1, <2>2 DEF Detect, First
<1>3. CASE Detected
  BY <1>3 DEF Detected, First
<1>4. ASSUME NEW list \in Candidate, Select(list) PROVE Ipv6Inv'
  <2>1. /\ picked'.from = list /\ picked'.by = (connectivity = "global")
        /\ picked'.addr = IF v6first /\ connectivity = "global" /\ First(list, "v6") # "none" THEN "v6"
                          ELSE IF First(list, "v4") # "none" THEN "v4" ELSE First(list, "v6")
    BY <1>4 DEF Select
  <2>2. UNCHANGED <<v6first, connectivity, globalAddr, detecting, found>>
    BY <1>4 DEF Select
  <2>3. list # <<>> => First(list, "v4") # "none" \/ First(list, "v6") # "none"
    <3>1. list \in Seq({"v4", "v6"})
      BY CandidatesAreLists
    <3>2. ASSUME list # <<>> PROVE 1 \in DOMAIN list /\ list[1] \in {"v4", "v6"}
      BY <3>1, <3>2
    <3> QED  BY <3>2 DEF First
  <2>4. picked'.from # <<>> => picked'.addr # "none"
    BY <2>1, <2>3
  <2>5. picked'.addr = "v6" /\ First(picked'.from, "v4") # "none" => v6first /\ connectivity = "global"
    BY <2>1
  <2>6. (detecting = "no" /\ connectivity = "global" => "global" \in found /\ globalAddr)
        /\ (detecting = "global" => "global" \in found /\ globalAddr)
    OBVIOUS
  <2> QED  BY <2>1, <2>2, <2>4, <2>5, <2>6 DEF First
<1>5. CASE UNCHANGED ivvars
  BY <1>5 DEF ivvars, First
<1> QED  BY <1>1, <1>2, <1>3, <1>4, <1>5 DEF IVNext

LEMMA Ipv6Init == IVInit => Ipv6Inv
  BY DEF IVInit, Ipv6Inv, PickIsReachable, NoPick, First

-----------------------------------------------------------------------------
(* Stun *)

ServerItem == [to : Site, literal : BOOLEAN]
Mapping == [ip : {"none", "own", "nat"}, port : Nat, via : Site \cup {NoSite}]
Unpadded == \A i \in DOMAIN endpoints : ~endpoints[i].padded

\* What is in the list, what the first request has learned while the second one runs, and
\* what the verdict rests on.
StunInv ==
  /\ SUTypeOK
  /\ endpoints \in Seq(Endpoint) /\ servers \in Seq(ServerItem)
  /\ natKind \in {"none", "cone", "symmetric"}
  /\ mapped \in [1..2 -> Mapping]
  /\ verdict # "pending" <=> stage = "done"
  /\ stage = "second" => Len(servers) >= 2 /\ (natKind = "symmetric" => mapped[1].via = servers[1].to)
  /\ verdict = "full_cone" /\ natKind = "symmetric" => servers[Second].to = servers[1].to
  /\ verdict = "open_internet" => natKind = "none" /\ bind = "own"
  /\ ~fallback /\ Unpadded => ~askedSystem /\ \A i \in DOMAIN servers : servers[i].literal

\* The second server is there, and it is another one if there is another one.
LEMMA SecondShape ==
  ASSUME servers \in Seq(ServerItem), Len(servers) >= 2
  PROVE  /\ Second \in 2..Len(servers)
         /\ (\E i \in DOMAIN servers : servers[i] # servers[1]) => servers[Second] # servers[1]
<1> DEFINE other == {i \in 2..Len(servers) : servers[i] # servers[1]}
<1>1. CASE other = {}
  <2>1. Second = 2
    BY <1>1 DEF Second
  <2>2. \A i \in DOMAIN servers : i = 1 \/ i \in 2..Len(servers)
    OBVIOUS
  <2> QED  BY <1>1, <2>1, <2>2
<1>2. CASE other # {}
  <2>1. Second = CHOOSE i \in other : \A j \in other : i <= j
    BY <1>2 DEF Second
  <2>2. \E i \in other : \A j \in other : i <= j
    <3>1. other \subseteq Nat
      OBVIOUS
    <3> HIDE DEF other
    <3> QED  BY <1>2, <3>1, HasLeast
  <2>3. Second \in other
    <3> HIDE DEF other
    <3> QED  BY <2>1, <2>2
  <2> QED  BY <2>3
<1> QED  BY <1>1, <1>2

\* Two sites in a list of literals, and the same port shown to both: no symmetric NAT.
LEMMA StunIsSafe == StunInv => SUTypeOK /\ ConeIsNoGuess /\ StrictStaysOffSystem
<1> SUFFICES ASSUME StunInv PROVE ConeIsNoGuess /\ StrictStaysOffSystem
  BY DEF StunInv
<1>1. ASSUME verdict = "full_cone", \A i \in DOMAIN servers : servers[i].literal,
             NEW i \in DOMAIN servers, NEW j \in DOMAIN servers, servers[i].to # servers[j].to,
             natKind = "symmetric"
      PROVE  FALSE
  <2>1. servers \in Seq(ServerItem) /\ servers[Second].to = servers[1].to
    BY <1>1 DEF StunInv
  <2>2. Len(servers) >= 2 /\ 1 \in DOMAIN servers
    <3>1. i # j
      BY <1>1
    <3> QED  BY <2>1, <3>1
  <2>3. servers[i] # servers[1] \/ servers[j] # servers[1]
    BY <1>1
  <2>4. Second \in DOMAIN servers /\ servers[Second] # servers[1]
    BY <2>1, <2>2, <2>3, SecondShape
  <2>5. servers[Second].literal /\ servers[1].literal
    BY <1>1, <2>2, <2>4
  <2>6. \A s, t \in ServerItem : s.to = t.to /\ s.literal /\ t.literal => s = t
    BY DEF ServerItem
  <2>7. servers[Second] \in ServerItem /\ servers[1] \in ServerItem
    BY <2>1, <2>2, <2>4
  <2> QED  BY <2>1, <2>4, <2>5, <2>6, <2>7
<1>2. ConeIsNoGuess
  BY <1>1 DEF ConeIsNoGuess, StunInv
<1>3. StrictStaysOffSystem
  BY DEF StrictStaysOffSystem, StunInv, Unpadded
<1> QED  BY <1>2, <1>3

\* What a NAT shows of a socket.
LEMMA ShownShape ==
  ASSUME natKind \in {"none", "cone", "symmetric"}, NEW p \in LocalPort, NEW site \in Site
  PROVE  /\ Shown(p, site) \in Mapping
         /\ Shown(p, site).ip = "own" => natKind = "none"
         /\ natKind = "symmetric" => Shown(p, site).via = site
<1>1. p \in Nat
  BY PortsNat DEF LocalPort
<1>2. CASE natKind = "none"
  BY <1>1, <1>2 DEF Shown, Mapping
<1>3. CASE natKind = "cone"
  BY <1>1, <1>3 DEF Shown, Mapping
<1>4. CASE natKind = "symmetric"
  BY <1>1, <1>4 DEF Shown, Mapping
<1> QED  BY <1>2, <1>3, <1>4

\* A round of the resolution appends one item at most, and never the system's name when
\* the fallback is off and no endpoint is padded.
LEMMA StunResolve == StunInv /\ Resolve => StunInv'
<1> SUFFICES ASSUME StunInv, Resolve PROVE StunInv'
  OBVIOUS
<1> DEFINE e == endpoints[cursor]
<1>1. /\ endpoints \in Seq(Endpoint) /\ servers \in Seq(ServerItem) /\ cursor \in DOMAIN endpoints
      /\ cursor \in Nat /\ Len(servers) < cursor /\ stage = "resolve" /\ verdict = "pending"
  BY DEF StunInv, SUTypeOK, Resolve
<1>2. e \in Endpoint
  BY <1>1
<1>3. /\ UNCHANGED <<endpoints, fallback, bind, natKind, mapped, verdict, askedSystem>>
      /\ cursor' = cursor + 1 /\ stage' \in {"first", "resolve"}
  BY DEF Resolve, Next1, given
<1>4. servers' = servers \/ \E b \in BOOLEAN : /\ servers' = Append(servers, [to |-> e.to, literal |-> b])
                                               /\ ~fallback /\ ~e.padded => b
  <2>1. (~e.padded) = TRUE \/ (~e.padded) = FALSE
    BY Zenon
  <2>2. servers' = Append(servers, Item(e, ~e.padded)) \/ servers' = Append(servers, Item(e, TRUE))
        \/ Unresolved(e)
    BY DEF Resolve
  <2>3. CASE servers' = Append(servers, Item(e, ~e.padded))
    BY <2>1, <2>3 DEF Item
  <2>4. CASE servers' = Append(servers, Item(e, TRUE))
    BY <2>4 DEF Item
  <2>5. CASE Unresolved(e)
    BY <2>5 DEF Unresolved, Item
  <2> QED  BY <2>2, <2>3, <2>4, <2>5
<1>5. servers' \in Seq(ServerItem) /\ Len(servers') <= Len(servers) + 1
      /\ (~fallback /\ Unpadded => \A i \in DOMAIN servers' : servers'[i].literal)
  <2>1. CASE servers' = servers
    BY <1>1, <2>1 DEF StunInv
  <2>2. CASE servers' # servers
    <3>1. PICK b \in BOOLEAN : servers' = Append(servers, [to |-> e.to, literal |-> b])
                               /\ (~fallback /\ ~e.padded => b)
      BY <1>4, <2>2
    <3>2. PICK item \in ServerItem : item = [to |-> e.to, literal |-> b]
      BY <1>2 DEF Endpoint, ServerItem
    <3>3. servers' = Append(servers, item) /\ item.literal = b
      BY <3>1, <3>2
    <3>4. servers' \in Seq(ServerItem) /\ Len(servers') = Len(servers) + 1
      BY <1>1, <3>3
    <3>5. ASSUME ~fallback, Unpadded, NEW i \in DOMAIN servers' PROVE servers'[i].literal
      <4>1. ~e.padded
        BY <1>1, <3>5 DEF Unpadded
      <4>2. CASE i \in DOMAIN servers
        <5>1. servers'[i] = servers[i]
          BY <1>1, <3>3, <4>2
        <5> QED  BY <3>5, <4>2, <5>1 DEF StunInv
      <4>3. CASE i \notin DOMAIN servers
        <5>1. servers'[i] = item
          BY <1>1, <3>3, <3>5, <4>3
        <5> QED  BY <3>1, <3>3, <3>5, <4>1, <5>1
      <4> QED  BY <4>2, <4>3
    <3> QED  BY <3>4, <3>5
  <2> QED  BY <2>1, <2>2
<1>6. SUTypeOK'
  <2>1. cursor' \in 1..(Len(endpoints') + 1)
    BY <1>1, <1>3
  <2>2. Len(servers') < cursor'
    BY <1>1, <1>3, <1>5
  <2> QED  BY <1>1, <1>3, <2>1, <2>2 DEF SUTypeOK
<1>7. Unpadded' = Unpadded
  BY <1>3 DEF Unpadded
<1> QED  BY <1>1, <1>3, <1>5, <1>6, <1>7 DEF StunInv

LEMMA StunStep == StunInv /\ [SUNext]_suvars => StunInv'
<1> SUFFICES ASSUME StunInv, [SUNext]_suvars PROVE StunInv'
  OBVIOUS
<1>1. CASE Resolve
  BY <1>1, StunResolve
<1>2. CASE NoBinding
  <2>1. /\ UNCHANGED <<endpoints, fallback, bind, natKind, cursor, servers, mapped>>
        /\ verdict' = "unknown" /\ stage' = "done" /\ stage \in {"first", "second"}
    BY <1>2 DEF NoBinding, Verdict, given
  <2>2. ASSUME ~fallback, Unpadded PROVE ~askedSystem'
    <3>1. (\A i \in DOMAIN servers : servers[i].literal) /\ servers \in Seq(ServerItem) /\ ~askedSystem
      BY <2>2 DEF StunInv
    <3>2. CASE stage = "first"
      <4>1. servers # <<>> => servers[1].literal
        BY <3>1
      <4> QED  BY <1>2, <3>1, <3>2, <4>1 DEF NoBinding
    <3>3. CASE stage = "second"
      <4>1. Second \in DOMAIN servers
        BY <3>1, <3>3, SecondShape DEF StunInv
      <4>2. servers[Second].literal
        BY <3>1, <4>1
      <4> QED  BY <1>2, <3>1, <3>3, <4>2 DEF NoBinding
    <3> QED  BY <2>1, <3>2, <3>3
  <2>3. SUTypeOK'
    BY <2>1 DEF StunInv, SUTypeOK
  <2>4. Unpadded' = Unpadded
    BY <2>1 DEF Unpadded
  <2> QED  BY <2>1, <2>2, <2>3, <2>4 DEF StunInv
<1>3. CASE FirstBinding
  <2>1. /\ UNCHANGED <<endpoints, fallback, bind, natKind, cursor, servers>>
        /\ stage = "first" /\ servers \in Seq(ServerItem) /\ servers # <<>> /\ verdict = "pending"
        /\ mapped \in [1..2 -> Mapping] /\ natKind \in {"none", "cone", "symmetric"}
    BY <1>3 DEF FirstBinding, given, StunInv
  <2>2. servers[1] \in ServerItem /\ 1 \in DOMAIN servers /\ Len(servers) \in Nat \ {0}
    BY <2>1
  <2>3. PICK p \in LocalPort : mapped' = [mapped EXCEPT ![1] = Shown(p, servers[1].to)]
    BY <1>3 DEF FirstBinding, Bound
  <2>4. servers[1].to \in Site
    BY <2>2 DEF ServerItem
  <2>5. mapped' \in [1..2 -> Mapping] /\ mapped'[1] = Shown(p, servers[1].to)
    BY <2>1, <2>3, <2>4, ShownShape
  <2>6. (IsLocal(mapped'[1]) => natKind = "none" /\ bind = "own")
        /\ (natKind = "symmetric" => mapped'[1].via = servers[1].to)
    BY <2>1, <2>4, <2>5, ShownShape DEF IsLocal
  <2>7. \/ verdict' = "open_internet" /\ stage' = "done" /\ IsLocal(mapped'[1])
        \/ verdict' = "unknown" /\ stage' = "done"
        \/ verdict' = "pending" /\ stage' = "second" /\ Len(servers) # 1
    <3>1. IF IsLocal(mapped'[1]) THEN Verdict("open_internet")
          ELSE IF Len(servers) = 1 THEN Verdict("unknown")
          ELSE stage' = "second" /\ verdict' = verdict
      BY <1>3 DEF FirstBinding
    <3> QED  BY <2>1, <3>1 DEF Verdict
  <2>8. askedSystem' = (askedSystem \/ ~servers[1].literal)
    BY <1>3 DEF FirstBinding, Bound
  <2>9. ASSUME ~fallback, Unpadded PROVE ~askedSystem'
    <3>1. servers[1].literal /\ ~askedSystem
      BY <2>2, <2>9 DEF StunInv
    <3> QED  BY <2>8, <3>1
  <2>10. SUTypeOK'
    BY <2>1, <2>7 DEF StunInv, SUTypeOK
  <2>11. Unpadded' = Unpadded
    BY <2>1 DEF Unpadded
  <2>12. /\ verdict' # "pending" <=> stage' = "done"
         /\ verdict' # "full_cone"
         /\ stage' = "second" => Len(servers) >= 2
         /\ verdict' = "open_internet" => natKind = "none" /\ bind = "own"
    <3>1. CASE verdict' = "open_internet" /\ stage' = "done" /\ IsLocal(mapped'[1])
      <4>1. natKind = "none" /\ bind = "own"
        BY <2>6, <3>1, Zenon
      <4> QED  BY <3>1, <4>1
    <3>2. CASE verdict' = "unknown" /\ stage' = "done"
      BY <3>2
    <3>3. CASE verdict' = "pending" /\ stage' = "second" /\ Len(servers) # 1
      <4>1. Len(servers) >= 2
        BY <2>2, <3>3
      <4> QED  BY <3>3, <4>1
    <3> QED  BY <2>7, <3>1, <3>2, <3>3, Zenon
  <2>13. ~fallback /\ Unpadded => \A i \in DOMAIN servers : servers[i].literal
    BY DEF StunInv
  <2> QED  BY <2>1, <2>5, <2>6, <2>9, <2>10, <2>11, <2>12, <2>13 DEF StunInv
<1>4. CASE SecondBinding
  <2>1. /\ UNCHANGED <<endpoints, fallback, bind, natKind, cursor, servers>>
        /\ stage = "second" /\ servers \in Seq(ServerItem) /\ Len(servers) >= 2
        /\ mapped \in [1..2 -> Mapping] /\ natKind \in {"none", "cone", "symmetric"}
        /\ (natKind = "symmetric" => mapped[1].via = servers[1].to)
    BY <1>4 DEF SecondBinding, given, StunInv
  <2>2. PICK k \in DOMAIN servers : k = Second
    BY <2>1, SecondShape
  <2>3. servers[k] \in ServerItem
    BY <2>1, <2>2
  <2>4. PICK p \in LocalPort : mapped' = [mapped EXCEPT ![2] = Shown(p, servers[k].to)]
    BY <1>4, <2>2 DEF SecondBinding, Bound
  <2>5. servers[k].to \in Site
    BY <2>3 DEF ServerItem
  <2>6. mapped' \in [1..2 -> Mapping] /\ mapped'[2] = Shown(p, servers[k].to)
    BY <2>1, <2>4, <2>5, ShownShape
  <2>7. natKind = "symmetric" => mapped'[2].via = servers[k].to
    BY <2>1, <2>5, <2>6, ShownShape
  <2>8. stage' = "done" /\ verdict' = IF mapped'[2] = mapped[1] THEN "full_cone" ELSE "symmetric"
    BY <1>4 DEF SecondBinding, Verdict
  <2>9. verdict' = "full_cone" /\ natKind = "symmetric" => servers[k].to = servers[1].to
    BY <2>1, <2>7, <2>8
  <2>10. Second' = k
    <3>1. Second' = Second
      BY <2>1 DEF Second
    <3> QED  BY <2>2, <3>1
  <2>11. askedSystem' = (askedSystem \/ ~servers[k].literal)
    BY <1>4, <2>2 DEF SecondBinding, Bound
  <2>12. ASSUME ~fallback, Unpadded PROVE ~askedSystem'
    <3>1. servers[k].literal /\ ~askedSystem
      BY <2>12 DEF StunInv
    <3> QED  BY <2>11, <3>1
  <2>13. SUTypeOK'
    BY <2>1, <2>8 DEF StunInv, SUTypeOK
  <2>14. Unpadded' = Unpadded
    BY <2>1 DEF Unpadded
  <2> QED  BY <2>1, <2>6, <2>8, <2>9, <2>10, <2>12, <2>13, <2>14 DEF StunInv
<1>5. CASE UNCHANGED suvars
  <2>1. Second' = Second
    BY <1>5 DEF suvars, Second
  <2>2. Unpadded' = Unpadded
    BY <1>5 DEF suvars, Unpadded
  <2> QED  BY <1>5, <2>1, <2>2 DEF suvars, StunInv, SUTypeOK
<1> QED  BY <1>1, <1>2, <1>3, <1>4, <1>5 DEF SUNext

LEMMA StunInit == SUInit => StunInv
<1> SUFFICES ASSUME SUInit PROVE StunInv
  OBVIOUS
<1>1. endpoints \in Seq(Endpoint)
  BY EndpointLists DEF SUInit
<1>2. servers = <<>> /\ servers \in Seq(ServerItem) /\ Len(servers) = 0 /\ cursor = 1
  BY DEF SUInit
<1>3. mapped \in [1..2 -> Mapping]
  <2>1. Nowhere \in Mapping
    BY DEF Nowhere, Mapping
  <2> QED  BY <2>1 DEF SUInit
<1>4. SUTypeOK
  BY <1>1, <1>2 DEF SUInit, SUTypeOK
<1>5. natKind \in {"none", "cone", "symmetric"} /\ stage = "resolve" /\ verdict = "pending" /\ ~askedSystem
  BY DEF SUInit
<1> QED  BY <1>1, <1>2, <1>3, <1>4, <1>5 DEF StunInv

-----------------------------------------------------------------------------
(* The parts side by side *)

NatInv ==
  /\ PunchInv /\ CountInv /\ StateInv /\ NSTypeOK
  /\ MetricInv /\ AlignInv /\ LatencyInv /\ SummaryInv /\ ProviderInv
  /\ PortInv /\ Ipv6Inv /\ StunInv

LEMMA NatInit == MCInit => NatInv
<1> SUFFICES ASSUME MCInit PROVE NatInv
  OBVIOUS
<1>1. HPInit /\ NSInit /\ MXInit /\ PPInit /\ IVInit /\ SUInit
  BY DEF MCInit
<1> QED
  BY <1>1, PunchInit, StateInit, StateTypeInit, MetricInit, PortInit, Ipv6Init, StunInit DEF NatInv

\* A step of one part is a step of it and leaves the others as they are.
LEMMA NatParts ==
  [MCNext]_mcvars =>
    /\ [HPNext]_hpvars /\ [NSNext]_nsvars /\ [MXNext]_mxvars
    /\ [PPNext]_ppvars /\ [IVNext]_ivvars /\ [SUNext]_suvars
<1>1. NatPart =>
        /\ HPNext \/ UNCHANGED hpvars
        /\ NSNext \/ UNCHANGED nsvars
        /\ MXNext \/ UNCHANGED mxvars
        /\ PPNext \/ UNCHANGED ppvars
        /\ IVNext \/ UNCHANGED ivvars
        /\ SUNext \/ UNCHANGED suvars
  BY DEF NatPart, MXNext
<1>2. UNCHANGED natvars => UNCHANGED <<hpvars, nsvars, mxvars, ppvars, ivvars, suvars>>
  BY DEF natvars
<1> QED  BY <1>1, <1>2 DEF MCNext, mcvars

LEMMA NatNext == NatInv /\ [MCNext]_mcvars => NatInv'
<1> SUFFICES ASSUME NatInv, [MCNext]_mcvars PROVE NatInv'
  OBVIOUS
<1>1. /\ [HPNext]_hpvars /\ [NSNext]_nsvars /\ [MXNext]_mxvars
      /\ [PPNext]_ppvars /\ [IVNext]_ivvars /\ [SUNext]_suvars
  BY NatParts
<1>2. PunchInv' /\ CountInv'
  <2>1. HPTypeOK
    BY DEF NatInv, PunchInv
  <2> QED  BY <1>1, <2>1, PunchInvStep, CountStep DEF NatInv
<1>3. StateInv' /\ NSTypeOK'
  BY <1>1, StateStep, StateTypeStep DEF NatInv
<1>4. MetricInv' /\ AlignInv' /\ LatencyInv' /\ SummaryInv' /\ ProviderInv'
  BY <1>1, MetricStep, AlignMetricStep, LatencyStep, SummaryStep, ProviderStep DEF NatInv
<1>5. PortInv' /\ Ipv6Inv' /\ StunInv'
  BY <1>1, PortStep, Ipv6Step, StunStep DEF NatInv
<1> QED  BY <1>2, <1>3, <1>4, <1>5 DEF NatInv

\* The safety of all NAT modules at once: no punch is confirmed without a hole in both
\* NATs, the history tells where the machine is, the summaries and the list of providers
\* are consistent, no refusal of the gateway is taken for a success except a PCP one that
\* states no lifetime, and neither a reachable IPv6 address nor a cone NAT is a guess.
THEOREM NatIsSafe == MCSpec => []NatSafe
<1>1. NatInv => NatSafe
  <2> SUFFICES ASSUME NatInv PROVE NatSafe
    OBVIOUS
  <2>1. PunchSafe /\ MetricSafe /\ PortSafe
    BY PunchIsSafe, MetricIsSafe, PortIsSafe DEF NatInv
  <2>2. NSTypeOK /\ HistoryTells /\ ReportsAddUp
    BY DEF NatInv, StateInv, HistoryTells, Ended
  <2>3. PickIsReachable
    BY DEF NatInv, Ipv6Inv
  <2>4. SUTypeOK /\ ConeIsNoGuess /\ StrictStaysOffSystem
    BY StunIsSafe DEF NatInv
  <2> QED  BY <2>1, <2>2, <2>3, <2>4 DEF NatSafe, PunchSafe, MetricSafe, PortSafe
<1> QED  BY <1>1, NatInit, NatNext, PTL DEF MCSpec
=============================================================================
