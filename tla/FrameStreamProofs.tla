-------------------------- MODULE FrameStreamProofs -------------------------
(***************************************************************************)
(* Proofs about FrameStream, for any calls with any payloads, any limits   *)
(* and any way in which writes and reads cut the bytes up.                 *)
(***************************************************************************)
EXTENDS FrameStream, SequenceTheorems, TLAPS

Digit == 0..Base - 1
Calls == Seq(Sender)

-----------------------------------------------------------------------------
(* The wire format *)

\* Division by the base.
LEMMA DivMod == \A n \in Nat : (n \div Base) * Base + (n % Base) = n
BY BaseNat

\* The digits and their range.
LEMMA DivModRange == \A n \in Nat : n % Base \in 0..Base - 1 /\ n \div Base \in Nat
BY BaseNat

\* Products with a common factor.
LEMMA ProductLess == \A a, b, c \in Nat : a * c < b * c => a < b
OBVIOUS

\* What the two digits of a length say is the length.
LEMMA DigitsOfLength ==
  ASSUME NEW n \in Nat, n < Base * Base
  PROVE  /\ n \div Base \in Digit /\ n % Base \in Digit
         /\ (n \div Base) * Base + (n % Base) = n
<1> DEFINE q == n \div Base
           r == n % Base
<1>1. q \in Nat /\ r \in Digit /\ q * Base + r = n
  BY DivMod, DivModRange, Zenon DEF Digit
<1> HIDE DEF q, r
<1>2. q * Base < Base * Base
  <2>1. q * Base \in Nat /\ Base * Base \in Nat
    BY <1>1, BaseNat
  <2>2. r \in Nat
    BY <1>1, BaseNat DEF Digit
  <2> QED  BY <1>1, <2>1, <2>2
<1>3. q < Base
  BY <1>1, <1>2, ProductLess, BaseNat
<1>4. q \in Digit
  BY <1>1, <1>3, BaseNat DEF Digit
<1> QED  BY <1>1, <1>4, Zenon DEF q, r

\* A frame is its header, that tells the length of the payload, and the payload.
LEMMA FrameShape ==
  ASSUME NEW s \in Sender, Len(Payload[s]) <= MaxFrame
  PROVE  /\ FrameOf(s) \in Seq(Digit)
         /\ Len(FrameOf(s)) = HeaderLen + Len(Payload[s])
         /\ Len(Payload[s]) \in 1..MaxFrame
         /\ FrameOf(s)[1] * Base + FrameOf(s)[2] = Len(Payload[s])
         /\ \A j \in 1..Len(Payload[s]) : FrameOf(s)[HeaderLen + j] = Payload[s][j]
<1> DEFINE n == Len(Payload[s])
           a == n \div Base
           b == n % Base
<1>1. Payload[s] \in Seq(Digit) /\ Payload[s] # <<>>
  BY BytesAreDigits DEF Digit
<1>2. n \in Nat /\ n # 0
  BY <1>1, EmptySeq
<1>3. n < Base * Base
  <2>1. Base * Base \in Nat
    BY BaseNat
  <2> QED  BY <1>2, <2>1, LengthFits
<1>4. FrameOf(s) = <<a, b>> \o Payload[s]
  BY DEF FrameOf
<1> HIDE DEF n
<1>5. a \in Digit /\ b \in Digit /\ a * Base + b = n
  BY <1>2, <1>3, DigitsOfLength, Zenon
<1> HIDE DEF a, b
<1>6. <<a, b>> \in Seq(Digit) /\ Len(<<a, b>>) = 2 /\ <<a, b>>[1] = a /\ <<a, b>>[2] = b
  BY <1>5
<1>7. /\ FrameOf(s) \in Seq(Digit) /\ Len(FrameOf(s)) = 2 + n
      /\ \A j \in 1..2 + n : FrameOf(s)[j] = IF j <= 2 THEN <<a, b>>[j] ELSE Payload[s][j - 2]
  BY <1>1, <1>4, <1>6, ConcatProperties DEF n
<1>8. FrameOf(s)[1] = a /\ FrameOf(s)[2] = b
  BY <1>2, <1>6, <1>7
<1>9. \A j \in 1..n : FrameOf(s)[2 + j] = Payload[s][j]
  BY <1>2, <1>7
<1> QED  BY <1>2, <1>5, <1>7, <1>8, <1>9, LengthFits DEF HeaderLen, n

-----------------------------------------------------------------------------
(* A stream of frames *)

\* Where the frames of the calls end, one behind the other.
Cuts(off, calls) ==
  /\ off \in [0..Len(calls) -> Nat]
  /\ \A i \in 1..Len(calls) : off[i] = off[i - 1] + Len(FrameOf(calls[i]))
  /\ \A i, j \in 0..Len(calls) : i <= j => off[i] <= off[j]

\* The bytes of b from "at" on begin with the first k of s's frame.
Begins(b, at, s, k) == \A j \in 1..k : b[at + j] = FrameOf(s)[j]

\* With these cuts, b is the frames of the calls after the nth, and the first k
\* bytes of one more.
CutHolds(off, b, calls, n, s, k) ==
  /\ Cuts(off, calls)
  /\ Len(b) = (off[Len(calls)] - off[n]) + k
  /\ \A i \in n + 1..Len(calls) : Begins(b, off[i - 1] - off[n], calls[i], Len(FrameOf(calls[i])))
  /\ Begins(b, off[Len(calls)] - off[n], s, k)

Holds(b, calls, n, s, k) == \E off : CutHolds(off, b, calls, n, s, k)

Fits(s) == Len(Payload[s]) <= MaxFrame
AllFit(calls) == \A i \in 1..Len(calls) : Fits(calls[i])

\* The frames of calls that fit are sequences of more than a header.
LEMMA FitsShape ==
  ASSUME NEW s \in Sender, Fits(s)
  PROVE  FrameOf(s) \in Seq(Digit) /\ Len(FrameOf(s)) \in Nat /\ Len(FrameOf(s)) > HeaderLen
<1>1. Len(FrameOf(s)) = HeaderLen + Len(Payload[s]) /\ Len(Payload[s]) \in 1..MaxFrame
  BY FrameShape DEF Fits
<1> QED  BY <1>1, FrameShape, LengthFits, BaseNat DEF Fits, HeaderLen

\* The frames lie one behind the other, the last one at the end.
LEMMA CutBounds ==
  ASSUME NEW calls \in Calls, AllFit(calls), NEW n \in 0..Len(calls), NEW off, Cuts(off, calls)
  PROVE  /\ off[n] \in Nat /\ off[Len(calls)] \in Nat /\ off[n] <= off[Len(calls)]
         /\ \A i \in n + 1..Len(calls) :
              /\ Len(FrameOf(calls[i])) \in Nat /\ off[i] \in Nat /\ off[i - 1] \in Nat
              /\ off[i] = off[i - 1] + Len(FrameOf(calls[i]))
              /\ off[n] <= off[i - 1] /\ off[i] <= off[Len(calls)]
<1>1. /\ off \in [0..Len(calls) -> Nat] /\ \A i, j \in 0..Len(calls) : i <= j => off[i] <= off[j]
      /\ \A i \in 1..Len(calls) : off[i] = off[i - 1] + Len(FrameOf(calls[i]))
      /\ Len(calls) \in Nat
  BY DEF Cuts, Calls
<1>2. Len(calls) \in 0..Len(calls) /\ n \in 0..Len(calls) /\ n <= Len(calls)
  BY <1>1
<1>3. off[n] \in Nat /\ off[Len(calls)] \in Nat /\ off[n] <= off[Len(calls)]
  BY <1>1, <1>2, Zenon
<1>4. ASSUME NEW i \in n + 1..Len(calls)
      PROVE  /\ Len(FrameOf(calls[i])) \in Nat /\ off[i] \in Nat /\ off[i - 1] \in Nat
             /\ off[i] = off[i - 1] + Len(FrameOf(calls[i]))
             /\ off[n] <= off[i - 1] /\ off[i] <= off[Len(calls)]
  <2>1. i \in 1..Len(calls) /\ i \in 0..Len(calls) /\ i - 1 \in 0..Len(calls) /\ n <= i - 1
        /\ i <= Len(calls)
    BY <1>1
  <2>2. Len(FrameOf(calls[i])) \in Nat
    BY <2>1, FitsShape DEF AllFit, Calls
  <2> QED  BY <1>1, <1>2, <2>1, <2>2, Zenon
<1> QED  BY <1>3, <1>4

\* An empty stream holds nothing.
LEMMA HoldsNothing == ASSUME NEW s PROVE Holds(<<>>, <<>>, 0, s, 0)
<1> DEFINE off == [i \in {0} |-> 0]
<1>1. Len(<<>>) = 0
  OBVIOUS
<1>2. Cuts(off, <<>>)
  BY <1>1 DEF Cuts
<1>3. CutHolds(off, <<>>, <<>>, 0, s, 0)
  BY <1>1, <1>2 DEF CutHolds, Begins
<1> QED  BY <1>3 DEF Holds

\* Between two frames the stream does not tell whose frame comes next.
LEMMA HoldsNobody ==
  ASSUME NEW b, NEW calls, NEW n, NEW s, NEW t, Holds(b, calls, n, s, 0)
  PROVE  Holds(b, calls, n, t, 0)
BY DEF Holds, CutHolds, Begins

\* Writing m more bytes of the frame that is being written.
LEMMA HoldsMore ==
  ASSUME NEW b \in Seq(Digit), NEW calls \in Calls, AllFit(calls), NEW n \in 0..Len(calls),
         NEW s \in Sender, Fits(s), NEW k \in Nat, NEW m \in Nat, k + m <= Len(FrameOf(s)),
         Holds(b, calls, n, s, k),
         NEW c \in Seq(Digit), Len(c) = m, \A j \in 1..m : c[j] = FrameOf(s)[k + j]
  PROVE  Holds(b \o c, calls, n, s, k + m)
<1> DEFINE e == b \o c
<1>1. PICK off : CutHolds(off, b, calls, n, s, k)
  BY DEF Holds
<1> DEFINE at == off[Len(calls)] - off[n]
<1>2. at \in Nat /\ Len(b) = at + k /\ off[n] \in Nat /\ off[Len(calls)] \in Nat
  BY <1>1, CutBounds DEF CutHolds
<1>3. Len(e) = Len(b) + m /\ \A j \in 1..Len(b) : e[j] = b[j]
  <2>1. Len(b) \in Nat
    BY LenProperties
  <2>2. Len(e) = Len(b) + m
    BY ConcatProperties
  <2>3. \A j \in 1..Len(b) : j \in 1..Len(b) + Len(c) /\ j <= Len(b)
    BY <2>1
  <2> QED  BY <2>2, <2>3, ConcatProperties
<1>4. \A j \in 1..m : e[Len(b) + j] = c[j]
  <2> SUFFICES ASSUME NEW j \in 1..m PROVE e[Len(b) + j] = c[j]
    OBVIOUS
  <2>1. Len(b) \in Nat
    BY LenProperties
  <2>2. Len(b) + j \in 1..Len(b) + Len(c) /\ ~ (Len(b) + j <= Len(b)) /\ (Len(b) + j) - Len(b) = j
    BY <2>1
  <2> QED  BY <2>2, ConcatProperties
<1> HIDE DEF e
<1>5. ASSUME NEW i \in n + 1..Len(calls)
      PROVE  Begins(e, off[i - 1] - off[n], calls[i], Len(FrameOf(calls[i])))
  <2> DEFINE l == Len(FrameOf(calls[i]))
  <2>1. Begins(b, off[i - 1] - off[n], calls[i], l)
    BY <1>1 DEF CutHolds
  <2>2. /\ l \in Nat /\ off[i] \in Nat /\ off[i - 1] \in Nat /\ off[i] = off[i - 1] + l
        /\ off[n] <= off[i - 1] /\ off[i] <= off[Len(calls)]
    BY <1>1, CutBounds DEF CutHolds
  <2> HIDE DEF l
  <2>3. ASSUME NEW j \in 1..l PROVE e[(off[i - 1] - off[n]) + j] = b[(off[i - 1] - off[n]) + j]
    <3> DEFINE p == off[i - 1]
               q == off[n]
               t == off[Len(calls)]
    <3>1. p \in Nat /\ q \in Nat /\ t \in Nat /\ q <= p /\ p + l <= t
      BY <1>2, <2>2
    <3>2. l \in Nat /\ Len(b) = (t - q) + k
      BY <1>2, <2>2
    <3> HIDE DEF p, q, t
    <3>3. (p - q) + j \in 1..Len(b)
      BY <3>1, <3>2
    <3> QED  BY <1>3, <3>3 DEF p, q
  <2> QED  BY <2>1, <2>3 DEF Begins, l
<1>6. Begins(e, at, s, k + m)
  <2> SUFFICES ASSUME NEW j \in 1..k + m PROVE e[at + j] = FrameOf(s)[j]
    BY DEF Begins
  <2>1. CASE j <= k
    <3>1. at + j \in 1..Len(b)
      BY <1>2, <2>1
    <3>2. b[at + j] = FrameOf(s)[j]
      BY <1>1, <2>1 DEF CutHolds, Begins
    <3> QED  BY <1>3, <3>1, <3>2
  <2>2. CASE j > k
    <3>1. j - k \in 1..m /\ at + j = Len(b) + (j - k) /\ k + (j - k) = j
      BY <1>2, <2>2
    <3> QED  BY <1>4, <3>1
  <2> QED  BY <2>1, <2>2
<1>7. Len(e) = at + (k + m)
  BY <1>2, <1>3
<1>8. CutHolds(off, e, calls, n, s, k + m)
  BY <1>1, <1>5, <1>6, <1>7 DEF CutHolds
<1> QED  BY <1>8 DEF Holds, e

\* When the whole frame is written, its call is one of those that sent theirs.
LEMMA HoldsWhole ==
  ASSUME NEW b \in Seq(Digit), NEW calls \in Calls, AllFit(calls), NEW n \in 0..Len(calls),
         NEW s \in Sender, Fits(s), NEW t, Holds(b, calls, n, s, Len(FrameOf(s)))
  PROVE  Holds(b, Append(calls, s), n, t, 0)
<1> DEFINE more == Append(calls, s)
           l == Len(FrameOf(s))
           m == Len(calls)
<1>1. PICK off : CutHolds(off, b, calls, n, s, l)
  BY DEF Holds
<1> DEFINE at == off[m] + l
           far == [i \in 0..m + 1 |-> IF i = m + 1 THEN at ELSE off[i]]
<1>2. l \in Nat /\ m \in Nat /\ off[n] \in Nat /\ off[m] \in Nat /\ Cuts(off, calls)
  BY <1>1, CutBounds, FitsShape DEF CutHolds, Calls
<1>3. Len(more) = m + 1 /\ more[m + 1] = s /\ \A i \in 1..m : more[i] = calls[i]
  BY AppendProperties DEF Calls
<1> HIDE DEF more
<1>4. far[m + 1] = off[m] + l /\ \A i \in 0..m : far[i] = off[i]
  BY <1>2
<1>5. Cuts(far, more)
  <2>1. \A i \in 0..m : off[i] \in Nat /\ off[i] <= off[m]
    <3>1. off \in [0..m -> Nat] /\ m \in 0..m /\ \A i, j \in 0..m : i <= j => off[i] <= off[j]
      BY <1>2 DEF Cuts
    <3>2. \A i \in 0..m : i <= m
      BY <1>2
    <3> QED  BY <3>1, <3>2, Zenon
  <2>2. far \in [0..Len(more) -> Nat]
    BY <1>2, <1>3, <2>1
  <2> HIDE DEF far
  <2>3. ASSUME NEW i \in 1..Len(more) PROVE far[i] = far[i - 1] + Len(FrameOf(more[i]))
    <3>1. CASE i = m + 1
      BY <1>2, <1>3, <1>4, <3>1
    <3>2. CASE i \in 1..m
      <4>1. off[i] = off[i - 1] + Len(FrameOf(calls[i])) /\ i \in 0..m /\ i - 1 \in 0..m
        BY <1>2, <3>2 DEF Cuts
      <4> QED  BY <1>3, <1>4, <3>2, <4>1
    <3> QED  BY <1>2, <1>3, <3>1, <3>2
  <2>4. ASSUME NEW i \in 0..Len(more), NEW j \in 0..Len(more), i <= j PROVE far[i] <= far[j]
    <3>1. CASE j = m + 1 /\ i = m + 1
      BY <1>2, <1>4, <3>1
    <3>2. CASE j = m + 1 /\ i \in 0..m
      BY <1>2, <1>4, <2>1, <3>2
    <3>3. CASE j \in 0..m /\ i \in 0..m
      <4>1. off[i] <= off[j]
        BY <1>2, <2>4, <3>3 DEF Cuts
      <4> QED  BY <1>4, <3>3, <4>1
    <3> QED  BY <1>2, <1>3, <2>4, <3>1, <3>2, <3>3
  <2> QED  BY <2>2, <2>3, <2>4 DEF Cuts
<1>6. Len(b) = (far[Len(more)] - far[n]) + 0
  BY <1>1, <1>2, <1>3, <1>4 DEF CutHolds
<1> HIDE DEF far
<1>7. ASSUME NEW i \in n + 1..Len(more)
      PROVE  Begins(b, far[i - 1] - far[n], more[i], Len(FrameOf(more[i])))
  <2>1. far[n] = off[n] /\ i - 1 \in 0..m /\ far[i - 1] = off[i - 1]
    BY <1>2, <1>3, <1>4
  <2>2. CASE i = m + 1
    BY <1>1, <1>2, <1>3, <2>1, <2>2 DEF CutHolds
  <2>3. CASE i \in n + 1..m
    <3>1. more[i] = calls[i]
      BY <1>2, <1>3, <2>3
    <3>2. Begins(b, off[i - 1] - off[n], calls[i], Len(FrameOf(calls[i])))
      BY <1>1, <2>3 DEF CutHolds
    <3> QED  BY <2>1, <3>1, <3>2
  <2> QED  BY <1>2, <1>3, <2>2, <2>3
<1>8. CutHolds(far, b, more, n, t, 0)
  BY <1>5, <1>6, <1>7 DEF CutHolds, Begins
<1> QED  BY <1>8 DEF Holds, more

\* What is read next when there are frames left: the oldest of them, in full.
LEMMA HoldsHead ==
  ASSUME NEW b \in Seq(Digit), NEW calls \in Calls, AllFit(calls), NEW n \in 0..Len(calls) - 1,
         NEW s, NEW k \in Nat, Holds(b, calls, n, s, k)
  PROVE  Begins(b, 0, calls[n + 1], Len(FrameOf(calls[n + 1]))) /\ Len(FrameOf(calls[n + 1])) <= Len(b)
<1>1. PICK off : CutHolds(off, b, calls, n, s, k)
  BY DEF Holds
<1>2. n \in 0..Len(calls) /\ n + 1 \in n + 1..Len(calls) /\ (n + 1) - 1 = n
  BY DEF Calls
<1> DEFINE l == Len(FrameOf(calls[n + 1]))
<1>3. /\ off[n] \in Nat /\ off[n + 1] \in Nat /\ off[Len(calls)] \in Nat /\ l \in Nat
      /\ off[n + 1] = off[n] + l /\ off[n + 1] <= off[Len(calls)]
  BY <1>1, <1>2, CutBounds DEF CutHolds
<1>4. Begins(b, off[(n + 1) - 1] - off[n], calls[n + 1], l)
  BY <1>1, <1>2 DEF CutHolds
<1>5. Len(b) = (off[Len(calls)] - off[n]) + k
  BY <1>1 DEF CutHolds
<1> HIDE DEF l
<1>6. off[(n + 1) - 1] - off[n] = 0 /\ l <= Len(b)
  BY <1>2, <1>3, <1>5
<1> QED  BY <1>4, <1>6 DEF l

\* What is read next when there are none: the frame that is being written.
LEMMA HoldsLast ==
  ASSUME NEW b, NEW calls \in Calls, AllFit(calls), NEW s, NEW k \in Nat,
         Holds(b, calls, Len(calls), s, k)
  PROVE  Begins(b, 0, s, k) /\ Len(b) = k
<1>1. PICK off : CutHolds(off, b, calls, Len(calls), s, k)
  BY DEF Holds
<1>2. Len(calls) \in 0..Len(calls)
  BY DEF Calls
<1>3. off[Len(calls)] - off[Len(calls)] = 0
  BY <1>1, <1>2, CutBounds DEF CutHolds
<1> QED  BY <1>1, <1>3 DEF CutHolds

\* Taking the oldest frame off the stream.
LEMMA HoldsCut ==
  ASSUME NEW b \in Seq(Digit), NEW calls \in Calls, AllFit(calls), NEW n \in 0..Len(calls) - 1,
         NEW s, NEW k \in Nat, Holds(b, calls, n, s, k),
         NEW c, NEW l, l = Len(FrameOf(calls[n + 1])),
         Len(c) = Len(b) - l, \A j \in 1..Len(b) - l : c[j] = b[l + j]
  PROVE  Holds(c, calls, n + 1, s, k)
<1>1. PICK off : CutHolds(off, b, calls, n, s, k)
  BY DEF Holds
<1>2. n \in 0..Len(calls) /\ n + 1 \in 0..Len(calls) /\ n + 1 \in n + 1..Len(calls) /\ (n + 1) - 1 = n
  BY DEF Calls
<1>3. Cuts(off, calls)
  BY <1>1 DEF CutHolds
<1> DEFINE x == off[n]
           y == off[n + 1]
           z == off[Len(calls)]
<1>4. x \in Nat /\ y \in Nat /\ z \in Nat /\ l \in Nat /\ y = x + l /\ y <= z
  <2>1. off[n] \in Nat /\ off[Len(calls)] \in Nat
    BY <1>2, <1>3, CutBounds
  <2>2. /\ l \in Nat /\ off[n + 1] \in Nat
        /\ off[n + 1] = off[(n + 1) - 1] + l /\ off[n + 1] <= off[Len(calls)]
    BY <1>2, <1>3, CutBounds
  <2> QED  BY <1>2, <2>1, <2>2
<1>5. Len(b) = (z - x) + k
  BY <1>1 DEF CutHolds
<1> HIDE DEF x, y, z
<1>6. Len(c) = (z - y) + k
  BY <1>4, <1>5
<1>7. ASSUME NEW p \in Nat, NEW q \in Nat, NEW j \in 1..q, y <= p, p + q <= z + k
      PROVE  c[(p - y) + j] = b[(p - x) + j]
  <2>1. (p - y) + j \in 1..Len(b) - l
    BY <1>4, <1>5, <1>7
  <2>2. l + ((p - y) + j) = (p - x) + j
    BY <1>4
  <2> QED  BY <2>1, <2>2
<1>8. ASSUME NEW i \in (n + 1) + 1..Len(calls)
      PROVE  Begins(c, off[i - 1] - off[n + 1], calls[i], Len(FrameOf(calls[i])))
  <2> DEFINE f == Len(FrameOf(calls[i]))
           p == off[i - 1]
  <2>1. f \in Nat /\ p \in Nat /\ y <= p /\ p + f <= z
    <3>1. /\ f \in Nat /\ off[i] \in Nat /\ off[i - 1] \in Nat /\ off[i] = off[i - 1] + f
          /\ off[n + 1] <= off[i - 1] /\ off[i] <= off[Len(calls)]
      BY <1>2, <1>3, CutBounds
    <3> QED  BY <3>1 DEF y, z
  <2>2. i \in n + 1..Len(calls)
    BY <1>2
  <2>3. Begins(b, p - x, calls[i], f)
    BY <1>1, <2>2 DEF CutHolds, x
  <2> HIDE DEF f, p
  <2>4. ASSUME NEW j \in 1..f PROVE c[(p - y) + j] = b[(p - x) + j]
    <3>1. p + f <= z + k
      BY <1>4, <2>1
    <3> QED  BY <1>7, <2>1, <3>1
  <2>5. Begins(c, p - y, calls[i], f)
    BY <2>3, <2>4 DEF Begins
  <2> QED  BY <2>5 DEF f, p, y
<1>9. Begins(c, z - y, s, k)
  <2>1. Begins(b, z - x, s, k)
    BY <1>1 DEF CutHolds, x, z
  <2>2. ASSUME NEW j \in 1..k PROVE c[(z - y) + j] = b[(z - x) + j]
    <3>1. z + k <= z + k
      BY <1>4
    <3> QED  BY <1>4, <1>7, <3>1
  <2> QED  BY <2>1, <2>2 DEF Begins
<1>10. CutHolds(off, c, calls, n + 1, s, k)
  BY <1>3, <1>6, <1>8, <1>9 DEF CutHolds, y, z
<1> QED  BY <1>10 DEF Holds

-----------------------------------------------------------------------------
(* What a call and the reader may hold *)

\* What frame_size_in_buffer says of some bytes.
LEMMA SizeTells ==
  ASSUME NEW d \in Seq(Digit)
  PROVE  /\ FrameSize(d) \in Nat /\ FrameSize(d) <= Len(d)
         /\ FrameSize(d) > 0 => /\ Len(d) >= HeaderLen
                                /\ FrameSize(d) = HeaderLen + (d[1] * Base + d[2])
         /\ FrameSize(d) = 0 /\ Len(d) >= HeaderLen => Len(d) < HeaderLen + (d[1] * Base + d[2])
<1>1. CASE Len(d) < HeaderLen
  BY <1>1 DEF FrameSize, HeaderLen
<1>2. CASE Len(d) >= HeaderLen
  <2> DEFINE v == d[1] * Base + d[2]
  <2>1. v \in Nat /\ HeaderLen + d[1] * Base + d[2] = HeaderLen + v
    <3>1. d[1] \in Nat /\ d[2] \in Nat
      BY <1>2, BaseNat DEF HeaderLen, Digit
    <3>2. d[1] * Base \in Nat
      BY <3>1, BaseNat
    <3> QED  BY <3>1, <3>2 DEF HeaderLen
  <2>2. FrameSize(d) = IF Len(d) >= HeaderLen + v THEN HeaderLen + v ELSE 0
    <3>1. ~ (Len(d) < HeaderLen)
      BY <1>2 DEF HeaderLen
    <3> QED  BY <2>1, <3>1, Zenon DEF FrameSize
  <2> HIDE DEF v
  <2>3. /\ FrameSize(d) \in Nat /\ FrameSize(d) <= Len(d)
        /\ FrameSize(d) > 0 => FrameSize(d) = HeaderLen + v
        /\ FrameSize(d) = 0 => Len(d) < HeaderLen + v
    BY <2>1, <2>2 DEF HeaderLen
  <2> QED  BY <1>2, <2>3 DEF v
<1> QED  BY <1>1, <1>2 DEF HeaderLen

\* The call that writes is the one that holds the lock, and what is written is a
\* frame that fits.
SendInv ==
  /\ TypeOK
  /\ rest \in [Sender -> Seq(Digit)] /\ wire \in Seq(Digit) /\ received \in Seq(Seq(Digit))
  /\ \A s \in Sender : pc[s] = "write" <=> lock = s
  /\ \A s \in Sender : pc[s] \in {"lock", "write"} => Fits(s)

\* An unfinished frame is shorter than the longest one.
LEMMA ReadFindsRoom ==
  ASSUME buf \in Seq(Digit), FrameSize(buf) = 0, ~ BadLength(buf)
  PROVE  Len(buf) < MaxFrame + HeaderLen
<1>1. CASE Len(buf) < HeaderLen
  BY <1>1, LengthFits, BaseNat DEF HeaderLen
<1>2. CASE Len(buf) >= HeaderLen
  <2> DEFINE v == buf[1] * Base + buf[2]
  <2>1. v \in 1..MaxFrame
    BY <1>2 DEF BadLength
  <2>2. Len(buf) < HeaderLen + v
    BY <1>2, SizeTells
  <2> HIDE DEF v
  <2>3. MaxFrame \in Nat
    <3>1. Base * Base \in Nat
      BY BaseNat
    <3> QED  BY <3>1, LengthFits
  <2> QED  BY <2>1, <2>2, <2>3 DEF HeaderLen
<1> QED  BY <1>1, <1>2 DEF HeaderLen

\* Nothing is sent and nothing is read at the start.
LEMMA SendInit == Init => SendInv
<1> SUFFICES ASSUME Init PROVE SendInv
  OBVIOUS
<1>1. Len(<<>>) = 0 /\ <<>> \in Seq(Digit) /\ <<>> \in Seq(Sender) /\ <<>> \in Seq(Seq(Digit))
  BY EmptySeq
<1>2. MaxFrame \in Nat
  <2>1. Base * Base \in Nat
    BY BaseNat
  <2> QED  BY <2>1, LengthFits
<1>3. Len(buf) < MaxFrame + HeaderLen + Chunk
  BY <1>1, <1>2, LengthFits DEF Init, HeaderLen
<1> QED  BY <1>1, <1>3, NoneIsNothing DEF Init, SendInv, TypeOK, Digit

\* The steps of a call that write nothing, and those of the session.
LEMMA QuietSendStep ==
  ASSUME SendInv,
         \/ \E s \in Sender : Start(s) \/ NoSession(s) \/ ProbeTimeout(s) \/ Teardown(s)
         \/ Disconnect \/ CloseTransport \/ ReaderLeaves
  PROVE  SendInv'
<1> USE DEF SendInv, TypeOK, Digit
<1>1. ASSUME NEW s \in Sender, Start(s) PROVE SendInv'
  <2>1. Len(Payload[s]) \in Nat /\ MaxFrame \in Nat
    <3>1. Base * Base \in Nat
      BY BaseNat
    <3>2. Len(Payload[s]) \in Nat
      BY BytesAreDigits, LenProperties
    <3> QED  BY <3>1, <3>2, LengthFits
  <2>2. CASE Fits(s) /\ pc' = [pc EXCEPT ![s] = "lock"]
    BY <1>1, <2>2 DEF Start, receiving
  <2>3. CASE pc' = [pc EXCEPT ![s] = "refused"]
    BY <1>1, <2>3 DEF Start, receiving
  <2>4. Fits(s) \/ Len(Payload[s]) > MaxFrame
    BY <2>1 DEF Fits
  <2> QED  BY <1>1, <2>2, <2>3, <2>4, Zenon DEF Start, Goto
<1>2. ASSUME NEW s \in Sender, NoSession(s) PROVE SendInv'
  BY <1>2 DEF NoSession, Goto, receiving
<1>3. ASSUME NEW s \in Sender, ProbeTimeout(s) PROVE SendInv'
  BY <1>3 DEF ProbeTimeout, Goto, receiving
<1>4. ASSUME NEW s \in Sender, Teardown(s) PROVE SendInv'
  <2>1. session' \in {"up", "closing", "down"}
    BY <1>4 DEF Teardown
  <2> QED  BY <1>4, <2>1 DEF Teardown, Goto, receiving
<1>5. CASE Disconnect
  BY <1>5 DEF Disconnect, sending, receiving
<1>6. CASE CloseTransport
  BY <1>6 DEF CloseTransport, sending, receiving
<1>7. CASE ReaderLeaves
  BY <1>7 DEF ReaderLeaves, sending
<1> QED  BY <1>1, <1>2, <1>3, <1>4, <1>5, <1>6, <1>7

\* Taking and giving back the lock.
LEMMA LockStep ==
  ASSUME SendInv, NEW s \in Sender, Acquire(s) \/ WriteFails(s)
  PROVE  SendInv'
<1> USE DEF SendInv, TypeOK
<1>1. CASE Acquire(s)
  <2>1. FrameOf(s) \in Seq(Digit)
    BY <1>1, FitsShape DEF Acquire
  <2>2. rest' \in [Sender -> Seq(Digit)]
    BY <1>1, <2>1 DEF Acquire
  <2>3. lock' = s /\ \A t \in Sender : pc[t] # "write"
    BY <1>1, NoneIsNothing DEF Acquire
  <2>4. \A t \in Sender : pc'[t] = "write" <=> lock' = t
    BY <1>1, <2>3 DEF Acquire, Goto
  <2> QED  BY <1>1, <2>2, <2>4 DEF Acquire, Goto, receiving
<1>2. CASE WriteFails(s)
  <2>1. <<>> \in Seq(Digit)
    BY EmptySeq
  <2>2. rest' \in [Sender -> Seq(Digit)]
    BY <1>2, <2>1 DEF WriteFails
  <2>3. lock = s /\ lock' = None
    BY <1>2 DEF WriteFails, Unlock
  <2>4. \A t \in Sender : pc'[t] = "write" <=> lock' = t
    BY <1>2, <2>3, NoneIsNothing DEF WriteFails, Goto
  <2>5. torn' \in {"no", "torn", "overrun"}
    BY <1>2 DEF WriteFails
  <2> QED  BY <1>2, <2>2, <2>3, <2>4, <2>5 DEF WriteFails, Goto, receiving
<1> QED  BY <1>1, <1>2

\* A part of what is left to write, and what is left then.
LEMMA WritePart ==
  ASSUME NEW d \in Seq(Digit), NEW k \in 1..Len(d)
  PROVE  /\ SubSeq(d, 1, k) \in Seq(Digit) /\ Len(SubSeq(d, 1, k)) = k
         /\ \A j \in 1..k : SubSeq(d, 1, k)[j] = d[j]
         /\ SubSeq(d, k + 1, Len(d)) \in Seq(Digit) /\ Len(SubSeq(d, k + 1, Len(d))) = Len(d) - k
         /\ \A j \in 1..Len(d) - k : SubSeq(d, k + 1, Len(d))[j] = d[k + j]
<1>1. Len(d) \in Nat /\ \A j \in 1..Len(d) : d[j] \in Digit
  BY LenProperties, ElementOfSeq
<1>2. k \in Int /\ 1 \in Int /\ \A j \in 1..k : d[j] \in Digit
  BY <1>1
<1>3. /\ SubSeq(d, 1, k) \in Seq(Digit) /\ Len(SubSeq(d, 1, k)) = k
      /\ \A j \in 1..k : SubSeq(d, 1, k)[j] = d[j]
  BY <1>1, <1>2
<1>4. /\ SubSeq(d, k + 1, Len(d)) \in Seq(Digit) /\ Len(SubSeq(d, k + 1, Len(d))) = Len(d) - k
      /\ \A j \in 1..Len(d) - k : SubSeq(d, k + 1, Len(d))[j] = d[k + j]
  BY <1>1, <1>2
<1> QED  BY <1>3, <1>4

\* A write moves bytes to the wire; the last one ends the call.
LEMMA WriteStep == ASSUME SendInv, NEW s \in Sender, Write(s) PROVE SendInv'
<1> USE DEF SendInv, TypeOK
<1>1. PICK k \in 1..Len(rest[s]) :
        /\ wire' = wire \o SubSeq(rest[s], 1, k)
        /\ rest' = [rest EXCEPT ![s] = SubSeq(rest[s], k + 1, Len(rest[s]))]
        /\ \/ Goto(s, "sent") /\ Unlock(s) /\ sent' = Append(sent, s)
           \/ UNCHANGED <<pc, lock, sent>>
  BY DEF Write
<1>2. wire' \in Seq(Digit) /\ rest' \in [Sender -> Seq(Digit)]
  BY <1>1, WritePart, ConcatProperties
<1>3. /\ pc[s] = "write" /\ lock = s /\ torn' \in {"no", "torn", "overrun"}
      /\ UNCHANGED <<session, buf, received, reader>>
  BY DEF Write, receiving
<1>4. CASE Goto(s, "sent") /\ Unlock(s) /\ sent' = Append(sent, s)
  <2>1. sent' \in Seq(Sender) /\ lock' = None
    BY <1>3, <1>4, AppendProperties DEF Unlock
  <2>2. \A t \in Sender : pc'[t] = "write" <=> lock' = t
    BY <1>3, <1>4, <2>1, NoneIsNothing DEF Goto
  <2> QED  BY <1>2, <1>3, <1>4, <2>1, <2>2 DEF Goto
<1>5. CASE UNCHANGED <<pc, lock, sent>>
  BY <1>2, <1>3, <1>5
<1> QED  BY <1>1, <1>4, <1>5

\* The reader holds at most one read more than an unfinished frame.
LEMMA ReaderStepInv == ASSUME SendInv, ReaderStep PROVE SendInv'
<1> USE DEF SendInv, TypeOK
<1>1. buf \in Seq(Digit) /\ Len(buf) \in Nat
  BY LenProperties DEF Digit
<1>2. FrameSize(buf) \in Nat /\ FrameSize(buf) <= Len(buf)
  BY <1>1, SizeTells
<1>3. MaxFrame \in Nat
  <2>1. Base * Base \in Nat
    BY BaseNat
  <2> QED  BY <2>1, LengthFits
<1>4. CASE Deliver
  <2> DEFINE m == FrameSize(buf)
  <2>1. UNCHANGED <<pc, rest, lock, sent, torn, wire, session, reader>>
    BY <1>4 DEF Deliver, sending
  <2>2. m \in Nat /\ 0 < m /\ m <= Len(buf) /\ buf' = SubSeq(buf, m + 1, Len(buf))
        /\ received' = Append(received, SubSeq(buf, HeaderLen + 1, m))
    BY <1>2, <1>4 DEF Deliver
  <2> HIDE DEF m
  <2>3. buf' \in Seq(Digit) /\ Len(buf') <= Len(buf) /\ Len(buf') \in Nat
    BY <1>1, <2>2
  <2>4. SubSeq(buf, HeaderLen + 1, m) \in Seq(Digit)
    BY <1>1, <2>2 DEF HeaderLen
  <2>5. received' \in Seq(Seq(Digit))
    BY <2>2, <2>4, AppendProperties
  <2>6. Len(buf') < MaxFrame + HeaderLen + Chunk
    BY <1>1, <1>3, <2>3, LengthFits DEF HeaderLen
  <2> QED  BY <2>1, <2>3, <2>5, <2>6 DEF Digit
<1>5. CASE Read
  <2>1. PICK k \in 1..Chunk : /\ k <= Len(wire)
                              /\ buf' = buf \o SubSeq(wire, 1, k)
                              /\ wire' = SubSeq(wire, k + 1, Len(wire))
    BY <1>5 DEF Read
  <2>2. UNCHANGED <<pc, rest, lock, sent, torn, session, received, reader>>
    BY <1>5 DEF Read, sending
  <2>3. k \in 1..Len(wire) /\ k \in Nat /\ k <= Chunk
    BY <2>1, LengthFits, LenProperties
  <2>4. /\ SubSeq(wire, 1, k) \in Seq(Digit) /\ Len(SubSeq(wire, 1, k)) = k /\ wire' \in Seq(Digit)
    BY <2>1, <2>3, WritePart
  <2>5. buf' \in Seq(Digit) /\ Len(buf') = Len(buf) + k
    BY <1>1, <2>1, <2>4, ConcatProperties
  <2>6. Len(buf) < MaxFrame + HeaderLen
    <3>1. FrameSize(buf) = 0 /\ ~ BadLength(buf)
      BY <1>5, NoneIsNothing DEF Read, Ending
    <3> QED  BY <1>1, <3>1, ReadFindsRoom
  <2>7. Len(buf') < MaxFrame + HeaderLen + Chunk
    BY <1>1, <1>3, <2>3, <2>5, <2>6, LengthFits DEF HeaderLen
  <2> QED  BY <2>2, <2>4, <2>5, <2>7 DEF Digit
<1>6. CASE ReaderEnds
  <2>1. reader' \in {"eof", "bad", "full"}
    BY <1>6 DEF ReaderEnds, Ending
  <2> QED  BY <1>6, <2>1 DEF ReaderEnds, sending
<1> QED  BY <1>4, <1>5, <1>6 DEF ReaderStep

\* Every step of the stream keeps them.
LEMMA SendNext == SendInv /\ [Next]_vars => SendInv'
<1> SUFFICES ASSUME SendInv, [Next]_vars PROVE SendInv'
  OBVIOUS
<1>1. CASE UNCHANGED vars
  BY <1>1 DEF vars, sending, receiving, SendInv, TypeOK
<1>2. CASE Next
  BY <1>2, QuietSendStep, LockStep, WriteStep, ReaderStepInv DEF Next, SendStep
<1> QED  BY <1>1, <1>2

\* The states of every call, the lock and the reader are what TypeOK says; above all
\* recv_frame never holds more than one read beyond the longest frame, whatever
\* bytes arrive (frame.rs:36-42).
THEOREM StreamTypeCorrect == Spec => []TypeOK
<1>1. SendInv => TypeOK
  BY DEF SendInv
<1> QED  BY <1>1, SendInit, SendNext, PTL DEF Spec

-----------------------------------------------------------------------------
(* Frames stay whole *)

\* The frame that is only written in part: that of the holder of the lock or, when
\* no more bytes were written since, one that was cut short.
Partial(s, k) ==
  /\ k \in Nat
  /\ k > 0 => s \in Sender /\ Fits(s) /\ k < Len(FrameOf(s))
  /\ torn = "no" => IF lock = None THEN k = 0
                    ELSE s = lock /\ rest[lock] = SubSeq(FrameOf(lock), k + 1, Len(FrameOf(lock)))

\* What was received is what was sent first; the bytes that are not yet cut up are
\* the other frames and a part of one more.
StreamInv ==
  torn # "overrun" =>
    /\ reader \notin {"bad", "full"}
    /\ AllFit(sent)
    /\ Len(received) <= Len(sent)
    /\ \A i \in 1..Len(received) : received[i] = Payload[sent[i]]
    /\ \E s, k : Partial(s, k) /\ Holds(buf \o wire, sent, Len(received), s, k)

LEMMA StreamInit == Init => StreamInv
<1> SUFFICES ASSUME Init PROVE StreamInv
  OBVIOUS
<1>1. Len(<<>>) = 0 /\ <<>> \o <<>> = <<>>
  BY EmptySeq, ConcatEmptySeq
<1>2. Partial(None, 0)
  BY DEF Partial, Init
<1>3. Holds(<<>>, <<>>, 0, None, 0)
  BY HoldsNothing
<1>4. Holds(buf \o wire, sent, Len(received), None, 0)
  BY <1>1, <1>3 DEF Init
<1> QED  BY <1>1, <1>2, <1>4 DEF Init, StreamInv, AllFit

\* Bytes that begin as a frame does are cut where that frame ends.
LEMMA FrontTells ==
  ASSUME NEW d \in Seq(Digit), NEW c \in Sender, Fits(c),
         \A j \in 1..Len(d) : j <= Len(FrameOf(c)) => d[j] = FrameOf(c)[j]
  PROVE  /\ ~ BadLength(d)
         /\ FrameSize(d) > 0 => /\ FrameSize(d) = Len(FrameOf(c)) /\ FrameSize(d) <= Len(d)
                                /\ Begins(d, 0, c, FrameSize(d))
<1>1. /\ Len(FrameOf(c)) = HeaderLen + Len(Payload[c]) /\ Len(Payload[c]) \in 1..MaxFrame
      /\ FrameOf(c)[1] * Base + FrameOf(c)[2] = Len(Payload[c])
  BY FrameShape DEF Fits
<1>2. Len(d) \in Nat /\ MaxFrame \in Nat
  <2>1. Base * Base \in Nat
    BY BaseNat
  <2> QED  BY <2>1, LengthFits, LenProperties
<1>3. CASE Len(d) < HeaderLen
  BY <1>2, <1>3, SizeTells DEF BadLength, HeaderLen
<1>4. CASE Len(d) >= HeaderLen
  <2>1. 1 \in 1..Len(d) /\ 2 \in 1..Len(d) /\ 1 <= Len(FrameOf(c)) /\ 2 <= Len(FrameOf(c))
    BY <1>1, <1>2, <1>4 DEF HeaderLen
  <2>2. d[1] = FrameOf(c)[1] /\ d[2] = FrameOf(c)[2]
    BY <2>1
  <2>3. d[1] * Base + d[2] = Len(Payload[c])
    BY <1>1, <2>2
  <2>4. ~ BadLength(d)
    BY <1>1, <2>3, Zenon DEF BadLength
  <2>5. ASSUME FrameSize(d) > 0
        PROVE  /\ FrameSize(d) = Len(FrameOf(c)) /\ FrameSize(d) <= Len(d)
               /\ Begins(d, 0, c, FrameSize(d))
    <3>1. FrameSize(d) = HeaderLen + (d[1] * Base + d[2]) /\ FrameSize(d) <= Len(d)
      BY <2>5, SizeTells, Zenon
    <3>2. FrameSize(d) = Len(FrameOf(c)) /\ FrameSize(d) <= Len(d) /\ FrameSize(d) \in Nat
      BY <1>1, <2>3, <3>1, SizeTells, Zenon
    <3>3. \A j \in 1..FrameSize(d) : d[0 + j] = FrameOf(c)[j]
      BY <1>2, <3>2
    <3> QED  BY <3>2, <3>3 DEF Begins
  <2> QED  BY <2>4, <2>5
<1> QED  BY <1>2, <1>3, <1>4 DEF HeaderLen

\* The reader finds the header of a frame that was sent, or of the one that is being
\* written, which is not complete.
LEMMA HeaderTells ==
  ASSUME SendInv, StreamInv, torn # "overrun"
  PROVE  /\ ~ BadLength(buf)
         /\ FrameSize(buf) > 0 =>
              /\ Len(received) < Len(sent)
              /\ FrameSize(buf) = Len(FrameOf(sent[Len(received) + 1]))
              /\ Begins(buf, 0, sent[Len(received) + 1], FrameSize(buf))
<1> DEFINE b == buf \o wire
           n == Len(received)
<1>1. buf \in Seq(Digit) /\ wire \in Seq(Digit) /\ sent \in Calls /\ AllFit(sent)
      /\ n \in Nat /\ Len(sent) \in Nat /\ n <= Len(sent) /\ Len(buf) \in Nat
  BY DEF SendInv, TypeOK, StreamInv, Digit, Calls
<1>2. PICK s, k : Partial(s, k) /\ Holds(b, sent, n, s, k)
  BY DEF StreamInv
<1>3. b \in Seq(Digit) /\ Len(b) = Len(buf) + Len(wire) /\ Len(b) >= Len(buf)
      /\ \A j \in 1..Len(buf) : b[j] = buf[j]
  <2>1. Len(wire) \in Nat /\ \A j \in 1..Len(buf) : j \in 1..Len(buf) + Len(wire)
    BY <1>1
  <2> QED  BY <1>1, <2>1, ConcatProperties
<1> HIDE DEF b
<1>4. CASE n < Len(sent)
  <2> DEFINE c == sent[n + 1]
  <2>1. n \in 0..Len(sent) - 1 /\ k \in Nat
    BY <1>1, <1>2, <1>4 DEF Partial
  <2>2. Begins(b, 0, c, Len(FrameOf(c)))
    BY <1>1, <1>2, <1>3, <2>1, HoldsHead
  <2>3. c \in Sender /\ Fits(c)
    BY <1>1, <2>1 DEF Calls, AllFit
  <2>4. \A j \in 1..Len(buf) : j <= Len(FrameOf(c)) => buf[j] = FrameOf(c)[j]
    <3>1. Len(FrameOf(c)) \in Nat
      BY <2>3, FitsShape
    <3>2. \A j \in 1..Len(FrameOf(c)) : b[0 + j] = FrameOf(c)[j]
      BY <2>2 DEF Begins
    <3> HIDE DEF c
    <3> QED  BY <1>1, <1>3, <3>1, <3>2
  <2> HIDE DEF c
  <2>5. /\ ~ BadLength(buf)
        /\ FrameSize(buf) > 0 => /\ FrameSize(buf) = Len(FrameOf(c))
                                 /\ Begins(buf, 0, c, FrameSize(buf))
    BY <1>1, <2>3, <2>4, FrontTells
  <2> QED  BY <1>4, <2>5 DEF c
<1>5. CASE n = Len(sent)
  <2>1. Begins(b, 0, s, k) /\ Len(b) = k /\ k \in Nat
    BY <1>1, <1>2, <1>5, HoldsLast DEF Partial
  <2>2. CASE k = 0
    <3>1. Len(buf) < HeaderLen
      BY <1>1, <1>3, <2>1, <2>2 DEF HeaderLen
    <3>2. FrameSize(buf) = 0
      BY <1>1, <3>1 DEF FrameSize
    <3>3. ~ BadLength(buf)
      BY <1>1, <3>1 DEF BadLength, HeaderLen
    <3> QED  BY <3>2, <3>3
  <2>3. CASE k > 0
    <3>1. s \in Sender /\ Fits(s) /\ k < Len(FrameOf(s)) /\ Len(FrameOf(s)) \in Nat
      BY <1>2, <2>3, FitsShape DEF Partial
    <3>2. \A j \in 1..Len(buf) : buf[j] = FrameOf(s)[j]
      <4>1. \A j \in 1..k : b[0 + j] = FrameOf(s)[j]
        BY <2>1 DEF Begins
      <4> QED  BY <1>1, <1>3, <2>1, <4>1
    <3>3. Len(buf) < Len(FrameOf(s))
      BY <1>1, <1>3, <2>1, <3>1
    <3>4. /\ ~ BadLength(buf)
          /\ FrameSize(buf) > 0 => FrameSize(buf) = Len(FrameOf(s)) /\ FrameSize(buf) <= Len(buf)
      BY <1>1, <3>1, <3>2, FrontTells
    <3> QED  BY <1>1, <3>1, <3>3, <3>4
  <2> QED  BY <2>1, <2>2, <2>3
<1> QED  BY <1>1, <1>4, <1>5

\* The calls that start, give up, wait or tear down leave the stream as it is.
LEMMA QuietStreamStep ==
  ASSUME StreamInv, UNCHANGED <<rest, lock, sent, torn, wire, buf, received>>,
         reader' \in {reader, "left"}
  PROVE  StreamInv'
BY DEF StreamInv, Partial

\* Taking and giving back the lock: between two frames the next one is anybody's,
\* and a frame that is cut short stays the last one.
LEMMA LockStreamStep ==
  ASSUME SendInv, StreamInv, NEW s \in Sender, Acquire(s) \/ WriteFails(s)
  PROVE  StreamInv'
<1> SUFFICES ASSUME torn' # "overrun"
             PROVE  /\ reader' \notin {"bad", "full"}
                    /\ AllFit(sent)'
                    /\ Len(received') <= Len(sent')
                    /\ \A i \in 1..Len(received') : received'[i] = Payload[sent'[i]]
                    /\ \E t, k : Partial(t, k)' /\ Holds(buf' \o wire', sent', Len(received'), t, k)
  BY DEF StreamInv
<1>1. UNCHANGED <<sent, wire, buf, received, reader>> /\ torn # "overrun"
  BY DEF Acquire, WriteFails, receiving
<1>2. /\ reader \notin {"bad", "full"} /\ AllFit(sent) /\ Len(received) <= Len(sent)
      /\ \A i \in 1..Len(received) : received[i] = Payload[sent[i]]
  BY <1>1 DEF StreamInv
<1>3. PICK t, k : Partial(t, k) /\ Holds(buf \o wire, sent, Len(received), t, k)
  BY <1>1 DEF StreamInv
<1>4. \E u, m : Partial(u, m)' /\ Holds(buf \o wire, sent, Len(received), u, m)
  <2>1. CASE Acquire(s)
    <3>1. Fits(s) /\ FrameOf(s) \in Seq(Digit) /\ lock = None /\ torn' = torn
      BY <2>1, FitsShape DEF Acquire, SendInv
    <3>2. rest'[s] = FrameOf(s) /\ lock' = s /\ s # None
      BY <2>1, NoneIsNothing DEF Acquire, SendInv
    <3>3. SubSeq(FrameOf(s), 0 + 1, Len(FrameOf(s))) = FrameOf(s)
      BY <3>1, SubSeqFull
    <3>4. CASE torn = "no"
      <4>1. k = 0
        BY <1>3, <3>1, <3>4 DEF Partial
      <4>2. Holds(buf \o wire, sent, Len(received), s, 0)
        BY <1>3, <4>1, HoldsNobody
      <4>3. Partial(s, 0)'
        BY <3>2, <3>3 DEF Partial
      <4> QED  BY <4>2, <4>3
    <3>5. CASE torn # "no"
      <4>1. Partial(t, k)'
        BY <1>3, <3>1, <3>5 DEF Partial
      <4> QED  BY <1>3, <4>1
    <3> QED  BY <3>4, <3>5
  <2>2. CASE WriteFails(s)
    <3>1. lock = s /\ lock' = None
      BY <2>2 DEF WriteFails, Unlock, SendInv
    <3>2. CASE torn' = "no"
      <4>1. torn = "no" /\ rest[s] = FrameOf(s)
        BY <2>2, <3>2 DEF WriteFails
      <4>2. t = s /\ rest[s] = SubSeq(FrameOf(s), k + 1, Len(FrameOf(s))) /\ k \in Nat
        BY <1>3, <3>1, <4>1, NoneIsNothing DEF Partial
      <4>3. FrameOf(s) \in Seq(Digit) /\ Len(FrameOf(s)) \in Nat /\ Len(FrameOf(s)) > HeaderLen
        BY <2>2, FitsShape DEF WriteFails, SendInv
      <4>4. k = 0
        <5>1. ASSUME k > 0 PROVE FALSE
          <6>1. k < Len(FrameOf(s))
            BY <1>3, <4>2, <5>1 DEF Partial
          <6>2. k \in 1..Len(FrameOf(s))
            BY <4>2, <4>3, <5>1, <6>1
          <6>3. Len(SubSeq(FrameOf(s), k + 1, Len(FrameOf(s)))) = Len(FrameOf(s)) - k
            BY <4>3, <6>2, WritePart
          <6>4. Len(FrameOf(s)) = Len(FrameOf(s)) - k
            BY <4>1, <4>2, <6>3
          <6> QED  BY <4>2, <4>3, <5>1, <6>4
        <5> QED  BY <4>2, <5>1
      <4>5. Partial(s, 0)'
        BY <3>1 DEF Partial
      <4> QED  BY <1>3, <4>2, <4>4, <4>5
    <3>3. CASE torn' # "no"
      <4>1. Partial(t, k)'
        BY <1>3, <3>3 DEF Partial
      <4> QED  BY <1>3, <4>1
    <3> QED  BY <3>2, <3>3
  <2> QED  BY <2>1, <2>2
<1>5. \E u, m : Partial(u, m)' /\ Holds(buf' \o wire', sent', Len(received'), u, m)
  BY <1>1, <1>4
<1> QED  BY <1>1, <1>2, <1>5 DEF AllFit

\* Concatenation does not depend on the brackets.
LEMMA Brackets ==
  ASSUME NEW x \in Seq(Digit), NEW y \in Seq(Digit), NEW z \in Seq(Digit)
  PROVE  (x \o y) \o z = x \o (y \o z)
BY ConcatAssociative

\* A write makes the frame that is being written longer, or whole.
LEMMA WriteStreamStep ==
  ASSUME SendInv, StreamInv, NEW s \in Sender, Write(s)
  PROVE  StreamInv'
<1> SUFFICES ASSUME torn' # "overrun"
             PROVE  /\ reader' \notin {"bad", "full"}
                    /\ AllFit(sent')
                    /\ Len(received') <= Len(sent')
                    /\ \A i \in 1..Len(received') : received'[i] = Payload[sent'[i]]
                    /\ \E t, k : Partial(t, k)' /\ Holds(buf' \o wire', sent', Len(received'), t, k)
  BY DEF StreamInv, AllFit
<1>1. torn = "no" /\ torn' = "no" /\ UNCHANGED <<buf, received, reader>> /\ lock = s
  BY DEF Write, receiving, SendInv
<1>2. /\ reader \notin {"bad", "full"} /\ AllFit(sent) /\ Len(received) <= Len(sent)
      /\ \A i \in 1..Len(received) : received[i] = Payload[sent[i]]
  BY <1>1 DEF StreamInv
<1>3. PICK t, n : Partial(t, n) /\ Holds(buf \o wire, sent, Len(received), t, n)
  BY <1>1 DEF StreamInv
<1> DEFINE f == FrameOf(s)
<1>4. Fits(s) /\ f \in Seq(Digit) /\ Len(f) \in Nat /\ Len(f) > 0 /\ s # None
  <2>1. Fits(s) /\ s # None
    BY NoneIsNothing DEF Write, SendInv
  <2> HIDE DEF f
  <2>2. f \in Seq(Digit) /\ Len(f) \in Nat /\ Len(f) > HeaderLen
    BY <2>1, FitsShape DEF f
  <2> QED  BY <2>1, <2>2 DEF HeaderLen
<1>5. t = s /\ n \in Nat /\ n < Len(f) /\ rest[s] = SubSeq(f, n + 1, Len(f))
  BY <1>1, <1>3, <1>4 DEF Partial
<1> HIDE DEF f
<1>6. Len(rest[s]) = Len(f) - n /\ \A j \in 1..Len(f) - n : rest[s][j] = f[n + j]
  <2>1. CASE n = 0
    BY <1>4, <1>5, <2>1, SubSeqFull
  <2>2. CASE n \in 1..Len(f)
    BY <1>4, <1>5, <2>2, WritePart
  <2> QED  BY <1>4, <1>5, <2>1, <2>2
<1>7. PICK k \in 1..Len(rest[s]) :
        /\ wire' = wire \o SubSeq(rest[s], 1, k)
        /\ rest' = [rest EXCEPT ![s] = SubSeq(rest[s], k + 1, Len(rest[s]))]
        /\ IF k = Len(rest[s]) THEN Goto(s, "sent") /\ Unlock(s) /\ sent' = Append(sent, s)
                               ELSE UNCHANGED <<pc, lock, sent>>
  BY DEF Write
<1>8. k \in Nat /\ 1 <= k /\ n + k \in Nat /\ n + k <= Len(f)
  BY <1>4, <1>5, <1>6, <1>7
<1> DEFINE c == SubSeq(rest[s], 1, k)
<1>9. c \in Seq(Digit) /\ Len(c) = k /\ \A j \in 1..k : c[j] = f[n + j]
  <2>1. rest[s] \in Seq(Digit)
    BY DEF SendInv
  <2>2. c \in Seq(Digit) /\ Len(c) = k /\ \A j \in 1..k : c[j] = rest[s][j]
    BY <1>7, <2>1, WritePart
  <2> HIDE DEF c
  <2> QED  BY <1>5, <1>6, <1>8, <2>2
<1>10. rest'[s] = SubSeq(f, (n + k) + 1, Len(f))
  <2>1. rest[s] \in Seq(Digit)
    BY DEF SendInv
  <2>2. rest'[s] = SubSeq(rest[s], k + 1, Len(rest[s]))
    BY <1>7 DEF SendInv
  <2>3. /\ rest'[s] \in Seq(Digit) /\ Len(rest'[s]) = Len(rest[s]) - k
        /\ \A j \in 1..Len(rest[s]) - k : rest'[s][j] = rest[s][k + j]
    BY <1>7, <2>1, <2>2, WritePart
  <2> DEFINE d == SubSeq(f, (n + k) + 1, Len(f))
  <2>4. /\ d \in Seq(Digit) /\ Len(d) = Len(f) - (n + k)
        /\ \A j \in 1..Len(f) - (n + k) : d[j] = f[(n + k) + j]
    <3>1. n + k \in 1..Len(f)
      BY <1>5, <1>8
    <3> QED  BY <1>4, <3>1, WritePart
  <2> HIDE DEF d
  <2>5. Len(rest'[s]) = Len(d)
    BY <1>4, <1>5, <1>6, <1>8, <2>3, <2>4
  <2>6. ASSUME NEW j \in 1..Len(rest'[s]) PROVE rest'[s][j] = d[j]
    <3>1. rest'[s][j] = rest[s][k + j]
      BY <2>3
    <3>2. k + j \in 1..Len(f) - n /\ n + (k + j) = (n + k) + j /\ j \in 1..Len(f) - (n + k)
      BY <1>4, <1>5, <1>6, <1>8, <2>3
    <3> QED  BY <1>6, <2>4, <3>1, <3>2
  <2>7. rest'[s] = d
    BY <2>3, <2>4, <2>5, <2>6, SeqEqual
  <2> QED  BY <2>7 DEF d
<1>11. /\ buf \in Seq(Digit) /\ wire \in Seq(Digit) /\ buf \o wire \in Seq(Digit) /\ sent \in Calls
       /\ Len(received) \in Nat /\ Len(sent) \in Nat /\ Len(received) \in 0..Len(sent)
  BY <1>2, ConcatProperties DEF SendInv, TypeOK, Digit, Calls
<1>12. Holds(buf' \o wire', sent, Len(received), s, n + k)
  <2>1. buf' \o wire' = (buf \o wire) \o c
    <3>1. buf' \o wire' = buf \o (wire \o c)
      BY <1>1, <1>7
    <3> HIDE DEF c
    <3>2. (buf \o wire) \o c = buf \o (wire \o c)
      BY <1>9, <1>11, Brackets
    <3> QED  BY <3>1, <3>2
  <2> DEFINE b == buf \o wire
  <2> HIDE DEF b, c
  <2>2. Holds(b \o c, sent, Len(received), s, n + k)
    BY <1>2, <1>3, <1>4, <1>5, <1>8, <1>9, <1>11, HoldsMore DEF b, f
  <2> QED  BY <2>1, <2>2 DEF b
<1> HIDE DEF c
<1>13. CASE k = Len(rest[s])
  <2>1. n + k = Len(f) /\ sent' = Append(sent, s) /\ lock' = None
    BY <1>1, <1>4, <1>5, <1>6, <1>7, <1>13 DEF Unlock
  <2>2. Partial(s, 0)'
    BY <2>1 DEF Partial
  <2> DEFINE b == buf' \o wire'
  <2>3. b \in Seq(Digit)
    BY <1>1, <1>7, <1>9, <1>11, ConcatProperties DEF c
  <2> HIDE DEF b
  <2>4. Holds(b, Append(sent, s), Len(received), s, 0)
    BY <1>2, <1>4, <1>11, <1>12, <2>1, <2>3, HoldsWhole DEF b, f
  <2>5. /\ Len(sent') = Len(sent) + 1 /\ sent'[Len(sent) + 1] = s
        /\ \A i \in 1..Len(sent) : sent'[i] = sent[i]
    BY <1>11, <2>1, AppendProperties DEF Calls
  <2>6. AllFit(sent') /\ Len(received) <= Len(sent')
        /\ \A i \in 1..Len(received) : received[i] = Payload[sent'[i]]
    <3>1. \A i \in 1..Len(sent') : i \in 1..Len(sent) \/ i = Len(sent) + 1
      BY <1>11, <2>5
    <3>2. AllFit(sent')
      BY <1>2, <1>4, <2>5, <3>1 DEF AllFit
    <3>3. \A i \in 1..Len(received) : i \in 1..Len(sent)
      BY <1>11
    <3> QED  BY <1>2, <1>11, <2>5, <3>2, <3>3
  <2>7. \E u, m : Partial(u, m)' /\ Holds(buf' \o wire', sent', Len(received'), u, m)
    BY <1>1, <2>1, <2>2, <2>4 DEF b
  <2> QED  BY <1>1, <1>2, <2>6, <2>7
<1>14. CASE k # Len(rest[s])
  <2>1. lock' = lock /\ sent' = sent /\ n + k < Len(f)
    BY <1>4, <1>5, <1>6, <1>7, <1>14
  <2>2. Partial(s, n + k)'
    BY <1>1, <1>4, <1>8, <1>10, <2>1 DEF Partial, f
  <2>3. \E u, m : Partial(u, m)' /\ Holds(buf' \o wire', sent', Len(received'), u, m)
    BY <1>1, <1>12, <2>1, <2>2
  <2> QED  BY <1>1, <1>2, <2>1, <2>3
<1> QED  BY <1>13, <1>14

\* The reader cuts off the oldest frame that was sent, reads more bytes, or finds
\* that there are no more.
LEMMA ReaderStreamStep == ASSUME SendInv, StreamInv, ReaderStep PROVE StreamInv'
<1> SUFFICES ASSUME torn' # "overrun"
             PROVE  /\ reader' \notin {"bad", "full"}
                    /\ AllFit(sent')
                    /\ Len(received') <= Len(sent')
                    /\ \A i \in 1..Len(received') : received'[i] = Payload[sent'[i]]
                    /\ \E t, k : Partial(t, k)' /\ Holds(buf' \o wire', sent', Len(received'), t, k)
  BY DEF StreamInv, AllFit
<1> DEFINE n == Len(received)
<1>1. UNCHANGED <<sent, torn, lock, rest>> /\ torn # "overrun"
  BY DEF ReaderStep, Deliver, Read, ReaderEnds, sending
<1>2. /\ reader \notin {"bad", "full"} /\ AllFit(sent) /\ n <= Len(sent)
      /\ \A i \in 1..n : received[i] = Payload[sent[i]]
  BY <1>1 DEF StreamInv
<1>3. PICK t, k : Partial(t, k) /\ Holds(buf \o wire, sent, n, t, k)
  BY <1>1 DEF StreamInv
<1>4. Partial(t, k)' /\ k \in Nat
  BY <1>1, <1>3 DEF Partial
<1>5. /\ buf \in Seq(Digit) /\ wire \in Seq(Digit) /\ sent \in Calls /\ received \in Seq(Seq(Digit))
      /\ n \in Nat /\ Len(sent) \in Nat /\ Len(buf) \in Nat /\ Len(wire) \in Nat
  BY DEF SendInv, TypeOK, Digit, Calls
<1>6. CASE Deliver
  <2> DEFINE m == FrameSize(buf)
             c == sent[n + 1]
             b == buf \o wire
             d == SubSeq(buf, m + 1, Len(buf))
  <2>1. n < Len(sent) /\ m = Len(FrameOf(c)) /\ Begins(buf, 0, c, m)
    BY <1>1, <1>6, HeaderTells DEF Deliver
  <2>2. m \in Nat /\ 0 < m /\ m <= Len(buf)
    BY <1>5, <1>6, SizeTells DEF Deliver
  <2>3. /\ UNCHANGED <<wire, reader>> /\ buf' = d
        /\ received' = Append(received, SubSeq(buf, HeaderLen + 1, m))
    BY <1>6 DEF Deliver
  <2>4. c \in Sender /\ Fits(c)
    BY <1>2, <1>5, <2>1 DEF AllFit, Calls
  <2> HIDE DEF m, c
  <2>5. /\ m = HeaderLen + Len(Payload[c]) /\ Len(Payload[c]) \in Nat /\ Payload[c] \in Seq(Digit)
        /\ \A j \in 1..Len(Payload[c]) : FrameOf(c)[HeaderLen + j] = Payload[c][j]
    BY <2>1, <2>4, FrameShape, BytesAreDigits DEF Fits, Digit
  <2>6. SubSeq(buf, HeaderLen + 1, m) = Payload[c]
    <3> DEFINE p == SubSeq(buf, HeaderLen + 1, m)
    <3>1. /\ p \in Seq(Digit) /\ Len(p) = m - HeaderLen
          /\ \A j \in 1..m - HeaderLen : p[j] = buf[HeaderLen + j]
      BY <1>5, <2>2, <2>5 DEF HeaderLen
    <3> HIDE DEF p
    <3>2. Len(p) = Len(Payload[c])
      BY <2>5, <3>1 DEF HeaderLen
    <3>3. ASSUME NEW j \in 1..Len(p) PROVE p[j] = Payload[c][j]
      <4>1. HeaderLen + j \in 1..m /\ 0 + (HeaderLen + j) = HeaderLen + j
        BY <2>2, <2>5, <3>2 DEF HeaderLen
      <4>2. buf[HeaderLen + j] = FrameOf(c)[HeaderLen + j]
        BY <2>1, <4>1 DEF Begins
      <4> QED  BY <2>5, <3>1, <3>2, <4>2
    <3>4. p = Payload[c]
      BY <2>5, <3>1, <3>2, <3>3, SeqEqual
    <3> QED  BY <3>4 DEF p
  <2>7. /\ Len(received') = n + 1 /\ received'[n + 1] = Payload[c]
        /\ \A i \in 1..n : received'[i] = received[i]
    <3>1. received' = Append(received, Payload[c])
      BY <2>3, <2>6
    <3> QED  BY <1>5, <2>5, <3>1, AppendProperties
  <2>8. d \in Seq(Digit) /\ Len(d) = Len(buf) - m /\ \A j \in 1..Len(buf) - m : d[j] = buf[m + j]
    BY <1>5, <2>2
  <2> HIDE DEF d
  <2>9. b \in Seq(Digit) /\ Len(b) = Len(buf) + Len(wire)
        /\ \A j \in 1..Len(buf) + Len(wire) : b[j] = IF j <= Len(buf) THEN buf[j] ELSE wire[j - Len(buf)]
    BY <1>5, ConcatProperties
  <2> DEFINE e == d \o wire
  <2>10. Len(e) = Len(d) + Len(wire)
         /\ \A j \in 1..Len(d) + Len(wire) : e[j] = IF j <= Len(d) THEN d[j] ELSE wire[j - Len(d)]
    BY <1>5, <2>8, ConcatProperties
  <2> HIDE DEF b, e
  <2>11. Len(e) = Len(b) - m /\ \A j \in 1..Len(b) - m : e[j] = b[m + j]
    <3>1. Len(e) = Len(b) - m
      BY <1>5, <2>2, <2>8, <2>9, <2>10
    <3>2. ASSUME NEW j \in 1..Len(b) - m PROVE e[j] = b[m + j]
      <4>1. j \in 1..Len(d) + Len(wire) /\ m + j \in 1..Len(buf) + Len(wire)
        BY <1>5, <2>2, <2>8, <2>9
      <4>2. CASE j <= Len(d)
        <5>1. m + j <= Len(buf) /\ j \in 1..Len(buf) - m
          BY <1>5, <2>2, <2>8, <4>1, <4>2
        <5> QED  BY <2>8, <2>9, <2>10, <4>1, <4>2, <5>1
      <4>3. CASE ~ (j <= Len(d))
        <5>1. ~ (m + j <= Len(buf)) /\ (m + j) - Len(buf) = j - Len(d)
          BY <1>5, <2>2, <2>8, <4>1, <4>3
        <5> QED  BY <2>9, <2>10, <4>1, <4>3, <5>1
      <4> QED  BY <4>2, <4>3
    <3> QED  BY <3>1, <3>2
  <2>12. Holds(e, sent, n + 1, t, k)
    <3>1. n \in 0..Len(sent) - 1
      BY <1>5, <2>1
    <3>2. Holds(b, sent, n, t, k)
      BY <1>3 DEF b
    <3> HIDE DEF n
    <3> QED  BY <1>2, <1>4, <1>5, <2>1, <2>9, <2>11, <3>1, <3>2, HoldsCut DEF c
  <2>13. Len(received') <= Len(sent') /\ \A i \in 1..Len(received') : received'[i] = Payload[sent'[i]]
    <3>1. \A i \in 1..n + 1 : i \in 1..n \/ i = n + 1
      BY <1>5
    <3>2. n + 1 <= Len(sent)
      BY <1>5, <2>1
    <3>3. ASSUME NEW i \in 1..n + 1 PROVE received'[i] = Payload[sent[i]]
      <4>1. CASE i \in 1..n
        BY <1>2, <2>7, <4>1
      <4>2. CASE i = n + 1
        BY <2>7, <4>2 DEF c
      <4> QED  BY <3>1, <4>1, <4>2
    <3> QED  BY <1>1, <2>7, <3>2, <3>3
  <2>14. Holds(buf' \o wire', sent', Len(received'), t, k)
    BY <1>1, <2>3, <2>7, <2>12 DEF e
  <2> QED  BY <1>1, <1>2, <1>4, <2>3, <2>13, <2>14
<1>7. CASE Read
  <2>1. PICK m \in 1..Chunk : /\ m <= Len(wire)
                              /\ buf' = buf \o SubSeq(wire, 1, m)
                              /\ wire' = SubSeq(wire, m + 1, Len(wire))
    BY <1>7 DEF Read
  <2>2. m \in 1..Len(wire) /\ m \in Nat /\ UNCHANGED <<received, reader>>
    BY <1>5, <1>7, <2>1, LengthFits DEF Read
  <2>3. SubSeq(wire, 1, m) \o SubSeq(wire, m + 1, Len(wire)) = wire
    <3>1. 1 \in 1..Len(wire) + 1 /\ m \in 1 - 1..Len(wire) /\ Len(wire) \in m..Len(wire)
      BY <1>5, <2>2
    <3>2. SubSeq(wire, 1, m) \o SubSeq(wire, m + 1, Len(wire)) = SubSeq(wire, 1, Len(wire))
      BY <1>5, <3>1, ConcatAdjacentSubSeq
    <3> QED  BY <1>5, <3>2, SubSeqFull
  <2>4. SubSeq(wire, 1, m) \in Seq(Digit) /\ SubSeq(wire, m + 1, Len(wire)) \in Seq(Digit)
    BY <1>5, <2>2, WritePart
  <2>5. buf' \o wire' = buf \o wire
    <3>1. (buf \o SubSeq(wire, 1, m)) \o SubSeq(wire, m + 1, Len(wire))
            = buf \o (SubSeq(wire, 1, m) \o SubSeq(wire, m + 1, Len(wire)))
      BY <1>5, <2>4, Brackets
    <3> QED  BY <2>1, <2>3, <3>1
  <2> QED  BY <1>1, <1>2, <1>3, <1>4, <2>2, <2>5
<1>8. CASE ReaderEnds
  <2>1. UNCHANGED <<wire, buf, received>> /\ reader' = Ending
    BY <1>8 DEF ReaderEnds
  <2>2. ~ BadLength(buf)
    BY <1>1, HeaderTells
  <2>3. Ending # "full"
    <3>1. ASSUME FrameSize(buf) = 0 PROVE ~ (Len(buf) > MaxReadBuf)
      <4>1. Len(buf) < MaxFrame + HeaderLen
        BY <1>5, <2>2, <3>1, ReadFindsRoom
      <4>2. MaxFrame \in Nat
        <5>1. Base * Base \in Nat
          BY BaseNat
        <5> QED  BY <5>1, LengthFits
      <4> QED  BY <1>5, <4>1, <4>2, BufferHoldsAFrame DEF HeaderLen
    <3>2. FrameSize(buf) \in Nat
      BY <1>5, SizeTells
    <3> QED  BY <2>2, <3>1, <3>2, NoneIsNothing DEF Ending
  <2>4. Ending # "bad"
    BY <2>2, NoneIsNothing DEF Ending
  <2> QED  BY <1>1, <1>2, <1>3, <1>4, <2>1, <2>3, <2>4
<1> QED  BY <1>6, <1>7, <1>8 DEF ReaderStep

LEMMA StreamNext == SendInv /\ StreamInv /\ [Next]_vars => StreamInv'
<1> SUFFICES ASSUME SendInv, StreamInv, [Next]_vars PROVE StreamInv'
  OBVIOUS
<1>1. ASSUME NEW s \in Sender, Start(s) \/ NoSession(s) \/ ProbeTimeout(s) \/ Teardown(s)
      PROVE  UNCHANGED <<rest, lock, sent, torn, wire, buf, received, reader>>
  BY <1>1 DEF Start, NoSession, ProbeTimeout, Teardown, receiving
<1>2. Disconnect \/ CloseTransport \/ UNCHANGED vars
        => UNCHANGED <<rest, lock, sent, torn, wire, buf, received, reader>>
  BY DEF Disconnect, CloseTransport, vars, sending, receiving
<1>3. ReaderLeaves
        => /\ UNCHANGED <<rest, lock, sent, torn, wire, buf, received>>
           /\ reader' = "left"
  BY DEF ReaderLeaves, sending
<1> QED  BY <1>1, <1>2, <1>3, QuietStreamStep, LockStreamStep, WriteStreamStep, ReaderStreamStep
         DEF Next, SendStep

\* As long as nothing was written after a frame that was cut short, the other end
\* gets the frames that were written in full, whole and in order, and its loop does
\* not take a legal stream for a bad one, whatever the number of tasks that write,
\* the payloads, and the pieces in which bytes are written and read
\* (frame.rs:30-40, 127-146, 301-329).
THEOREM FramesStayIntact == Spec => []FramesIntact
<1>1. SendInv /\ StreamInv => FramesIntact
  <2> SUFFICES ASSUME SendInv, StreamInv, torn # "overrun"
               PROVE  IsPrefix(received, Frames(sent)) /\ reader \notin {"bad", "full"}
    BY DEF FramesIntact
  <2>1. /\ reader \notin {"bad", "full"} /\ Len(received) <= Len(sent)
        /\ \A i \in 1..Len(received) : received[i] = Payload[sent[i]]
    BY DEF StreamInv
  <2>2. /\ received \in Seq(Seq(Digit)) /\ sent \in Seq(Sender)
        /\ Len(received) \in Nat /\ Len(sent) \in Nat
    BY DEF SendInv, TypeOK
  <2> DEFINE f == Frames(sent)
             n == Len(received)
  <2>3. f \in Seq(Seq(Digit)) /\ Len(f) = Len(sent) /\ \A i \in 1..Len(sent) : f[i] = Payload[sent[i]]
    <3>1. f \in [1..Len(sent) -> Seq(Digit)] /\ \A i \in 1..Len(sent) : f[i] = Payload[sent[i]]
      BY <2>2, BytesAreDigits DEF Frames, Digit
    <3> HIDE DEF f
    <3>2. f \in Seq(Seq(Digit))
      BY <2>2, <3>1, SeqDef
    <3>3. 1..Len(f) = 1..Len(sent) /\ Len(f) \in Nat
      BY <3>1, <3>2, LenProperties
    <3>4. Len(f) = Len(sent)
      BY <2>2, <3>3
    <3> QED  BY <3>1, <3>2, <3>4
  <2> HIDE DEF f
  <2>4. SubSeq(received, 1, n) = received
    BY <2>2, SubSeqFull
  <2>5. SubSeq(f, 1, n) \in Seq(Seq(Digit)) /\ Len(SubSeq(f, 1, n)) = n
        /\ \A i \in 1..n : SubSeq(f, 1, n)[i] = f[i]
    BY <2>1, <2>2, <2>3
  <2> DEFINE g == SubSeq(f, 1, n)
  <2> HIDE DEF g
  <2>6. g \in Seq(Seq(Digit)) /\ Len(g) = n /\ \A i \in 1..n : g[i] = received[i]
    BY <2>1, <2>2, <2>3, <2>5 DEF g
  <2>7. received = g
    BY <2>2, <2>6, SeqEqual
  <2>8. IsPrefix(received, f)
    BY <2>1, <2>3, <2>4, <2>7 DEF IsPrefix, g
  <2> QED  BY <2>1, <2>8 DEF f
<1> QED  BY <1>1, SendInit, SendNext, StreamInit, StreamNext, PTL DEF Spec
=============================================================================
