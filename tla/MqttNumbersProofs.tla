-------------------------- MODULE MqttNumbersProofs --------------------------
(***************************************************************************)
(* The timers of the client are exact on a clock of every width, and the   *)
(* encoding of the remaining length is exact for every length.             *)
(***************************************************************************)
EXTENDS MqttNumbers, NaturalsInduction, WellFoundedInduction, TLAPS

-----------------------------------------------------------------------------
(* Timers *)

\* The timers of the client are exact on a clock of every width.
THEOREM TimersExact ==
  ASSUME UINT32_MAX \in Nat, UINT32_MAX % 2 = 1
  PROVE  TimerExact
<1> DEFINE half == UINT32_MAX \div 2
<1>1. half \in Nat /\ UINT32_MAX = 2 * half + 1
  BY SMT
<1> SUFFICES ASSUME NEW now \in Clock, NEW delay \in 0..half, NEW passed \in Clock,
                    passed < delay + half
             PROVE  LET timer == utils_time_countdown_ms(now, delay)
                        later == Plus(now, passed)
                    IN  /\ utils_time_is_expired(later, timer) <=> passed >= delay
                        /\ iotx_time_left(later, timer) =
                             IF passed < delay THEN delay - passed ELSE 0
                        /\ utils_time_spend(later, now) = passed
  BY DEF TimerExact
<1> DEFINE timer == Plus(now, delay)
           later == Plus(now, passed)
<1> HIDE DEF half
<1>2. /\ now \in Nat /\ now <= 2 * half + 1
      /\ delay \in Nat /\ delay <= half
      /\ passed \in Nat /\ passed <= 2 * half + 1
  BY <1>1 DEF Clock
\* The two differences, each from the sums that wrap or not.
<1>3. Minus(later, timer) =
        IF passed >= delay THEN passed - delay ELSE passed - delay + 2 * half + 2
  BY <1>1, <1>2 DEF Plus, Minus
<1>4. Minus(timer, later) =
        IF delay >= passed THEN delay - passed ELSE delay - passed + 2 * half + 2
  BY <1>1, <1>2 DEF Plus, Minus
<1>5. Minus(later, now) = passed
  BY <1>1, <1>2 DEF Plus, Minus
<1> HIDE DEF timer, later
<1>6. utils_time_is_expired(later, timer) <=> passed >= delay
  BY <1>1, <1>2, <1>3 DEF utils_time_is_expired, half
<1>7. iotx_time_left(later, timer) = IF passed < delay THEN delay - passed ELSE 0
  BY <1>2, <1>4, <1>6 DEF iotx_time_left
<1> QED
  BY <1>5, <1>6, <1>7 DEF utils_time_countdown_ms, utils_time_spend, timer, later

-----------------------------------------------------------------------------
(* What MQTTPacket_encode writes *)

\* A set of numbers that is not empty has a least one.
LEMMA LeastNumber ==
  ASSUME NEW S \in SUBSET Nat, S # {}
  PROVE  \E x \in S : \A y \in S : x <= y
<1> DEFINE R == OpToRel(<, Nat)
<1>1. IsWellFoundedOn(R, Nat)
  BY NatLessThanWellFounded
<1>2. PICK x \in S : \A y \in S : ~(<<y, x>> \in R)
  <2> HIDE DEF R
  <2> QED  BY <1>1, WFMin
<1>3. ASSUME NEW y \in S, ~(x <= y) PROVE FALSE
  <2>1. x \in Nat /\ y \in Nat
    OBVIOUS
  <2>2. y < x
    BY <1>3, <2>1
  <2>3. <<y, x>> \in R
    BY <2>1, <2>2 DEF OpToRel
  <2> QED  BY <1>2, <2>3
<1> QED  BY <1>3

\* A number is made of its last seven bits and the others.
LEMMA SevenBits ==
  ASSUME NEW n \in Nat
  PROVE  /\ n \div 128 \in Nat /\ n % 128 \in Nat /\ n % 128 < 128
         /\ n = 128 * (n \div 128) + (n % 128)
         /\ ((n % 128) + 128) % 128 = n % 128
         /\ n \div 128 > 0 <=> n >= 128
         /\ n \div 128 > 0 => n \div 128 < n
         /\ n < 128 => n % 128 = n
<1>1. /\ n \div 128 \in Nat /\ n % 128 \in Nat /\ n % 128 < 128
      /\ n = 128 * (n \div 128) + (n % 128)
  BY SMT
<1>2. \A k \in Nat : k < 128 => (k + 128) % 128 = k
  BY SMT
<1> QED  BY <1>1, <1>2

\* The loop of MQTTPacket_encode writes a byte and goes on with what is left.
LEMMA EncodeStep ==
  ASSUME NEW n \in Nat
  PROVE  /\ MQTTPacket_encode[n] \in Seq(Nat)
         /\ n < 128 => MQTTPacket_encode[n] = <<n>>
         /\ n >= 128 => MQTTPacket_encode[n] =
                          <<(n % 128) + 128>> \o MQTTPacket_encode[n \div 128]
<1> DEFINE Round(p, i) == IF i \div 128 > 0
                          THEN <<(i % 128) + 128>> \o p[i \div 128]
                          ELSE <<i % 128>>
           Upto(p, m) == /\ p \in [0..m -> Seq(Nat)]
                         /\ \A i \in 0..m : p[i] = Round(p, i)
           Loop(p) == p = [i \in Nat |-> Round(p, i)]
           Good == {m \in Nat : \E p : Upto(p, m)}
<1>1. MQTTPacket_encode = CHOOSE p : Loop(p)
  BY Zenon DEF MQTTPacket_encode
\* A round needs the smaller numbers only.
<1>2. ASSUME NEW i \in Nat, NEW p, i \div 128 > 0 => p[i \div 128] \in Seq(Nat)
      PROVE  Round(p, i) \in Seq(Nat)
  BY <1>2, SevenBits
<1>3. ASSUME NEW i \in Nat, NEW p, NEW q, i \div 128 > 0 => p[i \div 128] = q[i \div 128]
      PROVE  Round(p, i) = Round(q, i)
  BY <1>3, Zenon
<1>r. \A p, i : /\ i \div 128 > 0 => Round(p, i) = <<(i % 128) + 128>> \o p[i \div 128]
                /\ ~(i \div 128 > 0) => Round(p, i) = <<i % 128>>
  BY Zenon
<1> HIDE DEF Round
\* Two tables agree as far as both go.
<1>4. ASSUME NEW m \in Nat, NEW k \in Nat, NEW p, NEW q, Upto(p, m), Upto(q, k)
      PROVE  \A i \in Nat : i <= m /\ i <= k => p[i] = q[i]
  <2> DEFINE Bad == {i \in Nat : i <= m /\ i <= k /\ p[i] # q[i]}
  <2> SUFFICES ASSUME Bad # {} PROVE FALSE
    OBVIOUS
  <2>1. PICK i \in Bad : \A j \in Bad : i <= j
    <3>1. Bad \in SUBSET Nat
      OBVIOUS
    <3> HIDE DEF Bad
    <3> QED  BY <3>1, LeastNumber
  <2>2. i \in Nat /\ i <= m /\ i <= k /\ p[i] # q[i] /\ i \in 0..m /\ i \in 0..k
    OBVIOUS
  <2>3. ASSUME i \div 128 > 0 PROVE p[i \div 128] = q[i \div 128]
    <3>1. i \div 128 \in Nat /\ i \div 128 < i
      BY <2>2, <2>3, SevenBits
    <3> DEFINE j == i \div 128
    <3> HIDE DEF j
    <3>2. j \in Nat /\ j < i
      BY <3>1 DEF j
    <3>3. p[j] = q[j]
      <4> HIDE DEF Upto
      <4> QED  BY <2>1, <2>2, <3>2
    <3> QED  BY <3>3 DEF j
  <2>4. Round(p, i) = Round(q, i)
    BY <1>3, <2>2, <2>3
  <2> QED  BY <1>4, <2>2, <2>4
\* There is a table up to every number.
<1>5. Good = Nat
  <2> SUFFICES ASSUME Nat \ Good # {} PROVE FALSE
    OBVIOUS
  <2>1. PICK x \in Nat \ Good : \A y \in Nat \ Good : x <= y
    <3>1. (Nat \ Good) \in SUBSET Nat
      OBVIOUS
    <3> HIDE DEF Good
    <3> QED  BY <3>1, LeastNumber
  <2>2. \E p : x = 0 \/ Upto(p, x - 1)
    <3>1. CASE x = 0
      BY <3>1
    <3>2. CASE x # 0
      <4>1. x - 1 \in Nat /\ ~(x <= x - 1)
        BY <3>2
      <4>2. x - 1 \in Good
        <5> HIDE DEF Good
        <5> QED  BY <4>1, <2>1
      <4> HIDE DEF Upto
      <4> QED  BY <4>2
    <3> QED  BY <3>1, <3>2
  <2>3. PICK p : x = 0 \/ Upto(p, x - 1)
    <3> HIDE DEF Upto
    <3> QED  BY <2>2
  <2>4. \A i \in Nat : i < x => p[i] \in Seq(Nat) /\ p[i] = Round(p, i)
    BY <2>3
  <2> DEFINE r == Round(p, x)
             q == [i \in 0..x |-> IF i = x THEN r ELSE p[i]]
  <2>5. \A i \in Nat : i \div 128 > 0 => i \div 128 \in Nat /\ i \div 128 < i
    BY SevenBits
  <2>6. r \in Seq(Nat)
    <3>1. x \div 128 > 0 => p[x \div 128] \in Seq(Nat)
      BY <2>4, <2>5
    <3> QED  BY <3>1, <1>2
  <2> HIDE DEF r
  <2>7. /\ q[x] = r
        /\ \A i \in Nat : i < x => q[i] = p[i]
    OBVIOUS
  <2>8. \A i \in 0..x : i \in Nat /\ (i = x \/ i < x)
    OBVIOUS
  <2>9. q \in [0..x -> Seq(Nat)]
    <3>1. \A i \in 0..x : q[i] \in Seq(Nat)
      <4> HIDE DEF q
      <4> QED  BY <2>4, <2>6, <2>7, <2>8
    <3> QED  BY <3>1
  <2> HIDE DEF q
  <2>10. ASSUME NEW i \in 0..x PROVE q[i] = Round(q, i)
    <3>0. i \in Nat /\ i <= x /\ (i = x \/ i < x)
      OBVIOUS
    <3>1. ASSUME i \div 128 > 0 PROVE p[i \div 128] = q[i \div 128]
      <4> DEFINE j == i \div 128
      <4>1. j \in Nat /\ j < i
        BY <3>0, <3>1, <2>5
      <4> HIDE DEF j
      <4>2. p[j] = q[j]
        BY <4>1, <3>0, <2>7
      <4> QED  BY <4>2 DEF j
    <3>2. Round(p, i) = Round(q, i)
      BY <3>0, <3>1, <1>3
    <3>3. CASE i = x
      BY <3>2, <3>3, <2>7 DEF r
    <3>4. CASE i < x
      BY <3>0, <3>2, <3>4, <2>4, <2>7
    <3> QED  BY <3>0, <3>3, <3>4
  <2>11. Upto(q, x)
    BY <2>9, <2>10
  <2>12. x \in Good
    <3> HIDE DEF Upto
    <3> QED  BY <2>11
  <2> HIDE DEF Good
  <2> QED  BY <2>12
\* The last entries of these tables are the function.
<1>6. \E f : Loop(f)
  <2> DEFINE T(m) == CHOOSE p : Upto(p, m)
             f == [m \in Nat |-> T(m)[m]]
  <2>1. ASSUME NEW m \in Nat PROVE Upto(T(m), m)
    <3>1. \E p : Upto(p, m)
      <4>1. m \in Good
        <5> HIDE DEF Good
        <5> QED  BY <1>5
      <4> HIDE DEF Upto
      <4> QED  BY <4>1
    <3> HIDE DEF Upto
    <3> QED  BY <3>1, Zenon
  <2> HIDE DEF T
  <2>2. ASSUME NEW m \in Nat PROVE f[m] = Round(f, m)
    <3>1. m \in 0..m /\ f[m] = T(m)[m]
      OBVIOUS
    <3>2. T(m)[m] = Round(T(m), m)
      BY <2>1, <3>1
    <3>3. ASSUME m \div 128 > 0 PROVE T(m)[m \div 128] = f[m \div 128]
      <4> DEFINE j == m \div 128
      <4>1. j \in Nat /\ j < m
        BY <3>3, SevenBits
      <4> HIDE DEF j
      <4>2. f[j] = T(j)[j]
        BY <4>1
      <4>3. j <= m /\ j <= j
        BY <4>1
      <4>4. Upto(T(m), m) /\ Upto(T(j), j)
        BY <2>1, <4>1
      <4>5. T(m)[j] = T(j)[j]
        <5> HIDE DEF Upto
        <5> QED  BY <4>1, <4>3, <4>4, <1>4
      <4> QED  BY <4>2, <4>5 DEF j
    <3> HIDE DEF f
    <3>4. Round(T(m), m) = Round(f, m)
      BY <3>3, <1>3
    <3> QED  BY <3>1, <3>2, <3>4
  <2>3. f = [m \in Nat |-> Round(f, m)]
    <3>1. f = [m \in Nat |-> f[m]]
      OBVIOUS
    <3> HIDE DEF f
    <3> QED  BY <2>2, <3>1
  <2> HIDE DEF f
  <2> QED  BY <2>3
<1>7. Loop(MQTTPacket_encode)
  <2> HIDE DEF Loop
  <2> QED  BY <1>1, <1>6, Zenon
<1>8. \A i \in Nat : MQTTPacket_encode[i] = Round(MQTTPacket_encode, i)
  <2> DEFINE e == MQTTPacket_encode
  <2>1. e = [i \in Nat |-> Round(e, i)]
    BY <1>7
  <2> HIDE DEF e
  <2>2. \A i \in Nat : e[i] = Round(e, i)
    BY <2>1
  <2> QED  BY <2>2 DEF e
<1>9. \A i \in Nat : MQTTPacket_encode[i] \in Seq(Nat)
  <2> DEFINE Bad == {i \in Nat : MQTTPacket_encode[i] \notin Seq(Nat)}
  <2> SUFFICES ASSUME Bad # {} PROVE FALSE
    OBVIOUS
  <2>1. PICK i \in Bad : \A j \in Bad : i <= j
    <3>1. Bad \in SUBSET Nat
      OBVIOUS
    <3> HIDE DEF Bad
    <3> QED  BY <3>1, LeastNumber
  <2>2. ASSUME i \div 128 > 0 PROVE MQTTPacket_encode[i \div 128] \in Seq(Nat)
    <3> DEFINE j == i \div 128
    <3>1. j \in Nat /\ j < i /\ i \in Nat
      BY <2>2, SevenBits
    <3> HIDE DEF j
    <3>2. j \notin Bad
      <4> HIDE DEF Bad
      <4> QED  BY <2>1, <3>1
    <3>3. MQTTPacket_encode[j] \in Seq(Nat)
      BY <3>1, <3>2
    <3> QED  BY <3>3 DEF j
  <2>3. Round(MQTTPacket_encode, i) \in Seq(Nat)
    BY <1>2, <2>2
  <2> QED  BY <1>8, <2>3
<1>10. n < 128 => n % 128 = n /\ ~(n \div 128 > 0)
  BY SevenBits
<1>11. n >= 128 => n \div 128 > 0
  BY SevenBits
<1>12. MQTTPacket_encode[n] = Round(MQTTPacket_encode, n)
  BY <1>8
<1>13. n < 128 => MQTTPacket_encode[n] = <<n>>
  BY <1>10, <1>12, <1>r, Zenon
<1>14. n >= 128 => MQTTPacket_encode[n] = <<(n % 128) + 128>> \o MQTTPacket_encode[n \div 128]
  BY <1>11, <1>12, <1>r, Zenon
<1> QED  BY <1>9, <1>13, <1>14

\* The bytes one by one: the first of them, and then those of the number without its
\* last seven bits.
LEMMA EncodeShape ==
  ASSUME NEW n \in Nat
  PROVE  /\ Len(MQTTPacket_encode[n]) \in Nat
         /\ n < 128 => /\ Len(MQTTPacket_encode[n]) = 1
                       /\ MQTTPacket_encode[n][1] = n
         /\ n >= 128 =>
              /\ Len(MQTTPacket_encode[n]) = 1 + Len(MQTTPacket_encode[n \div 128])
              /\ MQTTPacket_encode[n][1] = (n % 128) + 128
              /\ \A i \in 1..Len(MQTTPacket_encode[n \div 128]) :
                   MQTTPacket_encode[n][i + 1] = MQTTPacket_encode[n \div 128][i]
<1>1. /\ n \div 128 \in Nat /\ n % 128 \in Nat
  BY SevenBits
<1>2. ASSUME NEW x \in Nat, NEW t \in Seq(Nat)
      PROVE  /\ Len(<<x>> \o t) = 1 + Len(t)
             /\ (<<x>> \o t)[1] = x
             /\ \A i \in 1..Len(t) : (<<x>> \o t)[i + 1] = t[i]
  OBVIOUS
<1>3. \A x : Len(<<x>>) = 1 /\ <<x>>[1] = x
  OBVIOUS
<1> DEFINE e == MQTTPacket_encode[n]
           t == MQTTPacket_encode[n \div 128]
           x == (n % 128) + 128
<1>4. e \in Seq(Nat) /\ t \in Seq(Nat) /\ x \in Nat
  <2>1. e \in Seq(Nat) /\ t \in Seq(Nat)
    BY <1>1, EncodeStep, Zenon
  <2>2. x \in Nat
    BY <1>1
  <2> QED  BY <2>1, <2>2
<1>5. (n < 128 => e = <<n>>) /\ (n >= 128 => e = <<x>> \o t)
  BY EncodeStep, Zenon
<1> HIDE DEF e, t, x
<1>6. n < 128 => Len(e) = 1 /\ e[1] = n
  BY <1>3, <1>5
<1>7. n >= 128 => /\ Len(e) = 1 + Len(t) /\ e[1] = x
                  /\ \A i \in 1..Len(t) : e[i + 1] = t[i]
  BY <1>2, <1>4, <1>5
<1>8. Len(e) \in Nat
  BY <1>4
<1> QED  BY <1>6, <1>7, <1>8, Zenon DEF e, t, x

-----------------------------------------------------------------------------
(* What iotx_mc_decode_packet reads *)

\* A byte before the bytes that stand for value.
Joined(byte, value) == (byte % 128) + 128 * value

\* v has the values that the bytes from each of them on stand for.
Reads(v, bytes) ==
  \A len \in 1..5 :
    v[len] = IF len > 4 \/ len > Len(bytes) THEN Failed
             ELSE IF bytes[len] < 128 THEN bytes[len]
             ELSE IF v[len + 1] = Failed THEN Failed
             ELSE Joined(bytes[len], v[len + 1])

\* iotx_mc_decode_packet yields the value of the bytes from the first on.
LEMMA DecodeFacts ==
  ASSUME NEW bytes \in Seq(Nat)
  PROVE  \E v : Reads(v, bytes) /\ iotx_mc_decode_packet(bytes) = v[1]
<1> DEFINE Round(next, len) ==
             IF len > MAX_NO_OF_REMAINING_LENGTH_BYTES \/ len > Len(bytes) THEN Failed
             ELSE IF bytes[len] < 128 THEN bytes[len]
             ELSE IF next = Failed THEN Failed
             ELSE (bytes[len] % 128) + 128 * next
           Loop(v) == v = [len \in 1..MAX_NO_OF_REMAINING_LENGTH_BYTES + 1 |->
                              Round(v[len + 1], len)]
<1>1. iotx_mc_decode_packet(bytes) = (CHOOSE v : Loop(v))[1]
  BY Zenon DEF iotx_mc_decode_packet
<1>2. \A x, y : Round(x, 5) = Round(y, 5)
  BY DEF MAX_NO_OF_REMAINING_LENGTH_BYTES
<1>3. \A v : Reads(v, bytes) <=> \A len \in 1..5 : v[len] = Round(v[len + 1], len)
  BY Zenon DEF Reads, Joined, MAX_NO_OF_REMAINING_LENGTH_BYTES
<1>a. MAX_NO_OF_REMAINING_LENGTH_BYTES + 1 = 5
  BY DEF MAX_NO_OF_REMAINING_LENGTH_BYTES
<1> HIDE DEF Round
<1>4. \E v : Loop(v)
  <2> DEFINE v5 == Round(0, 5)
             v4 == Round(v5, 4)
             v3 == Round(v4, 3)
             v2 == Round(v3, 2)
             v1 == Round(v2, 1)
             v == [len \in 1..5 |-> IF len = 5 THEN v5 ELSE IF len = 4 THEN v4
                                    ELSE IF len = 3 THEN v3 ELSE IF len = 2 THEN v2 ELSE v1]
  <2> HIDE DEF v5, v4, v3, v2, v1
  <2>1. v[5] = v5 /\ v[4] = v4 /\ v[3] = v3 /\ v[2] = v2 /\ v[1] = v1
    OBVIOUS
  <2>2. v = [len \in 1..5 |-> v[len]]
    OBVIOUS
  <2> HIDE DEF v
  <2>3. v5 = Round(v[6], 5)
    BY <1>2 DEF v5
  <2>4. ASSUME NEW len \in 1..5 PROVE v[len] = Round(v[len + 1], len)
    <3>1. CASE len = 5
      BY <3>1, <2>1, <2>3
    <3>2. CASE len = 4
      BY <3>2, <2>1 DEF v4
    <3>3. CASE len = 3
      BY <3>3, <2>1 DEF v3
    <3>4. CASE len = 2
      BY <3>4, <2>1 DEF v2
    <3>5. CASE len = 1
      BY <3>5, <2>1 DEF v1
    <3>6. len = 5 \/ len = 4 \/ len = 3 \/ len = 2 \/ len = 1
      OBVIOUS
    <3> QED  BY <3>1, <3>2, <3>3, <3>4, <3>5, <3>6
  <2>5. v = [len \in 1..5 |-> Round(v[len + 1], len)]
    BY <2>2, <2>4
  <2> QED  BY <2>5, <1>a
<1> DEFINE w == CHOOSE v : Loop(v)
<1>5. Loop(w)
  <2> HIDE DEF Loop
  <2> QED  BY <1>4, Zenon
<1> HIDE DEF w
<1>6. \A len \in 1..5 : w[len] = Round(w[len + 1], len)
  BY <1>5, <1>a
<1>7. Reads(w, bytes) /\ iotx_mc_decode_packet(bytes) = w[1]
  BY <1>1, <1>3, <1>6 DEF w
<1> QED  BY <1>7

\* A round of the decoder at one of the four bytes.
LEMMA ReadsStep ==
  ASSUME NEW bytes \in Seq(Nat), NEW v, Reads(v, bytes), NEW len \in 1..4, len <= Len(bytes)
  PROVE  /\ bytes[len] < 128 => v[len] = bytes[len]
         /\ bytes[len] >= 128 /\ v[len + 1] = Failed => v[len] = Failed
         /\ \A r \in Nat : bytes[len] >= 128 /\ v[len + 1] = r =>
                             v[len] = Joined(bytes[len], r)
<1>1. len \in 1..5 /\ ~(len > 4 \/ len > Len(bytes)) /\ bytes[len] \in Nat
  OBVIOUS
<1>2. \A x \in Nat : x # Failed
  BY DEF Failed
<1>3. bytes[len] >= 128 => ~(bytes[len] < 128)
  BY <1>1
<1>4. v[len] = IF len > 4 \/ len > Len(bytes) THEN Failed
               ELSE IF bytes[len] < 128 THEN bytes[len]
               ELSE IF v[len + 1] = Failed THEN Failed
               ELSE Joined(bytes[len], v[len + 1])
  BY <1>1, Zenon DEF Reads
<1> QED  BY <1>1, <1>2, <1>3, <1>4, Zenon

-----------------------------------------------------------------------------
(* The remaining length *)

\* From the byte at len on, the bytes are those of the number m.
Ends(bytes, len, m) ==
  /\ Len(bytes) = len - 1 + Len(MQTTPacket_encode[m])
  /\ \A i \in 1..Len(MQTTPacket_encode[m]) :
       bytes[len - 1 + i] = MQTTPacket_encode[m][i]

\* From the byte at len on, the decoder reads the numbers below limit and no others.
Decodes(v, bytes, len, limit) ==
  \A m \in Nat : Ends(bytes, len, m) => v[len] = IF m < limit THEN m ELSE Failed

\* A number has a byte; after the first one come those of the number without its
\* last seven bits.
LEMMA EndsStep ==
  ASSUME NEW bytes \in Seq(Nat), NEW len \in 1..4, NEW m \in Nat, Ends(bytes, len, m)
  PROVE  /\ len <= Len(bytes)
         /\ m < 128 => bytes[len] = m
         /\ m >= 128 => /\ bytes[len] = (m % 128) + 128
                        /\ Ends(bytes, len + 1, m \div 128)
<1> DEFINE e == MQTTPacket_encode[m]
           t == MQTTPacket_encode[m \div 128]
           x == (m % 128) + 128
<1>1. m \div 128 \in Nat
  BY SevenBits
<1>2. Len(e) \in Nat /\ Len(t) \in Nat
  BY <1>1, EncodeShape, Zenon
<1>3. m < 128 => Len(e) = 1 /\ e[1] = m
  BY EncodeShape, Zenon
<1>4. m >= 128 => /\ Len(e) = 1 + Len(t) /\ e[1] = x
                  /\ \A i \in 1..Len(t) : e[i + 1] = t[i]
  BY EncodeShape, Zenon
<1>5. /\ Len(bytes) = len - 1 + Len(e)
      /\ \A i \in 1..Len(e) : bytes[len - 1 + i] = e[i]
  BY Zenon DEF Ends
<1> HIDE DEF e, t, x
<1>6. Len(e) >= 1 /\ 1 \in 1..Len(e)
  BY <1>2, <1>3, <1>4
<1>7. len <= Len(bytes) /\ bytes[len] = e[1]
  <2>1. len - 1 + 1 = len
    OBVIOUS
  <2> QED  BY <2>1, <1>2, <1>5, <1>6
<1>8. ASSUME m >= 128 PROVE Ends(bytes, len + 1, m \div 128)
  <2>1. Len(bytes) = (len + 1) - 1 + Len(t)
    BY <1>2, <1>4, <1>5, <1>8
  <2>2. ASSUME NEW i \in 1..Len(t) PROVE bytes[(len + 1) - 1 + i] = t[i]
    <3>1. i + 1 \in 1..Len(e) /\ len - 1 + (i + 1) = (len + 1) - 1 + i
      BY <1>2, <1>4, <1>8
    <3>2. bytes[len - 1 + (i + 1)] = e[i + 1]
      BY <3>1, <1>5
    <3> QED  BY <3>1, <3>2, <1>4, <1>8
  <2> QED  BY <2>1, <2>2 DEF Ends, t
<1> QED  BY <1>3, <1>4, <1>7, <1>8 DEF x

\* The decoder reads seven bits more from the byte before.
LEMMA DecodesStep ==
  ASSUME NEW bytes \in Seq(Nat), NEW v, Reads(v, bytes),
         NEW len \in 1..4, NEW limit \in Nat, limit >= 1, Decodes(v, bytes, len + 1, limit)
  PROVE  Decodes(v, bytes, len, 128 * limit)
<1> SUFFICES ASSUME NEW m \in Nat, Ends(bytes, len, m)
             PROVE  v[len] = IF m < 128 * limit THEN m ELSE Failed
  BY DEF Decodes
<1> DEFINE rest == m \div 128
           x == m % 128
<1>1. /\ rest \in Nat /\ x \in Nat /\ x < 128 /\ m = 128 * rest + x
      /\ (x + 128) % 128 = x
  BY SevenBits
<1>2. /\ m < 128 => bytes[len] = m
      /\ m >= 128 => bytes[len] = x + 128 /\ Ends(bytes, len + 1, rest)
  BY EndsStep
<1>3. len <= Len(bytes)
  BY EndsStep
<1>4. /\ bytes[len] < 128 => v[len] = bytes[len]
      /\ bytes[len] >= 128 /\ v[len + 1] = Failed => v[len] = Failed
      /\ \A r \in Nat : bytes[len] >= 128 /\ v[len + 1] = r =>
                          v[len] = Joined(bytes[len], r)
  BY <1>3, ReadsStep
<1> HIDE DEF rest, x
<1>5. CASE m < 128
  <2>1. m < 128 * limit
    BY <1>5
  <2> QED  BY <2>1, <1>2, <1>3, <1>4, <1>5
<1>6. CASE m >= 128 /\ rest < limit
  <2>1. m < 128 * limit
    BY <1>1, <1>6
  <2>2. v[len + 1] = rest
    BY <1>1, <1>2, <1>6 DEF Decodes
  <2>3. bytes[len] = x + 128 /\ bytes[len] >= 128
    BY <1>1, <1>2, <1>6
  <2>4. v[len] = Joined(bytes[len], rest)
    BY <1>1, <1>4, <2>2, <2>3
  <2>5. v[len] = m
    BY <1>1, <2>3, <2>4 DEF Joined
  <2> QED  BY <2>1, <2>5
<1>7. CASE m >= 128 /\ ~(rest < limit)
  <2>1. ~(m < 128 * limit)
    BY <1>1, <1>7
  <2>2. v[len + 1] = Failed
    BY <1>1, <1>2, <1>7 DEF Decodes
  <2>3. bytes[len] >= 128
    BY <1>1, <1>2, <1>7
  <2> QED  BY <1>4, <2>1, <2>2, <2>3
<1> QED  BY <1>5, <1>6, <1>7

\* The number of bytes.
LEMMA EncodeLength ==
  ASSUME NEW n \in Nat
  PROVE  /\ n < 128 => Len(MQTTPacket_encode[n]) = 1
         /\ n >= 128 /\ n < 16384 => Len(MQTTPacket_encode[n]) = 2
         /\ n >= 16384 /\ n < 2097152 => Len(MQTTPacket_encode[n]) = 3
         /\ n >= 2097152 /\ n < 268435456 => Len(MQTTPacket_encode[n]) = 4
<1> DEFINE L(m) == Len(MQTTPacket_encode[m])
<1>1. \A m \in Nat : /\ m < 128 => L(m) = 1
                     /\ m >= 128 => L(m) = 1 + L(m \div 128)
  BY EncodeShape, Zenon
<1> HIDE DEF L
<1>2. \A m \in Nat : m \div 128 \in Nat /\ m = 128 * (m \div 128) + (m % 128)
                     /\ m % 128 \in Nat /\ m % 128 < 128
  BY SevenBits, Zenon
<1>3. ASSUME NEW m \in Nat, m >= 128, m < 16384 PROVE L(m) = 2
  <2>1. m \div 128 \in Nat /\ m \div 128 < 128
    BY <1>2, <1>3, SMT
  <2> QED  BY <1>1, <1>3, <2>1, SMT
<1>4. ASSUME NEW m \in Nat, m >= 16384, m < 2097152 PROVE L(m) = 3
  <2>1. m \div 128 \in Nat /\ m \div 128 >= 128 /\ m \div 128 < 16384 /\ m >= 128
    BY <1>2, <1>4, SMT
  <2>2. L(m \div 128) = 2
    BY <1>3, <2>1, SMT
  <2> QED  BY <1>1, <2>1, <2>2, SMT
<1>5. ASSUME NEW m \in Nat, m >= 2097152, m < 268435456 PROVE L(m) = 4
  <2>1. m \div 128 \in Nat /\ m \div 128 >= 16384 /\ m \div 128 < 2097152 /\ m >= 128
    BY <1>2, <1>5, SMT
  <2>2. L(m \div 128) = 3
    BY <1>4, <2>1, SMT
  <2> QED  BY <1>1, <2>1, <2>2, SMT
<1> QED  BY <1>1, <1>3, <1>4, <1>5, SMT DEF L

\* MQTTPacket_encode, iotx_mc_decode_packet and MQTTPacket_len agree on every length:
\* what is written is read back or, from 2^28 on, refused, and it fits.
THEOREM EncodingExact == LengthExact(Nat)
<1> SUFFICES ASSUME NEW n \in Nat
             PROVE  /\ iotx_mc_decode_packet(MQTTPacket_encode[n]) =
                         IF n < 268435456 THEN n ELSE Failed
                    /\ n < 268435456 =>
                         MQTTPacket_len(n) - (1 + Len(MQTTPacket_encode[n]) + n) \in {0, 1}
  BY SMT DEF LengthExact
<1> DEFINE bytes == MQTTPacket_encode[n]
<1>1. bytes \in Seq(Nat)
  BY EncodeStep, Zenon
<1>2. PICK v : Reads(v, bytes) /\ iotx_mc_decode_packet(bytes) = v[1]
  BY <1>1, DecodeFacts, Zenon
<1>3. Ends(bytes, 1, n)
  BY <1>1 DEF Ends
<1> HIDE DEF bytes
\* No fifth byte is read; so the fourth has to be the last.
<1>4. Decodes(v, bytes, 4, 128)
  <2>1. v[5] = Failed
    BY <1>2, 5 \in 1..5, 5 > 4, Zenon DEF Reads
  <2> SUFFICES ASSUME NEW m \in Nat, Ends(bytes, 4, m)
               PROVE  v[4] = IF m < 128 THEN m ELSE Failed
    BY DEF Decodes
  <2>2. /\ m < 128 => bytes[4] = m
        /\ m >= 128 => bytes[4] = (m % 128) + 128
        /\ 4 <= Len(bytes)
    BY <1>1, EndsStep, 4 \in 1..4
  <2>3. /\ bytes[4] < 128 => v[4] = bytes[4]
        /\ bytes[4] >= 128 => v[4] = Failed
    BY <1>1, <1>2, <2>1, <2>2, ReadsStep, 4 \in 1..4, 4 + 1 = 5
  <2>4. m % 128 \in Nat
    BY SevenBits
  <2> QED  BY <2>2, <2>3, <2>4
<1>5. Decodes(v, bytes, 1, 128 * (128 * (128 * 128)))
  <2>1. Decodes(v, bytes, 3, 128 * 128)
    BY <1>1, <1>2, <1>4, DecodesStep, SMT
  <2>2. Decodes(v, bytes, 2, 128 * (128 * 128))
    BY <1>1, <1>2, <2>1, DecodesStep, SMT
  <2> QED  BY <1>1, <1>2, <2>2, DecodesStep, SMT
<1>6. v[1] = IF n < 268435456 THEN n ELSE Failed
  BY <1>3, <1>5, SMT DEF Decodes
<1>7. n < 268435456 => MQTTPacket_len(n) - (1 + Len(MQTTPacket_encode[n]) + n) \in {0, 1}
  <2> DEFINE l == Len(MQTTPacket_encode[n])
  <2>1. /\ n < 128 => l = 1
        /\ n >= 128 /\ n < 16384 => l = 2
        /\ n >= 16384 /\ n < 2097152 => l = 3
        /\ n >= 2097152 /\ n < 268435456 => l = 4
    BY EncodeLength, SMT
  <2> HIDE DEF l
  <2>2. n < 268435456 => MQTTPacket_len(n) - (1 + l + n) \in {0, 1}
    BY <2>1, SMT DEF MQTTPacket_len
  <2> QED  BY <2>2, SMT DEF l
<1> QED  BY <1>2, <1>6, <1>7, SMT DEF bytes

=============================================================================
