------------------------ MODULE MqttSubscribeProofs ------------------------
(***************************************************************************)
(* Theorems about MqttSubscribe, for any number of threads, filters,       *)
(* topics, calls, messages and failures.                                   *)
(***************************************************************************)
EXTENDS MqttSubscribe, FiniteSetTheorems, WellFoundedInduction, TLAPS

-----------------------------------------------------------------------------
(* Induction *)

\* A set of numbers that has 0 and with every number the next one has them all.
\* Loops over a list or a topic are reasoned about with it.
LEMMA AllNumbers ==
  ASSUME NEW S \in SUBSET Nat, 0 \in S, \A n \in S : n + 1 \in S
  PROVE  S = Nat
<1> DEFINE R == OpToRel(<, Nat)
<1> SUFFICES ASSUME Nat \ S # {} PROVE FALSE
  OBVIOUS
<1>1. IsWellFoundedOn(R, Nat)
  BY NatLessThanWellFounded
<1>2. PICK x \in Nat \ S : \A y \in Nat \ S : ~(<<y, x>> \in R)
  <2> HIDE DEF R
  <2>1. Nat \ S \subseteq Nat
    OBVIOUS
  <2> QED  BY <1>1, <2>1, WFMin
<1>3. x # 0 /\ x - 1 \in Nat /\ x - 1 < x /\ x = (x - 1) + 1
  OBVIOUS
<1>4. x - 1 \notin S
  BY <1>3
<1>5. <<x - 1, x>> \in R
  BY <1>3 DEF OpToRel
<1> QED  BY <1>2, <1>3, <1>4, <1>5

-----------------------------------------------------------------------------
(* Taking nodes out of a list *)

\* m names the positions of s, among the first n, at which the elements of r stood:
\* r is what is left of them without S.
Places(m, r, s, n, S) ==
  /\ m \in [1..Len(r) -> 1..n]
  /\ \A i \in 1..Len(r) : r[i] = s[m[i]] /\ r[i] \notin S
  /\ \A i, j \in 1..Len(r) : i < j => m[i] < m[j]
  /\ \A k \in 1..n : s[k] \notin S => \E i \in 1..Len(r) : m[i] = k

\* One round of the loop of Without.
LEMMA PlacesStep ==
  ASSUME NEW T, NEW s \in Seq(T), NEW S, NEW r \in Seq(T),
         NEW n \in Nat, n + 1 <= Len(s), NEW m, Places(m, r, s, n, S)
  PROVE  /\ s[n + 1] \in S => \E q : Places(q, r, s, n + 1, S)
         /\ s[n + 1] \notin S => \E q : Places(q, Append(r, s[n + 1]), s, n + 1, S)
<1>1. ASSUME s[n + 1] \in S PROVE Places(m, r, s, n + 1, S)
  BY <1>1 DEF Places
<1>2. ASSUME s[n + 1] \notin S PROVE \E q : Places(q, Append(r, s[n + 1]), s, n + 1, S)
  <2> DEFINE a == Append(r, s[n + 1])
             q == [i \in 1..Len(r) + 1 |-> IF i = Len(r) + 1 THEN n + 1 ELSE m[i]]
  <2>1. /\ Len(a) = Len(r) + 1 /\ a[Len(r) + 1] = s[n + 1]
        /\ \A i \in 1..Len(r) : a[i] = r[i]
    OBVIOUS
  <2>a. m \in [1..Len(r) -> 1..n] /\ \A i, j \in 1..Len(r) : i < j => m[i] < m[j]
    BY DEF Places
  <2>b. \A i \in 1..Len(r) : m[i] \in 1..n
    BY <2>a
  <2>c. \A i \in 1..Len(r) : i \in 1..Len(r) + 1 /\ i # Len(r) + 1
    OBVIOUS
  <2>d. q[Len(r) + 1] = n + 1 /\ \A i \in 1..Len(r) : q[i] = m[i]
    BY <2>c
  <2>e. \A i \in 1..Len(a) : i = Len(r) + 1 \/ i \in 1..Len(r)
    BY <2>1
  <2>2. q \in [1..Len(a) -> 1..n + 1]
    <3>1. \A i \in 1..Len(r) + 1 : q[i] \in 1..n + 1
      BY <2>1, <2>b, <2>d, <2>e
    <3> QED  BY <3>1, <2>1
  <2> HIDE DEF q, a
  <2>3. \A i \in 1..Len(a) : a[i] = s[q[i]] /\ a[i] \notin S
    BY <1>2, <2>1, <2>d, <2>e DEF Places
  <2>4. ASSUME NEW i \in 1..Len(a), NEW j \in 1..Len(a), i < j PROVE q[i] < q[j]
    <3>1. i \in 1..Len(r) /\ q[i] = m[i] /\ m[i] \in 1..n
      BY <2>4, <2>1, <2>b, <2>d
    <3>2. CASE j = Len(r) + 1
      BY <3>1, <3>2, <2>d
    <3>3. CASE j \in 1..Len(r)
      BY <3>1, <3>3, <2>4, <2>a, <2>d
    <3> QED  BY <3>2, <3>3, <2>e
  <2>5. ASSUME NEW k \in 1..n + 1, s[k] \notin S PROVE \E i \in 1..Len(a) : q[i] = k
    <3>1. CASE k = n + 1
      BY <3>1, <2>1, <2>d
    <3>2. CASE k \in 1..n
      <4>1. PICK i \in 1..Len(r) : m[i] = k
        BY <2>5, <3>2 DEF Places
      <4> QED  BY <4>1, <2>1, <2>d
    <3> QED  BY <3>1, <3>2
  <2>6. Places(q, a, s, n + 1, S)
    BY <2>2, <2>3, <2>4, <2>5 DEF Places
  <2> QED  BY <2>6 DEF a
<1> QED  BY <1>1, <1>2

\* Without takes exactly the elements of S out and keeps the others in their order.
LEMMA WithoutFacts ==
  ASSUME NEW T, NEW s \in Seq(T), NEW S
  PROVE  /\ Without(s, S) \in Seq(T)
         /\ \E m : Places(m, Without(s, S), s, Len(s), S)
<1> DEFINE Round(r, i) == IF s[i] \in S THEN r ELSE Append(r, s[i])
           Loop(p) == p = [i \in 0..Len(s) |-> IF i = 0 THEN <<>> ELSE Round(p[i - 1], i)]
           Upto(p, n) == /\ p \in [0..n -> Seq(T)] /\ p[0] = <<>>
                         /\ \A i \in 1..n : p[i] = Round(p[i - 1], i)
           Good == {n \in Nat : n <= Len(s) => \E p : Upto(p, n)}
<1>1. Without(s, S) = (CHOOSE p : Loop(p))[Len(s)]
  BY Zenon DEF Without
<1>2. \A r \in Seq(T), i \in 1..Len(s) : Round(r, i) \in Seq(T)
  OBVIOUS
<1>3. /\ \A r, i : s[i] \in S => Round(r, i) = r
      /\ \A r, i : s[i] \notin S => Round(r, i) = Append(r, s[i])
  BY Zenon
<1> HIDE DEF Round
<1>4. Len(s) \in Nat
  OBVIOUS
<1>5. 0 \in Good
  <2> DEFINE p == [i \in 0..0 |-> <<>>]
  <2>1. <<>> \in Seq(T) /\ 1..0 = {}
    OBVIOUS
  <2>2. p \in [0..0 -> Seq(T)] /\ p[0] = <<>>
    BY <2>1
  <2> HIDE DEF p
  <2>3. Upto(p, 0)
    BY <2>1, <2>2
  <2> HIDE DEF Upto
  <2> QED  BY <2>3
<1>6. ASSUME NEW n \in Good PROVE n + 1 \in Good
  <2> SUFFICES ASSUME n + 1 <= Len(s) PROVE \E p : Upto(p, n + 1)
    <3> HIDE DEF Upto
    <3> QED  OBVIOUS
  <2>0. n \in Nat /\ n <= Len(s) /\ n + 1 \in 1..Len(s) /\ n \in 0..n
    BY <1>4
  <2>1. PICK p : Upto(p, n)
    <3> HIDE DEF Upto
    <3> QED  BY <1>6, <2>0
  <2> DEFINE x == Round(p[n], n + 1)
             q == [i \in 0..n + 1 |-> IF i = n + 1 THEN x ELSE p[i]]
  <2>2. x \in Seq(T)
    BY <2>0, <2>1, <1>2
  <2> HIDE DEF x
  <2>3. \A i \in 0..n : q[i] = p[i] /\ p[i] \in Seq(T)
    BY <2>0, <2>1
  <2>4. q[n + 1] = x
    BY <2>0
  <2>5. q \in [0..n + 1 -> Seq(T)]
    <3>1. \A i \in 0..n + 1 : i = n + 1 \/ i \in 0..n
      BY <2>0
    <3>2. \A i \in 0..n + 1 : q[i] \in Seq(T)
      <4> HIDE DEF q
      <4> QED  BY <3>1, <2>2, <2>3, <2>4
    <3> QED  BY <3>2
  <2> HIDE DEF q
  <2>6. ASSUME NEW i \in 1..n + 1 PROVE q[i] = Round(q[i - 1], i)
    <3>1. CASE i = n + 1
      <4>1. i - 1 = n
        BY <3>1, <2>0
      <4> QED  BY <3>1, <4>1, <2>0, <2>3, <2>4 DEF x
    <3>2. CASE i \in 1..n
      <4>1. i - 1 \in 0..n /\ i \in 0..n
        BY <3>2, <2>0
      <4> QED  BY <3>2, <4>1, <2>1, <2>3
    <3> QED  BY <3>1, <3>2, <2>0
  <2>7. Upto(q, n + 1)
    BY <2>0, <2>1, <2>3, <2>5, <2>6
  <2> HIDE DEF Upto
  <2> QED  BY <2>7
<1>7. Good = Nat
  <2>1. Good \in SUBSET Nat
    OBVIOUS
  <2> HIDE DEF Good
  <2> QED  BY <1>5, <1>6, <2>1, AllNumbers
<1>8. \E p : Loop(p)
  <2>1. Len(s) \in Good
    BY <1>4, <1>7
  <2>2. PICK p : Upto(p, Len(s))
    <3> HIDE DEF Upto
    <3> QED  BY <2>1, <1>4
  <2>3. \A i \in 0..Len(s) : i # 0 => i \in 1..Len(s)
    BY <1>4
  <2>4. \A i \in 0..Len(s) : p[i] = IF i = 0 THEN <<>> ELSE Round(p[i - 1], i)
    BY <2>2, <2>3
  <2>5. p = [i \in 0..Len(s) |-> p[i]]
    BY <2>2
  <2>6. Loop(p)
    BY <2>4, <2>5
  <2> HIDE DEF Loop
  <2> QED  BY <2>6
<1> DEFINE k == CHOOSE p : Loop(p)
<1>9. Loop(k)
  <2> HIDE DEF Loop
  <2> QED  BY <1>8
<1> HIDE DEF k
<1>10. k[0] = <<>> /\ \A i \in 1..Len(s) : k[i] = Round(k[i - 1], i)
  <2>1. 0 \in 0..Len(s) /\ \A i \in 1..Len(s) : i \in 0..Len(s) /\ i # 0
    BY <1>4
  <2> QED  BY <1>9, <2>1
<1> DEFINE Right(n) == k[n] \in Seq(T) /\ \E m : Places(m, k[n], s, n, S)
           Done == {n \in Nat : n <= Len(s) => Right(n)}
<1>11. Right(0)
  <2>1. Places(<<>>, <<>>, s, 0, S) /\ <<>> \in Seq(T)
    BY DEF Places
  <2> QED  BY <2>1, <1>10
<1>12. ASSUME NEW n \in Nat, n + 1 <= Len(s), Right(n) PROVE Right(n + 1)
  <2>1. n + 1 \in 1..Len(s) /\ (n + 1) - 1 = n
    BY <1>12, <1>4
  <2>2. k[n + 1] = Round(k[n], n + 1)
    BY <1>10, <2>1
  <2>3. k[n + 1] \in Seq(T)
    BY <1>2, <1>12, <2>1, <2>2
  <2>4. PICK m : Places(m, k[n], s, n, S)
    BY <1>12
  <2>5. k[n] \in Seq(T)
    BY <1>12
  <2>6. /\ s[n + 1] \in S => \E q : Places(q, k[n], s, n + 1, S)
        /\ s[n + 1] \notin S => \E q : Places(q, Append(k[n], s[n + 1]), s, n + 1, S)
    BY <1>12, <2>4, <2>5, PlacesStep
  <2>7. \E q : Places(q, k[n + 1], s, n + 1, S)
    BY <1>3, <2>2, <2>6
  <2> QED  BY <2>3, <2>7
<1>13. Done = Nat
  <2> HIDE DEF Right
  <2>1. Done \in SUBSET Nat /\ 0 \in Done /\ \A n \in Done : n + 1 \in Done
    BY <1>4, <1>11, <1>12
  <2> HIDE DEF Done
  <2> QED  BY <2>1, AllNumbers
<1>14. Right(Len(s))
  <2> HIDE DEF Right
  <2> QED  BY <1>4, <1>13
<1>15. Without(s, S) = k[Len(s)]
  BY <1>1 DEF k
<1> QED  BY <1>14, <1>15

-----------------------------------------------------------------------------
(* Topics *)

\* The loop of iotx_mc_is_topic_matched, a level at a time, computes what MQTT says a
\* filter covers, except that a wildcard needs a character to stand for: an empty level,
\* and the level above a '#', are not matched.  For filters and topics of every length.
THEOREM MatcherIsExact ==
  ASSUME NEW f \in Seq(STRING), NEW t \in Seq(STRING \ {"+", "#"})
  PROVE  is_topic_matched(f, t) = (Covers(f, t) /\ ~WildcardOnNothing(f, t))
<1> DEFINE n == Len(f)
           l == Len(t)
           Level(i) == (f[i] = "+" /\ t[i] # Nothing) \/ (f[i] = t[i] /\ f[i] \notin Wild)
           Loop(p) == p = [i \in 1..Len(f) + 1 |->
                             IF i > Len(f) THEN i > Len(t)
                             ELSE /\ i <= Len(t)
                                  /\ \/ f[i] = "#" /\ i = Len(f) /\ t[i] # Nothing
                                     \/ f[i] = "+" /\ t[i] # Nothing /\ p[i + 1]
                                     \/ f[i] = t[i] /\ f[i] \notin Wild /\ p[i + 1]]
           Whole(i) == l <= n /\ \A k \in i..n : k <= l /\ Level(k)
           Hash(i) == /\ i <= n /\ n <= l /\ f[n] = "#" /\ t[n] # Nothing
                      /\ \A k \in i..n - 1 : Level(k)
           Fit(i) == Whole(i) \/ Hash(i)
<1>1. is_topic_matched(f, t) = (CHOOSE p : Loop(p))[1]
  BY Zenon DEF is_topic_matched
<1>2. n \in Nat /\ l \in Nat
  OBVIOUS
<1>3. Fit(n + 1) = (n + 1 > l)
  BY <1>2
<1>b. \A i : Fit(i) \in BOOLEAN /\ Level(i) \in BOOLEAN /\ Whole(i) \in BOOLEAN
               /\ Hash(i) \in BOOLEAN
  OBVIOUS
<1>4. ASSUME NEW i \in 1..n
      PROVE  Fit(i) = (i <= l /\ ((f[i] = "#" /\ i = n /\ t[i] # Nothing) \/ (Level(i) /\ Fit(i + 1))))
  <2> HIDE DEF Level, n, l
  <2>1. Whole(i) <=> i <= l /\ Level(i) /\ Whole(i + 1)
    <3>1. \A k \in i..n : k = i \/ k \in i + 1..n
      BY <1>2
    <3>2. i \in i..n /\ \A k \in i + 1..n : k \in i..n
      BY <1>2
    <3> QED  BY <3>1, <3>2
  <2>2. Hash(i) <=> i <= l /\ ((f[i] = "#" /\ i = n /\ t[i] # Nothing) \/ (Level(i) /\ Hash(i + 1)))
    <3>1. CASE i = n
      <4>1. ~(n + 1 <= n) /\ (n <= l <=> i <= l) /\ n..n - 1 = {} /\ n <= n
        BY <1>2, <3>1
      <4> QED  BY <3>1, <4>1
    <3>2. CASE i < n
      <4>1. \A k \in i..n - 1 : k = i \/ k \in i + 1..n - 1
        BY <1>2, <3>2
      <4>2. i \in i..n - 1 /\ \A k \in i + 1..n - 1 : k \in i..n - 1
        BY <1>2, <3>2
      <4> QED  BY <1>2, <3>2, <4>1, <4>2
    <3> QED  BY <1>2, <3>1, <3>2
  <2> HIDE DEF Whole, Hash
  <2> QED  BY <1>b, <2>1, <2>2
<1>5. \A i \in 1..n : i + 1 \in 1..n + 1 /\ i \in 1..n + 1 /\ ~(i > n)
  BY <1>2
<1>6. \E p : Loop(p)
  <2> DEFINE p == [i \in 1..n + 1 |-> Fit(i)]
  <2> HIDE DEF Fit
  <2>1. p[n + 1] = Fit(n + 1) /\ \A i \in 1..n : p[i] = Fit(i) /\ p[i + 1] = Fit(i + 1)
    BY <1>2, <1>5
  <2>2. ASSUME NEW i \in 1..n + 1
        PROVE  p[i] = IF i > Len(f) THEN i > Len(t)
                      ELSE /\ i <= Len(t)
                           /\ \/ f[i] = "#" /\ i = Len(f) /\ t[i] # Nothing
                              \/ f[i] = "+" /\ t[i] # Nothing /\ p[i + 1]
                              \/ f[i] = t[i] /\ f[i] \notin Wild /\ p[i + 1]
    <3>1. CASE i = n + 1
      <4>1. n + 1 > n
        BY <1>2
      <4> HIDE DEF p
      <4> QED  BY <1>3, <2>1, <3>1, <4>1
    <3>2. CASE i \in 1..n
      <4> HIDE DEF p
      <4> QED  BY <1>b, <1>4, <1>5, <2>1, <3>2
    <3>3. i = n + 1 \/ i \in 1..n
      BY <1>2
    <3> HIDE DEF p
    <3> QED  BY <3>1, <3>2, <3>3
  <2>3. p = [i \in 1..n + 1 |-> p[i]]
    OBVIOUS
  <2> HIDE DEF p
  <2>4. Loop(p)
    BY <2>2, <2>3
  <2> HIDE DEF Loop
  <2> QED  BY <2>4
<1> DEFINE pass == CHOOSE p : Loop(p)
<1>7. Loop(pass)
  <2> HIDE DEF Loop
  <2> QED  BY <1>6
<1> HIDE DEF pass
<1>8. /\ pass[n + 1] = (n + 1 > l)
      /\ \A i \in 1..n :
           pass[i] = (i <= l /\ ((f[i] = "#" /\ i = n /\ t[i] # Nothing) \/ (Level(i) /\ pass[i + 1])))
  <2>1. n + 1 \in 1..n + 1 /\ n + 1 > n
    BY <1>2
  <2>2. ASSUME NEW i \in 1..n + 1
        PROVE  pass[i] = IF i > Len(f) THEN i > Len(t)
                         ELSE /\ i <= Len(t)
                              /\ \/ f[i] = "#" /\ i = Len(f) /\ t[i] # Nothing
                                 \/ f[i] = "+" /\ t[i] # Nothing /\ pass[i + 1]
                                 \/ f[i] = t[i] /\ f[i] \notin Wild /\ pass[i + 1]
    BY <1>7
  <2> QED  BY <1>5, <2>1, <2>2
<1> HIDE DEF Fit, Level, Loop
<1> DEFINE Same == {d \in Nat : d <= n => pass[n + 1 - d] = Fit(n + 1 - d)}
<1>9. Same = Nat
  <2>1. 0 \in Same
    <3>1. n + 1 - 0 = n + 1
      BY <1>2
    <3> QED  BY <1>2, <1>3, <1>8, <3>1
  <2>2. ASSUME NEW d \in Same, d + 1 <= n PROVE pass[n + 1 - (d + 1)] = Fit(n + 1 - (d + 1))
    <3>1. PICK i \in 1..n : i = n + 1 - (d + 1) /\ i + 1 = n + 1 - d /\ d <= n
      BY <1>2, <2>2
    <3>2. pass[i + 1] = Fit(i + 1)
      BY <2>2, <3>1
    <3>3. pass[i] = Fit(i)
      BY <1>4, <1>8, <3>2
    <3> QED  BY <3>1, <3>3
  <2>3. \A d \in Same : d + 1 \in Same
    BY <1>2, <2>2
  <2>4. Same \in SUBSET Nat
    OBVIOUS
  <2> HIDE DEF Same
  <2> QED  BY <2>1, <2>3, <2>4, AllNumbers
<1>10. is_topic_matched(f, t) = Fit(1)
  <2>1. n \in Same
    BY <1>2, <1>9
  <2> QED  BY <1>1, <1>2, <2>1 DEF pass
<1>11. \A i \in 1..l : t[i] # "#" /\ t[i] # "+"
  OBVIOUS
<1> DEFINE Like(i) == f[i] \in {"+", t[i]}
<1>12. \A i \in 1..l : Level(i) <=> Like(i) /\ ~(f[i] \in Wild /\ t[i] = Nothing)
  BY <1>11 DEF Level, Wild
<1>13. DOMAIN f = 1..n /\ \A i \in 1..n : i \in Nat
  OBVIOUS
<1>14. Fit(1) <=> \/ l = n /\ \A k \in 1..n : Level(k)
                  \/ /\ 1 <= n /\ n <= l /\ f[n] = "#" /\ t[n] # Nothing
                     /\ \A k \in 1..n - 1 : Level(k)
  <2> HIDE DEF Level, n, l
  <2>1. Whole(1) <=> l = n /\ \A k \in 1..n : Level(k)
    <3>1. CASE n <= l
      BY <1>2, <3>1
    <3>2. CASE ~(n <= l)
      <4>1. n \in 1..n
        BY <1>2, <3>2
      <4> QED  BY <1>2, <3>2, <4>1
    <3> QED  BY <3>1, <3>2
  <2> HIDE DEF Whole
  <2> QED  BY <2>1 DEF Fit
<1>15. Covers(f, t) <=> \/ l = n /\ \A k \in 1..n : Like(k)
                        \/ 1 <= n /\ f[n] = "#" /\ n <= l + 1 /\ \A k \in 1..n - 1 : Like(k)
  BY <1>2, <1>13 DEF Covers
<1>16. WildcardOnNothing(f, t) <=> \E k \in 1..n : f[k] \in Wild /\ (k > l \/ t[k] = Nothing)
  BY <1>13 DEF WildcardOnNothing
<1> HIDE DEF n, l, Like, Level, Fit
<1>17. Fit(1) => Covers(f, t) /\ ~WildcardOnNothing(f, t)
  <2>1. ASSUME l = n, \A k \in 1..n : Level(k) PROVE Covers(f, t) /\ ~WildcardOnNothing(f, t)
    BY <1>2, <1>12, <1>15, <1>16, <2>1
  <2>2. ASSUME 1 <= n, n <= l, f[n] = "#", t[n] # Nothing, \A k \in 1..n - 1 : Level(k)
        PROVE  Covers(f, t) /\ ~WildcardOnNothing(f, t)
    <3>1. \A k \in 1..n : k \in 1..l /\ (k = n \/ k \in 1..n - 1)
      BY <1>2, <2>2
    <3>2. \A k \in 1..n - 1 : k \in 1..n
      BY <1>2
    <3>3. n <= l + 1
      BY <1>2, <2>2
    <3>4. \A k \in 1..n : ~(k > l) /\ (f[k] \in Wild => t[k] # Nothing)
      BY <1>2, <1>12, <2>2, <3>1
    <3>5. \A k \in 1..n - 1 : Like(k)
      BY <1>12, <2>2, <3>1, <3>2
    <3> QED  BY <1>15, <1>16, <2>2, <3>3, <3>4, <3>5
  <2> QED  BY <1>14, <2>1, <2>2
<1>18. ASSUME Covers(f, t), ~WildcardOnNothing(f, t) PROVE Fit(1)
  <2>1. \A k \in 1..n : f[k] \in Wild => k <= l /\ t[k] # Nothing
    BY <1>2, <1>16, <1>18
  <2>2. CASE l = n /\ \A k \in 1..n : Like(k)
    BY <1>12, <1>14, <2>1, <2>2
  <2>3. CASE 1 <= n /\ f[n] = "#" /\ n <= l + 1 /\ \A k \in 1..n - 1 : Like(k)
    <3>1. n \in 1..n /\ f[n] \in Wild
      BY <1>2, <2>3 DEF Wild
    <3>2. n <= l /\ t[n] # Nothing
      BY <2>1, <3>1
    <3>3. \A k \in 1..n - 1 : k \in 1..l /\ k \in 1..n
      BY <1>2, <3>2
    <3>4. \A k \in 1..n - 1 : Level(k)
      BY <1>12, <2>1, <2>3, <3>3
    <3> QED  BY <1>14, <2>3, <3>2, <3>4
  <2> QED  BY <1>15, <1>18, <2>2, <2>3
<1>19. Covers(f, t) \in BOOLEAN /\ WildcardOnNothing(f, t) \in BOOLEAN /\ Fit(1) \in BOOLEAN
  BY DEF Covers, WildcardOnNothing, Fit
<1> QED  BY <1>10, <1>17, <1>18, <1>19

-----------------------------------------------------------------------------
(* The inductive invariant *)

\* A call has an id of its own once its SUBSCRIBE is written, and waits for it only
\* after that.
CallInv ==
  \A t \in Threads :
    /\ call[t].pc # "idle" => call[t].filter \in Filters /\ call[t].fn \in Fns
    /\ call[t].pc \in {"idle", "subscribe"} => call[t].id = 0
    /\ call[t].pc \in {"add", "register"} => call[t].id # 0
    /\ call[t].subed => call[t].pc \in {"yield", "check"} /\ call[t].id # 0
    /\ call[t].id <= packet_id
    /\ \A u \in Threads : call[u].id = call[t].id /\ call[t].id # 0 => u = t

\* A number that no handler to come will have as its key.
Spent(k) == k <= packet_id /\ \A t \in Threads : call[t].pc = "add" => call[t].id # k

\* Keys name handlers.
TableInv ==
  /\ \A i \in DOMAIN list_sub_handle : Spent(list_sub_handle[i].key)
  /\ \A i, j \in DOMAIN list_sub_handle :
       list_sub_handle[i].key = list_sub_handle[j].key => i = j

\* Two subscriptions of the same filter, function and context leave one handler.
OneHandlerEach ==
  \A i, j \in DOMAIN list_sub_handle :
    i # j => \/ list_sub_handle[i].filter # list_sub_handle[j].filter
             \/ list_sub_handle[i].fn # list_sub_handle[j].fn

\* Nodes of list_sub_sync_ack have different ids, each that of a call that waits.
WaitInv ==
  /\ \A i, j \in DOMAIN list_sub_sync_ack :
       list_sub_sync_ack[i].id = list_sub_sync_ack[j].id => i = j
  /\ \A i \in DOMAIN list_sub_sync_ack :
       \E t \in Threads : call[t].subed /\ call[t].id = list_sub_sync_ack[i].id

\* A handler that was added and that no unsubscribe has left without a trace.
Present(f, u) ==
  \/ \E i \in DOMAIN list_sub_handle :
       list_sub_handle[i].filter = f /\ list_sub_handle[i].fn = u
  \/ [filter |-> f, fn |-> u] \in removed

\* Good news comes from the broker, and a call past its subscribe has its handler.
AnswerInv ==
  /\ \A i \in DOMAIN down : down[i].type = "SUBACK" /\ down[i].granted => down[i].id \in granted
  /\ \A i \in DOMAIN list_sub_sync_ack :
       list_sub_sync_ack[i].ack = "SUCCESS" => list_sub_sync_ack[i].id \in granted
  /\ \A t \in Threads :
       call[t].pc \in {"sent", "register", "yield", "check"} /\ call[t].id # 0
         => Present(call[t].filter, call[t].fn)
  /\ \A c \in confirmed : c.id \in granted /\ Present(c.filter, c.fn)

\* A SUBSCRIBE is answered once: its id is asked, or on its way, or known.
OnceInv ==
  /\ \A a \in asked : a.id <= packet_id
  /\ \A i \in DOMAIN down :
       down[i].type = "SUBACK" =>
         /\ down[i].id <= packet_id
         /\ [type |-> "SUBSCRIBE", id |-> down[i].id] \notin asked
         /\ \A j \in DOMAIN down :
              down[j].type = "SUBACK" /\ down[j].id = down[i].id => i = j
  /\ \A i \in DOMAIN list_sub_sync_ack :
       list_sub_sync_ack[i].ack # "UNDEF" =>
         /\ [type |-> "SUBSCRIBE", id |-> list_sub_sync_ack[i].id] \notin asked
         /\ \A j \in DOMAIN down :
              down[j].type = "SUBACK" => down[j].id # list_sub_sync_ack[i].id

\* The calls that have yet to use an id, and the refusals that may make one more.
Owing    == {t \in Threads : call[t].pc # "idle" /\ call[t].id = 0}
Refusals == {down[i].id : i \in {j \in DOMAIN down : down[j].type = "SUBACK" /\ ~down[j].granted}}
Nacks    == {list_sub_sync_ack[i].id :
               i \in {j \in DOMAIN list_sub_sync_ack : list_sub_sync_ack[j].ack = "NACK"}}

\* Every id is paid for by a call or a failure.
DebtInv ==
  /\ IsFiniteSet(Owing) /\ IsFiniteSet(Refusals \cup Nacks)
  /\ packet_id + Cardinality(Owing) + Cardinality(Refusals \cup Nacks)
       <= Len(Before) + calls + faults

Matched(h) == is_topic_matched(h.filter, rd.msg.topic)

\* Where a delivery stands: the handlers it has given the message to are not behind
\* the one that runs, and those it owes it to are.
WalkInv ==
  /\ Spent(rd.at)
  /\ \A h \in rd.start : Spent(h.key)
  /\ \A i \in DOMAIN rd.got : Spent(rd.got[i].key)
  /\ rd.pc \in {"message", "default", "finish"} /\ ~dangling =>
       \A i, j \in DOMAIN rd.got :
         /\ Matched(rd.got[i])
         /\ i < j => rd.got[i].key # rd.got[j].key
  /\ rd.pc = "message" /\ ~dangling =>
       \A q \in PositionOf(rd.at), p \in DOMAIN list_sub_handle :
         /\ list_sub_handle[p] \in rd.start /\ Matched(list_sub_handle[p]) =>
              p > q \/ \E i \in DOMAIN rd.got : rd.got[i] = list_sub_handle[p]
         /\ \A i \in DOMAIN rd.got : rd.got[i].key = list_sub_handle[p].key => p <= q
  /\ rd.pc \in {"default", "finish"} /\ ~dangling =>
       \A p \in DOMAIN list_sub_handle :
         list_sub_handle[p] \in rd.start /\ Matched(list_sub_handle[p]) =>
           \E i \in DOMAIN rd.got : rd.got[i] = list_sub_handle[p]

\* A handler that has its place in the table, or that an unsubscribe took out.
Kept(h) ==
  \/ \E p \in DOMAIN list_sub_handle : list_sub_handle[p] = h
  \/ [filter |-> h.filter, fn |-> h.fn] \in removed

\* Two handlers, g served before h: so they stand in the table, and they are different
\* subscriptions, or a new one after an unsubscribe.
Served(g, h) ==
  /\ \A p, q \in DOMAIN list_sub_handle :
       list_sub_handle[p] = g /\ list_sub_handle[q] = h => p < q
  /\ g.filter # h.filter \/ g.fn # h.fn \/ [filter |-> g.filter, fn |-> g.fn] \in removed

\* The order in which handlers are served.
OrderInv ==
  /\ \A a \in DOMAIN rd.got : Kept(rd.got[a])
  /\ rd.pc \in {"message", "default", "finish"} /\ ~dangling =>
       \A a, b \in DOMAIN rd.got : a < b => Served(rd.got[a], rd.got[b])

SubInv ==
  /\ TypeOK /\ CallInv /\ TableInv /\ OneHandlerEach /\ WaitInv /\ AnswerInv /\ OnceInv
  /\ DebtInv /\ WalkInv /\ OrderInv

-----------------------------------------------------------------------------
(* Types *)

\* The bounds are numbers, and the initial values have their types.
LEMMA ConstantFacts ==
  /\ Len(Before) \in Nat /\ MaxCalls \in Nat /\ MaxMsgs \in Nat /\ MaxFaults \in Nat
  /\ 0 \in Id /\ Id \subseteq Nat
  /\ IdleCall \in Call /\ FreeRd \in Reading /\ NoMsg \in Msg
<1>1. Len(Before) \in Nat /\ MaxCalls \in Nat /\ MaxMsgs \in Nat /\ MaxFaults \in Nat
  BY BoundsAssumption, TopicsAssumption
<1>2. 0 \in Id /\ Id \subseteq Nat
  BY <1>1 DEF Id
<1>3. IdleCall \in Call
  BY <1>2 DEF IdleCall, Call
<1>4. NoMsg \in Msg
  BY <1>1 DEF NoMsg, Msg
<1>5. FreeRd \in Reading
  BY <1>2, <1>4 DEF FreeRd, Reading
<1> QED  BY <1>1, <1>2, <1>3, <1>4, <1>5

\* A call that has yet to use an id leaves room for one.
LEMMA RoomForOwing ==
  ASSUME TypeOK, DebtInv, NEW t \in Owing
  PROVE  packet_id + 1 \in Id
<1>1. Cardinality(Owing) \in Nat /\ Cardinality(Owing) # 0
  BY FS_CardinalityType, FS_EmptySet DEF DebtInv
<1>2. Cardinality(Refusals \cup Nacks) \in Nat
  BY FS_CardinalityType DEF DebtInv
<1>3. packet_id \in Nat /\ calls \in 0..MaxCalls /\ faults \in 0..MaxFaults
  BY ConstantFacts DEF TypeOK
<1>4. packet_id + 1 <= Len(Before) + MaxCalls + MaxFaults
  BY <1>1, <1>2, <1>3, ConstantFacts DEF DebtInv
<1> QED  BY <1>3, <1>4, ConstantFacts DEF Id

\* So does a call that may still be made.
LEMMA RoomForCall ==
  ASSUME TypeOK, DebtInv, calls < MaxCalls
  PROVE  packet_id + 1 \in Id
<1>1. Cardinality(Owing) \in Nat
  BY FS_CardinalityType DEF DebtInv
<1>2. Cardinality(Refusals \cup Nacks) \in Nat
  BY FS_CardinalityType DEF DebtInv
<1>3. packet_id \in Nat /\ calls \in 0..MaxCalls /\ faults \in 0..MaxFaults
  BY ConstantFacts DEF TypeOK
<1>4. packet_id + 1 <= Len(Before) + MaxCalls + MaxFaults
  BY <1>1, <1>2, <1>3, ConstantFacts DEF DebtInv
<1> QED  BY <1>3, <1>4, ConstantFacts DEF Id

\* What a call may become.
LEMMA CallTypes ==
  ASSUME TypeOK, NEW t \in Threads
  PROVE  /\ Returns(t) => call' \in [Threads -> Call]
         /\ \A pc \in {"idle", "subscribe", "add", "sent", "register", "yield", "check"} :
              /\ Goto(t, pc) => call' \in [Threads -> Call]
              /\ \A id \in Id : call' = [call EXCEPT ![t].pc = pc, ![t].id = id]
                                  => call' \in [Threads -> Call]
              /\ \A id \in Id, b \in BOOLEAN :
                   call' = [call EXCEPT ![t].pc = pc, ![t].id = id, ![t].subed = b]
                     => call' \in [Threads -> Call]
              /\ \A b \in BOOLEAN :
                   call' = [call EXCEPT ![t].pc = pc, ![t].subed = b]
                     => call' \in [Threads -> Call]
<1>1. call \in [Threads -> Call]
  BY DEF TypeOK
<1>2. call[t] \in Call
  BY <1>1
<1>3. Returns(t) => call' \in [Threads -> Call]
  BY <1>1, ConstantFacts DEF Returns
<1> SUFFICES ASSUME NEW pc \in {"idle", "subscribe", "add", "sent", "register", "yield", "check"}
             PROVE  /\ Goto(t, pc) => call' \in [Threads -> Call]
                    /\ \A id \in Id : call' = [call EXCEPT ![t].pc = pc, ![t].id = id]
                                        => call' \in [Threads -> Call]
                    /\ \A id \in Id, b \in BOOLEAN :
                         call' = [call EXCEPT ![t].pc = pc, ![t].id = id, ![t].subed = b]
                           => call' \in [Threads -> Call]
                    /\ \A b \in BOOLEAN :
                         call' = [call EXCEPT ![t].pc = pc, ![t].subed = b]
                           => call' \in [Threads -> Call]
  BY Zenon, <1>3
<1>4. Goto(t, pc) => call' \in [Threads -> Call]
  <2>1. [call[t] EXCEPT !.pc = pc] \in Call
    BY <1>2 DEF Call
  <2> QED  BY <1>1, <2>1 DEF Goto
<1>5. ASSUME NEW id \in Id, call' = [call EXCEPT ![t].pc = pc, ![t].id = id]
      PROVE  call' \in [Threads -> Call]
  <2>1. [call[t] EXCEPT !.pc = pc, !.id = id] \in Call
    BY <1>2 DEF Call
  <2> QED  BY <1>1, <1>5, <2>1
<1>6. ASSUME NEW id \in Id, NEW b \in BOOLEAN,
             call' = [call EXCEPT ![t].pc = pc, ![t].id = id, ![t].subed = b]
      PROVE  call' \in [Threads -> Call]
  <2>1. [call[t] EXCEPT !.pc = pc, !.id = id, !.subed = b] \in Call
    BY <1>2 DEF Call
  <2> QED  BY <1>1, <1>6, <2>1
<1>7. ASSUME NEW b \in BOOLEAN, call' = [call EXCEPT ![t].pc = pc, ![t].subed = b]
      PROVE  call' \in [Threads -> Call]
  <2>1. [call[t] EXCEPT !.pc = pc, !.subed = b] \in Call
    BY <1>2 DEF Call
  <2> QED  BY <1>1, <1>7, <2>1
<1> QED  BY Zenon, <1>4, <1>5, <1>6, <1>7

\* Taking nodes out of a list leaves a list of the same type.
LEMMA WithoutType ==
  ASSUME NEW T, NEW s \in Seq(T), NEW S
  PROVE  Without(s, S) \in Seq(T)
BY WithoutFacts

\* Every step keeps the types.
LEMMA TypeStep ==
  ASSUME SubInv, [Next]_vars
  PROVE  TypeOK'
<1> USE ConstantFacts DEF SubInv
<1>1. ASSUME NEW t \in Threads, NEW op \in Ops, NEW f \in Filters, NEW fn \in Fns,
             subscribe(t, op, f, fn)
      PROVE  TypeOK'
  <2>0. [IdleCall EXCEPT !.pc = "subscribe", !.op = op, !.filter = f, !.fn = fn] \in Call
    BY <1>1 DEF Call, IdleCall
  <2>1. call' \in [Threads -> Call] /\ calls' \in 0..MaxCalls
    BY <1>1, <2>0 DEF subscribe, TypeOK, MayCall
  <2>2. UNCHANGED <<client, rd, broker, faults, history>>
    BY <1>1 DEF subscribe
  <2> QED  BY <2>1, <2>2 DEF TypeOK, client, broker, history
<1>2. ASSUME NEW t \in Threads, subscribe_refused(t) \/ subscribe_write_fails(t) PROVE TypeOK'
  <2>1. call' \in [Threads -> Call]
    BY <1>2, CallTypes DEF subscribe_refused, subscribe_write_fails, Refused
  <2>2. /\ client_state' \in {"CONNECTED", "DISCONNECTED", "RECONNECTING"}
        /\ faults' \in 0..MaxFaults
    BY <1>2 DEF subscribe_refused, subscribe_write_fails, Fault, client, TypeOK
  <2>3. UNCHANGED <<list_sub_handle, list_sub_sync_ack, packet_id, rd, broker, calls, history>>
    BY <1>2 DEF subscribe_refused, subscribe_write_fails, client
  <2> QED  BY <2>1, <2>2, <2>3 DEF TypeOK, broker, history
<1>3. ASSUME NEW t \in Threads, subscribe_sent(t) PROVE TypeOK'
  <2>1. t \in Owing
    BY <1>3 DEF subscribe_sent, Owing, CallInv
  <2>2. packet_id' \in Id
    BY <1>3, <2>1, RoomForOwing DEF subscribe_sent
  <2>3. call' \in [Threads -> Call]
    BY <1>3, <2>2, CallTypes DEF subscribe_sent
  <2>4. asked' \subseteq [type : {"SUBSCRIBE", "UNSUBSCRIBE"}, id : Id]
    BY <1>3, <2>2 DEF subscribe_sent, TypeOK
  <2>5. UNCHANGED <<client_state, list_sub_handle, list_sub_sync_ack, rd, link, down, published,
                    msgs, calls, faults, history>>
    BY <1>3 DEF subscribe_sent
  <2> QED  BY <2>2, <2>3, <2>4, <2>5 DEF TypeOK, history
<1>4. ASSUME NEW t \in Threads, NEW id \in Id, call[t].pc # "idle", add_handler(call[t].filter, call[t].fn, id)
      PROVE  list_sub_handle' \in Seq(Handler)
  <2>1. [key |-> id, filter |-> call[t].filter, fn |-> call[t].fn] \in Handler
    BY <1>4 DEF Handler, Handled, CallInv
  <2> QED  BY <1>4, <2>1 DEF add_handler, TypeOK
<1>5. ASSUME NEW t \in Threads, subscribe_local(t) PROVE TypeOK'
  <2>1. t \in Owing
    BY <1>5 DEF subscribe_local, Owing, CallInv
  <2>2. packet_id' \in Id
    BY <1>5, <2>1, RoomForOwing DEF subscribe_local
  <2>3. call' \in [Threads -> Call]
    BY <1>5, CallTypes DEF subscribe_local
  <2>4. list_sub_handle' \in Seq(Handler)
    BY <1>4, <1>5, <2>2 DEF subscribe_local
  <2>5. UNCHANGED <<client_state, list_sub_sync_ack, rd, broker, calls, faults, history>>
    BY <1>5 DEF subscribe_local
  <2> QED  BY <2>2, <2>3, <2>4, <2>5 DEF TypeOK, history, broker
<1>6. ASSUME NEW t \in Threads, subscribe_added(t) PROVE TypeOK'
  <2>1. call' \in [Threads -> Call]
    BY <1>6, CallTypes DEF subscribe_added
  <2>2. call[t].id \in Id
    BY DEF TypeOK, Call
  <2>3. list_sub_handle' \in Seq(Handler)
    BY <1>4, <1>6, <2>2 DEF subscribe_added
  <2>4. UNCHANGED <<client_state, list_sub_sync_ack, packet_id, rd, broker, calls, faults, history>>
    BY <1>6 DEF subscribe_added
  <2> QED  BY <2>1, <2>3, <2>4 DEF TypeOK, history, broker
<1>7. ASSUME NEW t \in Threads,
             sync_in_callback(t) \/ sync_failed(t) \/ sync_yielded(t) \/ sync_timer(t)
      PROVE  TypeOK'
  <2>1. call' \in [Threads -> Call]
    <3>1. CASE sync_timer(t)
      <4>1. call \in [Threads -> Call] /\ call[t] \in Call
        BY DEF TypeOK
      <4>2. [call[t] EXCEPT !.expired = TRUE] \in Call
        BY <4>1 DEF Call
      <4> QED  BY <3>1, <4>1, <4>2 DEF sync_timer
    <3>2. CASE sync_in_callback(t) \/ sync_failed(t) \/ sync_yielded(t)
      BY <3>2, CallTypes DEF sync_in_callback, sync_failed, sync_yielded
    <3> QED  BY <1>7, <3>1, <3>2
  <2>2. UNCHANGED <<client, rd, broker, calls, faults, history>>
    BY <1>7 DEF sync_in_callback, sync_failed, sync_yielded, sync_timer
  <2> QED  BY <2>1, <2>2 DEF TypeOK, client, broker, history
<1>8. ASSUME NEW t \in Threads, sync_registers(t) PROVE TypeOK'
  <2>1. call' \in [Threads -> Call]
    BY <1>8, CallTypes DEF sync_registers
  <2>2. [id |-> call[t].id, ack |-> "UNDEF"] \in [id : Id, ack : Ack]
    BY DEF TypeOK, Call, Ack
  <2>3. list_sub_sync_ack' \in Seq([id : Id, ack : Ack]) /\ faults' \in 0..MaxFaults
    <3>1. list_sub_sync_ack \in Seq([id : Id, ack : Ack]) /\ faults \in 0..MaxFaults
      BY DEF TypeOK
    <3> DEFINE T == [id : Id, ack : Ack]
               n == [id |-> call[t].id, ack |-> "UNDEF"]
    <3>2. \/ list_sub_sync_ack' = Append(list_sub_sync_ack, n) /\ faults' = faults
          \/ list_sub_sync_ack' = list_sub_sync_ack /\ faults < MaxFaults /\ faults' = faults + 1
      BY <1>8 DEF sync_registers, Fault
    <3> HIDE DEF T, n
    <3>3. n \in T
      BY <2>2 DEF T, n
    <3>4. list_sub_sync_ack \in Seq(T)
      BY <3>1 DEF T
    <3>5. list_sub_sync_ack' \in Seq(T)
      BY <3>2, <3>3, <3>4
    <3> QED  BY <3>1, <3>2, <3>5 DEF T
  <2>4. UNCHANGED <<client_state, list_sub_handle, packet_id, rd, broker, calls, history>>
    BY <1>8 DEF sync_registers
  <2> QED  BY <2>1, <2>3, <2>4 DEF TypeOK, broker, history
<1>9. ASSUME NEW t \in Threads, sync_succeeds(t) \/ sync_again(t) \/ sync_times_out(t) PROVE TypeOK'
  <2>1. call' \in [Threads -> Call]
    <3>1. NextRound(t) \in {"subscribe", "register", "yield"}
      BY DEF NextRound
    <3>2. call[t].id \in Id /\ call[t].subed \in BOOLEAN
      BY DEF TypeOK, Call
    <3>3. CASE sync_again(t)
      BY <3>1, <3>2, <3>3, CallTypes DEF sync_again
    <3> QED  BY <1>9, <3>3, CallTypes DEF sync_succeeds, sync_times_out
  <2>2. list_sub_sync_ack' \in Seq([id : Id, ack : Ack])
    <3>1. CASE sync_times_out(t)
      BY <3>1, WithoutType DEF sync_times_out, WithoutId, TypeOK
    <3>2. CASE sync_succeeds(t) \/ sync_again(t)
      <4>1. Outcome(t) \in {"SUCCESS", "NACK"} => list_sub_sync_ack # <<>>
        BY DEF Outcome
      <4>2. \/ list_sub_sync_ack' = list_sub_sync_ack
            \/ list_sub_sync_ack' = Tail(list_sub_sync_ack) /\ list_sub_sync_ack # <<>>
        BY <3>2, <4>1 DEF sync_succeeds, sync_again
      <4>3. \A T : \A s \in Seq(T) : s # <<>> => Tail(s) \in Seq(T)
        OBVIOUS
      <4> QED  BY <4>2, <4>3 DEF TypeOK
    <3> QED  BY <1>9, <3>1, <3>2
  <2>3. confirmed' \subseteq [id : Id, filter : Filters, fn : Fns]
    <3>1. CASE sync_succeeds(t)
      <4>1. call[t].id \in Id /\ call[t].filter \in Filters /\ call[t].fn \in Fns
        BY <3>1 DEF sync_succeeds, TypeOK, Call, CallInv
      <4> QED  BY <3>1, <4>1 DEF sync_succeeds, TypeOK
    <3> QED  BY <1>9, <3>1 DEF sync_again, sync_times_out, history, TypeOK
  <2>4. UNCHANGED <<client_state, list_sub_handle, packet_id, rd, broker, calls, faults, granted,
                    removed, acked, dangling>>
    BY <1>9 DEF sync_succeeds, sync_again, sync_times_out, history
  <2> QED  BY <2>1, <2>2, <2>3, <2>4 DEF TypeOK, broker
<1>10. ASSUME NEW t \in Threads, NEW f \in Filters, unsubscribe(t, f) PROVE TypeOK'
  <2>1. packet_id' \in Id /\ calls' \in 0..MaxCalls
    BY <1>10, RoomForCall DEF unsubscribe, MayCall, TypeOK
  <2>2. asked' \subseteq [type : {"SUBSCRIBE", "UNSUBSCRIBE"}, id : Id]
    BY <1>10, <2>1 DEF unsubscribe, TypeOK
  <2>3. list_sub_handle' \in Seq(Handler)
    BY <1>10, WithoutType DEF unsubscribe, TypeOK
  <2>4. Unsubscribed(f) \subseteq Handler
    BY DEF Unsubscribed, Range, TypeOK
  <2>5. removed' \subseteq [filter : Handled, fn : Fns]
    BY <1>10, <2>4 DEF unsubscribe, TypeOK, Handler
  <2>6. UNCHANGED <<client_state, list_sub_sync_ack, call, rd, link, down, published, msgs, faults,
                    granted, confirmed, acked, dangling>>
    BY <1>10 DEF unsubscribe
  <2> QED  BY <2>1, <2>2, <2>3, <2>5, <2>6 DEF TypeOK
<1>11. ASSUME NEW t \in Threads, unsubscribe_write_fails(t) PROVE TypeOK'
  <2>1. calls' \in 0..MaxCalls /\ client_state' = "DISCONNECTED"
    BY <1>11 DEF unsubscribe_write_fails, MayCall, TypeOK
  <2>2. UNCHANGED <<list_sub_handle, list_sub_sync_ack, packet_id, call, rd, broker, faults, history>>
    BY <1>11 DEF unsubscribe_write_fails
  <2> QED  BY <2>1, <2>2 DEF TypeOK, broker, history
<1>12. ASSUME NEW t \in Threads, NEW type, Receives(t, type)
       PROVE  /\ down' \in Seq(Packet) /\ Head(down) \in Packet /\ Head(down).type = type
              /\ type = "PUBLISH" => Head(down).msg \in Msg
  BY <1>12 DEF Receives, TypeOK, Packet
<1>13. ASSUME NEW t \in Threads, NEW pc \in Callbacks, HoldsRd(t, pc) PROVE rd' \in Reading
  BY <1>13 DEF HoldsRd, Reading, FreeRd
<1>14. ASSUME NEW t \in Threads, handle_recv_SUBACK(t) \/ handle_recv_UNSUBACK(t) PROVE TypeOK'
  <2>1. rd' \in Reading
    BY <1>14, <1>13 DEF handle_recv_SUBACK, handle_recv_UNSUBACK, Callbacks
  <2>2. down' \in Seq(Packet)
    BY <1>14, <1>12 DEF handle_recv_SUBACK, handle_recv_UNSUBACK
  <2>3. list_sub_sync_ack' \in Seq([id : Id, ack : Ack])
    <3>1. CASE handle_recv_SUBACK(t)
      <4> DEFINE T == [id : Id, ack : Ack]
                 p == Head(down)
                 marked(n) == IF suback_matches(n, p.id)
                              THEN [n EXCEPT !.ack = IF p.granted THEN "SUCCESS" ELSE "NACK"]
                              ELSE n
      <4>1. list_sub_sync_ack' = [i \in DOMAIN list_sub_sync_ack |-> marked(list_sub_sync_ack[i])]
        BY <3>1 DEF handle_recv_SUBACK
      <4>2. \A n \in T : marked(n) \in T
        BY DEF Ack
      <4>3. list_sub_sync_ack \in Seq(T)
        BY DEF TypeOK
      <4> HIDE DEF T, p, marked
      <4>4. list_sub_sync_ack' \in Seq(T)
        BY <4>1, <4>2, <4>3
      <4> QED  BY <4>4 DEF T
    <3>2. CASE handle_recv_UNSUBACK(t)
      BY <3>2 DEF handle_recv_UNSUBACK, client, TypeOK
    <3> QED  BY <1>14, <3>1, <3>2
  <2>4. UNCHANGED <<client_state, list_sub_handle, packet_id, call, link, asked, published, msgs,
                    calls, faults, history>>
    BY <1>14 DEF handle_recv_SUBACK, handle_recv_UNSUBACK, client
  <2> QED  BY <2>1, <2>2, <2>3, <2>4 DEF TypeOK, history
<1>15. ASSUME NEW r \in Reading, NEW i \in 0..Len(list_sub_handle), Deliver(r, i)
       PROVE  rd' \in Reading
  <2>1. next_handler(i, r.msg.topic) # 0 =>
          next_handler(i, r.msg.topic) \in DOMAIN list_sub_handle
    BY DEF next_handler, Matching, TypeOK
  <2>2. \A j \in DOMAIN list_sub_handle :
          list_sub_handle[j] \in Handler /\ list_sub_handle[j].key \in Id
    <3>1. \A j \in DOMAIN list_sub_handle : list_sub_handle[j] \in Handler
      BY DEF TypeOK
    <3> QED  BY <3>1 DEF Handler
  <2>3. \A j \in DOMAIN list_sub_handle : Append(r.got, list_sub_handle[j]) \in Seq(Handler)
    BY <2>2 DEF Reading
  <2> QED  BY <1>15, <2>1, <2>2, <2>3 DEF Deliver, Reading, Callbacks
<1>16. ASSUME NEW t \in Threads, handle_recv_PUBLISH(t) PROVE TypeOK'
  <2>1. down' \in Seq(Packet) /\ Head(down).msg \in Msg
    BY <1>16, <1>12 DEF handle_recv_PUBLISH
  <2>2. Range(list_sub_handle) \subseteq Handler
    BY DEF Range, TypeOK
  <2>3. [FreeRd EXCEPT !.owner = t, !.msg = Head(down).msg, !.start = Range(list_sub_handle)]
          \in Reading
    BY <2>1, <2>2 DEF Reading, FreeRd
  <2>4. 0 \in 0..Len(list_sub_handle)
    BY DEF TypeOK
  <2>5. rd' \in Reading
    BY <1>15, <1>16, <2>3, <2>4 DEF handle_recv_PUBLISH
  <2>6. UNCHANGED <<client, call, link, asked, published, msgs, calls, faults, history>>
    BY <1>16 DEF handle_recv_PUBLISH
  <2> QED  BY <2>1, <2>5, <2>6 DEF TypeOK, client, history
<1>17. ASSUME NEW t \in Threads, message_callback_ends(t) PROVE TypeOK'
  <2>1. PositionOf(rd.at) \subseteq 0..Len(list_sub_handle)
    BY DEF PositionOf, TypeOK
  <2>2. rd' \in Reading /\ dangling' \in BOOLEAN
    BY <1>15, <1>17, <2>1 DEF message_callback_ends, TypeOK
  <2>3. UNCHANGED <<client, call, broker, calls, faults, granted, confirmed, removed, acked>>
    BY <1>17 DEF message_callback_ends
  <2> QED  BY <2>2, <2>3 DEF TypeOK, client, broker
<1>18. ASSUME NEW t \in Threads,
              \/ default_callback_ends(t) \/ event_callback_ends(t) \/ disconnect_callback(t)
              \/ keepalive_disconnected(t) \/ cycle_read_closed(t)
       PROVE  TypeOK'
  <2>1. rd' \in Reading
    <3>1. [rd EXCEPT !.pc = "finish"] \in Reading /\ rd \in Reading
      BY DEF TypeOK, Reading
    <3> QED  BY <1>13, <1>18, <3>1
             DEF default_callback_ends, event_callback_ends, disconnect_callback,
                 keepalive_disconnected, cycle_read_closed, Callbacks
  <2>2. client_state' \in {"CONNECTED", "DISCONNECTED", "RECONNECTING"}
    BY <1>18 DEF default_callback_ends, event_callback_ends, disconnect_callback,
                 keepalive_disconnected, cycle_read_closed, read_closed_state, client, TypeOK
  <2>3. UNCHANGED <<list_sub_handle, list_sub_sync_ack, packet_id, call, broker, calls, faults,
                    history>>
    BY <1>18 DEF default_callback_ends, event_callback_ends, disconnect_callback,
                 keepalive_disconnected, cycle_read_closed, client
  <2> QED  BY <2>1, <2>2, <2>3 DEF TypeOK, broker, history
<1>19. ASSUME NEW t \in Threads, MQTTPuback(t) PROVE TypeOK'
  <2>1. rd' \in Reading /\ acked' \subseteq Msg
    BY <1>19 DEF MQTTPuback, TypeOK, Reading
  <2>2. UNCHANGED <<client, call, broker, calls, faults, granted, confirmed, removed, dangling>>
    BY <1>19 DEF MQTTPuback
  <2> QED  BY <2>1, <2>2 DEF TypeOK, client, broker
<1>20. ASSUME NEW t \in Threads, reconnect_callback(t) PROVE TypeOK'
  <2>1. rd' \in Reading /\ client_state' = "CONNECTED" /\ link' = "up"
    BY <1>13, <1>20 DEF reconnect_callback, Callbacks
  <2>2. down' \in Seq(Packet)
    <3> DEFINE s == Without(published, acked)
    <3>1. s \in Seq(Msg)
      BY WithoutType DEF TypeOK
    <3>2. down' = [i \in DOMAIN s |-> [type |-> "PUBLISH", msg |-> s[i]]]
      BY <1>20 DEF reconnect_callback
    <3>3. \A m \in Msg : [type |-> "PUBLISH", msg |-> m] \in Packet
      BY DEF Packet
    <3> HIDE DEF s
    <3> QED  BY <3>1, <3>2, <3>3
  <2>3. UNCHANGED <<list_sub_handle, list_sub_sync_ack, packet_id, call, asked, published, msgs,
                    calls, faults, history>>
    BY <1>20 DEF reconnect_callback
  <2> QED  BY <2>1, <2>2, <2>3 DEF TypeOK, history
<1>21. CASE link_breaks
  <2>1. link' = "broken" /\ down' = <<>> /\ asked' = {} /\ faults' \in 0..MaxFaults
    BY <1>21 DEF link_breaks, Fault, TypeOK
  <2>2. UNCHANGED <<client, call, rd, published, msgs, calls, history>>
    BY <1>21 DEF link_breaks
  <2>3. down' \in Seq(Packet)
    BY <2>1
  <2> QED  BY <2>1, <2>2, <2>3 DEF TypeOK, client, history
<1>22. CASE broker_answers
  <2>1. PICK a \in asked :
          /\ asked' = asked \ {a}
          /\ \/ /\ down' = Append(down, [type |-> "UNSUBACK", id |-> a.id])
                /\ UNCHANGED <<granted, faults>>
             \/ /\ down' = Append(down, [type |-> "SUBACK", id |-> a.id, granted |-> TRUE])
                /\ granted' = granted \cup {a.id}
                /\ UNCHANGED faults
             \/ /\ Fault
                /\ down' = Append(down, [type |-> "SUBACK", id |-> a.id, granted |-> FALSE])
                /\ UNCHANGED granted
    BY <1>22 DEF broker_answers
  <2>2. a.id \in Id
    BY DEF TypeOK
  <2>3. /\ [type |-> "UNSUBACK", id |-> a.id] \in Packet
        /\ [type |-> "SUBACK", id |-> a.id, granted |-> TRUE] \in Packet
        /\ [type |-> "SUBACK", id |-> a.id, granted |-> FALSE] \in Packet
    BY <2>2 DEF Packet
  <2>4. \A p \in Packet : Append(down, p) \in Seq(Packet)
    BY DEF TypeOK
  <2>5. down' \in Seq(Packet)
    BY <2>1, <2>3, <2>4
  <2>6. /\ asked' \subseteq [type : {"SUBSCRIBE", "UNSUBSCRIBE"}, id : Id]
        /\ granted' \subseteq Id /\ faults' \in 0..MaxFaults
    <3>1. granted' = granted \/ granted' = granted \cup {a.id}
      BY <2>1
    <3>2. faults' = faults \/ Fault
      BY <2>1
    <3>3. granted' \subseteq Id
      BY <2>2, <3>1 DEF TypeOK
    <3>4. faults' \in 0..MaxFaults
      BY <3>2 DEF Fault, TypeOK
    <3> QED  BY <2>1, <3>3, <3>4 DEF TypeOK
  <2>7. UNCHANGED <<client, call, rd, link, published, msgs, calls, confirmed, removed, acked,
                    dangling>>
    BY <1>22 DEF broker_answers
  <2> QED  BY <2>5, <2>6, <2>7 DEF TypeOK, client
<1>23. ASSUME NEW topic \in Topics, NEW qos \in {0, 1}, broker_publishes(topic, qos) PROVE TypeOK'
  <2> DEFINE m == [id |-> msgs + 1, topic |-> topic, qos |-> qos]
  <2>1. msgs' = msgs + 1 /\ msgs' \in 0..MaxMsgs
    BY <1>23 DEF broker_publishes, TypeOK
  <2>2. m \in Msg
    BY <2>1 DEF Msg
  <2>3. down' \in Seq(Packet)
    <3>1. [type |-> "PUBLISH", msg |-> m] \in Packet
      BY <2>2 DEF Packet
    <3> HIDE DEF m
    <3>2. \A p \in Packet : Append(down, p) \in Seq(Packet)
      BY DEF TypeOK
    <3>3. down' = Append(down, [type |-> "PUBLISH", msg |-> m])
      BY <1>23 DEF broker_publishes, m
    <3> QED  BY <3>1, <3>2, <3>3
  <2>4. published' \in Seq(Msg)
    <3>1. published' = published \/ published' = Append(published, m)
      BY <1>23 DEF broker_publishes
    <3>2. published \in Seq(Msg)
      BY DEF TypeOK
    <3> HIDE DEF m
    <3> QED  BY <2>2, <3>1, <3>2
  <2>5. UNCHANGED <<client, call, rd, link, asked, calls, faults, history>>
    BY <1>23 DEF broker_publishes
  <2> QED  BY <2>1, <2>3, <2>4, <2>5 DEF TypeOK, client, history
<1>24. CASE UNCHANGED vars
  BY <1>24 DEF vars, client, broker, history, TypeOK
<1> QED
  BY <1>1, <1>2, <1>3, <1>5, <1>6, <1>7, <1>8, <1>9, <1>10, <1>11, <1>14, <1>16, <1>17, <1>18,
     <1>19, <1>20, <1>21, <1>22, <1>23, <1>24 DEF Next, Starts, Step

-----------------------------------------------------------------------------
(* What a step does to the calls *)

Only(t)      == \A u \in Threads : u # t => call'[u] = call[u]
Moved(t, pc) ==
  /\ Only(t) /\ call'[t].pc = pc /\ call'[t].id = call[t].id
  /\ call'[t].filter = call[t].filter /\ call'[t].fn = call[t].fn /\ call'[t].subed = call[t].subed
Ended(t)     == Only(t) /\ call'[t] = IdleCall

\* A call that has returned has no id, no node and no filter.
LEMMA IdleFields ==
  /\ IdleCall.pc = "idle" /\ IdleCall.id = 0 /\ IdleCall.subed = FALSE
  /\ IdleCall.filter = <<>>
BY DEF IdleCall

\* A call that returns or goes on changes nothing for the other threads.
LEMMA MoveFacts ==
  ASSUME TypeOK, NEW t \in Threads
  PROVE  /\ Returns(t) => Ended(t)
         /\ \A pc : Goto(t, pc) => Moved(t, pc)
<1>1. call \in [Threads -> Call] /\ call[t] \in Call
  BY DEF TypeOK
<1>2. Returns(t) => Ended(t)
  BY <1>1 DEF Returns, Ended, Only
<1>3. ASSUME NEW pc, Goto(t, pc) PROVE Moved(t, pc)
  BY <1>1, <1>3 DEF Goto, Moved, Only, Call
<1> QED  BY <1>2, <1>3

\* The calls of wrapper_mqtt_subscribe.
LEMMA SubscribeEffect ==
  ASSUME TypeOK, CallInv, NEW t \in Threads
  PROVE  /\ \A op \in Ops, f \in Filters, fn \in Fns :
              subscribe(t, op, f, fn) =>
                /\ Only(t) /\ call[t].pc = "idle" /\ call'[t].pc = "subscribe"
                /\ call'[t].id = 0 /\ ~call'[t].subed /\ call'[t].filter = f
                /\ call'[t].fn = fn
         /\ subscribe_refused(t) \/ subscribe_write_fails(t) =>
              call[t].pc = "subscribe" /\ (Ended(t) \/ Moved(t, "sent"))
         /\ subscribe_sent(t) =>
              /\ Only(t) /\ call[t].pc = "subscribe" /\ call'[t].pc = "add"
              /\ call'[t].id = packet_id' /\ call'[t].subed = call[t].subed
              /\ call'[t].filter = call[t].filter /\ call'[t].fn = call[t].fn
         /\ subscribe_local(t) => call[t].pc = "subscribe" /\ Ended(t)
         /\ subscribe_added(t) => call[t].pc = "add" /\ (Ended(t) \/ Moved(t, "sent"))
<1>1. call \in [Threads -> Call] /\ call[t] \in Call
  BY DEF TypeOK
<1>2. ASSUME NEW op \in Ops, NEW f \in Filters, NEW fn \in Fns,
             subscribe(t, op, f, fn)
      PROVE  /\ Only(t) /\ call[t].pc = "idle" /\ call'[t].pc = "subscribe"
             /\ call'[t].id = 0 /\ ~call'[t].subed /\ call'[t].filter = f
             /\ call'[t].fn = fn
  <2>1. call' = [call EXCEPT ![t] = [IdleCall EXCEPT !.pc = "subscribe", !.op = op, !.filter = f,
                                                      !.fn = fn]]
    BY <1>2 DEF subscribe
  <2>2. /\ call'[t] = [IdleCall EXCEPT !.pc = "subscribe", !.op = op, !.filter = f, !.fn = fn]
        /\ Only(t)
    BY <1>1, <2>1 DEF Only
  <2>3. call[t].pc = "idle"
    BY <1>2 DEF subscribe, MayCall
  <2> QED  BY <2>2, <2>3 DEF IdleCall
<1>3. ASSUME subscribe_refused(t) \/ subscribe_write_fails(t)
      PROVE  call[t].pc = "subscribe" /\ (Ended(t) \/ Moved(t, "sent"))
  BY <1>3, MoveFacts DEF subscribe_refused, subscribe_write_fails, Refused
<1>4. ASSUME subscribe_sent(t)
      PROVE  /\ Only(t) /\ call[t].pc = "subscribe" /\ call'[t].pc = "add"
             /\ call'[t].id = packet_id' /\ call'[t].subed = call[t].subed
             /\ call'[t].filter = call[t].filter /\ call'[t].fn = call[t].fn
  <2>1. call' = [call EXCEPT ![t].pc = "add", ![t].id = packet_id'] /\ call[t].pc = "subscribe"
    BY <1>4 DEF subscribe_sent
  <2> QED  BY <1>1, <2>1 DEF Only, Call
<1>5. subscribe_local(t) => call[t].pc = "subscribe" /\ Ended(t)
  BY MoveFacts DEF subscribe_local
<1>6. subscribe_added(t) => call[t].pc = "add" /\ (Ended(t) \/ Moved(t, "sent"))
  BY MoveFacts DEF subscribe_added
<1> QED  BY <1>2, <1>3, <1>4, <1>5, <1>6

\* The loop of wrapper_mqtt_subscribe_sync.
LEMMA SyncEffect ==
  ASSUME TypeOK, CallInv, NEW t \in Threads
  PROVE  /\ sync_in_callback(t) => call[t].pc = "sent" /\ Ended(t)
         /\ sync_failed(t) => call[t].pc = "sent" /\ Moved(t, "yield")
         /\ sync_registers(t) =>
              /\ Only(t) /\ call[t].pc \in {"sent", "register"} /\ call[t].id # 0
              /\ call'[t].pc = "yield" /\ call'[t].id = call[t].id
              /\ call'[t].filter = call[t].filter /\ call'[t].fn = call[t].fn
              /\ \/ /\ call'[t].subed
                    /\ list_sub_sync_ack' =
                         Append(list_sub_sync_ack, [id |-> call[t].id, ack |-> "UNDEF"])
                    /\ faults' = faults
                 \/ /\ call'[t].subed = call[t].subed /\ list_sub_sync_ack' = list_sub_sync_ack
                    /\ faults' = faults + 1
         /\ sync_yielded(t) => call[t].pc = "yield" /\ Moved(t, "check")
         /\ sync_succeeds(t) \/ sync_times_out(t) => call[t].pc = "check" /\ Ended(t)
         /\ sync_again(t) =>
              /\ Only(t) /\ call[t].pc = "check" /\ call'[t].filter = call[t].filter /\ call'[t].fn = call[t].fn
              /\ Outcome(t) = "NACK" =>
                   /\ call'[t].pc = "subscribe" /\ call'[t].id = 0 /\ ~call'[t].subed
                   /\ list_sub_sync_ack' = Tail(list_sub_sync_ack)
              /\ Outcome(t) # "NACK" =>
                   /\ call'[t].id = call[t].id /\ call'[t].subed = call[t].subed
                   /\ list_sub_sync_ack' = list_sub_sync_ack
                   /\ \/ call[t].id = 0 /\ call'[t].pc = "subscribe"
                      \/ call[t].id # 0 /\ ~call[t].subed /\ call'[t].pc = "register"
                      \/ call[t].id # 0 /\ call[t].subed /\ call'[t].pc = "yield"
         /\ sync_timer(t) => call[t].pc # "idle" /\ Moved(t, call[t].pc)
<1>1. call \in [Threads -> Call] /\ call[t] \in Call
  BY DEF TypeOK
<1>2. /\ sync_in_callback(t) => call[t].pc = "sent" /\ Ended(t)
      /\ sync_failed(t) => call[t].pc = "sent" /\ Moved(t, "yield")
      /\ sync_yielded(t) => call[t].pc = "yield" /\ Moved(t, "check")
      /\ sync_succeeds(t) \/ sync_times_out(t) => call[t].pc = "check" /\ Ended(t)
  BY MoveFacts DEF sync_in_callback, sync_failed, sync_yielded, sync_succeeds, sync_times_out
<1>3. ASSUME sync_registers(t)
      PROVE  /\ Only(t) /\ call[t].pc \in {"sent", "register"} /\ call[t].id # 0
             /\ call'[t].pc = "yield" /\ call'[t].id = call[t].id
             /\ call'[t].filter = call[t].filter /\ call'[t].fn = call[t].fn
             /\ \/ /\ call'[t].subed
                   /\ list_sub_sync_ack' =
                        Append(list_sub_sync_ack, [id |-> call[t].id, ack |-> "UNDEF"])
                   /\ faults' = faults
                \/ /\ call'[t].subed = call[t].subed /\ list_sub_sync_ack' = list_sub_sync_ack
                   /\ faults' = faults + 1
  <2>1. call[t].pc \in {"sent", "register"} /\ call[t].id # 0
    BY <1>3 DEF sync_registers, CallInv
  <2>2. CASE Goto(t, "yield") /\ list_sub_sync_ack' = list_sub_sync_ack /\ faults' = faults + 1
    BY <2>1, <2>2, MoveFacts DEF Moved
  <2>3. CASE /\ call' = [call EXCEPT ![t].pc = "yield", ![t].subed = TRUE]
             /\ list_sub_sync_ack' =
                  Append(list_sub_sync_ack, [id |-> call[t].id, ack |-> "UNDEF"])
             /\ faults' = faults
    <3>1. /\ Only(t) /\ call'[t].pc = "yield" /\ call'[t].id = call[t].id
          /\ call'[t].filter = call[t].filter /\ call'[t].fn = call[t].fn /\ call'[t].subed = TRUE
      BY <1>1, <2>3 DEF Only, Call
    <3> QED  BY <2>1, <2>3, <3>1
  <2> QED  BY <1>3, <2>2, <2>3 DEF sync_registers, Fault
<1>4. ASSUME sync_again(t)
      PROVE  /\ Only(t) /\ call[t].pc = "check" /\ call'[t].filter = call[t].filter /\ call'[t].fn = call[t].fn
             /\ Outcome(t) = "NACK" =>
                  /\ call'[t].pc = "subscribe" /\ call'[t].id = 0 /\ ~call'[t].subed
                  /\ list_sub_sync_ack' = Tail(list_sub_sync_ack)
             /\ Outcome(t) # "NACK" =>
                  /\ call'[t].id = call[t].id /\ call'[t].subed = call[t].subed
                  /\ list_sub_sync_ack' = list_sub_sync_ack
                  /\ \/ call[t].id = 0 /\ call'[t].pc = "subscribe"
                     \/ call[t].id # 0 /\ ~call[t].subed /\ call'[t].pc = "register"
                     \/ call[t].id # 0 /\ call[t].subed /\ call'[t].pc = "yield"
  <2>1. call[t].pc = "check"
    BY <1>4 DEF sync_again
  <2>2. CASE Outcome(t) = "NACK"
    <3>1. /\ call' = [call EXCEPT ![t].pc = "subscribe", ![t].id = 0, ![t].subed = FALSE]
          /\ list_sub_sync_ack' = Tail(list_sub_sync_ack)
      BY <1>4, <2>2 DEF sync_again, NextRound
    <3>2. /\ Only(t) /\ call'[t].pc = "subscribe" /\ call'[t].id = 0 /\ call'[t].subed = FALSE
          /\ call'[t].filter = call[t].filter /\ call'[t].fn = call[t].fn
      BY <1>1, <3>1 DEF Only, Call
    <3> QED  BY <2>1, <2>2, <3>1, <3>2
  <2>3. CASE Outcome(t) # "NACK"
    <3>1. /\ call' = [call EXCEPT ![t].pc = NextRound(t), ![t].id = @, ![t].subed = @]
          /\ list_sub_sync_ack' = list_sub_sync_ack
      BY <1>4, <2>3 DEF sync_again
    <3>2. /\ Only(t) /\ call'[t].pc = NextRound(t) /\ call'[t].id = call[t].id
          /\ call'[t].subed = call[t].subed /\ call'[t].filter = call[t].filter /\ call'[t].fn = call[t].fn
      BY <1>1, <3>1 DEF Only, Call
    <3>3. \/ call[t].id = 0 /\ NextRound(t) = "subscribe"
          \/ call[t].id # 0 /\ ~call[t].subed /\ NextRound(t) = "register"
          \/ call[t].id # 0 /\ call[t].subed /\ NextRound(t) = "yield"
      BY <2>3 DEF NextRound
    <3> QED  BY <2>1, <2>3, <3>1, <3>2, <3>3
  <2> QED  BY <2>2, <2>3
<1>5. ASSUME sync_timer(t) PROVE call[t].pc # "idle" /\ Moved(t, call[t].pc)
  <2>1. call' = [call EXCEPT ![t].expired = TRUE] /\ call[t].pc # "idle"
    BY <1>5 DEF sync_timer
  <2> QED  BY <1>1, <2>1 DEF Moved, Only, Call
<1> QED  BY <1>2, <1>3, <1>4, <1>5

\* The steps that leave every call as it is.
LEMMA CallUnchanged ==
  ASSUME NEW t \in Threads,
         \/ \E f \in Filters : unsubscribe(t, f)
         \/ unsubscribe_write_fails(t)
         \/ handle_recv_SUBACK(t) \/ handle_recv_UNSUBACK(t) \/ handle_recv_PUBLISH(t)
         \/ message_callback_ends(t) \/ default_callback_ends(t) \/ event_callback_ends(t)
         \/ MQTTPuback(t) \/ cycle_read_closed(t)
         \/ disconnect_callback(t) \/ keepalive_disconnected(t) \/ reconnect_callback(t)
  PROVE  call' = call /\ (packet_id' = packet_id \/ packet_id' = packet_id + 1)
BY DEF unsubscribe, unsubscribe_write_fails, handle_recv_SUBACK, handle_recv_UNSUBACK,
       handle_recv_PUBLISH, message_callback_ends, default_callback_ends, event_callback_ends,
       MQTTPuback, cycle_read_closed, disconnect_callback, keepalive_disconnected,
       reconnect_callback, client

\* The broker and the connection leave every call and every list as it is.
LEMMA BrokerUnchanged ==
  ASSUME \/ link_breaks \/ broker_answers
         \/ \E topic \in Topics, qos \in {0, 1} : broker_publishes(topic, qos)
         \/ UNCHANGED vars
  PROVE  call' = call /\ packet_id' = packet_id /\ UNCHANGED client
BY DEF link_breaks, broker_answers, broker_publishes, vars, client

\* The steps of a call: the id it may get, and where it can be afterwards.
LEMMA OneCall ==
  ASSUME TypeOK, TypeOK', CallInv, NEW t \in Threads, Only(t),
         packet_id <= packet_id',
         call'[t].pc # "idle" => call'[t].filter \in Filters /\ call'[t].fn \in Fns,
         call'[t].pc \in {"idle", "subscribe"} => call'[t].id = 0,
         call'[t].pc \in {"add", "register"} => call'[t].id # 0,
         call'[t].subed => call'[t].pc \in {"yield", "check"} /\ call'[t].id # 0,
         \/ call'[t].id = 0 \/ call'[t].id = call[t].id
         \/ call'[t].id = packet_id' /\ packet_id' = packet_id + 1
  PROVE  CallInv'
<1>1. packet_id \in Nat /\ packet_id' \in Nat
  BY ConstantFacts DEF TypeOK
<1>2. \A u \in Threads : call[u].id \in Nat /\ call[u].id <= packet_id
  BY ConstantFacts DEF TypeOK, Call, CallInv
<1>3. \A u \in Threads : call'[u].id <= packet_id'
  BY <1>1, <1>2 DEF Only
<1>4. ASSUME NEW u \in Threads, NEW v \in Threads, call'[u].id = call'[v].id, call'[v].id # 0
      PROVE  u = v
  BY <1>1, <1>2, <1>4 DEF Only, CallInv
<1> QED  BY <1>3, <1>4 DEF Only, CallInv

\* Every step keeps the ids of the calls apart.
LEMMA CallStep ==
  ASSUME SubInv, TypeOK', [Next]_vars
  PROVE  CallInv'
<1> USE DEF SubInv
<1>1. packet_id \in Nat /\ \A t \in Threads : call[t].subed \in BOOLEAN
  BY ConstantFacts DEF TypeOK, Call
<1>2. ASSUME NEW t \in Threads, NEW op \in Ops, NEW f \in Filters, NEW fn \in Fns,
             subscribe(t, op, f, fn)
      PROVE  CallInv'
  <2>1. packet_id' = packet_id
    BY <1>2 DEF subscribe, client
  <2> QED  BY <1>1, <1>2, <2>1, SubscribeEffect, OneCall
<1>3. ASSUME NEW t \in Threads,
             \/ subscribe_refused(t) \/ subscribe_write_fails(t) \/ subscribe_sent(t)
             \/ subscribe_local(t) \/ subscribe_added(t)
      PROVE  CallInv'
  <2>1. \/ packet_id' = packet_id /\ ~subscribe_sent(t)
        \/ packet_id' = packet_id + 1
    BY <1>3 DEF subscribe_refused, subscribe_write_fails, subscribe_sent, subscribe_local,
                subscribe_added, client
  <2>2. packet_id <= packet_id'
    BY <1>1, <2>1
  <2>3. CASE subscribe_sent(t)
    <3>1. packet_id' = packet_id + 1 /\ packet_id' # 0
      BY <1>1, <2>1, <2>3
    <3> QED  BY <2>2, <2>3, <3>1, SubscribeEffect, OneCall DEF CallInv
  <2>4. CASE Ended(t)
    BY <2>2, <2>4, IdleFields, OneCall DEF Ended
  <2>5. CASE Moved(t, "sent") /\ call[t].pc # "idle" /\ ~call[t].subed
    BY <2>2, <2>5, OneCall DEF Moved, CallInv
  <2> QED  BY <1>3, <2>3, <2>4, <2>5, SubscribeEffect DEF CallInv
<1>4. ASSUME NEW t \in Threads,
             \/ sync_in_callback(t) \/ sync_failed(t) \/ sync_registers(t) \/ sync_yielded(t)
             \/ sync_succeeds(t) \/ sync_again(t) \/ sync_times_out(t) \/ sync_timer(t)
      PROVE  CallInv'
  <2>0. packet_id' = packet_id
    BY <1>4 DEF sync_in_callback, sync_failed, sync_registers, sync_yielded, sync_succeeds,
                sync_again, sync_times_out, sync_timer, client
  <2>1. packet_id' = packet_id /\ packet_id <= packet_id'
    BY <1>1, <2>0
  <2>2. CASE Ended(t)
    BY <2>1, <2>2, IdleFields, OneCall DEF Ended
  <2>3. CASE \/ call[t].pc = "sent" /\ Moved(t, "yield")
             \/ call[t].pc = "yield" /\ Moved(t, "check")
             \/ call[t].pc # "idle" /\ Moved(t, call[t].pc)
    BY <2>1, <2>3, OneCall DEF Moved, CallInv
  <2>4. CASE sync_registers(t)
    BY <2>1, <2>4, SyncEffect, OneCall DEF CallInv
  <2>5. CASE sync_again(t)
    BY <2>1, <2>5, SyncEffect, OneCall DEF CallInv
  <2> QED  BY <1>4, <2>2, <2>3, <2>4, <2>5, SyncEffect
<1>5. ASSUME call' = call, packet_id' = packet_id \/ packet_id' = packet_id + 1
      PROVE  CallInv'
  <2>1. \A t \in Threads : call[t].id \in Nat
    BY ConstantFacts DEF TypeOK, Call
  <2> QED  BY <1>1, <1>5, <2>1 DEF CallInv
<1> QED
  BY <1>2, <1>3, <1>4, <1>5, CallUnchanged, BrokerUnchanged DEF Next, Starts, Step

-----------------------------------------------------------------------------
(* The handler table *)

\* Spent in the next state, of a number of this one.
SpentAfter(k) ==
  k <= packet_id' /\ \A t \in Threads : call'[t].pc = "add" => call'[t].id # k

\* A key that was spent stays so: ids are not used again.
LEMMA SpentKept ==
  ASSUME SubInv, [Next]_vars, NEW k \in Nat, Spent(k)
  PROVE  SpentAfter(k)
<1> USE DEF SubInv
<1>1. packet_id \in Nat
  BY ConstantFacts DEF TypeOK
<1>2. ASSUME NEW t \in Threads, Only(t), call'[t].pc # "add",
             packet_id' = packet_id \/ packet_id' = packet_id + 1
      PROVE  SpentAfter(k)
  BY <1>1, <1>2 DEF Spent, SpentAfter, Only
<1>3. ASSUME NEW t \in Threads, subscribe_sent(t) PROVE SpentAfter(k)
  <2>1. packet_id' = packet_id + 1
    BY <1>3 DEF subscribe_sent
  <2>2. Only(t) /\ call'[t].id = packet_id'
    BY <1>3, SubscribeEffect
  <2> QED  BY <1>1, <2>1, <2>2 DEF Spent, SpentAfter, Only
<1>4. ASSUME call' = call, packet_id' = packet_id \/ packet_id' = packet_id + 1 PROVE SpentAfter(k)
  BY <1>1, <1>4 DEF Spent, SpentAfter
<1>5. ASSUME NEW t \in Threads,
             \/ \E op \in Ops, f \in Filters, fn \in Fns : subscribe(t, op, f, fn)
             \/ subscribe_refused(t) \/ subscribe_write_fails(t)
             \/ subscribe_local(t) \/ subscribe_added(t)
             \/ sync_in_callback(t) \/ sync_failed(t) \/ sync_registers(t) \/ sync_yielded(t)
             \/ sync_succeeds(t) \/ sync_again(t) \/ sync_times_out(t)
      PROVE  SpentAfter(k)
  <2>1. packet_id' = packet_id \/ packet_id' = packet_id + 1
    BY <1>5 DEF subscribe, subscribe_refused, subscribe_write_fails, subscribe_local,
                subscribe_added, sync_in_callback, sync_failed, sync_registers, sync_yielded,
                sync_succeeds, sync_again, sync_times_out, client
  <2>2. Only(t) /\ call'[t].pc # "add"
    BY <1>5, SubscribeEffect, SyncEffect, IdleFields DEF Ended, Moved
  <2> QED  BY <1>2, <2>1, <2>2
<1>6. ASSUME NEW t \in Threads, sync_timer(t) PROVE SpentAfter(k)
  <2>1. packet_id' = packet_id
    BY <1>6 DEF sync_timer, client
  <2>2. Moved(t, call[t].pc)
    BY <1>6, SyncEffect
  <2> QED  BY <2>1, <2>2 DEF Spent, SpentAfter, Moved, Only
<1> QED
  BY <1>3, <1>4, <1>5, <1>6, CallUnchanged, BrokerUnchanged DEF Next, Starts, Step

\* What becomes of the table: nothing, a handler with a new key at the end, or an
\* unsubscribe.  The reader does nothing meanwhile.
Grows(h) ==
  /\ list_sub_handle' = Append(list_sub_handle, h) /\ h \in Handler
  /\ SpentAfter(h.key) /\ \A k \in Nat : Spent(k) => k # h.key
  /\ \A i \in DOMAIN list_sub_handle :
       list_sub_handle[i].filter # h.filter \/ list_sub_handle[i].fn # h.fn
  /\ rd' = rd /\ dangling' = dangling /\ removed' = removed
Shrinks(f) ==
  /\ list_sub_handle' = Without(list_sub_handle, Unsubscribed(f))
  /\ removed' = removed \cup {[filter |-> h.filter, fn |-> h.fn] : h \in Unsubscribed(f)}
  /\ rd' = rd /\ dangling' = dangling

\* add_handler, with an id that is no longer to be added afterwards.
LEMMA AddFacts ==
  ASSUME SubInv, NEW t \in Threads, NEW id \in Nat, add_handler(call[t].filter, call[t].fn, id),
         call[t].pc # "idle", id \in Id, SpentAfter(id), \A k \in Nat : Spent(k) => k # id,
         rd' = rd, dangling' = dangling, removed' = removed
  PROVE  list_sub_handle' = list_sub_handle \/ \E h : Grows(h)
<1> DEFINE h == [key |-> id, filter |-> call[t].filter, fn |-> call[t].fn]
<1>1. h \in Handler /\ h.key = id /\ h.filter = call[t].filter /\ h.fn = call[t].fn
  BY DEF Handler, Handled, SubInv, CallInv
<1>2. \/ list_sub_handle' = list_sub_handle
      \/ /\ list_sub_handle' = Append(list_sub_handle, h)
         /\ \A i \in DOMAIN list_sub_handle :
              \/ list_sub_handle[i].filter # call[t].filter
              \/ list_sub_handle[i].fn # call[t].fn
  BY DEF add_handler, identical
<1> HIDE DEF h
<1>3. CASE list_sub_handle' # list_sub_handle
  <2>1. Grows(h)
    BY <1>1, <1>2, <1>3 DEF Grows
  <2> QED  BY <2>1
<1> QED  BY <1>3

\* Every step leaves the table, adds one handler with a new key, or unsubscribes.
LEMMA TableEffect ==
  ASSUME SubInv, TypeOK', [Next]_vars
  PROVE  \/ list_sub_handle' = list_sub_handle /\ removed' = removed
         \/ \E h : Grows(h)
         \/ \E f \in Filters : Shrinks(f)
<1> USE DEF SubInv
<1>1. packet_id \in Nat /\ \A t \in Threads : call[t].id \in Nat
  BY ConstantFacts DEF TypeOK, Call
<1>2. ASSUME NEW t \in Threads, subscribe_local(t)
      PROVE  list_sub_handle' = list_sub_handle \/ \E h : Grows(h)
  <2>1. packet_id' = packet_id + 1 /\ packet_id' \in Id /\ packet_id' \in Nat
    BY <1>1, <1>2 DEF subscribe_local, TypeOK
  <2>2. call[t].pc = "subscribe" /\ Ended(t)
    BY <1>2, SubscribeEffect
  <2>3. SpentAfter(packet_id')
    BY <1>1, <2>1, <2>2, IdleFields DEF Ended, Only, SpentAfter, CallInv
  <2>4. \A k \in Nat : Spent(k) => k # packet_id'
    BY <1>1, <2>1 DEF Spent
  <2>5. /\ add_handler(call[t].filter, call[t].fn, packet_id')
        /\ rd' = rd /\ dangling' = dangling /\ removed' = removed
    BY <1>2 DEF subscribe_local, history
  <2> QED  BY <2>1, <2>2, <2>3, <2>4, <2>5, AddFacts
<1>3. ASSUME NEW t \in Threads, subscribe_added(t)
      PROVE  list_sub_handle' = list_sub_handle \/ \E h : Grows(h)
  <2>1. call[t].pc = "add" /\ Only(t) /\ call'[t].pc # "add" /\ packet_id' = packet_id
    BY <1>3, SubscribeEffect, IdleFields DEF Ended, Moved, subscribe_added
  <2>2. call[t].id \in Id
    BY DEF TypeOK, Call
  <2>3. SpentAfter(call[t].id)
    <3> DEFINE k == call[t].id
    <3>1. k <= packet_id' /\ k # 0
      BY <2>1 DEF CallInv
    <3>2. ASSUME NEW u \in Threads, call'[u].pc = "add" PROVE call'[u].id # k
      BY <2>1, <3>1, <3>2 DEF Only, CallInv
    <3> QED  BY <2>1, <3>1, <3>2 DEF SpentAfter
  <2>4. \A k \in Nat : Spent(k) => k # call[t].id
    BY <2>1 DEF Spent
  <2>5. /\ add_handler(call[t].filter, call[t].fn, call[t].id)
        /\ rd' = rd /\ dangling' = dangling /\ removed' = removed
    BY <1>3 DEF subscribe_added, history
  <2> QED  BY <1>1, <2>1, <2>2, <2>3, <2>4, <2>5, AddFacts
<1>4. ASSUME NEW t \in Threads, NEW f \in Filters, unsubscribe(t, f) PROVE Shrinks(f)
  BY <1>4 DEF unsubscribe, Shrinks
<1>5. ASSUME NEW t \in Threads, subscribe_local(t) \/ subscribe_added(t) PROVE removed' = removed
  BY <1>5 DEF subscribe_local, subscribe_added, history
<1>6. ASSUME NEW t \in Threads,
             \/ \E op \in Ops, f \in Filters, fn \in Fns : subscribe(t, op, f, fn)
             \/ unsubscribe_write_fails(t)
             \/ subscribe_refused(t) \/ subscribe_write_fails(t) \/ subscribe_sent(t)
             \/ sync_in_callback(t) \/ sync_failed(t) \/ sync_registers(t) \/ sync_yielded(t)
             \/ sync_succeeds(t) \/ sync_again(t) \/ sync_times_out(t) \/ sync_timer(t)
      PROVE  list_sub_handle' = list_sub_handle /\ removed' = removed
  BY <1>6 DEF subscribe, unsubscribe_write_fails, subscribe_refused, subscribe_write_fails,
              subscribe_sent, sync_in_callback, sync_failed, sync_registers, sync_yielded,
              sync_succeeds, sync_again, sync_times_out, sync_timer, client, history
<1>7. ASSUME NEW t \in Threads,
             \/ handle_recv_SUBACK(t) \/ handle_recv_UNSUBACK(t) \/ handle_recv_PUBLISH(t)
             \/ message_callback_ends(t) \/ default_callback_ends(t) \/ event_callback_ends(t)
             \/ MQTTPuback(t) \/ cycle_read_closed(t)
             \/ disconnect_callback(t) \/ keepalive_disconnected(t) \/ reconnect_callback(t)
      PROVE  list_sub_handle' = list_sub_handle /\ removed' = removed
  BY <1>7 DEF handle_recv_SUBACK, handle_recv_UNSUBACK, handle_recv_PUBLISH,
              message_callback_ends, default_callback_ends, event_callback_ends, MQTTPuback,
              cycle_read_closed, disconnect_callback, keepalive_disconnected, reconnect_callback,
              client, history
<1>8. ASSUME \/ link_breaks \/ broker_answers
             \/ \E topic \in Topics, qos \in {0, 1} : broker_publishes(topic, qos)
             \/ UNCHANGED vars
      PROVE  list_sub_handle' = list_sub_handle /\ removed' = removed
  BY <1>8 DEF link_breaks, broker_answers, broker_publishes, vars, client, history
<1> QED
  BY <1>2, <1>3, <1>4, <1>5, <1>6, <1>7, <1>8 DEF Next, Starts, Step

\* An unsubscribe keeps the others, in their order.
LEMMA ShrinkFacts ==
  ASSUME TypeOK, NEW f, Shrinks(f)
  PROVE  \E m \in [DOMAIN list_sub_handle' -> DOMAIN list_sub_handle] :
           /\ \A i \in DOMAIN list_sub_handle' : list_sub_handle'[i] = list_sub_handle[m[i]]
           /\ \A i, j \in DOMAIN list_sub_handle' : i < j => m[i] < m[j]
           /\ \A i \in DOMAIN list_sub_handle :
                \/ list_sub_handle[i] \in Unsubscribed(f)
                \/ \E j \in DOMAIN list_sub_handle' : m[j] = i
<1> DEFINE r == list_sub_handle'
           s == list_sub_handle
<1>1. s \in Seq(Handler) /\ DOMAIN s = 1..Len(s)
  BY DEF TypeOK
<1>2. r \in Seq(Handler) /\ \E m : Places(m, r, s, Len(s), Unsubscribed(f))
  BY <1>1, WithoutFacts DEF Shrinks
<1>3. DOMAIN r = 1..Len(r)
  BY <1>2
<1> HIDE DEF r, s
<1>4. PICK m : Places(m, r, s, Len(s), Unsubscribed(f))
  BY <1>2
<1>5. /\ m \in [DOMAIN r -> DOMAIN s]
      /\ \A i \in DOMAIN r : r[i] = s[m[i]]
      /\ \A i, j \in DOMAIN r : i < j => m[i] < m[j]
      /\ \A i \in DOMAIN s : s[i] \in Unsubscribed(f) \/ \E j \in DOMAIN r : m[j] = i
  BY <1>1, <1>3, <1>4 DEF Places
<1> QED  BY <1>5 DEF r, s

\* The table keeps its keys apart, and one handler for each filter and function.
LEMMA TableStep ==
  ASSUME SubInv, TypeOK', [Next]_vars
  PROVE  TableInv' /\ OneHandlerEach'
<1> USE DEF SubInv
<1>1. \A i \in DOMAIN list_sub_handle :
        list_sub_handle[i].key \in Nat /\ SpentAfter(list_sub_handle[i].key)
  <2>1. \A i \in DOMAIN list_sub_handle : list_sub_handle[i] \in Handler
    BY DEF TypeOK
  <2>2. \A i \in DOMAIN list_sub_handle : list_sub_handle[i].key \in Nat
    BY <2>1, ConstantFacts DEF Handler
  <2> QED  BY <2>2, SpentKept DEF TableInv
<1>2. CASE list_sub_handle' = list_sub_handle
  BY <1>1, <1>2 DEF TableInv, OneHandlerEach, Spent, SpentAfter
<1>3. ASSUME NEW h, Grows(h) PROVE TableInv' /\ OneHandlerEach'
  <2>1. /\ DOMAIN list_sub_handle = 1..Len(list_sub_handle) /\ Len(list_sub_handle) \in Nat
        /\ DOMAIN list_sub_handle' = 1..Len(list_sub_handle) + 1
        /\ list_sub_handle'[Len(list_sub_handle) + 1] = h
        /\ \A i \in DOMAIN list_sub_handle : list_sub_handle'[i] = list_sub_handle[i]
    BY <1>3 DEF Grows, TypeOK
  <2>2. \A i \in DOMAIN list_sub_handle' :
          \/ i \in DOMAIN list_sub_handle
          \/ i = Len(list_sub_handle) + 1
    BY <2>1
  <2>3. \A i \in DOMAIN list_sub_handle : list_sub_handle[i].key # h.key
    BY <1>1, <1>3 DEF Grows, TableInv
  <2>4. \A i \in DOMAIN list_sub_handle' : SpentAfter(list_sub_handle'[i].key)
    BY <1>1, <1>3, <2>1, <2>2 DEF Grows
  <2>5. TableInv'
    BY <2>1, <2>2, <2>3, <2>4 DEF TableInv, Spent, SpentAfter
  <2>6. OneHandlerEach'
    BY <1>3, <2>1, <2>2 DEF OneHandlerEach, Grows
  <2> QED  BY <2>5, <2>6
<1>4. ASSUME NEW f, Shrinks(f) PROVE TableInv' /\ OneHandlerEach'
  <2>1. PICK m \in [DOMAIN list_sub_handle' -> DOMAIN list_sub_handle] :
           /\ \A i \in DOMAIN list_sub_handle' : list_sub_handle'[i] = list_sub_handle[m[i]]
           /\ \A i, j \in DOMAIN list_sub_handle' : i < j => m[i] < m[j]
    BY <1>4, ShrinkFacts
  <2>0. /\ list_sub_handle \in Seq(Handler) /\ list_sub_handle' \in Seq(Handler)
        /\ Len(list_sub_handle) \in Nat /\ Len(list_sub_handle') \in Nat
    BY DEF TypeOK
  <2>2. DOMAIN list_sub_handle' \subseteq Nat /\ DOMAIN list_sub_handle \subseteq Nat
    BY <2>0
  <2>3. \A i, j \in DOMAIN list_sub_handle' : m[i] = m[j] => i = j
    BY <2>1, <2>2
  <2>4. \A i \in DOMAIN list_sub_handle' : SpentAfter(list_sub_handle'[i].key)
    BY <1>1, <2>1
  <2>5. TableInv'
    BY <2>1, <2>3, <2>4 DEF TableInv, Spent, SpentAfter
  <2>6. OneHandlerEach'
    BY <2>1, <2>3 DEF OneHandlerEach
  <2> QED  BY <2>5, <2>6
<1> QED  BY <1>2, <1>3, <1>4, TableEffect

\* A handler that was added is in the table or was taken out by an unsubscribe.
LEMMA PresentKept ==
  ASSUME SubInv, TypeOK', [Next]_vars, NEW f, NEW u, Present(f, u)
  PROVE  Present(f, u)'
<1> USE DEF SubInv
<1>1. CASE list_sub_handle' = list_sub_handle /\ removed' = removed
  BY <1>1 DEF Present
<1>2. ASSUME NEW h, Grows(h) PROVE Present(f, u)'
  <2>1. \A i \in DOMAIN list_sub_handle :
          i \in DOMAIN list_sub_handle' /\ list_sub_handle'[i] = list_sub_handle[i]
    BY <1>2 DEF Grows, TypeOK
  <2> QED  BY <1>2, <2>1 DEF Present, Grows
<1>3. ASSUME NEW g, Shrinks(g) PROVE Present(f, u)'
  <2>1. PICK m \in [DOMAIN list_sub_handle' -> DOMAIN list_sub_handle] :
           /\ \A i \in DOMAIN list_sub_handle' : list_sub_handle'[i] = list_sub_handle[m[i]]
           /\ \A i \in DOMAIN list_sub_handle :
                \/ list_sub_handle[i] \in Unsubscribed(g)
                \/ \E j \in DOMAIN list_sub_handle' : m[j] = i
    BY <1>3, ShrinkFacts
  <2>2. CASE [filter |-> f, fn |-> u] \in removed
    BY <1>3, <2>2 DEF Present, Shrinks
  <2>3. ASSUME NEW i \in DOMAIN list_sub_handle,
               list_sub_handle[i].filter = f, list_sub_handle[i].fn = u
        PROVE  Present(f, u)'
    <3>1. CASE list_sub_handle[i] \in Unsubscribed(g)
      <4>1. [filter |-> f, fn |-> u] \in removed'
        BY <1>3, <2>3, <3>1 DEF Shrinks
      <4> QED  BY <4>1 DEF Present
    <3>2. ASSUME NEW j \in DOMAIN list_sub_handle', m[j] = i PROVE Present(f, u)'
      BY <2>1, <2>3, <3>2 DEF Present
    <3> QED  BY <2>1, <3>1, <3>2
  <2> QED  BY <2>2, <2>3 DEF Present
<1> QED  BY <1>1, <1>2, <1>3, TableEffect

\* After subscribe_added the handler is in the table.
LEMMA PresentAfter ==
  ASSUME SubInv, NEW t \in Threads, subscribe_added(t), NEW f, f = call[t].filter,
         NEW u, u = call[t].fn
  PROVE  Present(f, u)'
<1> DEFINE h == [key |-> call[t].id, filter |-> f, fn |-> u]
<1>1. add_handler(f, u, call[t].id)
  BY DEF subscribe_added
<1>2. CASE \E i \in DOMAIN list_sub_handle : identical(list_sub_handle[i], f, u)
  BY <1>1, <1>2 DEF add_handler, identical, Present
<1>3. CASE ~ \E i \in DOMAIN list_sub_handle : identical(list_sub_handle[i], f, u)
  <2>1. list_sub_handle' = Append(list_sub_handle, h)
    BY <1>1, <1>3 DEF add_handler
  <2>2. h.filter = f /\ h.fn = u
    OBVIOUS
  <2> HIDE DEF h
  <2>3. /\ Len(list_sub_handle) + 1 \in DOMAIN list_sub_handle'
        /\ list_sub_handle'[Len(list_sub_handle) + 1] = h
    BY <2>1 DEF SubInv, TypeOK
  <2> QED  BY <2>2, <2>3 DEF Present
<1> QED  BY <1>2, <1>3

-----------------------------------------------------------------------------
(* The list of waiting calls *)

\* The node of the call of t is taken out, the others keep their order.
Drops(t) ==
  \E m \in [DOMAIN list_sub_sync_ack' -> DOMAIN list_sub_sync_ack] :
    /\ \A i \in DOMAIN list_sub_sync_ack' :
         /\ list_sub_sync_ack'[i] = list_sub_sync_ack[m[i]]
         /\ list_sub_sync_ack'[i].id # call[t].id
    /\ \A i, j \in DOMAIN list_sub_sync_ack' : m[i] = m[j] => i = j

\* The nodes of the id of a SUBACK learn its result.
Marks ==
  /\ DOMAIN list_sub_sync_ack' = DOMAIN list_sub_sync_ack
  /\ \A i \in DOMAIN list_sub_sync_ack :
       /\ list_sub_sync_ack'[i].id = list_sub_sync_ack[i].id
       /\ list_sub_sync_ack[i].id # Head(down).id =>
            list_sub_sync_ack'[i].ack = list_sub_sync_ack[i].ack
       /\ list_sub_sync_ack[i].id = Head(down).id =>
            list_sub_sync_ack'[i].ack = IF Head(down).granted THEN "SUCCESS" ELSE "NACK"

\* What the nodes of list_sub_sync_ack hold.
LEMMA NodeTypes ==
  ASSUME TypeOK
  PROVE  /\ list_sub_sync_ack \in Seq([id : Id, ack : Ack])
         /\ Len(list_sub_sync_ack) \in Nat
         /\ DOMAIN list_sub_sync_ack = 1..Len(list_sub_sync_ack)
         /\ \A i \in DOMAIN list_sub_sync_ack :
              /\ list_sub_sync_ack[i] \in [id : Id, ack : Ack]
              /\ list_sub_sync_ack[i].id \in Nat /\ list_sub_sync_ack[i].ack \in Ack
<1>1. list_sub_sync_ack \in Seq([id : Id, ack : Ack])
  BY DEF TypeOK
<1> DEFINE T == [id : Id, ack : Ack]
<1>2. \A n \in T : n.id \in Nat /\ n.ack \in Ack
  BY ConstantFacts
<1> HIDE DEF T
<1>3. list_sub_sync_ack \in Seq(T)
  BY <1>1 DEF T
<1>4. /\ Len(list_sub_sync_ack) \in Nat /\ DOMAIN list_sub_sync_ack = 1..Len(list_sub_sync_ack)
      /\ \A i \in DOMAIN list_sub_sync_ack : list_sub_sync_ack[i] \in T
  BY <1>3
<1> QED  BY <1>1, <1>2, <1>4 DEF T

\* Only a head that is the call's own is an outcome.
LEMMA OutcomeFacts ==
  ASSUME SubInv, NEW t \in Threads, Outcome(t) \in {"SUCCESS", "NACK"}
  PROVE  /\ 1 \in DOMAIN list_sub_sync_ack
         /\ list_sub_sync_ack[1].id = call[t].id /\ list_sub_sync_ack[1].ack = Outcome(t)
         /\ call[t].id # 0
<1> USE DEF SubInv
<1>1. /\ list_sub_sync_ack # <<>> /\ Head(list_sub_sync_ack).id = call[t].id
      /\ Head(list_sub_sync_ack).ack = Outcome(t)
  BY DEF Outcome
<1>2. 1 \in DOMAIN list_sub_sync_ack /\ Head(list_sub_sync_ack) = list_sub_sync_ack[1]
  BY <1>1, NodeTypes
<1>3. call[t].id # 0
  BY <1>1, <1>2 DEF WaitInv, CallInv
<1> QED  BY <1>1, <1>2, <1>3

\* A call that takes the first node takes its own.
LEMMA TailDrops ==
  ASSUME SubInv, NEW t \in Threads, Outcome(t) \in {"SUCCESS", "NACK"},
         list_sub_sync_ack' = Tail(list_sub_sync_ack)
  PROVE  Drops(t)
<1> USE DEF SubInv
<1> DEFINE s == list_sub_sync_ack
           T == [id : Id, ack : Ack]
<1>1. s \in Seq(T) /\ 1 \in DOMAIN s /\ s[1].id = call[t].id
  BY OutcomeFacts, NodeTypes
<1>2. \A i \in DOMAIN s : i # 1 => s[i].id # call[t].id
  BY <1>1 DEF WaitInv
<1>3. s # <<>>
  BY <1>1
<1> HIDE DEF T, s
<1>4. /\ Len(s) \in Nat /\ DOMAIN s = 1..Len(s) /\ DOMAIN Tail(s) = 1..Len(s) - 1
      /\ \A i \in DOMAIN Tail(s) : Tail(s)[i] = s[i + 1]
  BY <1>1, <1>3
<1> DEFINE m == [i \in DOMAIN Tail(s) |-> i + 1]
<1>5. m \in [DOMAIN Tail(s) -> DOMAIN s] /\ \A i \in DOMAIN Tail(s) : m[i] = i + 1
  BY <1>4
<1> HIDE DEF m
<1>6. \A i \in DOMAIN Tail(s) : Tail(s)[i] = s[m[i]] /\ Tail(s)[i].id # call[t].id
  BY <1>2, <1>4, <1>5
<1>7. \A i, j \in DOMAIN Tail(s) : m[i] = m[j] => i = j
  BY <1>4, <1>5
<1> QED  BY <1>5, <1>6, <1>7 DEF Drops, s

\* A call that times out takes its own node, wherever it is.
LEMMA TimeoutDrops ==
  ASSUME SubInv, NEW t \in Threads,
         list_sub_sync_ack' = WithoutId(list_sub_sync_ack, call[t].id)
  PROVE  Drops(t)
<1> USE DEF SubInv
<1> DEFINE s == list_sub_sync_ack
           r == list_sub_sync_ack'
           T == [id : Id, ack : Ack]
           S == {n \in Range(s) : n.id = call[t].id}
<1>1. s \in Seq(T) /\ Len(s) \in Nat /\ DOMAIN s = 1..Len(s)
  BY NodeTypes
<1>2. r = Without(s, S)
  BY DEF WithoutId
<1>3. \A i \in DOMAIN s : s[i] \notin S => s[i].id # call[t].id
  BY DEF Range
<1> HIDE DEF T, s, r, S
<1>4. r \in Seq(T) /\ \E m : Places(m, r, s, Len(s), S)
  BY <1>1, <1>2, WithoutFacts
<1>5. Len(r) \in Nat /\ DOMAIN r = 1..Len(r)
  BY <1>4
<1>6. PICK m : Places(m, r, s, Len(s), S)
  BY <1>4
<1>7. m \in [DOMAIN r -> DOMAIN s] /\ \A i \in DOMAIN r : r[i] = s[m[i]] /\ r[i] \notin S
  BY <1>1, <1>5, <1>6 DEF Places
<1>8. \A i \in DOMAIN r : r[i].id # call[t].id
  BY <1>3, <1>7
<1>9. \A i, j \in DOMAIN r : i < j => m[i] < m[j]
  BY <1>5, <1>6 DEF Places
<1>10. \A i, j \in DOMAIN r : m[i] = m[j] => i = j
  BY <1>1, <1>5, <1>7, <1>9
<1> QED  BY <1>7, <1>8, <1>10 DEF Drops, r, s

\* handle_recv_SUBACK marks the nodes of its id and no other.
LEMMA SubackMarks ==
  ASSUME TypeOK, NEW t \in Threads, handle_recv_SUBACK(t)
  PROVE  Marks
<1> DEFINE p == Head(down)
           marked(n) == IF suback_matches(n, p.id)
                        THEN [n EXCEPT !.ack = IF p.granted THEN "SUCCESS" ELSE "NACK"]
                        ELSE n
<1>1. list_sub_sync_ack' = [i \in DOMAIN list_sub_sync_ack |-> marked(list_sub_sync_ack[i])]
  BY DEF handle_recv_SUBACK
<1>2. \A n \in [id : Id, ack : Ack] :
        /\ marked(n).id = n.id
        /\ n.id # p.id => marked(n).ack = n.ack
        /\ n.id = p.id => marked(n).ack = IF p.granted THEN "SUCCESS" ELSE "NACK"
  BY DEF suback_matches
<1>3. \A i \in DOMAIN list_sub_sync_ack : list_sub_sync_ack[i] \in [id : Id, ack : Ack]
  BY NodeTypes
<1> HIDE DEF p, marked
<1>4. /\ DOMAIN list_sub_sync_ack' = DOMAIN list_sub_sync_ack
      /\ \A i \in DOMAIN list_sub_sync_ack :
           list_sub_sync_ack'[i] = marked(list_sub_sync_ack[i])
  BY <1>1
<1> QED  BY <1>2, <1>3, <1>4 DEF Marks, p

\* What becomes of the list, and of the calls whose nodes stay.
LEMMA AckEffect ==
  ASSUME SubInv, [Next]_vars
  PROVE  \/ /\ list_sub_sync_ack' = list_sub_sync_ack
            /\ \A u \in Threads :
                 call[u].subed => call'[u].subed /\ call'[u].id = call[u].id
         \/ \E t \in Threads :
              /\ sync_registers(t) /\ Only(t) /\ call'[t].subed /\ call'[t].id = call[t].id
              /\ ~call[t].subed /\ call[t].id # 0
              /\ list_sub_sync_ack' =
                   Append(list_sub_sync_ack, [id |-> call[t].id, ack |-> "UNDEF"])
         \/ \E t \in Threads :
              /\ sync_succeeds(t) \/ sync_again(t) \/ sync_times_out(t)
              /\ Only(t) /\ Drops(t)
         \/ \E t \in Threads : handle_recv_SUBACK(t) /\ call' = call /\ Marks
<1> USE DEF SubInv
<1>1. ASSUME NEW t \in Threads,
             \/ \E op \in Ops, f \in Filters, fn \in Fns : subscribe(t, op, f, fn)
             \/ subscribe_refused(t) \/ subscribe_write_fails(t) \/ subscribe_sent(t)
             \/ subscribe_local(t) \/ subscribe_added(t)
      PROVE  /\ list_sub_sync_ack' = list_sub_sync_ack
             /\ \A u \in Threads : call[u].subed => call'[u].subed /\ call'[u].id = call[u].id
  <2>1. list_sub_sync_ack' = list_sub_sync_ack
    BY <1>1 DEF subscribe, subscribe_refused, subscribe_write_fails, subscribe_sent,
                subscribe_local, subscribe_added, client
  <2>2. Only(t) /\ call[t].pc \in {"idle", "subscribe", "add"}
    BY <1>1, SubscribeEffect DEF Ended, Moved
  <2>3. ~call[t].subed
    BY <2>2 DEF CallInv
  <2> QED  BY <2>1, <2>2, <2>3 DEF Only
<1>2. ASSUME NEW t \in Threads,
             sync_in_callback(t) \/ sync_failed(t) \/ sync_yielded(t) \/ sync_timer(t)
      PROVE  /\ list_sub_sync_ack' = list_sub_sync_ack
             /\ \A u \in Threads : call[u].subed => call'[u].subed /\ call'[u].id = call[u].id
  <2>1. list_sub_sync_ack' = list_sub_sync_ack
    BY <1>2 DEF sync_in_callback, sync_failed, sync_yielded, sync_timer, client
  <2>2. \/ Only(t) /\ call[t].pc = "sent"
        \/ Only(t) /\ call'[t].subed = call[t].subed /\ call'[t].id = call[t].id
    BY <1>2, SyncEffect DEF Ended, Moved
  <2>3. call[t].pc = "sent" => ~call[t].subed
    BY DEF CallInv
  <2> QED  BY <2>1, <2>2, <2>3 DEF Only
<1>3. ASSUME NEW t \in Threads, sync_registers(t)
      PROVE  \/ /\ list_sub_sync_ack' = list_sub_sync_ack
                /\ \A u \in Threads :
                     call[u].subed => call'[u].subed /\ call'[u].id = call[u].id
             \/ /\ Only(t) /\ call'[t].subed /\ call'[t].id = call[t].id
                /\ ~call[t].subed /\ call[t].id # 0
                /\ list_sub_sync_ack' =
                     Append(list_sub_sync_ack, [id |-> call[t].id, ack |-> "UNDEF"])
  <2>1. ~call[t].subed
    BY <1>3, SyncEffect DEF CallInv
  <2> QED  BY <1>3, <2>1, SyncEffect DEF Only
<1>4. ASSUME NEW t \in Threads, sync_succeeds(t) \/ sync_again(t) \/ sync_times_out(t)
      PROVE  \/ Only(t) /\ Drops(t)
             \/ /\ list_sub_sync_ack' = list_sub_sync_ack
                /\ \A u \in Threads :
                     call[u].subed => call'[u].subed /\ call'[u].id = call[u].id
  <2>1. Only(t)
    BY <1>4, SyncEffect DEF Ended
  <2>2. CASE sync_succeeds(t)
    BY <2>1, <2>2, TailDrops DEF sync_succeeds
  <2>3. CASE sync_times_out(t)
    BY <2>1, <2>3, TimeoutDrops DEF sync_times_out
  <2>4. CASE sync_again(t) /\ Outcome(t) = "NACK"
    BY <2>1, <2>4, TailDrops, SyncEffect
  <2>5. CASE sync_again(t) /\ Outcome(t) # "NACK"
    BY <2>1, <2>5, SyncEffect DEF Only
  <2> QED  BY <1>4, <2>2, <2>3, <2>4, <2>5
<1>5. ASSUME NEW t \in Threads,
             \/ \E f \in Filters : unsubscribe(t, f)
             \/ unsubscribe_write_fails(t)
             \/ handle_recv_UNSUBACK(t) \/ handle_recv_PUBLISH(t)
             \/ message_callback_ends(t) \/ default_callback_ends(t) \/ event_callback_ends(t)
             \/ MQTTPuback(t) \/ cycle_read_closed(t)
             \/ disconnect_callback(t) \/ keepalive_disconnected(t) \/ reconnect_callback(t)
      PROVE  list_sub_sync_ack' = list_sub_sync_ack /\ call' = call
  BY <1>5 DEF unsubscribe, unsubscribe_write_fails, handle_recv_UNSUBACK,
              handle_recv_PUBLISH, message_callback_ends, default_callback_ends,
              event_callback_ends, MQTTPuback, cycle_read_closed, disconnect_callback,
              keepalive_disconnected, reconnect_callback, client
<1>6. ASSUME NEW t \in Threads, handle_recv_SUBACK(t) PROVE call' = call /\ Marks
  BY <1>6, SubackMarks DEF handle_recv_SUBACK
<1>7. ASSUME \/ link_breaks \/ broker_answers
             \/ \E topic \in Topics, qos \in {0, 1} : broker_publishes(topic, qos)
             \/ UNCHANGED vars
      PROVE  list_sub_sync_ack' = list_sub_sync_ack /\ call' = call
  BY <1>7, BrokerUnchanged DEF client
<1> QED
  BY <1>1, <1>2, <1>3, <1>4, <1>5, <1>6, <1>7 DEF Next, Starts, Step

\* Every step keeps one node at most for each call that waits, and no other.
LEMMA WaitStep ==
  ASSUME SubInv, TypeOK', [Next]_vars
  PROVE  WaitInv'
<1> USE DEF SubInv
<1>1. CASE /\ list_sub_sync_ack' = list_sub_sync_ack
           /\ \A u \in Threads : call[u].subed => call'[u].subed /\ call'[u].id = call[u].id
  BY <1>1 DEF WaitInv
<1>2. ASSUME NEW t \in Threads, Only(t), call'[t].subed, call'[t].id = call[t].id,
             ~call[t].subed, call[t].id # 0,
             list_sub_sync_ack' =
               Append(list_sub_sync_ack, [id |-> call[t].id, ack |-> "UNDEF"])
      PROVE  WaitInv'
  <2> DEFINE n == [id |-> call[t].id, ack |-> "UNDEF"]
             l == Len(list_sub_sync_ack)
  <2>1. n.id = call[t].id
    OBVIOUS
  <2> HIDE DEF n
  <2>2. /\ l \in Nat /\ DOMAIN list_sub_sync_ack = 1..l
        /\ DOMAIN list_sub_sync_ack' = 1..l + 1 /\ list_sub_sync_ack'[l + 1] = n
        /\ \A i \in DOMAIN list_sub_sync_ack : list_sub_sync_ack'[i] = list_sub_sync_ack[i]
    BY <1>2, NodeTypes DEF n
  <2>3. \A i \in DOMAIN list_sub_sync_ack' : i \in DOMAIN list_sub_sync_ack \/ i = l + 1
    BY <2>2
  <2>4. \A i \in DOMAIN list_sub_sync_ack :
          list_sub_sync_ack[i].id # call[t].id
    BY <1>2 DEF WaitInv, CallInv
  <2> HIDE DEF l
  <2>5. \A i, j \in DOMAIN list_sub_sync_ack' :
          list_sub_sync_ack'[i].id = list_sub_sync_ack'[j].id => i = j
    BY <2>1, <2>2, <2>3, <2>4 DEF WaitInv
  <2>6. \A i \in DOMAIN list_sub_sync_ack' :
          \E u \in Threads : call'[u].subed /\ call'[u].id = list_sub_sync_ack'[i].id
    BY <1>2, <2>1, <2>2, <2>3, <2>4 DEF WaitInv, Only
  <2> QED  BY <2>5, <2>6 DEF WaitInv
<1>3. ASSUME NEW t \in Threads, Only(t), Drops(t) PROVE WaitInv'
  <2>1. PICK m \in [DOMAIN list_sub_sync_ack' -> DOMAIN list_sub_sync_ack] :
          /\ \A i \in DOMAIN list_sub_sync_ack' :
               /\ list_sub_sync_ack'[i] = list_sub_sync_ack[m[i]]
               /\ list_sub_sync_ack'[i].id # call[t].id
          /\ \A i, j \in DOMAIN list_sub_sync_ack' : m[i] = m[j] => i = j
    BY <1>3 DEF Drops
  <2>2. \A i \in DOMAIN list_sub_sync_ack' : m[i] \in DOMAIN list_sub_sync_ack
    BY <2>1
  <2>3. \A i, j \in DOMAIN list_sub_sync_ack' :
          list_sub_sync_ack'[i].id = list_sub_sync_ack'[j].id => i = j
    BY <2>1, <2>2 DEF WaitInv
  <2>4. ASSUME NEW i \in DOMAIN list_sub_sync_ack'
        PROVE  \E u \in Threads : call'[u].subed /\ call'[u].id = list_sub_sync_ack'[i].id
    <3>1. PICK u \in Threads : call[u].subed /\ call[u].id = list_sub_sync_ack'[i].id
      BY <2>1, <2>2 DEF WaitInv
    <3>2. u # t
      BY <2>1, <3>1
    <3> QED  BY <1>3, <3>1, <3>2 DEF Only
  <2> QED  BY <2>3, <2>4 DEF WaitInv
<1>4. CASE call' = call /\ Marks
  BY <1>4 DEF WaitInv, Marks
<1> QED  BY <1>1, <1>2, <1>3, <1>4, AckEffect

-----------------------------------------------------------------------------
(* SUBACKs *)

\* No SUBACK is on its way that was not before.
Thins ==
  \E m \in [DOMAIN down' -> Nat] :
    /\ \A i \in DOMAIN down' :
         down'[i].type = "SUBACK" => m[i] \in DOMAIN down /\ down[m[i]] = down'[i]
    /\ \A i, j \in DOMAIN down' :
         down'[i].type = "SUBACK" /\ down'[j].type = "SUBACK" /\ m[i] = m[j] => i = j

\* What the packets on their way hold.
LEMMA PacketTypes ==
  ASSUME TypeOK
  PROVE  /\ down \in Seq(Packet) /\ Len(down) \in Nat /\ DOMAIN down = 1..Len(down)
         /\ \A i \in DOMAIN down :
              down[i].type = "SUBACK" => down[i].id \in Nat /\ down[i].granted \in BOOLEAN
<1>1. down \in Seq(Packet)
  BY DEF TypeOK
<1>2. /\ Len(down) \in Nat /\ DOMAIN down = 1..Len(down)
      /\ \A i \in DOMAIN down : down[i] \in Packet
  BY <1>1
<1>3. \A p \in Packet : p.type = "SUBACK" => p.id \in Nat /\ p.granted \in BOOLEAN
  BY ConstantFacts DEF Packet
<1> QED  BY <1>1, <1>2, <1>3

\* Reading a packet takes the first and brings no SUBACK.
LEMMA ThinsTail ==
  ASSUME TypeOK, NEW t, NEW type, Receives(t, type)
  PROVE  /\ Thins /\ Head(down) = down[1] /\ 1 \in DOMAIN down /\ Head(down).type = type
         /\ \A i \in DOMAIN down' : i + 1 \in DOMAIN down /\ i + 1 # 1 /\ down'[i] = down[i + 1]
<1>1. down' = Tail(down) /\ down # <<>> /\ Head(down).type = type
  BY DEF Receives
<1>2. down \in Seq(Packet) /\ Len(down) \in Nat /\ DOMAIN down = 1..Len(down)
  BY PacketTypes
<1>3. /\ DOMAIN down' = 1..Len(down) - 1 /\ \A i \in DOMAIN down' : down'[i] = down[i + 1]
      /\ Head(down) = down[1] /\ 1 \in DOMAIN down
  BY <1>1, <1>2
<1>4. \A i \in DOMAIN down' : i + 1 \in DOMAIN down /\ i + 1 # 1 /\ i \in Nat
  BY <1>2, <1>3
<1> DEFINE m == [i \in DOMAIN down' |-> i + 1]
<1>5. m \in [DOMAIN down' -> Nat] /\ \A i \in DOMAIN down' : m[i] = i + 1
  BY <1>4
<1> HIDE DEF m
<1>6. \A i, j \in DOMAIN down' : m[i] = m[j] => i = j
  BY <1>4, <1>5
<1>7. Thins
  BY <1>3, <1>4, <1>5, <1>6 DEF Thins
<1> QED  BY <1>1, <1>3, <1>4, <1>7

\* Nor does a step that leaves the packets,
LEMMA ThinsSame ==
  ASSUME TypeOK, down' = down
  PROVE  Thins
<1> DEFINE m == [i \in DOMAIN down |-> i]
<1>1. m \in [DOMAIN down' -> Nat] /\ \A i \in DOMAIN down : m[i] = i
  BY PacketTypes
<1> HIDE DEF m
<1> QED  BY <1>1 DEF Thins

\* one after which there is no SUBACK,
LEMMA ThinsNone ==
  ASSUME \A i \in DOMAIN down' : down'[i].type # "SUBACK"
  PROVE  Thins
<1> DEFINE m == [i \in DOMAIN down' |-> 0]
<1>1. m \in [DOMAIN down' -> Nat]
  OBVIOUS
<1> HIDE DEF m
<1> QED  BY <1>1 DEF Thins

\* or the broker publishing a message.
LEMMA ThinsPublish ==
  ASSUME TypeOK, NEW p, p.type = "PUBLISH", down' = Append(down, p)
  PROVE  Thins
<1>1. down \in Seq(Packet) /\ Len(down) \in Nat /\ DOMAIN down = 1..Len(down)
  BY PacketTypes
<1>2. /\ DOMAIN down' = 1..Len(down) + 1 /\ down'[Len(down) + 1] = p
      /\ \A i \in DOMAIN down : down'[i] = down[i]
  BY <1>1
<1>3. \A i \in DOMAIN down' : i \in Nat /\ (i \in DOMAIN down \/ i = Len(down) + 1)
  BY <1>1, <1>2
<1> DEFINE m == [i \in DOMAIN down' |-> i]
<1>4. m \in [DOMAIN down' -> Nat] /\ \A i \in DOMAIN down' : m[i] = i
  BY <1>3
<1> HIDE DEF m
<1> QED  BY <1>2, <1>3, <1>4 DEF Thins

\* What becomes of questions and answers.
LEMMA DownEffect ==
  ASSUME SubInv, [Next]_vars
  PROVE  \/ Thins /\ asked' \subseteq asked /\ granted' = granted
         \/ /\ down' = down /\ granted' = granted /\ list_sub_sync_ack' = list_sub_sync_ack
            /\ packet_id' = packet_id + 1
            /\ \E type : asked' = asked \cup {[type |-> type, id |-> packet_id + 1]}
         \/ broker_answers
<1> USE DEF SubInv
<1>1. ASSUME NEW t \in Threads,
             \/ \E op \in Ops, f \in Filters, fn \in Fns : subscribe(t, op, f, fn)
             \/ unsubscribe_write_fails(t)
             \/ subscribe_refused(t) \/ subscribe_write_fails(t)
             \/ subscribe_local(t) \/ subscribe_added(t)
             \/ sync_in_callback(t) \/ sync_failed(t) \/ sync_registers(t) \/ sync_yielded(t)
             \/ sync_succeeds(t) \/ sync_again(t) \/ sync_times_out(t) \/ sync_timer(t)
      PROVE  down' = down /\ asked' = asked /\ granted' = granted
  BY <1>1 DEF subscribe, unsubscribe_write_fails, subscribe_refused, subscribe_write_fails,
              subscribe_local, subscribe_added, sync_in_callback, sync_failed, sync_registers,
              sync_yielded, sync_succeeds, sync_again, sync_times_out, sync_timer, broker, history
<1>2. ASSUME NEW t \in Threads, subscribe_sent(t) \/ \E f \in Filters : unsubscribe(t, f)
      PROVE  /\ down' = down /\ granted' = granted /\ list_sub_sync_ack' = list_sub_sync_ack
             /\ packet_id' = packet_id + 1
             /\ \E type : asked' = asked \cup {[type |-> type, id |-> packet_id + 1]}
  BY <1>2 DEF subscribe_sent, unsubscribe, history
<1>3. ASSUME NEW t \in Threads,
             handle_recv_SUBACK(t) \/ handle_recv_UNSUBACK(t) \/ handle_recv_PUBLISH(t)
      PROVE  Thins /\ asked' = asked /\ granted' = granted
  BY <1>3, ThinsTail DEF handle_recv_SUBACK, handle_recv_UNSUBACK, handle_recv_PUBLISH, history
<1>4. ASSUME NEW t \in Threads,
             \/ message_callback_ends(t) \/ default_callback_ends(t) \/ event_callback_ends(t)
             \/ MQTTPuback(t) \/ cycle_read_closed(t)
             \/ disconnect_callback(t) \/ keepalive_disconnected(t)
      PROVE  down' = down /\ asked' = asked /\ granted' = granted
  BY <1>4 DEF message_callback_ends, default_callback_ends, event_callback_ends, MQTTPuback,
              cycle_read_closed, disconnect_callback, keepalive_disconnected, broker, history
<1>5. ASSUME NEW t \in Threads, reconnect_callback(t)
      PROVE  Thins /\ asked' = asked /\ granted' = granted
  <2>1. \A i \in DOMAIN down' : down'[i].type = "PUBLISH"
    BY <1>5 DEF reconnect_callback
  <2> QED  BY <1>5, <2>1, ThinsNone DEF reconnect_callback, history
<1>6. CASE link_breaks
  <2>1. down' = <<>> /\ asked' = {} /\ granted' = granted
    BY <1>6 DEF link_breaks, history
  <2>2. \A i \in DOMAIN down' : down'[i].type # "SUBACK"
    BY <2>1
  <2> QED  BY <2>1, <2>2, ThinsNone
<1>7. ASSUME NEW topic \in Topics, NEW qos \in {0, 1}, broker_publishes(topic, qos)
      PROVE  Thins /\ asked' = asked /\ granted' = granted
  <2> DEFINE p == [type |-> "PUBLISH", msg |-> [id |-> msgs + 1, topic |-> topic, qos |-> qos]]
  <2>1. down' = Append(down, p) /\ asked' = asked /\ granted' = granted
    BY <1>7 DEF broker_publishes, history
  <2>2. p.type = "PUBLISH"
    OBVIOUS
  <2> HIDE DEF p
  <2> QED  BY <2>1, <2>2, ThinsPublish
<1>8. CASE UNCHANGED vars
  BY <1>8, ThinsSame DEF vars, broker, history
<1> QED
  BY <1>1, <1>2, <1>3, <1>4, <1>5, <1>6, <1>7, <1>8, ThinsSame DEF Next, Starts, Step

\* What the broker appends.
LEMMA AnswerEffect ==
  ASSUME SubInv, broker_answers
  PROVE  \E a \in asked : \E p :
           /\ asked' = asked \ {a} /\ a.id \in Nat
           /\ down' = Append(down, p) /\ p.id = a.id
           /\ list_sub_sync_ack' = list_sub_sync_ack /\ packet_id' = packet_id /\ calls' = calls
           /\ \/ p.type = "UNSUBACK" /\ granted' = granted /\ faults' = faults
              \/ /\ p.type = "SUBACK" /\ p.granted = TRUE /\ faults' = faults
                 /\ a = [type |-> "SUBSCRIBE", id |-> a.id] /\ granted' = granted \cup {a.id}
              \/ /\ p.type = "SUBACK" /\ p.granted = FALSE /\ faults' = faults + 1
                 /\ a = [type |-> "SUBSCRIBE", id |-> a.id] /\ granted' = granted
<1>1. PICK a \in asked :
        /\ asked' = asked \ {a}
        /\ \/ /\ a.type = "UNSUBSCRIBE"
              /\ down' = Append(down, [type |-> "UNSUBACK", id |-> a.id])
              /\ UNCHANGED <<granted, faults>>
           \/ /\ a.type = "SUBSCRIBE"
              /\ down' = Append(down, [type |-> "SUBACK", id |-> a.id, granted |-> TRUE])
              /\ granted' = granted \cup {a.id}
              /\ UNCHANGED faults
           \/ /\ a.type = "SUBSCRIBE" /\ Fault
              /\ down' = Append(down, [type |-> "SUBACK", id |-> a.id, granted |-> FALSE])
              /\ UNCHANGED granted
  BY DEF broker_answers
<1>2. a \in [type : {"SUBSCRIBE", "UNSUBSCRIBE"}, id : Id] /\ a.id \in Nat
  BY ConstantFacts DEF SubInv, TypeOK
<1>3. a.type = "SUBSCRIBE" => a = [type |-> "SUBSCRIBE", id |-> a.id]
  BY <1>2
<1>4. list_sub_sync_ack' = list_sub_sync_ack /\ packet_id' = packet_id /\ calls' = calls
  BY DEF broker_answers, client
<1>5. CASE down' = Append(down, [type |-> "UNSUBACK", id |-> a.id]) /\ UNCHANGED <<granted, faults>>
  <2> DEFINE p == [type |-> "UNSUBACK", id |-> a.id]
  <2>1. p.type = "UNSUBACK" /\ p.id = a.id /\ down' = Append(down, p)
    BY <1>5
  <2> HIDE DEF p
  <2> QED  BY <1>1, <1>2, <1>4, <1>5, <2>1
<1>6. CASE /\ a.type = "SUBSCRIBE" /\ granted' = granted \cup {a.id} /\ faults' = faults
           /\ down' = Append(down, [type |-> "SUBACK", id |-> a.id, granted |-> TRUE])
  <2> DEFINE p == [type |-> "SUBACK", id |-> a.id, granted |-> TRUE]
  <2>1. p.type = "SUBACK" /\ p.id = a.id /\ p.granted = TRUE /\ down' = Append(down, p)
    BY <1>6
  <2> HIDE DEF p
  <2> QED  BY <1>1, <1>2, <1>3, <1>4, <1>6, <2>1
<1>7. CASE /\ a.type = "SUBSCRIBE" /\ granted' = granted /\ faults' = faults + 1
           /\ down' = Append(down, [type |-> "SUBACK", id |-> a.id, granted |-> FALSE])
  <2> DEFINE p == [type |-> "SUBACK", id |-> a.id, granted |-> FALSE]
  <2>1. p.type = "SUBACK" /\ p.id = a.id /\ p.granted = FALSE /\ down' = Append(down, p)
    BY <1>7
  <2> HIDE DEF p
  <2> QED  BY <1>1, <1>2, <1>3, <1>4, <1>7, <2>1
<1> QED  BY <1>1, <1>5, <1>6, <1>7 DEF Fault

\* Nodes with a result had it before.
NodesOld ==
  \A i \in DOMAIN list_sub_sync_ack' :
    list_sub_sync_ack'[i].ack # "UNDEF" =>
      \E j \in DOMAIN list_sub_sync_ack : list_sub_sync_ack[j] = list_sub_sync_ack'[i]

\* A result is new only when a SUBACK is read, and then that SUBACK is gone.
LEMMA ResultEffect ==
  ASSUME SubInv, [Next]_vars
  PROVE  \/ NodesOld
         \/ /\ Marks /\ Thins /\ asked' = asked /\ granted' = granted /\ packet_id' = packet_id
            /\ calls' = calls /\ faults' = faults /\ call' = call
            /\ 1 \in DOMAIN down /\ Head(down) = down[1] /\ down[1].type = "SUBACK"
            /\ \A i \in DOMAIN down' : down'[i].type = "SUBACK" => down'[i].id # down[1].id
<1> USE DEF SubInv
<1>1. CASE list_sub_sync_ack' = list_sub_sync_ack
  BY <1>1 DEF NodesOld
<1>2. ASSUME NEW n, n.ack = "UNDEF", list_sub_sync_ack' = Append(list_sub_sync_ack, n)
      PROVE  NodesOld
  <2>1. \A i \in DOMAIN list_sub_sync_ack' :
          \/ i \in DOMAIN list_sub_sync_ack /\ list_sub_sync_ack'[i] = list_sub_sync_ack[i]
          \/ list_sub_sync_ack'[i] = n
    BY <1>2, NodeTypes
  <2> QED  BY <1>2, <2>1 DEF NodesOld
<1>3. ASSUME NEW t, Drops(t) PROVE NodesOld
  BY <1>3 DEF Drops, NodesOld
<1>4. ASSUME NEW t \in Threads, handle_recv_SUBACK(t), Marks
      PROVE  /\ Marks /\ Thins /\ asked' = asked /\ granted' = granted /\ packet_id' = packet_id
             /\ calls' = calls /\ faults' = faults /\ call' = call
             /\ 1 \in DOMAIN down /\ Head(down) = down[1] /\ down[1].type = "SUBACK"
             /\ \A i \in DOMAIN down' : down'[i].type = "SUBACK" => down'[i].id # down[1].id
  <2>1. Receives(t, "SUBACK")
    BY <1>4 DEF handle_recv_SUBACK
  <2>2. /\ Thins /\ Head(down) = down[1] /\ 1 \in DOMAIN down /\ Head(down).type = "SUBACK"
        /\ \A i \in DOMAIN down' : i + 1 \in DOMAIN down /\ i + 1 # 1 /\ down'[i] = down[i + 1]
    BY <2>1, ThinsTail
  <2>3. \A i \in DOMAIN down' : down'[i].type = "SUBACK" => down'[i].id # down[1].id
    BY <2>2 DEF OnceInv
  <2>4. /\ asked' = asked /\ granted' = granted /\ packet_id' = packet_id
        /\ calls' = calls /\ faults' = faults /\ call' = call
    BY <1>4 DEF handle_recv_SUBACK, history
  <2> QED  BY <1>4, <2>2, <2>3, <2>4
<1>5. \A i : [id |-> i, ack |-> "UNDEF"].ack = "UNDEF"
  OBVIOUS
<1> QED  BY <1>1, <1>2, <1>3, <1>4, <1>5, AckEffect

\* Ids are used one after the other.
LEMMA PacketIdGrows ==
  ASSUME SubInv, [Next]_vars
  PROVE  packet_id' = packet_id \/ packet_id' = packet_id + 1
<1>1. ASSUME NEW t \in Threads,
             \/ \E op \in Ops, f \in Filters, fn \in Fns : subscribe(t, op, f, fn)
             \/ subscribe_refused(t) \/ subscribe_write_fails(t) \/ subscribe_sent(t)
             \/ subscribe_local(t) \/ subscribe_added(t)
             \/ sync_in_callback(t) \/ sync_failed(t) \/ sync_registers(t) \/ sync_yielded(t)
             \/ sync_succeeds(t) \/ sync_again(t) \/ sync_times_out(t) \/ sync_timer(t)
      PROVE  packet_id' = packet_id \/ packet_id' = packet_id + 1
  BY <1>1 DEF subscribe, subscribe_refused, subscribe_write_fails, subscribe_sent,
              subscribe_local, subscribe_added, sync_in_callback, sync_failed, sync_registers,
              sync_yielded, sync_succeeds, sync_again, sync_times_out, sync_timer, client
<1> QED  BY <1>1, CallUnchanged, BrokerUnchanged DEF Next, Starts, Step

\* Every SUBSCRIBE has one answer at most.
LEMMA OnceStep ==
  ASSUME SubInv, TypeOK', [Next]_vars
  PROVE  OnceInv'
<1> USE DEF SubInv
<1>1. /\ packet_id \in Nat /\ packet_id' \in Nat /\ packet_id <= packet_id'
      /\ \A a \in asked : a.id \in Nat
      /\ \A i \in DOMAIN down : down[i].type = "SUBACK" => down[i].id \in Nat
      /\ \A i \in DOMAIN list_sub_sync_ack :
           list_sub_sync_ack[i].id \in Nat /\ list_sub_sync_ack[i].id <= packet_id
  <2>1. packet_id \in Nat /\ \A a \in asked : a.id \in Nat
    BY ConstantFacts DEF TypeOK
  <2>2. packet_id' \in Nat /\ packet_id <= packet_id'
    BY <2>1, PacketIdGrows
  <2>3. \A i \in DOMAIN list_sub_sync_ack :
          list_sub_sync_ack[i].id \in Nat /\ list_sub_sync_ack[i].id <= packet_id
    BY NodeTypes DEF WaitInv, CallInv
  <2> QED  BY <2>1, <2>2, <2>3, PacketTypes
<1>2. ASSUME Thins, asked' \subseteq asked
      PROVE  /\ \A a \in asked' : a.id <= packet_id'
             /\ \A i \in DOMAIN down' :
                  down'[i].type = "SUBACK" =>
                    /\ down'[i].id <= packet_id'
                    /\ [type |-> "SUBSCRIBE", id |-> down'[i].id] \notin asked'
                    /\ \A j \in DOMAIN down' :
                         down'[j].type = "SUBACK" /\ down'[j].id = down'[i].id => i = j
  <2>1. PICK m \in [DOMAIN down' -> Nat] :
          /\ \A i \in DOMAIN down' :
               down'[i].type = "SUBACK" => m[i] \in DOMAIN down /\ down[m[i]] = down'[i]
          /\ \A i, j \in DOMAIN down' :
               down'[i].type = "SUBACK" /\ down'[j].type = "SUBACK" /\ m[i] = m[j] => i = j
    BY <1>2 DEF Thins
  <2>2. \A a \in asked' : a.id <= packet_id'
    BY <1>1, <1>2 DEF OnceInv
  <2>3. ASSUME NEW i \in DOMAIN down', down'[i].type = "SUBACK"
        PROVE  /\ down'[i].id <= packet_id'
               /\ [type |-> "SUBSCRIBE", id |-> down'[i].id] \notin asked'
    <3>1. m[i] \in DOMAIN down /\ down[m[i]] = down'[i]
      BY <2>1, <2>3
    <3> QED  BY <1>1, <1>2, <2>3, <3>1 DEF OnceInv
  <2>4. ASSUME NEW i \in DOMAIN down', NEW j \in DOMAIN down',
               down'[i].type = "SUBACK", down'[j].type = "SUBACK", down'[j].id = down'[i].id
        PROVE  i = j
    <3>1. /\ m[i] \in DOMAIN down /\ down[m[i]] = down'[i]
          /\ m[j] \in DOMAIN down /\ down[m[j]] = down'[j]
      BY <2>1, <2>4
    <3>2. m[i] = m[j]
      BY <2>4, <3>1 DEF OnceInv
    <3> QED  BY <2>1, <2>4, <3>2
  <2> QED  BY <2>2, <2>3, <2>4
<1>3. ASSUME Thins, asked' \subseteq asked, NodesOld PROVE OnceInv'
  <2>1. ASSUME NEW i \in DOMAIN list_sub_sync_ack', list_sub_sync_ack'[i].ack # "UNDEF"
        PROVE  /\ [type |-> "SUBSCRIBE", id |-> list_sub_sync_ack'[i].id] \notin asked'
               /\ \A j \in DOMAIN down' :
                    down'[j].type = "SUBACK" => down'[j].id # list_sub_sync_ack'[i].id
    <3>1. PICK k \in DOMAIN list_sub_sync_ack : list_sub_sync_ack[k] = list_sub_sync_ack'[i]
      BY <1>3, <2>1 DEF NodesOld
    <3> QED  BY <1>3, <2>1, <3>1 DEF OnceInv, Thins
  <2> QED  BY <1>2, <1>3, <2>1 DEF OnceInv
<1>4. ASSUME Marks, Thins, asked' = asked, 1 \in DOMAIN down, Head(down) = down[1],
             down[1].type = "SUBACK",
             \A i \in DOMAIN down' : down'[i].type = "SUBACK" => down'[i].id # down[1].id
      PROVE  OnceInv'
  <2>1. ASSUME NEW i \in DOMAIN list_sub_sync_ack', list_sub_sync_ack'[i].ack # "UNDEF"
        PROVE  /\ [type |-> "SUBSCRIBE", id |-> list_sub_sync_ack'[i].id] \notin asked'
               /\ \A j \in DOMAIN down' :
                    down'[j].type = "SUBACK" => down'[j].id # list_sub_sync_ack'[i].id
    <3>1. i \in DOMAIN list_sub_sync_ack /\ list_sub_sync_ack'[i].id = list_sub_sync_ack[i].id
      BY <1>4 DEF Marks
    <3>2. CASE list_sub_sync_ack[i].id = down[1].id
      BY <1>4, <3>1, <3>2 DEF OnceInv
    <3>3. CASE list_sub_sync_ack[i].id # down[1].id
      <4>1. list_sub_sync_ack[i].ack # "UNDEF"
        BY <1>4, <2>1, <3>1, <3>3 DEF Marks
      <4> QED  BY <1>4, <3>1, <4>1 DEF OnceInv, Thins
    <3> QED  BY <3>2, <3>3
  <2>2. asked' \subseteq asked
    BY <1>4
  <2> QED  BY <1>2, <1>4, <2>1, <2>2 DEF OnceInv
<1>5. ASSUME down' = down, list_sub_sync_ack' = list_sub_sync_ack, packet_id' = packet_id + 1,
             NEW type, asked' = asked \cup {[type |-> type, id |-> packet_id + 1]}
      PROVE  OnceInv'
  <2> DEFINE n == [type |-> type, id |-> packet_id + 1]
  <2>1. n.id = packet_id + 1 /\ \A k : [type |-> "SUBSCRIBE", id |-> k] = n => k = packet_id + 1
    <3>1. \A k : [type |-> "SUBSCRIBE", id |-> k].id = k
      OBVIOUS
    <3> QED  BY <3>1
  <2> HIDE DEF n
  <2>2. asked' = asked \cup {n}
    BY <1>5 DEF n
  <2>3. \A a \in asked' : a.id <= packet_id'
    BY <1>1, <1>5, <2>1, <2>2 DEF OnceInv
  <2>4. \A i \in DOMAIN down :
          down[i].type = "SUBACK" =>
            [type |-> "SUBSCRIBE", id |-> down[i].id] \notin asked' /\ down[i].id <= packet_id'
    BY <1>1, <1>5, <2>1, <2>2 DEF OnceInv
  <2>5. \A i \in DOMAIN list_sub_sync_ack :
          list_sub_sync_ack[i].ack # "UNDEF" =>
            [type |-> "SUBSCRIBE", id |-> list_sub_sync_ack[i].id] \notin asked'
    BY <1>1, <1>5, <2>1, <2>2 DEF OnceInv
  <2> QED  BY <1>5, <2>3, <2>4, <2>5 DEF OnceInv
<1>6. CASE broker_answers
  <2>1. PICK a \in asked, p \in {Last(down')} :
          /\ asked' = asked \ {a} /\ a.id \in Nat
          /\ down' = Append(down, p) /\ p.id = a.id
          /\ list_sub_sync_ack' = list_sub_sync_ack /\ packet_id' = packet_id
          /\ p.type = "SUBACK" => a = [type |-> "SUBSCRIBE", id |-> a.id]
    <3>1. \A p : down' = Append(down, p) => p = Last(down')
      BY PacketTypes DEF Last
    <3> QED  BY <1>6, <3>1, AnswerEffect
  <2>2. /\ DOMAIN down' = 1..Len(down) + 1 /\ down'[Len(down) + 1] = p
        /\ \A i \in DOMAIN down : down'[i] = down[i]
        /\ DOMAIN down = 1..Len(down) /\ Len(down) \in Nat
    BY <2>1, PacketTypes
  <2>3. \A i \in DOMAIN down' : i \in DOMAIN down \/ i = Len(down) + 1
    BY <2>2
  <2>4. \A b \in asked' : b.id <= packet_id'
    BY <2>1 DEF OnceInv
  <2>5. p.type = "SUBACK" =>
          /\ p.id <= packet_id' /\ [type |-> "SUBSCRIBE", id |-> p.id] \notin asked'
          /\ \A j \in DOMAIN down : down[j].type = "SUBACK" => down[j].id # p.id
    BY <2>1 DEF OnceInv
  <2>6. \A i \in DOMAIN down' :
          down'[i].type = "SUBACK" =>
            /\ down'[i].id <= packet_id'
            /\ [type |-> "SUBSCRIBE", id |-> down'[i].id] \notin asked'
            /\ \A j \in DOMAIN down' :
                 down'[j].type = "SUBACK" /\ down'[j].id = down'[i].id => i = j
    BY <2>1, <2>2, <2>3, <2>5 DEF OnceInv
  <2>7. \A i \in DOMAIN list_sub_sync_ack' :
          list_sub_sync_ack'[i].ack # "UNDEF" =>
            /\ [type |-> "SUBSCRIBE", id |-> list_sub_sync_ack'[i].id] \notin asked'
            /\ \A j \in DOMAIN down' :
                 down'[j].type = "SUBACK" => down'[j].id # list_sub_sync_ack'[i].id
    BY <2>1, <2>2, <2>3 DEF OnceInv
  <2> QED  BY <2>4, <2>6, <2>7 DEF OnceInv
<1> QED  BY <1>3, <1>4, <1>5, <1>6, DownEffect, ResultEffect

\* A call past its subscribe was there before, or has just added its handler.
LEMMA PastSubscribe ==
  ASSUME SubInv, [Next]_vars, NEW u \in Threads,
         call'[u].pc \in {"sent", "register", "yield", "check"}, call'[u].id # 0
  PROVE  /\ call'[u].filter = call[u].filter /\ call'[u].fn = call[u].fn
         /\ \/ call[u].pc \in {"sent", "register", "yield", "check"} /\ call[u].id # 0
            \/ subscribe_added(u)
<1> USE DEF SubInv
<1>1. CASE call' = call
  BY <1>1
<1>2. ASSUME NEW t \in Threads, Only(t), u # t
      PROVE  call[u].pc \in {"sent", "register", "yield", "check"} /\ call[u].id # 0
               /\ call'[u].filter = call[u].filter /\ call'[u].fn = call[u].fn
  BY <1>2 DEF Only
<1>3. ASSUME NEW t \in Threads,
             \/ \E op \in Ops, f \in Filters, fn \in Fns : subscribe(t, op, f, fn)
             \/ subscribe_refused(t) \/ subscribe_write_fails(t) \/ subscribe_sent(t)
             \/ subscribe_local(t) \/ subscribe_added(t)
      PROVE  /\ call'[u].filter = call[u].filter /\ call'[u].fn = call[u].fn
             /\ \/ call[u].pc \in {"sent", "register", "yield", "check"} /\ call[u].id # 0
                \/ subscribe_added(u)
  <2>1. Only(t)
    BY <1>3, SubscribeEffect DEF Ended, Moved
  <2>2. CASE u = t
    <3>1. CASE subscribe_refused(t) \/ subscribe_write_fails(t)
      BY <2>2, <3>1, SubscribeEffect, IdleFields DEF Ended, Moved, CallInv
    <3>2. CASE subscribe_added(t)
      BY <2>2, <3>2, SubscribeEffect, IdleFields DEF Ended, Moved
    <3>3. CASE \/ \E op \in Ops, f \in Filters, fn \in Fns : subscribe(t, op, f, fn)
               \/ subscribe_sent(t) \/ subscribe_local(t)
      BY <2>2, <3>3, SubscribeEffect, IdleFields DEF Ended
    <3> QED  BY <1>3, <3>1, <3>2, <3>3
  <2> QED  BY <1>2, <2>1, <2>2
<1>4. ASSUME NEW t \in Threads,
             \/ sync_in_callback(t) \/ sync_failed(t) \/ sync_registers(t) \/ sync_yielded(t)
             \/ sync_succeeds(t) \/ sync_again(t) \/ sync_times_out(t) \/ sync_timer(t)
      PROVE  /\ call'[u].filter = call[u].filter /\ call'[u].fn = call[u].fn
             /\ call[u].pc \in {"sent", "register", "yield", "check"} /\ call[u].id # 0
  <2>1. Only(t)
    BY <1>4, SyncEffect DEF Ended, Moved
  <2>2. CASE u = t
    BY <1>4, <2>2, SyncEffect, IdleFields DEF Ended, Moved
  <2> QED  BY <1>2, <2>1, <2>2
<1> QED
  BY <1>1, <1>3, <1>4, CallUnchanged, BrokerUnchanged DEF Next, Starts, Step

\* Only sync_succeeds confirms a subscription.
LEMMA ConfirmedEffect ==
  ASSUME [Next]_vars
  PROVE  confirmed' = confirmed \/ \E t \in Threads : sync_succeeds(t)
<1>1. ASSUME NEW t \in Threads,
             \/ \E op \in Ops, f \in Filters, fn \in Fns : subscribe(t, op, f, fn)
             \/ \E f \in Filters : unsubscribe(t, f)
             \/ unsubscribe_write_fails(t)
             \/ subscribe_refused(t) \/ subscribe_write_fails(t) \/ subscribe_sent(t)
             \/ subscribe_local(t) \/ subscribe_added(t)
             \/ sync_in_callback(t) \/ sync_failed(t) \/ sync_registers(t) \/ sync_yielded(t)
             \/ sync_again(t) \/ sync_times_out(t) \/ sync_timer(t)
      PROVE  confirmed' = confirmed
  BY <1>1 DEF subscribe, unsubscribe, unsubscribe_write_fails, subscribe_refused,
              subscribe_write_fails, subscribe_sent, subscribe_local, subscribe_added,
              sync_in_callback, sync_failed, sync_registers, sync_yielded, sync_again,
              sync_times_out, sync_timer, history
<1>2. ASSUME NEW t \in Threads,
             \/ handle_recv_SUBACK(t) \/ handle_recv_UNSUBACK(t) \/ handle_recv_PUBLISH(t)
             \/ message_callback_ends(t) \/ default_callback_ends(t) \/ event_callback_ends(t)
             \/ MQTTPuback(t) \/ cycle_read_closed(t)
             \/ disconnect_callback(t) \/ keepalive_disconnected(t) \/ reconnect_callback(t)
      PROVE  confirmed' = confirmed
  BY <1>2 DEF handle_recv_SUBACK, handle_recv_UNSUBACK, handle_recv_PUBLISH,
              message_callback_ends, default_callback_ends, event_callback_ends, MQTTPuback,
              cycle_read_closed, disconnect_callback, keepalive_disconnected, reconnect_callback,
              history
<1>3. ASSUME \/ link_breaks \/ broker_answers
             \/ \E topic \in Topics, qos \in {0, 1} : broker_publishes(topic, qos)
             \/ UNCHANGED vars
      PROVE  confirmed' = confirmed
  BY <1>3 DEF link_breaks, broker_answers, broker_publishes, vars, history
<1> QED  BY <1>1, <1>2, <1>3 DEF Next, Starts, Step

\* Every step keeps AnswerInv: no call learns of a grant the broker did not send.
LEMMA AnswerStep ==
  ASSUME SubInv, TypeOK', [Next]_vars
  PROVE  AnswerInv'
<1> USE DEF SubInv
<1>1. /\ granted \subseteq granted'
      /\ \A i \in DOMAIN down' :
           down'[i].type = "SUBACK" /\ down'[i].granted => down'[i].id \in granted'
  <2>1. CASE Thins /\ granted' = granted
    BY <2>1 DEF Thins, AnswerInv
  <2>2. CASE down' = down /\ granted' = granted
    BY <2>2 DEF AnswerInv
  <2>3. CASE broker_answers
    <3>1. PICK a \in asked : \E p :
            /\ down' = Append(down, p) /\ p.id = a.id
            /\ \/ p.type = "UNSUBACK" /\ granted' = granted
               \/ p.type = "SUBACK" /\ p.granted = TRUE /\ granted' = granted \cup {a.id}
               \/ p.type = "SUBACK" /\ p.granted = FALSE /\ granted' = granted
      BY <2>3, AnswerEffect
    <3>2. PICK p :
            /\ down' = Append(down, p) /\ p.id = a.id
            /\ \/ p.type = "UNSUBACK" /\ granted' = granted
               \/ p.type = "SUBACK" /\ p.granted = TRUE /\ granted' = granted \cup {a.id}
               \/ p.type = "SUBACK" /\ p.granted = FALSE /\ granted' = granted
      BY <3>1
    <3>3. granted \subseteq granted'
      BY <3>2
    <3>4. /\ DOMAIN down' = 1..Len(down) + 1 /\ down'[Len(down) + 1] = p
          /\ \A i \in DOMAIN down : down'[i] = down[i]
          /\ DOMAIN down = 1..Len(down) /\ Len(down) \in Nat
      BY <3>2, PacketTypes
    <3>5. \A i \in DOMAIN down' : i \in DOMAIN down \/ i = Len(down) + 1
      BY <3>4
    <3> QED  BY <3>2, <3>3, <3>4, <3>5 DEF AnswerInv
  <2> QED  BY <2>1, <2>2, <2>3, DownEffect
<1>2. \A i \in DOMAIN list_sub_sync_ack' :
        list_sub_sync_ack'[i].ack = "SUCCESS" => list_sub_sync_ack'[i].id \in granted'
  <2>1. CASE NodesOld
    BY <1>1, <2>1 DEF NodesOld, AnswerInv
  <2>2. CASE /\ Marks /\ granted' = granted /\ 1 \in DOMAIN down /\ Head(down) = down[1]
             /\ down[1].type = "SUBACK"
    <3>1. ASSUME NEW i \in DOMAIN list_sub_sync_ack', list_sub_sync_ack'[i].ack = "SUCCESS"
          PROVE  list_sub_sync_ack'[i].id \in granted
      <4>1. i \in DOMAIN list_sub_sync_ack /\ list_sub_sync_ack'[i].id = list_sub_sync_ack[i].id
        BY <2>2 DEF Marks
      <4>2. CASE list_sub_sync_ack[i].id # down[1].id
        BY <2>2, <3>1, <4>1, <4>2 DEF Marks, AnswerInv
      <4>3. CASE list_sub_sync_ack[i].id = down[1].id
        <5>1. down[1].granted
          BY <2>2, <3>1, <4>1, <4>3 DEF Marks
        <5> QED  BY <2>2, <4>1, <4>3, <5>1 DEF AnswerInv
      <4> QED  BY <4>2, <4>3
    <3> QED  BY <2>2, <3>1
  <2> QED  BY <2>1, <2>2, ResultEffect
<1>3. ASSUME NEW t \in Threads, call'[t].pc \in {"sent", "register", "yield", "check"},
             call'[t].id # 0
      PROVE  \E f, u : f = call'[t].filter /\ u = call'[t].fn /\ Present(f, u)'
  <2>1. /\ call'[t].filter = call[t].filter /\ call'[t].fn = call[t].fn
        /\ \/ call[t].pc \in {"sent", "register", "yield", "check"} /\ call[t].id # 0
           \/ subscribe_added(t)
    BY <1>3, PastSubscribe
  <2>2. PICK f, u : f = call[t].filter /\ u = call[t].fn
    OBVIOUS
  <2>3. CASE call[t].pc \in {"sent", "register", "yield", "check"} /\ call[t].id # 0
    <3>1. Present(f, u)
      BY <2>2, <2>3 DEF AnswerInv, Present
    <3> QED  BY <2>1, <2>2, <3>1, PresentKept
  <2>4. CASE subscribe_added(t)
    BY <2>1, <2>2, <2>4, PresentAfter
  <2> QED  BY <2>1, <2>3, <2>4
<1>4. ASSUME NEW c \in confirmed' PROVE c.id \in granted' /\ Present(c.filter, c.fn)'
  <2>1. CASE c \in confirmed
    BY <1>1, <2>1, PresentKept DEF AnswerInv
  <2>2. CASE c \notin confirmed
    <3>1. PICK t \in Threads : sync_succeeds(t)
      BY <1>4, <2>2, ConfirmedEffect
    <3>2. c = [id |-> call[t].id, filter |-> call[t].filter, fn |-> call[t].fn]
      BY <1>4, <2>2, <3>1 DEF sync_succeeds
    <3>3. c.id = call[t].id /\ c.filter = call[t].filter /\ c.fn = call[t].fn
      BY <3>2
    <3>4. Outcome(t) = "SUCCESS" /\ call[t].pc = "check"
      BY <3>1 DEF sync_succeeds
    <3>5. call[t].id \in granted /\ call[t].id # 0
      BY <3>4, OutcomeFacts DEF AnswerInv
    <3>6. Present(c.filter, c.fn)
      BY <3>3, <3>4, <3>5 DEF AnswerInv
    <3> QED  BY <1>1, <3>3, <3>5, <3>6, PresentKept
  <2> QED  BY <2>1, <2>2
<1> QED  BY <1>1, <1>2, <1>3, <1>4 DEF AnswerInv, Present

-----------------------------------------------------------------------------
(* Ids *)

\* What a step does to the size of a set.
LEMMA Sizes ==
  ASSUME NEW S, NEW T, IsFiniteSet(S)
  PROVE  /\ Cardinality(S) \in Nat
         /\ T \subseteq S =>
              IsFiniteSet(T) /\ Cardinality(T) \in Nat /\ Cardinality(T) <= Cardinality(S)
         /\ \A x : T \subseteq S \cup {x} =>
              IsFiniteSet(T) /\ Cardinality(T) \in Nat /\ Cardinality(T) <= Cardinality(S) + 1
         /\ \A x \in S : T \subseteq S \ {x} =>
              IsFiniteSet(T) /\ Cardinality(T) \in Nat /\ Cardinality(T) + 1 <= Cardinality(S)
<1>1. Cardinality(S) \in Nat
  BY FS_CardinalityType
<1>2. ASSUME NEW U, IsFiniteSet(U), T \subseteq U
      PROVE  IsFiniteSet(T) /\ Cardinality(T) \in Nat /\ Cardinality(T) <= Cardinality(U)
  BY <1>2, FS_Subset, FS_CardinalityType
<1>3. ASSUME NEW x, T \subseteq S \cup {x}
      PROVE  IsFiniteSet(T) /\ Cardinality(T) \in Nat /\ Cardinality(T) <= Cardinality(S) + 1
  <2>1. /\ IsFiniteSet(S \cup {x})
        /\ Cardinality(S \cup {x}) = Cardinality(S) \/ Cardinality(S \cup {x}) = Cardinality(S) + 1
    BY FS_AddElement
  <2> QED  BY <1>1, <1>2, <1>3, <2>1
<1>4. ASSUME NEW x \in S, T \subseteq S \ {x}
      PROVE  IsFiniteSet(T) /\ Cardinality(T) \in Nat /\ Cardinality(T) + 1 <= Cardinality(S)
  <2>1. IsFiniteSet(S \ {x}) /\ Cardinality(S \ {x}) = Cardinality(S) - 1
    BY FS_RemoveElement
  <2> QED  BY <1>1, <1>2, <1>4, <2>1
<1> QED  BY <1>1, <1>2, <1>3, <1>4

\* calls and faults only count up.
LEMMA CountsGrow ==
  ASSUME TypeOK, [Next]_vars
  PROVE  /\ calls \in Nat /\ faults \in Nat
         /\ calls' = calls \/ calls' = calls + 1
         /\ faults' = faults \/ faults' = faults + 1
<1>0. calls \in Nat /\ faults \in Nat
  BY ConstantFacts DEF TypeOK
<1>1. ASSUME NEW t \in Threads,
             \/ \E op \in Ops, f \in Filters, fn \in Fns : subscribe(t, op, f, fn)
             \/ \E f \in Filters : unsubscribe(t, f)
             \/ unsubscribe_write_fails(t)
             \/ subscribe_refused(t) \/ subscribe_write_fails(t) \/ subscribe_sent(t)
             \/ subscribe_local(t) \/ subscribe_added(t)
             \/ sync_in_callback(t) \/ sync_failed(t) \/ sync_registers(t) \/ sync_yielded(t)
             \/ sync_succeeds(t) \/ sync_again(t) \/ sync_times_out(t) \/ sync_timer(t)
      PROVE  /\ calls' = calls \/ calls' = calls + 1
             /\ faults' = faults \/ faults' = faults + 1
  BY <1>1 DEF subscribe, unsubscribe, unsubscribe_write_fails, subscribe_refused,
              subscribe_write_fails, subscribe_sent, subscribe_local, subscribe_added,
              sync_in_callback, sync_failed, sync_registers, sync_yielded, sync_succeeds,
              sync_again, sync_times_out, sync_timer, Fault
<1>2. ASSUME NEW t \in Threads,
             \/ handle_recv_SUBACK(t) \/ handle_recv_UNSUBACK(t) \/ handle_recv_PUBLISH(t)
             \/ message_callback_ends(t) \/ default_callback_ends(t) \/ event_callback_ends(t)
             \/ MQTTPuback(t) \/ cycle_read_closed(t)
             \/ disconnect_callback(t) \/ keepalive_disconnected(t) \/ reconnect_callback(t)
      PROVE  calls' = calls /\ faults' = faults
  BY <1>2 DEF handle_recv_SUBACK, handle_recv_UNSUBACK, handle_recv_PUBLISH,
              message_callback_ends, default_callback_ends, event_callback_ends, MQTTPuback,
              cycle_read_closed, disconnect_callback, keepalive_disconnected, reconnect_callback
<1>3. ASSUME \/ link_breaks \/ broker_answers
             \/ \E topic \in Topics, qos \in {0, 1} : broker_publishes(topic, qos)
             \/ UNCHANGED vars
      PROVE  calls' = calls /\ (faults' = faults \/ faults' = faults + 1)
  BY <1>3 DEF link_breaks, broker_answers, broker_publishes, vars, Fault
<1> QED  BY <1>0, <1>1, <1>2, <1>3 DEF Next, Starts, Step

\* An id is used by a call that owed one or by an unsubscribe; a call comes to owe one
\* when it begins, or when its subscription was refused.
LEMMA OwingEffect ==
  ASSUME SubInv, [Next]_vars
  PROVE  \/ Owing' \subseteq Owing /\ packet_id' = packet_id
         \/ \E t : Owing' \subseteq Owing \cup {t} /\ packet_id' = packet_id /\ calls' = calls + 1
         \/ \E t \in Owing : Owing' \subseteq Owing \ {t} /\ packet_id' = packet_id + 1
         \/ Owing' = Owing /\ packet_id' = packet_id + 1 /\ calls' = calls + 1
         \/ \E t \in Threads :
              /\ sync_again(t) /\ Outcome(t) = "NACK" /\ packet_id' = packet_id
              /\ Owing' \subseteq Owing \cup {t}
<1> USE DEF SubInv
<1>1. ASSUME NEW t \in Threads, Only(t)
      PROVE  /\ Owing' \subseteq Owing \cup {t}
             /\ call'[t].pc = "idle" \/ call'[t].id # 0 => Owing' \subseteq Owing \ {t}
             /\ call[t].pc # "idle" /\ call[t].id = 0 => Owing' \subseteq Owing
  BY <1>1 DEF Owing, Only
<1>2. ASSUME NEW t \in Threads, NEW op \in Ops, NEW f \in Filters, NEW fn \in Fns,
             subscribe(t, op, f, fn)
      PROVE  Owing' \subseteq Owing \cup {t} /\ packet_id' = packet_id /\ calls' = calls + 1
  BY <1>1, <1>2, SubscribeEffect DEF subscribe, client
<1>3. ASSUME NEW t \in Threads, subscribe_refused(t) \/ subscribe_write_fails(t)
      PROVE  Owing' \subseteq Owing /\ packet_id' = packet_id
  <2>1. packet_id' = packet_id
    BY <1>3 DEF subscribe_refused, subscribe_write_fails, client
  <2>2. Only(t) /\ call[t].pc # "idle" /\ call[t].id = 0
    BY <1>3, SubscribeEffect DEF CallInv, Ended, Moved
  <2> QED  BY <1>1, <2>1, <2>2
<1>4. ASSUME NEW t \in Threads, subscribe_sent(t) \/ subscribe_local(t)
      PROVE  t \in Owing /\ Owing' \subseteq Owing \ {t} /\ packet_id' = packet_id + 1
  <2>1. packet_id' = packet_id + 1 /\ packet_id' # 0
    BY <1>4, ConstantFacts DEF subscribe_sent, subscribe_local, TypeOK
  <2>2. Only(t) /\ call[t].pc = "subscribe" /\ (call'[t].pc = "idle" \/ call'[t].id # 0)
    BY <1>4, <2>1, SubscribeEffect, IdleFields DEF Ended
  <2>3. t \in Owing
    BY <2>2 DEF Owing, CallInv
  <2> QED  BY <1>1, <2>1, <2>2, <2>3
<1>5. ASSUME NEW t \in Threads,
             \/ subscribe_added(t)
             \/ sync_in_callback(t) \/ sync_failed(t) \/ sync_registers(t) \/ sync_yielded(t)
             \/ sync_succeeds(t) \/ sync_again(t) \/ sync_times_out(t) \/ sync_timer(t),
             ~(sync_again(t) /\ Outcome(t) = "NACK")
      PROVE  Owing' \subseteq Owing /\ packet_id' = packet_id
  <2>1. packet_id' = packet_id
    BY <1>5 DEF subscribe_added, sync_in_callback, sync_failed, sync_registers, sync_yielded,
                sync_succeeds, sync_again, sync_times_out, sync_timer, client
  <2>2. Only(t) /\ (call'[t].pc = "idle" \/ call'[t].id = call[t].id) /\ call[t].pc # "idle"
    BY <1>5, SubscribeEffect, SyncEffect, IdleFields DEF Ended, Moved
  <2> QED  BY <1>1, <2>1, <2>2
<1>6. ASSUME NEW t \in Threads, sync_again(t), Outcome(t) = "NACK"
      PROVE  Owing' \subseteq Owing \cup {t} /\ packet_id' = packet_id
  BY <1>1, <1>6, SyncEffect DEF sync_again
<1>7. ASSUME NEW t \in Threads, NEW f \in Filters, unsubscribe(t, f)
      PROVE  Owing' = Owing /\ packet_id' = packet_id + 1 /\ calls' = calls + 1
  BY <1>7 DEF unsubscribe, Owing
<1>8. ASSUME NEW t \in Threads,
             \/ unsubscribe_write_fails(t)
             \/ handle_recv_SUBACK(t) \/ handle_recv_UNSUBACK(t) \/ handle_recv_PUBLISH(t)
             \/ message_callback_ends(t) \/ default_callback_ends(t) \/ event_callback_ends(t)
             \/ MQTTPuback(t) \/ cycle_read_closed(t)
             \/ disconnect_callback(t) \/ keepalive_disconnected(t) \/ reconnect_callback(t)
      PROVE  call' = call /\ packet_id' = packet_id
  BY <1>8 DEF unsubscribe_write_fails, handle_recv_SUBACK, handle_recv_UNSUBACK,
              handle_recv_PUBLISH, message_callback_ends, default_callback_ends,
              event_callback_ends, MQTTPuback, cycle_read_closed, disconnect_callback,
              keepalive_disconnected, reconnect_callback, client
<1>9. ASSUME call' = call, packet_id' = packet_id
      PROVE  Owing' \subseteq Owing /\ packet_id' = packet_id
  BY <1>9 DEF Owing
<1> QED
  BY <1>2, <1>3, <1>4, <1>5, <1>6, <1>7, <1>8, <1>9, BrokerUnchanged DEF Next, Starts, Step

\* A refusal is new only when the broker sends it, and each costs a fault.
LEMMA RefusalEffect ==
  ASSUME SubInv, [Next]_vars
  PROVE  \/ Refusals' \cup Nacks' \subseteq Refusals \cup Nacks
         \/ /\ \E x : Refusals' \cup Nacks' \subseteq (Refusals \cup Nacks) \cup {x}
            /\ faults' = faults + 1 /\ call' = call /\ packet_id' = packet_id
<1> USE DEF SubInv
<1>1. ASSUME Thins PROVE Refusals' \subseteq Refusals
  BY <1>1 DEF Thins, Refusals
<1>2. ASSUME NodesOld PROVE Nacks' \subseteq Nacks
  <2>1. ASSUME NEW i \in DOMAIN list_sub_sync_ack', list_sub_sync_ack'[i].ack = "NACK"
        PROVE  list_sub_sync_ack'[i].id \in Nacks
    BY <1>2, <2>1 DEF NodesOld, Nacks
  <2> QED  BY <2>1 DEF Nacks
<1>3. ASSUME Marks, Thins, 1 \in DOMAIN down, Head(down) = down[1], down[1].type = "SUBACK"
      PROVE  Refusals' \cup Nacks' \subseteq Refusals \cup Nacks
  <2>1. ASSUME NEW i \in DOMAIN list_sub_sync_ack', list_sub_sync_ack'[i].ack = "NACK"
        PROVE  list_sub_sync_ack'[i].id \in Refusals \cup Nacks
    <3>1. i \in DOMAIN list_sub_sync_ack /\ list_sub_sync_ack'[i].id = list_sub_sync_ack[i].id
      BY <1>3 DEF Marks
    <3>2. CASE list_sub_sync_ack[i].id # down[1].id
      <4>1. list_sub_sync_ack[i].ack = "NACK"
        BY <1>3, <2>1, <3>1, <3>2 DEF Marks
      <4> QED  BY <3>1, <4>1 DEF Nacks
    <3>3. CASE list_sub_sync_ack[i].id = down[1].id
      <4>1. ~down[1].granted
        BY <1>3, <2>1, <3>1, <3>3 DEF Marks
      <4> QED  BY <1>3, <3>1, <3>3, <4>1 DEF Refusals
    <3> QED  BY <3>2, <3>3
  <2>2. Nacks' \subseteq Refusals \cup Nacks
    BY <2>1 DEF Nacks
  <2> QED  BY <1>1, <1>3, <2>2
<1>4. CASE broker_answers
  <2>1. PICK a \in asked : \E p :
          /\ down' = Append(down, p) /\ p.id = a.id
          /\ list_sub_sync_ack' = list_sub_sync_ack
          /\ \/ p.type = "UNSUBACK"
             \/ p.type = "SUBACK" /\ p.granted = TRUE
             \/ p.type = "SUBACK" /\ p.granted = FALSE /\ faults' = faults + 1
    BY <1>4, AnswerEffect
  <2>2. PICK p :
          /\ down' = Append(down, p) /\ p.id = a.id
          /\ list_sub_sync_ack' = list_sub_sync_ack
          /\ \/ p.type = "UNSUBACK"
             \/ p.type = "SUBACK" /\ p.granted = TRUE
             \/ p.type = "SUBACK" /\ p.granted = FALSE /\ faults' = faults + 1
    BY <2>1
  <2>3. /\ DOMAIN down' = 1..Len(down) + 1 /\ down'[Len(down) + 1] = p
        /\ \A i \in DOMAIN down : down'[i] = down[i]
        /\ DOMAIN down = 1..Len(down) /\ Len(down) \in Nat
    BY <2>2, PacketTypes
  <2>4. \A i \in DOMAIN down' : i \in DOMAIN down \/ i = Len(down) + 1
    BY <2>3
  <2>5. ASSUME NEW i \in DOMAIN down', down'[i].type = "SUBACK", ~down'[i].granted
        PROVE  \/ down'[i].id \in Refusals
               \/ down'[i] = p
    BY <2>3, <2>4, <2>5 DEF Refusals
  <2>6. Nacks' = Nacks
    BY <2>2 DEF Nacks
  <2>7. call' = call /\ packet_id' = packet_id
    BY <1>4, BrokerUnchanged
  <2>8. CASE p.type = "SUBACK" /\ p.granted = FALSE /\ faults' = faults + 1
    <3>1. Refusals' \subseteq Refusals \cup {a.id}
      BY <2>2, <2>5 DEF Refusals
    <3>2. Refusals' \cup Nacks' \subseteq (Refusals \cup Nacks) \cup {a.id}
      BY <2>6, <3>1
    <3> QED  BY <2>7, <2>8, <3>2
  <2>9. CASE p.type = "UNSUBACK" \/ p.granted = TRUE
    <3>1. Refusals' \subseteq Refusals
      BY <2>5, <2>9 DEF Refusals
    <3> QED  BY <2>6, <3>1
  <2> QED  BY <2>2, <2>8, <2>9
<1>5. CASE NodesOld /\ Thins
  BY <1>1, <1>2, <1>5
<1>6. down' = down => Thins
  BY ThinsSame
<1> QED  BY <1>3, <1>4, <1>5, <1>6, DownEffect, ResultEffect

\* The balance of DebtInv, when an id is used or a call comes to owe one.
LEMMA Balance ==
  ASSUME NEW id \in Nat, NEW o \in Nat, NEW r \in Nat, NEW p \in Nat, NEW q \in Nat,
         NEW b \in Nat, NEW c \in Nat, NEW f \in Nat, NEW d \in Nat, NEW g \in Nat,
         id + o + r <= b + c + f, c <= d, f <= g
  PROVE  /\ p + 1 <= o /\ q <= r => id + 1 + p + q <= b + d + g
         /\ p <= o + 1 /\ q + 1 <= r => id + p + q <= b + d + g
<1>1. id + o + r <= b + d + g
  OBVIOUS
<1>2. p + 1 <= o /\ q <= r => id + 1 + p + q <= id + o + r
  OBVIOUS
<1>3. p <= o + 1 /\ q + 1 <= r => id + p + q <= id + o + r
  OBVIOUS
<1> QED  BY <1>1, <1>2, <1>3

\* Every id is paid for.
LEMMA DebtStep ==
  ASSUME SubInv, TypeOK', [Next]_vars
  PROVE  DebtInv'
<1> USE DEF SubInv
<1> DEFINE O == Owing
           R == Refusals \cup Nacks
           P == Owing'
           Q == Refusals' \cup Nacks'
<1>1. /\ packet_id \in Nat /\ Len(Before) \in Nat /\ calls \in Nat /\ faults \in Nat
      /\ calls <= calls' /\ faults <= faults' /\ calls' \in Nat /\ faults' \in Nat
  BY CountsGrow, ConstantFacts DEF TypeOK
<1>2. /\ IsFiniteSet(O) /\ IsFiniteSet(R)
      /\ packet_id + Cardinality(O) + Cardinality(R) <= Len(Before) + calls + faults
      /\ Cardinality(O) \in Nat /\ Cardinality(R) \in Nat
  BY Sizes DEF DebtInv
<1>3. \/ P \subseteq O /\ packet_id' = packet_id
      \/ \E t : P \subseteq O \cup {t} /\ packet_id' = packet_id /\ calls' = calls + 1
      \/ \E t \in O : P \subseteq O \ {t} /\ packet_id' = packet_id + 1
      \/ P = O /\ packet_id' = packet_id + 1 /\ calls' = calls + 1
      \/ \E t \in Threads :
           /\ sync_again(t) /\ Outcome(t) = "NACK" /\ packet_id' = packet_id
           /\ P \subseteq O \cup {t}
  BY OwingEffect
<1>4. \/ Q \subseteq R
      \/ /\ \E x : Q \subseteq R \cup {x}
         /\ faults' = faults + 1 /\ P = O /\ packet_id' = packet_id
  BY RefusalEffect DEF Owing
<1>5. ASSUME NEW t \in Threads, sync_again(t), Outcome(t) = "NACK"
      PROVE  \E x \in R : Q \subseteq R \ {x}
  <2>1. /\ 1 \in DOMAIN list_sub_sync_ack
        /\ list_sub_sync_ack[1].id = call[t].id /\ list_sub_sync_ack[1].ack = "NACK"
    BY <1>5, OutcomeFacts
  <2>2. call[t].id \in Nacks
    BY <2>1 DEF Nacks
  <2>3. down' = down /\ faults' = faults /\ list_sub_sync_ack' = Tail(list_sub_sync_ack)
    BY <1>5 DEF sync_again, broker
  <2>4. call[t].id \notin Refusals'
    BY <2>1, <2>3 DEF Refusals, OnceInv
  <2>5. Drops(t)
    BY <1>5, <2>3, TailDrops
  <2>6. call[t].id \notin Nacks'
    BY <2>5 DEF Drops, Nacks
  <2>7. Q \subseteq R
    BY <1>1, <1>4, <2>3
  <2> QED  BY <2>2, <2>4, <2>6, <2>7
<1> HIDE DEF O, R, P, Q
<1>6. ASSUME /\ IsFiniteSet(P) /\ IsFiniteSet(Q)
             /\ packet_id' + Cardinality(P) + Cardinality(Q) <= Len(Before) + calls' + faults'
      PROVE  DebtInv'
  BY <1>6 DEF DebtInv, P, Q
<1>7. CASE Q \subseteq R
  <2>1. IsFiniteSet(Q) /\ Cardinality(Q) \in Nat /\ Cardinality(Q) <= Cardinality(R)
    BY <1>2, <1>7, Sizes
  <2>2. CASE P \subseteq O /\ packet_id' = packet_id
    <3>1. IsFiniteSet(P) /\ Cardinality(P) \in Nat /\ Cardinality(P) <= Cardinality(O)
      BY <1>2, <2>2, Sizes
    <3> QED  BY <1>1, <1>2, <1>6, <2>1, <2>2, <3>1
  <2>3. ASSUME NEW t, P \subseteq O \cup {t}, packet_id' = packet_id, calls' = calls + 1
        PROVE  DebtInv'
    <3>1. IsFiniteSet(P) /\ Cardinality(P) \in Nat /\ Cardinality(P) <= Cardinality(O) + 1
      BY <1>2, <2>3, Sizes
    <3> QED  BY <1>1, <1>2, <1>6, <2>1, <2>3, <3>1
  <2>4. ASSUME NEW t \in O, P \subseteq O \ {t}, packet_id' = packet_id + 1 PROVE DebtInv'
    <3>1. IsFiniteSet(P) /\ Cardinality(P) \in Nat /\ Cardinality(P) + 1 <= Cardinality(O)
      BY <1>2, <2>4, Sizes
    <3>2. packet_id' + Cardinality(P) + Cardinality(Q) <= Len(Before) + calls' + faults'
      BY <1>1, <1>2, <2>1, <2>4, <3>1, Balance
    <3> QED  BY <1>6, <2>1, <3>1, <3>2
  <2>5. CASE P = O /\ packet_id' = packet_id + 1 /\ calls' = calls + 1
    BY <1>1, <1>2, <1>6, <2>1, <2>5
  <2>6. ASSUME NEW t \in Threads, sync_again(t), Outcome(t) = "NACK", packet_id' = packet_id,
               P \subseteq O \cup {t}
        PROVE  DebtInv'
    <3>1. IsFiniteSet(P) /\ Cardinality(P) \in Nat /\ Cardinality(P) <= Cardinality(O) + 1
      BY <1>2, <2>6, Sizes
    <3>2. Cardinality(Q) + 1 <= Cardinality(R)
      BY <1>2, <1>5, <2>6, Sizes
    <3>3. packet_id' + Cardinality(P) + Cardinality(Q) <= Len(Before) + calls' + faults'
      BY <1>1, <1>2, <2>1, <2>6, <3>1, <3>2, Balance
    <3> QED  BY <1>6, <2>1, <3>1, <3>3
  <2> QED  BY <1>3, <2>2, <2>3, <2>4, <2>5, <2>6
<1>8. ASSUME NEW x, Q \subseteq R \cup {x}, faults' = faults + 1, P = O, packet_id' = packet_id
      PROVE  DebtInv'
  <2>1. IsFiniteSet(Q) /\ Cardinality(Q) \in Nat /\ Cardinality(Q) <= Cardinality(R) + 1
    BY <1>2, <1>8, Sizes
  <2> QED  BY <1>1, <1>2, <1>6, <1>8, <2>1
<1> QED  BY <1>4, <1>7, <1>8

-----------------------------------------------------------------------------
(* The delivery of a message *)

\* A set of numbers that is not empty has a least element.
LEMMA Least ==
  ASSUME NEW S \in SUBSET Nat, S # {}
  PROVE  \E n \in S : \A k \in S : n <= k
<1>1. IsWellFoundedOn(OpToRel(<, Nat), Nat)
  BY NatLessThanWellFounded
<1>2. PICK n \in S : \A k \in S : <<k, n>> \notin OpToRel(<, Nat)
  BY <1>1, WFMin
<1>3. \A k \in S : ~(k < n)
  BY <1>2 DEF OpToRel
<1> QED  BY <1>3

\* What the fields of rd hold.
LEMMA ReadingTypes ==
  ASSUME NEW r \in Reading
  PROVE  /\ r.at \in Nat /\ r.got \in Seq(Handler) /\ r.start \subseteq Handler
         /\ Len(r.got) \in Nat /\ DOMAIN r.got = 1..Len(r.got)
         /\ \A i \in DOMAIN r.got : r.got[i] \in Handler
         /\ \A h \in Handler : h.key \in Nat
<1>1. r.at \in Nat /\ r.got \in Seq(Handler) /\ r.start \subseteq Handler
  BY ConstantFacts DEF Reading
<1>2. \A h \in Handler : h.key \in Nat
  BY ConstantFacts DEF Handler
<1> QED  BY <1>1, <1>2

\* deliver_message calls the next handler that matches, or there is none.
LEMMA DeliverFacts ==
  ASSUME TypeOK, NEW r \in Reading, NEW i \in 0..Len(list_sub_handle), Deliver(r, i)
  PROVE  /\ rd'.msg = r.msg /\ rd'.start = r.start
         /\ \/ /\ rd'.pc = "message"
               /\ \E j \in DOMAIN list_sub_handle :
                    /\ j > i /\ is_topic_matched(list_sub_handle[j].filter, r.msg.topic)
                    /\ \A k \in DOMAIN list_sub_handle :
                         k > i /\ is_topic_matched(list_sub_handle[k].filter, r.msg.topic) => j <= k
                    /\ rd'.at = list_sub_handle[j].key
                    /\ rd'.got = Append(r.got, list_sub_handle[j])
            \/ /\ rd'.pc \in {"default", "finish"} /\ rd'.at = r.at /\ rd'.got = r.got
               /\ \A k \in DOMAIN list_sub_handle :
                    k > i => ~is_topic_matched(list_sub_handle[k].filter, r.msg.topic)
<1> DEFINE M == Matching(i, r.msg.topic)
           j == next_handler(i, r.msg.topic)
<1>1. DOMAIN list_sub_handle = 1..Len(list_sub_handle) /\ Len(list_sub_handle) \in Nat
  BY DEF TypeOK
<1>2. M \in SUBSET Nat
  BY <1>1 DEF Matching
<1>3. \A k \in DOMAIN list_sub_handle :
        k > i /\ is_topic_matched(list_sub_handle[k].filter, r.msg.topic) => k \in M
  BY <1>1 DEF Matching
<1>4. \A k \in M : k \in DOMAIN list_sub_handle /\ k > i /\ k # 0
                   /\ is_topic_matched(list_sub_handle[k].filter, r.msg.topic)
  BY <1>1 DEF Matching
<1>5. j = IF M = {} THEN 0 ELSE CHOOSE k \in M : \A l \in M : k <= l
  BY DEF next_handler
<1>6. rd' = IF j # 0
            THEN [r EXCEPT !.pc = "message", !.at = list_sub_handle[j].key,
                           !.got = Append(@, list_sub_handle[j])]
            ELSE [r EXCEPT !.pc = IF r.got = <<>> THEN "default" ELSE "finish"]
  BY DEF Deliver
<1> HIDE DEF M, j
<1>7. CASE M = {}
  <2>1. rd' = [r EXCEPT !.pc = IF r.got = <<>> THEN "default" ELSE "finish"]
    BY <1>5, <1>6, <1>7
  <2>2. /\ rd'.pc \in {"default", "finish"} /\ rd'.at = r.at /\ rd'.got = r.got
        /\ rd'.msg = r.msg /\ rd'.start = r.start
    BY <2>1 DEF Reading
  <2> QED  BY <1>3, <1>7, <2>2
<1>8. CASE M # {}
  <2>1. \E k \in M : \A l \in M : k <= l
    BY <1>2, <1>8, Least
  <2>2. j \in M /\ \A l \in M : j <= l
    BY <1>5, <1>8, <2>1
  <2>3. j \in DOMAIN list_sub_handle /\ j > i /\ j # 0
        /\ is_topic_matched(list_sub_handle[j].filter, r.msg.topic)
    BY <1>4, <2>2
  <2> DEFINE h == list_sub_handle[j]
  <2>4. rd' = [r EXCEPT !.pc = "message", !.at = h.key, !.got = Append(r.got, h)]
    BY <1>6, <2>3
  <2> HIDE DEF h
  <2>5. /\ rd'.pc = "message" /\ rd'.at = h.key /\ rd'.got = Append(r.got, h)
        /\ rd'.msg = r.msg /\ rd'.start = r.start
    BY <2>4 DEF Reading
  <2> QED  BY <1>3, <2>2, <2>3, <2>5 DEF h
<1> QED  BY <1>7, <1>8

\* WalkInv of the next state, spelt out.
LEMMA WalkAfter ==
  ASSUME SpentAfter(rd'.at), \A h \in rd'.start : SpentAfter(h.key),
         \A a \in DOMAIN rd'.got : SpentAfter(rd'.got[a].key),
         rd'.pc \in {"message", "default", "finish"} /\ ~dangling' =>
           \A a, b \in DOMAIN rd'.got :
             /\ is_topic_matched(rd'.got[a].filter, rd'.msg.topic)
             /\ a < b => rd'.got[a].key # rd'.got[b].key,
         rd'.pc = "message" /\ ~dangling' =>
           \A q, p \in DOMAIN list_sub_handle' :
             list_sub_handle'[q].key = rd'.at =>
               /\ /\ list_sub_handle'[p] \in rd'.start
                  /\ is_topic_matched(list_sub_handle'[p].filter, rd'.msg.topic)
                  => p > q \/ \E a \in DOMAIN rd'.got : rd'.got[a] = list_sub_handle'[p]
               /\ \A a \in DOMAIN rd'.got : rd'.got[a].key = list_sub_handle'[p].key => p <= q,
         rd'.pc \in {"default", "finish"} /\ ~dangling' =>
           \A p \in DOMAIN list_sub_handle' :
             /\ list_sub_handle'[p] \in rd'.start
             /\ is_topic_matched(list_sub_handle'[p].filter, rd'.msg.topic)
             => \E a \in DOMAIN rd'.got : rd'.got[a] = list_sub_handle'[p]
  PROVE  WalkInv'
BY DEF WalkInv, Spent, SpentAfter, Matched, PositionOf

\* A delivery goes on from position i, having served the handlers up to there.
LEMMA DeliverKeeps ==
  ASSUME SubInv, NEW r \in Reading, NEW i \in 0..Len(list_sub_handle), Deliver(r, i),
         list_sub_handle' = list_sub_handle,
         \A h \in Range(list_sub_handle) : SpentAfter(h.key),
         SpentAfter(r.at), \A h \in r.start : SpentAfter(h.key),
         \A a \in DOMAIN r.got : SpentAfter(r.got[a].key),
         ~dangling' =>
           /\ \A a, b \in DOMAIN r.got :
                /\ is_topic_matched(r.got[a].filter, r.msg.topic)
                /\ a < b => r.got[a].key # r.got[b].key
           /\ \A p \in DOMAIN list_sub_handle :
                /\ /\ list_sub_handle[p] \in r.start
                   /\ is_topic_matched(list_sub_handle[p].filter, r.msg.topic)
                   => p > i \/ \E a \in DOMAIN r.got : r.got[a] = list_sub_handle[p]
                /\ \A a \in DOMAIN r.got : r.got[a].key = list_sub_handle[p].key => p <= i
  PROVE  WalkInv'
<1> USE DEF SubInv
<1> DEFINE s == list_sub_handle
           top == r.msg.topic
<1>1. DOMAIN s = 1..Len(s) /\ Len(s) \in Nat /\ i \in Nat /\ \A k \in DOMAIN s : k \in Nat
  BY DEF TypeOK
<1>2. rd'.msg = r.msg /\ rd'.start = r.start
  BY DeliverFacts
<1>3. CASE /\ rd'.pc \in {"default", "finish"} /\ rd'.at = r.at /\ rd'.got = r.got
           /\ \A k \in DOMAIN s : k > i => ~is_topic_matched(s[k].filter, top)
  <2>1. SpentAfter(rd'.at) /\ \A h \in rd'.start : SpentAfter(h.key)
    BY <1>2, <1>3
  <2>2. \A a \in DOMAIN rd'.got : SpentAfter(rd'.got[a].key)
    BY <1>3
  <2>3. ~dangling' => \A a, b \in DOMAIN rd'.got :
          is_topic_matched(rd'.got[a].filter, rd'.msg.topic) /\ (a < b => rd'.got[a].key # rd'.got[b].key)
    BY <1>2, <1>3 DEF Matched
  <2>4. ASSUME ~dangling', NEW p \in DOMAIN s, s[p] \in rd'.start, is_topic_matched(s[p].filter, rd'.msg.topic)
        PROVE  \E a \in DOMAIN rd'.got : rd'.got[a] = s[p]
    BY <1>1, <1>2, <1>3, <2>4 DEF Matched
  <2>5. rd'.pc # "message"
    BY <1>3
  <2> QED  BY <2>1, <2>2, <2>3, <2>4, <2>5, WalkAfter
<1>4. ASSUME rd'.pc = "message", NEW j \in DOMAIN s, j > i, is_topic_matched(s[j].filter, top),
             \A k \in DOMAIN s : k > i /\ is_topic_matched(s[k].filter, top) => j <= k,
             rd'.at = s[j].key, rd'.got = Append(r.got, s[j])
      PROVE  WalkInv'
  <2> DEFINE l == Len(r.got)
             g == rd'.got
  <2>1. /\ DOMAIN r.got = 1..l /\ l \in Nat /\ DOMAIN g = 1..l + 1 /\ g[l + 1] = s[j]
        /\ \A a \in DOMAIN r.got : g[a] = r.got[a]
    BY <1>4, ReadingTypes
  <2>2. \A a \in DOMAIN g : a \in Nat /\ (a \in DOMAIN r.got \/ a = l + 1)
    BY <2>1
  <2>3. \A a \in DOMAIN r.got : a \in DOMAIN g /\ a < l + 1
    BY <2>1
  <2>4. l + 1 \in DOMAIN g
    BY <2>1
  <2> HIDE DEF l, g
  <2>5. SpentAfter(rd'.at) /\ \A h \in rd'.start : SpentAfter(h.key)
    BY <1>2, <1>4 DEF Range
  <2>6. \A a \in DOMAIN g : SpentAfter(g[a].key)
    BY <2>1, <2>2 DEF Range
  <2>7. ASSUME ~dangling', NEW a \in DOMAIN g, NEW b \in DOMAIN g
        PROVE  /\ is_topic_matched(g[a].filter, top)
               /\ a < b => g[a].key # g[b].key
    <3>1. is_topic_matched(g[a].filter, top)
      BY <1>4, <2>1, <2>2, <2>7
    <3>2. ASSUME a < b PROVE g[a].key # g[b].key
      <4>1. a \in DOMAIN r.got
        BY <2>1, <2>2, <2>3, <3>2
      <4>2. CASE b \in DOMAIN r.got
        BY <2>1, <2>7, <3>2, <4>1, <4>2
      <4>3. CASE b = l + 1
        BY <1>1, <1>4, <2>1, <2>7, <4>1, <4>3
      <4> QED  BY <2>2, <4>2, <4>3
    <3> QED  BY <3>1, <3>2
  <2>8. ASSUME ~dangling', NEW q \in DOMAIN s, s[q].key = s[j].key, NEW p \in DOMAIN s
        PROVE  /\ s[p] \in r.start /\ is_topic_matched(s[p].filter, top) =>
                    p > q \/ \E a \in DOMAIN g : g[a] = s[p]
               /\ \A a \in DOMAIN g : g[a].key = s[p].key => p <= q
    <3>1. q = j
      BY <2>8 DEF TableInv
    <3>2. ASSUME s[p] \in r.start, is_topic_matched(s[p].filter, top)
          PROVE  p > q \/ \E a \in DOMAIN g : g[a] = s[p]
      <4>1. CASE p > i
        BY <1>1, <1>4, <2>1, <2>4, <3>1, <3>2, <4>1
      <4>2. CASE ~(p > i)
        <5>1. PICK a \in DOMAIN r.got : r.got[a] = s[p]
          BY <2>8, <3>2, <4>2
        <5> QED  BY <2>1, <2>3, <5>1
      <4> QED  BY <4>1, <4>2
    <3>3. ASSUME NEW a \in DOMAIN g, g[a].key = s[p].key PROVE p <= q
      <4>1. CASE a \in DOMAIN r.got
        BY <1>1, <1>4, <2>1, <2>8, <3>1, <3>3, <4>1
      <4>2. CASE a = l + 1
        <5>1. p = j
          BY <2>1, <3>3, <4>2 DEF TableInv
        <5> QED  BY <1>1, <3>1, <5>1
      <4> QED  BY <2>2, <4>1, <4>2
    <3> QED  BY <3>2, <3>3
  <2>9. s' = s /\ rd'.pc \notin {"default", "finish"}
    BY <1>4
  <2>10. ~dangling' => \A a, b \in DOMAIN rd'.got :
           is_topic_matched(rd'.got[a].filter, rd'.msg.topic) /\ (a < b => rd'.got[a].key # rd'.got[b].key)
    BY <1>2, <2>7 DEF g
  <2>11. ~dangling' => \A q, p \in DOMAIN s :
           s[q].key = rd'.at =>
             /\ s[p] \in rd'.start /\ is_topic_matched(s[p].filter, rd'.msg.topic) =>
                  p > q \/ \E a \in DOMAIN rd'.got : rd'.got[a] = s[p]
             /\ \A a \in DOMAIN rd'.got : rd'.got[a].key = s[p].key => p <= q
    BY <1>2, <1>4, <2>8 DEF g
  <2>12. \A a \in DOMAIN rd'.got : SpentAfter(rd'.got[a].key)
    BY <2>6 DEF g
  <2> QED  BY <2>5, <2>9, <2>10, <2>11, <2>12, WalkAfter
<1> QED  BY <1>3, <1>4, DeliverFacts

\* What a step does to the delivery.
LEMMA ReadEffect ==
  ASSUME SubInv, [Next]_vars
  PROVE  \/ rd' = rd /\ dangling' = dangling
         \/ /\ list_sub_handle' = list_sub_handle /\ rd'.at = 0 /\ rd'.got = <<>>
            /\ rd'.start = {} /\ rd'.pc \notin {"message", "default", "finish"}
         \/ /\ list_sub_handle' = list_sub_handle
            /\ \E t \in Threads : handle_recv_PUBLISH(t)
         \/ /\ list_sub_handle' = list_sub_handle
            /\ \E t \in Threads : message_callback_ends(t)
         \/ /\ list_sub_handle' = list_sub_handle /\ dangling' = dangling
            /\ rd.pc = "default" /\ rd' = [rd EXCEPT !.pc = "finish"]
<1>1. ASSUME NEW t \in Threads,
             \/ \E op \in Ops, f \in Filters, fn \in Fns : subscribe(t, op, f, fn)
             \/ \E f \in Filters : unsubscribe(t, f)
             \/ unsubscribe_write_fails(t)
             \/ subscribe_refused(t) \/ subscribe_write_fails(t) \/ subscribe_sent(t)
             \/ subscribe_local(t) \/ subscribe_added(t)
             \/ sync_in_callback(t) \/ sync_failed(t) \/ sync_registers(t) \/ sync_yielded(t)
             \/ sync_succeeds(t) \/ sync_again(t) \/ sync_times_out(t) \/ sync_timer(t)
             \/ cycle_read_closed(t)
      PROVE  rd' = rd /\ dangling' = dangling
  BY <1>1 DEF subscribe, unsubscribe, unsubscribe_write_fails, subscribe_refused,
              subscribe_write_fails, subscribe_sent, subscribe_local, subscribe_added,
              sync_in_callback, sync_failed, sync_registers, sync_yielded, sync_succeeds,
              sync_again, sync_times_out, sync_timer, cycle_read_closed, history
<1>2. \A t, pc : HoldsRd(t, pc) =>
        rd'.at = 0 /\ rd'.got = <<>> /\ rd'.start = {} /\ rd'.pc = pc
  BY DEF HoldsRd, FreeRd
<1>3. rd' = FreeRd => rd'.at = 0 /\ rd'.got = <<>> /\ rd'.start = {} /\ rd'.pc = "free"
  BY DEF FreeRd
<1>4. ASSUME NEW t \in Threads,
             \/ handle_recv_SUBACK(t) \/ handle_recv_UNSUBACK(t) \/ event_callback_ends(t)
             \/ MQTTPuback(t) \/ disconnect_callback(t) \/ keepalive_disconnected(t)
             \/ reconnect_callback(t)
      PROVE  /\ list_sub_handle' = list_sub_handle /\ rd'.at = 0 /\ rd'.got = <<>>
             /\ rd'.start = {} /\ rd'.pc \notin {"message", "default", "finish"}
  <2>1. \/ rd' = FreeRd
        \/ \E pc \in {"event", "lost", "back"} : HoldsRd(t, pc)
    BY <1>4 DEF handle_recv_SUBACK, handle_recv_UNSUBACK, event_callback_ends, MQTTPuback,
                disconnect_callback, keepalive_disconnected, reconnect_callback
  <2>2. list_sub_handle' = list_sub_handle
    BY <1>4 DEF handle_recv_SUBACK, handle_recv_UNSUBACK, event_callback_ends, MQTTPuback,
                disconnect_callback, keepalive_disconnected, reconnect_callback, client
  <2> QED  BY <1>2, <1>3, <2>1, <2>2
<1>5. ASSUME NEW t \in Threads, handle_recv_PUBLISH(t) \/ message_callback_ends(t)
      PROVE  list_sub_handle' = list_sub_handle
  BY <1>5 DEF handle_recv_PUBLISH, message_callback_ends, client
<1>6. ASSUME NEW t \in Threads, default_callback_ends(t)
      PROVE  /\ list_sub_handle' = list_sub_handle /\ dangling' = dangling
             /\ rd.pc = "default" /\ rd' = [rd EXCEPT !.pc = "finish"]
  BY <1>6 DEF default_callback_ends, CallbackEnds, client, history
<1>7. ASSUME \/ link_breaks \/ broker_answers
             \/ \E topic \in Topics, qos \in {0, 1} : broker_publishes(topic, qos)
             \/ UNCHANGED vars
      PROVE  rd' = rd /\ dangling' = dangling
  BY <1>7 DEF link_breaks, broker_answers, broker_publishes, vars, history
<1> QED  BY <1>1, <1>4, <1>5, <1>6, <1>7 DEF Next, Starts, Step

\* The delivery stands where WalkInv says, whatever becomes of the table.
LEMMA WalkStep ==
  ASSUME SubInv, TypeOK', [Next]_vars
  PROVE  WalkInv'
<1> USE DEF SubInv
<1> DEFINE s == list_sub_handle
<1>1. /\ rd \in Reading /\ packet_id \in Nat /\ DOMAIN s = 1..Len(s) /\ Len(s) \in Nat
      /\ s \in Seq(Handler) /\ \A i \in DOMAIN s : s[i] \in Handler /\ i \in Nat
  BY ConstantFacts DEF TypeOK
<1>2. /\ rd.at \in Nat /\ \A h \in rd.start : h.key \in Nat
      /\ \A i \in DOMAIN rd.got : rd.got[i].key \in Nat
      /\ \A i \in DOMAIN s : s[i].key \in Nat
  BY <1>1, ReadingTypes
<1>3. /\ SpentAfter(rd.at) /\ \A h \in rd.start : SpentAfter(h.key)
      /\ \A i \in DOMAIN rd.got : SpentAfter(rd.got[i].key)
  BY <1>2, SpentKept DEF WalkInv
<1>4. \A i \in DOMAIN s : SpentAfter(s[i].key)
  BY <1>2, SpentKept DEF TableInv
<1>5. SpentAfter(0)
  <2>1. Spent(0)
    BY <1>1 DEF Spent, CallInv
  <2> QED  BY <2>1, SpentKept
<1>6. /\ rd.pc \in {"message", "default", "finish"} /\ ~dangling =>
           \A a, b \in DOMAIN rd.got :
             /\ is_topic_matched(rd.got[a].filter, rd.msg.topic)
             /\ a < b => rd.got[a].key # rd.got[b].key
      /\ rd.pc = "message" /\ ~dangling =>
           \A q, p \in DOMAIN s :
             s[q].key = rd.at =>
               /\ /\ s[p] \in rd.start /\ is_topic_matched(s[p].filter, rd.msg.topic)
                  => p > q \/ \E a \in DOMAIN rd.got : rd.got[a] = s[p]
               /\ \A a \in DOMAIN rd.got : rd.got[a].key = s[p].key => p <= q
      /\ rd.pc \in {"default", "finish"} /\ ~dangling =>
           \A p \in DOMAIN s :
             /\ s[p] \in rd.start /\ is_topic_matched(s[p].filter, rd.msg.topic)
             => \E a \in DOMAIN rd.got : rd.got[a] = s[p]
  BY DEF WalkInv, Matched, PositionOf
<1>7. CASE rd' = rd /\ dangling' = dangling /\ s' = s
  <2> HIDE DEF s
  <2> QED  BY <1>3, <1>6, <1>7, WalkAfter DEF s
<1>8. ASSUME NEW h, Grows(h) PROVE WalkInv'
  <2>1. /\ DOMAIN s' = 1..Len(s) + 1 /\ s'[Len(s) + 1] = h
        /\ \A i \in DOMAIN s : s'[i] = s[i]
        /\ rd' = rd /\ dangling' = dangling
    BY <1>1, <1>8 DEF Grows
  <2>2. \A i \in DOMAIN s' : i \in DOMAIN s \/ i = Len(s) + 1
    BY <1>1, <2>1
  <2>3. \A k \in Nat : Spent(k) => k # h.key
    BY <1>8 DEF Grows
  <2>4. /\ h.key # rd.at /\ h \notin rd.start
        /\ \A a \in DOMAIN rd.got : rd.got[a].key # h.key
    BY <1>2, <2>3 DEF WalkInv
  <2> DEFINE n == Len(s) + 1
             r == s'
  <2>5. \A q \in DOMAIN r : r[q].key = rd.at => q \in DOMAIN s /\ r[q] = s[q]
    BY <2>1, <2>2, <2>4
  <2>6. \A p \in DOMAIN r : r[p] \in rd.start => p \in DOMAIN s /\ r[p] = s[p]
    BY <2>1, <2>2, <2>4
  <2>7. \A p \in DOMAIN r, a \in DOMAIN rd.got :
          rd.got[a].key = r[p].key => p \in DOMAIN s /\ r[p] = s[p]
    BY <2>1, <2>2, <2>4
  <2> HIDE DEF r, s
  <2>8. rd.pc = "message" /\ ~dangling =>
          \A q, p \in DOMAIN r :
            r[q].key = rd.at =>
              /\ /\ r[p] \in rd.start /\ is_topic_matched(r[p].filter, rd.msg.topic)
                 => p > q \/ \E a \in DOMAIN rd.got : rd.got[a] = r[p]
              /\ \A a \in DOMAIN rd.got : rd.got[a].key = r[p].key => p <= q
    BY <1>6, <2>5, <2>6, <2>7
  <2>9. rd.pc \in {"default", "finish"} /\ ~dangling =>
          \A p \in DOMAIN r :
            /\ r[p] \in rd.start /\ is_topic_matched(r[p].filter, rd.msg.topic)
            => \E a \in DOMAIN rd.got : rd.got[a] = r[p]
    BY <1>6, <2>6
  <2> QED  BY <1>3, <1>6, <2>1, <2>8, <2>9, WalkAfter DEF r, s
<1>9. ASSUME NEW f, Shrinks(f) PROVE WalkInv'
  <2> DEFINE r == s'
  <2>1. PICK m \in [DOMAIN r -> DOMAIN s] :
          /\ \A i \in DOMAIN r : r[i] = s[m[i]]
          /\ \A i, j \in DOMAIN r : i < j => m[i] < m[j]
    BY <1>9, ShrinkFacts
  <2>2. rd' = rd /\ dangling' = dangling
    BY <1>9 DEF Shrinks
  <2>3. \A i \in DOMAIN r : i \in Nat
    BY DEF TypeOK
  <2>4. \A i \in DOMAIN r : m[i] \in DOMAIN s /\ m[i] \in Nat
    BY <1>1, <2>1
  <2>5. \A i, j \in DOMAIN r : (m[i] > m[j] => i > j) /\ (m[i] <= m[j] => i <= j)
    BY <2>1, <2>3, <2>4
  <2> HIDE DEF r, s
  <2>6. rd.pc = "message" /\ ~dangling =>
          \A q, p \in DOMAIN r :
            r[q].key = rd.at =>
              /\ /\ r[p] \in rd.start /\ is_topic_matched(r[p].filter, rd.msg.topic)
                 => p > q \/ \E a \in DOMAIN rd.got : rd.got[a] = r[p]
              /\ \A a \in DOMAIN rd.got : rd.got[a].key = r[p].key => p <= q
    BY <1>6, <2>1, <2>4, <2>5
  <2>7. rd.pc \in {"default", "finish"} /\ ~dangling =>
          \A p \in DOMAIN r :
            /\ r[p] \in rd.start /\ is_topic_matched(r[p].filter, rd.msg.topic)
            => \E a \in DOMAIN rd.got : rd.got[a] = r[p]
    BY <1>6, <2>1, <2>4
  <2> QED  BY <1>3, <1>6, <2>2, <2>6, <2>7, WalkAfter DEF r, s
<1>10. CASE /\ rd'.at = 0 /\ rd'.got = <<>> /\ rd'.start = {}
            /\ rd'.pc \notin {"message", "default", "finish"}
  <2>1. \A a \in DOMAIN rd'.got : SpentAfter(rd'.got[a].key)
    BY <1>10
  <2> QED  BY <1>5, <1>10, <2>1, WalkAfter
<1>11. ASSUME NEW t \in Threads, handle_recv_PUBLISH(t), s' = s PROVE WalkInv'
  <2> DEFINE r == [FreeRd EXCEPT !.owner = t, !.msg = Head(down).msg, !.start = Range(s)]
  <2>1. Deliver(r, 0) /\ Receives(t, "PUBLISH")
    BY <1>11 DEF handle_recv_PUBLISH
  <2>2. Head(down) \in Packet /\ Head(down).type = "PUBLISH"
    BY <2>1 DEF Receives, TypeOK
  <2>3. Head(down).msg \in Msg
    BY <2>2 DEF Packet
  <2>4. Range(s) \subseteq Handler
    BY <1>1 DEF Range
  <2>5. r \in Reading
    BY <2>3, <2>4, ConstantFacts DEF FreeRd, Reading
  <2>6. r.at = 0 /\ r.got = <<>> /\ r.start = Range(s)
    BY DEF FreeRd
  <2>7. 0 \in 0..Len(s) /\ \A h \in Range(s) : SpentAfter(h.key)
    BY <1>1, <1>4 DEF Range
  <2>8. DOMAIN r.got = {} /\ \A p \in DOMAIN s : p > 0
    BY <1>1, <2>6
  <2> HIDE DEF r
  <2> QED  BY <1>5, <1>11, <2>1, <2>5, <2>6, <2>7, <2>8, DeliverKeeps
<1>12. ASSUME NEW t \in Threads, message_callback_ends(t), s' = s PROVE WalkInv'
  <2>1. rd.pc = "message"
    BY <1>12 DEF message_callback_ends, CallbackEnds
  <2>2. \A h \in Range(s) : SpentAfter(h.key)
    BY <1>4 DEF Range
  <2>3. ASSUME NEW i \in PositionOf(rd.at), Deliver(rd, i), dangling' = dangling PROVE WalkInv'
    <3>1. i \in DOMAIN s /\ s[i].key = rd.at /\ i \in 0..Len(s)
      BY <1>1, <2>3 DEF PositionOf
    <3> QED  BY <1>1, <1>3, <1>6, <1>12, <2>1, <2>2, <2>3, <3>1, DeliverKeeps
  <2>4. ASSUME NEW i \in 0..Len(s), Deliver(rd, i), dangling' = TRUE PROVE WalkInv'
    BY <1>1, <1>3, <1>12, <2>2, <2>4, DeliverKeeps
  <2> QED  BY <1>12, <2>3, <2>4 DEF message_callback_ends
<1>13. CASE rd.pc = "default" /\ rd' = [rd EXCEPT !.pc = "finish"] /\ s' = s /\ dangling' = dangling
  <2>1. /\ rd'.at = rd.at /\ rd'.got = rd.got /\ rd'.start = rd.start /\ rd'.msg = rd.msg
        /\ rd'.pc = "finish"
    BY <1>1, <1>13 DEF Reading
  <2> HIDE DEF s
  <2> QED  BY <1>3, <1>6, <1>13, <2>1, WalkAfter DEF s
<1>14. CASE rd' = rd /\ dangling' = dangling
  BY <1>7, <1>8, <1>9, <1>14, TableEffect
<1> QED  BY <1>10, <1>11, <1>12, <1>13, <1>14, ReadEffect

\* A served handler stays in the table until an unsubscribe takes it out.
LEMMA KeptStep ==
  ASSUME SubInv, TypeOK', [Next]_vars
  PROVE  removed \subseteq removed' /\ \A h : Kept(h) => Kept(h)'
<1> USE DEF SubInv
<1>1. CASE list_sub_handle' = list_sub_handle /\ removed' = removed
  BY <1>1 DEF Kept
<1>2. ASSUME NEW g, Grows(g) PROVE removed \subseteq removed' /\ \A h : Kept(h) => Kept(h)'
  <2>1. \A i \in DOMAIN list_sub_handle :
          i \in DOMAIN list_sub_handle' /\ list_sub_handle'[i] = list_sub_handle[i]
    BY <1>2 DEF Grows, TypeOK
  <2> QED  BY <1>2, <2>1 DEF Kept, Grows
<1>3. ASSUME NEW f, Shrinks(f) PROVE removed \subseteq removed' /\ \A h : Kept(h) => Kept(h)'
  <2>1. PICK m \in [DOMAIN list_sub_handle' -> DOMAIN list_sub_handle] :
           /\ \A i \in DOMAIN list_sub_handle' : list_sub_handle'[i] = list_sub_handle[m[i]]
           /\ \A i \in DOMAIN list_sub_handle :
                \/ list_sub_handle[i] \in Unsubscribed(f)
                \/ \E j \in DOMAIN list_sub_handle' : m[j] = i
    BY <1>3, ShrinkFacts
  <2>2. /\ removed \subseteq removed'
        /\ \A h \in Unsubscribed(f) : [filter |-> h.filter, fn |-> h.fn] \in removed'
    BY <1>3 DEF Shrinks
  <2>3. ASSUME NEW h, NEW p \in DOMAIN list_sub_handle, list_sub_handle[p] = h PROVE Kept(h)'
    <3>1. CASE h \in Unsubscribed(f)
      BY <2>2, <3>1 DEF Kept
    <3>2. ASSUME NEW j \in DOMAIN list_sub_handle', m[j] = p PROVE Kept(h)'
      BY <2>1, <2>3, <3>2 DEF Kept
    <3> QED  BY <2>1, <2>3, <3>1, <3>2
  <2> QED  BY <2>2, <2>3 DEF Kept
<1> QED  BY <1>1, <1>2, <1>3, TableEffect

\* Handlers that were served in the order of the table stand in it in that order.
LEMMA ServedKept ==
  ASSUME SubInv, TypeOK', [Next]_vars, rd' = rd,
         NEW a \in DOMAIN rd.got, NEW b \in DOMAIN rd.got, Served(rd.got[a], rd.got[b])
  PROVE  Served(rd.got[a], rd.got[b])'
<1> USE DEF SubInv
<1> DEFINE g == rd.got[a]
           h == rd.got[b]
           s == list_sub_handle
<1>1. removed \subseteq removed'
  BY KeptStep
<1>2. rd.got[a]' = g /\ rd.got[b]' = h
  OBVIOUS
<1>3. rd \in Reading /\ g.key \in Nat /\ h.key \in Nat
  BY ReadingTypes DEF TypeOK
<1>4. \A p, q \in DOMAIN s' : s'[p] = g /\ s'[q] = h => p < q
  <2>1. CASE s' = s
    BY <2>1 DEF Served
  <2>2. ASSUME NEW n, Grows(n) PROVE \A p, q \in DOMAIN s' : s'[p] = g /\ s'[q] = h => p < q
    <3>1. /\ DOMAIN s' = 1..Len(s) + 1 /\ s'[Len(s) + 1] = n /\ DOMAIN s = 1..Len(s)
          /\ Len(s) \in Nat /\ \A i \in DOMAIN s : s'[i] = s[i]
      BY <2>2 DEF Grows, TypeOK
    <3>2. n.key # g.key /\ n.key # h.key
      BY <1>3, <2>2 DEF Grows, WalkInv
    <3>3. \A p \in DOMAIN s' : p \in DOMAIN s \/ p = Len(s) + 1
      BY <3>1
    <3>4. \A p \in DOMAIN s' : s'[p] = g \/ s'[p] = h => p \in DOMAIN s
      BY <3>1, <3>2, <3>3
    <3> QED  BY <3>1, <3>4 DEF Served
  <2>3. ASSUME NEW f, Shrinks(f) PROVE \A p, q \in DOMAIN s' : s'[p] = g /\ s'[q] = h => p < q
    <3>1. PICK m \in [DOMAIN s' -> DOMAIN s] :
            /\ \A i \in DOMAIN s' : s'[i] = s[m[i]]
            /\ \A i, j \in DOMAIN s' : i < j => m[i] < m[j]
      BY <2>3, ShrinkFacts
    <3>2. s \in Seq(Handler) /\ s' \in Seq(Handler)
      BY DEF TypeOK
    <3>3. DOMAIN s' \subseteq Nat /\ DOMAIN s \subseteq Nat
      BY <3>2
    <3>4. \A p, q \in DOMAIN s' : m[p] < m[q] => p < q
      BY <3>1, <3>3
    <3> QED  BY <3>1, <3>4 DEF Served
  <2> QED  BY <2>1, <2>2, <2>3, TableEffect
<1> QED  BY <1>1, <1>2, <1>4 DEF Served

\* A delivery that goes on from position i serves a handler behind those it has served.
LEMMA DeliverInOrder ==
  ASSUME SubInv, NEW r \in Reading, NEW i \in 0..Len(list_sub_handle), Deliver(r, i),
         list_sub_handle' = list_sub_handle, removed \subseteq removed',
         \A a \in DOMAIN r.got : Kept(r.got[a]),
         ~dangling' =>
           /\ \A a, b \in DOMAIN r.got : a < b => Served(r.got[a], r.got[b])
           /\ \A p \in DOMAIN list_sub_handle, a \in DOMAIN r.got :
                r.got[a].key = list_sub_handle[p].key => p <= i
  PROVE  OrderInv'
<1> USE DEF SubInv
<1> DEFINE s == list_sub_handle
           l == Len(r.got)
<1>0. PICK g : g = rd'.got
  OBVIOUS
<1>1. DOMAIN s = 1..Len(s) /\ Len(s) \in Nat /\ i \in Nat /\ \A k \in DOMAIN s : k \in Nat
  BY DEF TypeOK
<1>2. \A h : Kept(h) => Kept(h)'
  BY DEF Kept
<1>3. \A h, k : Served(h, k) => Served(h, k)'
  BY DEF Served
<1>4. CASE g = r.got
  <2>1. \A a \in DOMAIN g : Kept(g[a])'
    BY <1>2, <1>4
  <2>2. ~dangling' => \A a, b \in DOMAIN g : a < b => Served(g[a], g[b])'
    BY <1>3, <1>4
  <2> QED  BY <1>0, <2>1, <2>2 DEF OrderInv
<1>5. ASSUME NEW j \in DOMAIN s, j > i, g = Append(r.got, s[j]) PROVE OrderInv'
  <2>1. /\ DOMAIN r.got = 1..l /\ l \in Nat /\ DOMAIN g = 1..l + 1 /\ g[l + 1] = s[j]
        /\ \A a \in DOMAIN r.got : g[a] = r.got[a]
    BY <1>5, ReadingTypes
  <2>2. \A a \in DOMAIN g : a \in Nat /\ (a \in DOMAIN r.got \/ a = l + 1)
    BY <2>1
  <2>3. \A a, b \in DOMAIN g : a < b => a \in DOMAIN r.got
    BY <2>1
  <2> HIDE DEF l
  <2>4. ASSUME NEW a \in DOMAIN g PROVE Kept(g[a])'
    <3>1. Kept(g[a])
      BY <2>1, <2>2, <2>4 DEF Kept
    <3> QED  BY <1>2, <3>1
  <2>5. ASSUME ~dangling', NEW a \in DOMAIN g, NEW b \in DOMAIN g, a < b
        PROVE  Served(g[a], g[b])
    <3>1. a \in DOMAIN r.got /\ g[a] = r.got[a]
      BY <2>1, <2>3, <2>5
    <3>2. CASE b \in DOMAIN r.got
      BY <2>1, <2>5, <3>1, <3>2
    <3>3. CASE b = l + 1
      <4>1. g[b] = s[j]
        BY <2>1, <3>3
      <4>2. \A p \in DOMAIN s : s[p] = g[a] => p <= i /\ p < j
        BY <1>1, <1>5, <2>5, <3>1
      <4>3. \A q \in DOMAIN s : s[q] = s[j] => q = j
        BY <1>5 DEF TableInv
      <4>4. \A p, q \in DOMAIN s : s[p] = g[a] /\ s[q] = g[b] => p < q
        BY <4>1, <4>2, <4>3
      <4>5. \/ g[a].filter # g[b].filter \/ g[a].fn # g[b].fn
            \/ [filter |-> g[a].filter, fn |-> g[a].fn] \in removed
        <5>1. Kept(g[a])
          BY <3>1
        <5>2. ASSUME NEW p \in DOMAIN s, s[p] = g[a]
              PROVE  g[a].filter # g[b].filter \/ g[a].fn # g[b].fn
          <6>1. p # j
            BY <1>1, <1>5, <4>2, <5>2
          <6>2. s[p].filter # s[j].filter \/ s[p].fn # s[j].fn
            BY <1>5, <6>1 DEF OneHandlerEach
          <6> QED  BY <4>1, <5>2, <6>2
        <5> QED  BY <5>1, <5>2 DEF Kept
      <4> QED  BY <4>4, <4>5 DEF Served
    <3> QED  BY <2>2, <3>2, <3>3
  <2>6. ~dangling' => \A a, b \in DOMAIN g : a < b => Served(g[a], g[b])'
    <3>1. ASSUME ~dangling', NEW a \in DOMAIN g, NEW b \in DOMAIN g, a < b
          PROVE  Served(g[a], g[b])'
      BY <1>3, <2>5, <3>1
    <3> QED  BY <3>1
  <2> QED  BY <1>0, <2>4, <2>6 DEF OrderInv
<1> QED  BY <1>0, <1>4, <1>5, DeliverFacts

\* Handlers are served in the order of the table, once for every subscription.
LEMMA OrderStep ==
  ASSUME SubInv, TypeOK', [Next]_vars
  PROVE  OrderInv'
<1> USE DEF SubInv
<1> DEFINE s == list_sub_handle
<1>1. removed \subseteq removed' /\ \A h : Kept(h) => Kept(h)'
  BY KeptStep
<1>2. rd \in Reading /\ DOMAIN s = 1..Len(s) /\ Len(s) \in Nat
  BY DEF TypeOK
<1>3. CASE rd' = rd /\ dangling' = dangling
  <2>1. \A a, b \in DOMAIN rd.got : Served(rd.got[a], rd.got[b]) => Served(rd.got[a], rd.got[b])'
    BY <1>3, ServedKept
  <2> QED  BY <1>1, <1>3, <2>1 DEF OrderInv
<1>4. CASE rd'.got = <<>>
  BY <1>4 DEF OrderInv
<1>5. ASSUME NEW t \in Threads, handle_recv_PUBLISH(t), s' = s PROVE OrderInv'
  <2> DEFINE r == [FreeRd EXCEPT !.owner = t, !.msg = Head(down).msg, !.start = Range(s)]
  <2>1. Deliver(r, 0) /\ Receives(t, "PUBLISH")
    BY <1>5 DEF handle_recv_PUBLISH
  <2>2. Head(down) \in Packet /\ Head(down).type = "PUBLISH"
    BY <2>1 DEF Receives, TypeOK
  <2>3. Head(down).msg \in Msg
    BY <2>2 DEF Packet
  <2>4. Range(s) \subseteq Handler
    BY DEF Range, TypeOK
  <2>5. r \in Reading
    BY <2>3, <2>4, ConstantFacts DEF FreeRd, Reading
  <2>6. DOMAIN r.got = {} /\ 0 \in 0..Len(s)
    BY <1>2 DEF FreeRd
  <2> HIDE DEF r
  <2> QED  BY <1>1, <1>5, <2>1, <2>5, <2>6, DeliverInOrder
<1>6. ASSUME NEW t \in Threads, message_callback_ends(t), s' = s PROVE OrderInv'
  <2>1. rd.pc = "message"
    BY <1>6 DEF message_callback_ends, CallbackEnds
  <2>2. ASSUME NEW i \in PositionOf(rd.at), Deliver(rd, i), dangling' = dangling PROVE OrderInv'
    <3>1. i \in DOMAIN s /\ i \in 0..Len(s)
      BY <1>2, <2>2 DEF PositionOf
    <3>2. ~dangling => \A p \in DOMAIN s, a \in DOMAIN rd.got : rd.got[a].key = s[p].key => p <= i
      BY <2>1, <2>2 DEF WalkInv
    <3>3. ~dangling => \A a, b \in DOMAIN rd.got : a < b => Served(rd.got[a], rd.got[b])
      BY <2>1 DEF OrderInv
    <3>4. \A a \in DOMAIN rd.got : Kept(rd.got[a])
      BY DEF OrderInv
    <3> QED  BY <1>1, <1>2, <1>6, <2>2, <3>1, <3>2, <3>3, <3>4, DeliverInOrder
  <2>3. ASSUME NEW i \in 0..Len(s), Deliver(rd, i), dangling' = TRUE PROVE OrderInv'
    <3>1. \A a \in DOMAIN rd.got : Kept(rd.got[a])
      BY DEF OrderInv
    <3> QED  BY <1>1, <1>2, <1>6, <2>3, <3>1, DeliverInOrder
  <2> QED  BY <1>6, <2>2, <2>3 DEF message_callback_ends
<1>7. CASE rd.pc = "default" /\ rd' = [rd EXCEPT !.pc = "finish"] /\ s' = s /\ dangling' = dangling
  <2>1. rd'.got = rd.got
    BY <1>2, <1>7 DEF Reading
  <2>2. \A g, h : Served(g, h) => Served(g, h)'
    <3>1. ASSUME NEW g, NEW h, Served(g, h) PROVE Served(g, h)'
      BY <1>1, <1>7, <3>1 DEF Served
    <3> QED  BY <3>1
  <2>3. \A a \in DOMAIN rd.got : Kept(rd.got[a])'
    BY <1>1, <2>1 DEF OrderInv
  <2>4. ~dangling => \A a, b \in DOMAIN rd.got : a < b => Served(rd.got[a], rd.got[b])
    BY <1>7 DEF OrderInv
  <2> QED  BY <1>1, <1>7, <2>1, <2>2, <2>4 DEF OrderInv
<1> QED  BY <1>3, <1>4, <1>5, <1>6, <1>7, ReadEffect

-----------------------------------------------------------------------------
(* The theorems *)

\* What was subscribed before.
LEMMA BeforeFacts ==
  /\ Len(Before) \in Nat /\ DOMAIN Before = 1..Len(Before)
  /\ \A i \in DOMAIN Before :
       /\ Before[i].filter \in Seq(STRING) /\ Before[i].fn \in Fns
       /\ Before[i] = [filter |-> Before[i].filter, fn |-> Before[i].fn]
<1> DEFINE S == [filter : Seq(STRING), fn : Fns]
<1>1. Before \in Seq(S)
  BY TopicsAssumption
<1>2. \A b \in S : /\ b.filter \in Seq(STRING) /\ b.fn \in Fns
                   /\ b = [filter |-> b.filter, fn |-> b.fn]
  OBVIOUS
<1> HIDE DEF S
<1>3. Len(Before) \in Nat /\ DOMAIN Before = 1..Len(Before) /\ \A i \in DOMAIN Before : Before[i] \in S
  BY <1>1
<1> QED  BY <1>2, <1>3

\* The invariant at the start: the table holds what was subscribed before.
LEMMA InitInv ==
  ASSUME Init
  PROVE  SubInv
<1> USE DEF Init
<1> DEFINE s == list_sub_handle
           H(i) == [key |-> i, filter |-> Before[i].filter, fn |-> Before[i].fn]
<1>1. Len(Before) \in Nat /\ DOMAIN Before = 1..Len(Before)
  BY TopicsAssumption
<1>2. s = [i \in 1..Len(Before) |-> H(i)]
  BY <1>1
<1>3. \A i \in 1..Len(Before) :
        /\ H(i) \in Handler /\ H(i).key = i
        /\ H(i).filter = Before[i].filter /\ H(i).fn = Before[i].fn
  <2>1. ASSUME NEW i \in 1..Len(Before)
        PROVE  i \in Id /\ Before[i].filter \in Handled /\ Before[i].fn \in Fns
    <3>1. i \in Id
      BY <1>1, ConstantFacts DEF Id
    <3>2. Before[i] \in Range(Before)
      BY <1>1 DEF Range
    <3>3. Before[i].filter \in Handled
      BY <3>2 DEF Handled
    <3> QED  BY <1>1, <3>1, <3>3, BeforeFacts
  <2> QED  BY <2>1 DEF Handler
<1>4. \A i, j \in 1..Len(Before) :
        Before[i].filter = Before[j].filter /\ Before[i].fn = Before[j].fn => i = j
  <2>1. \A i \in 1..Len(Before) : Before[i] = [filter |-> Before[i].filter, fn |-> Before[i].fn]
    BY <1>1, BeforeFacts
  <2>2. \A i, j \in 1..Len(Before) : Before[i] = Before[j] => i = j
    BY <1>1, TopicsAssumption DEF IsInjective
  <2> QED  BY <2>1, <2>2
<1> HIDE DEF H
<1>5. /\ DOMAIN s = 1..Len(Before) /\ s \in Seq(Handler)
      /\ \A i \in 1..Len(Before) :
           s[i].key = i /\ s[i].filter = Before[i].filter /\ s[i].fn = Before[i].fn
  BY <1>1, <1>2, <1>3
<1>6. /\ call \in [Threads -> Call]
      /\ \A t \in Threads : call[t].pc = "idle" /\ call[t].id = 0 /\ call[t].subed = FALSE
  BY ConstantFacts, IdleFields
<1>7. packet_id = Len(Before) /\ packet_id \in Id /\ packet_id \in Nat
  BY <1>1, ConstantFacts DEF Id
<1>8. TypeOK
  <2>1. <<>> \in Seq([id : Id, ack : Ack]) /\ <<>> \in Seq(Packet) /\ <<>> \in Seq(Msg)
    OBVIOUS
  <2>2. rd \in Reading /\ msgs \in 0..MaxMsgs /\ calls \in 0..MaxCalls /\ faults \in 0..MaxFaults
    BY ConstantFacts
  <2>3. /\ asked \subseteq [type : {"SUBSCRIBE", "UNSUBSCRIBE"}, id : Id]
        /\ granted \subseteq Id /\ acked \subseteq Msg /\ dangling \in BOOLEAN
        /\ confirmed \subseteq [id : Id, filter : Filters, fn : Fns]
        /\ removed \subseteq [filter : Handled, fn : Fns]
    OBVIOUS
  <2>4. /\ list_sub_sync_ack \in Seq([id : Id, ack : Ack]) /\ down \in Seq(Packet)
        /\ published \in Seq(Msg)
    BY <2>1
  <2>5. client_state \in {"CONNECTED", "DISCONNECTED", "RECONNECTING"} /\ link \in {"up", "broken"}
    OBVIOUS
  <2>6. list_sub_handle \in Seq(Handler)
    BY <1>5
  <2> QED  BY ONLY <1>6, <1>7, <2>2, <2>3, <2>4, <2>5, <2>6 DEF TypeOK
<1>9. CallInv
  BY <1>6, <1>7 DEF CallInv
<1>10. \A k \in 0..Len(Before) : Spent(k)
  BY <1>1, <1>6, <1>7 DEF Spent
<1>11. TableInv
  BY <1>1, <1>5, <1>10 DEF TableInv
<1>12. OneHandlerEach
  BY <1>4, <1>5 DEF OneHandlerEach
<1>13. WaitInv /\ OnceInv
  BY DEF WaitInv, OnceInv
<1>14. AnswerInv
  BY <1>6 DEF AnswerInv
<1>15. DebtInv
  <2>1. Owing = {} /\ Refusals \cup Nacks = {}
    BY <1>6 DEF Owing, Refusals, Nacks
  <2>2. Cardinality(Owing) = 0 /\ Cardinality(Refusals \cup Nacks) = 0
    BY <2>1, FS_EmptySet
  <2>3. IsFiniteSet(Owing) /\ IsFiniteSet(Refusals \cup Nacks)
    BY <2>1, FS_EmptySet
  <2>4. calls = 0 /\ faults = 0
    OBVIOUS
  <2> QED  BY ONLY <1>1, <1>7, <2>2, <2>3, <2>4 DEF DebtInv
<1>16. WalkInv
  <2>1. rd.at = 0 /\ rd.start = {} /\ rd.got = <<>> /\ rd.pc = "free"
    BY DEF FreeRd
  <2> QED  BY <1>1, <1>10, <2>1 DEF WalkInv
<1>17. OrderInv
  BY DEF FreeRd, OrderInv
<1> QED  BY <1>8, <1>9, <1>11, <1>12, <1>13, <1>14, <1>15, <1>16, <1>17 DEF SubInv

\* SubInv is inductive: it holds of the client for any number of threads, filters and
\* topics, whatever the order of calls, callbacks, answers and failures.
THEOREM SubInvariance == Spec => []SubInv
<1>1. Init => SubInv
  BY InitInv
<1>2. SubInv /\ [Next]_vars => SubInv'
  <2> SUFFICES ASSUME SubInv, [Next]_vars PROVE SubInv'
    OBVIOUS
  <2>1. TypeOK'
    BY TypeStep DEF SubInv
  <2> QED
    BY <2>1, CallStep, TableStep, WaitStep, AnswerStep, OnceStep, DebtStep, WalkStep,
       OrderStep
    DEF SubInv
<1> QED  BY <1>1, <1>2, PTL DEF Spec

\* The client keeps its types, and uses no more ids than calls and failures allow.
THEOREM SubTypes == Spec => []TypeOK
<1>1. SubInv => TypeOK
  BY DEF SubInv
<1> QED  BY <1>1, SubInvariance, PTL

\* A synchronous subscribe that returned because of a SUBACK was granted, under its own
\* id, and its handler was added.
THEOREM ConfirmedWasGranted == Spec => []ConfirmedMeansGranted
<1>1. SubInv => ConfirmedMeansGranted
  BY DEF SubInv, AnswerInv, ConfirmedMeansGranted, Present, Range
<1> QED  BY <1>1, SubInvariance, PTL

\* However a synchronous call ends, it leaves no node in list_sub_sync_ack.
THEOREM NobodyStrays == Spec => []NoStrayWaiters
<1>1. SubInv => NoStrayWaiters
  BY DEF SubInv, WaitInv, NoStrayWaiters
<1> QED  BY <1>1, SubInvariance, PTL

\* deliver_message serves every handler that was there when it began and still is and
\* whose filter fits, in the order of the table and once for every subscription, although
\* threads subscribe and unsubscribe during every callback.
THEOREM EveryHandlerServed == Spec => []DeliveredToAll
<1>1. ASSUME SubInv PROVE DeliveredToAll
  <2> USE DEF SubInv
  <2> SUFFICES ASSUME rd.pc = "finish", ~dangling
               PROVE  /\ \A h \in rd.start \cap Range(list_sub_handle) :
                           Fits(h.filter, rd.msg.topic) => h \in Range(rd.got)
                      /\ \A i, j \in DOMAIN rd.got :
                           /\ Fits(rd.got[i].filter, rd.msg.topic)
                           /\ i < j => /\ Served(rd.got[i], rd.got[j])
                                       /\ rd.got[i].key # rd.got[j].key
    BY DEF DeliveredToAll, Served
  <2>1. rd \in Reading
    BY <1>1 DEF TypeOK
  <2>2. rd.msg.topic \in Seq(STRING \ {"+", "#"})
    <3>1. rd.msg \in Msg
      BY <2>1 DEF Reading
    <3>2. rd.msg.topic \in Topics \cup {<<>>}
      BY <3>1 DEF Msg
    <3>3. \A T : <<>> \in Seq(T)
      OBVIOUS
    <3> QED  BY <3>2, <3>3, TopicsAssumption
  <2>3. \A h \in Handler : h.filter \in Seq(STRING)
    <3>1. \A i \in DOMAIN Before : Before[i].filter \in Seq(STRING)
      BY BeforeFacts
    <3>2. Handled \subseteq Seq(STRING)
      BY <3>1, TopicsAssumption DEF Handled, Range
    <3> QED  BY <3>2 DEF Handler
  <2>4. \A h \in Handler :
          is_topic_matched(h.filter, rd.msg.topic) <=> Fits(h.filter, rd.msg.topic)
    BY <2>2, <2>3, MatcherIsExact DEF Fits
  <2>5. \A i \in DOMAIN rd.got : rd.got[i] \in Handler
    BY <2>1, ReadingTypes
  <2>6. \A i, j \in DOMAIN rd.got :
          /\ is_topic_matched(rd.got[i].filter, rd.msg.topic)
          /\ i < j => rd.got[i].key # rd.got[j].key
    BY <1>1 DEF WalkInv, Matched
  <2>7. ASSUME NEW h \in rd.start \cap Range(list_sub_handle), Fits(h.filter, rd.msg.topic)
        PROVE  h \in Range(rd.got)
    <3>1. PICK p \in DOMAIN list_sub_handle : list_sub_handle[p] = h
      BY DEF Range
    <3>2. h \in Handler
      BY <2>1, ReadingTypes
    <3>3. is_topic_matched(h.filter, rd.msg.topic)
      BY <2>4, <2>7, <3>2
    <3>4. \E i \in DOMAIN rd.got : rd.got[i] = h
      BY <1>1, <2>7, <3>1, <3>3 DEF WalkInv, Matched
    <3> QED  BY <3>4 DEF Range
  <2>8. \A i, j \in DOMAIN rd.got : i < j => Served(rd.got[i], rd.got[j])
    BY <1>1 DEF OrderInv
  <2> QED  BY <2>4, <2>5, <2>6, <2>7, <2>8
<1> QED  BY <1>1, SubInvariance, PTL

=============================================================================
