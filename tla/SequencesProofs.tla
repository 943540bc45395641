--------------------------- MODULE SequencesProofs --------------------------
(*****************************************************************************)
(* What is shown in order: the lines of a log and the versions of releases,  *)
(* for every value of their constants.                                       *)
(*****************************************************************************)
EXTENDS LogLines, VersionNumbers, WellFoundedInduction, TLAPS

-----------------------------------------------------------------------------
(*****************************************************************************)
(* LOG LINES. For any output, batches, queue and buffers.                    *)
(*****************************************************************************)

(* A set of natural numbers has a least.                                      *)
LEMMA LeastOf ==
  ASSUME NEW T, T \subseteq Nat, T # {}
  PROVE  \E x \in T : \A y \in T : x <= y
<1> DEFINE Below == {ss \in Nat \X Nat : ss[1] < ss[2]}
<1>1. IsWellFoundedOn(Below, Nat)
  BY Zenon, NatLessThanWellFounded DEF OpToRel
<1>2. \A y, x \in Nat : <<y, x>> \notin Below => x <= y
  OBVIOUS
<1> HIDE DEF Below
<1>3. PICK x \in T : \A y \in T : ~ (<<y, x>> \in Below)
  BY Zenon, <1>1, WFMin
<1> QED
  BY Zenon, <1>2, <1>3

-----------------------------------------------------------------------------
(* What batches add up to.                                                    *)

(* f sums up the sizes sz[1], ..., sz[n]. *)
SumsUp(f, sz, n) == f \in [0 .. n -> Nat] /\ f[0] = 0 /\ \A i \in 1 .. n : f[i] = f[i - 1] + sz[i]

LEMMA SumExists ==
  ASSUME NEW len \in Nat, NEW sz \in [1 .. len -> Nat]
  PROVE  \E f : SumsUp(f, sz, len)
<1> DEFINE T == {n \in 0 .. len : ~ \E f : SumsUp(f, sz, n)}
<1>0. len \in 0 .. len
  OBVIOUS
<1> SUFFICES ASSUME T # {} PROVE FALSE
  BY Zenon, <1>0
<1>1. PICK x \in T : \A y \in T : x <= y
  <2>1. T \subseteq Nat
    OBVIOUS
  <2> QED BY Zenon, <2>1, LeastOf
<1>2. x # 0
  <2>1. SumsUp([i \in 0 .. 0 |-> 0], sz, 0)
    BY DEF SumsUp
  <2> QED BY Zenon, <1>1, <2>1
<1>3. x \in 1 .. len /\ x - 1 \in 0 .. len /\ x - 1 \notin T
  BY <1>1, <1>2
<1>4. PICK f : SumsUp(f, sz, x - 1)
  BY Zenon, <1>3
<1> DEFINE g == [i \in 0 .. x |-> IF i = x THEN f[x - 1] + sz[x] ELSE f[i]]
<1>5. SumsUp(g, sz, x)
  <2>1. f \in [0 .. x - 1 -> Nat] /\ f[0] = 0 /\ \A i \in 1 .. x - 1 : f[i] = f[i - 1] + sz[i]
    BY Zenon, <1>4 DEF SumsUp
  <2>2. sz[x] \in Nat /\ f[x - 1] \in Nat
    BY <1>3, <2>1
  <2>3. g \in [0 .. x -> Nat]
    BY SMTT(60), <1>3, <2>1, <2>2
  <2>4. g[0] = 0
    BY <1>3, <2>1
  <2>5. ASSUME NEW i \in 1 .. x PROVE g[i] = g[i - 1] + sz[i]
    <3>1. i - 1 \in 0 .. x /\ i \in 0 .. x /\ i - 1 # x
      BY <1>3
    <3>2. CASE i = x
      BY <3>1, <3>2
    <3>3. CASE i # x
      <4>1. i \in 1 .. x - 1
        BY <1>3, <3>3
      <4> QED BY <2>1, <3>1, <3>3, <4>1
    <3> QED BY <3>2, <3>3
  <2> QED BY Zenon, <2>3, <2>4, <2>5 DEF SumsUp
<1> QED BY Zenon, <1>1, <1>5

(* Two sums of the same sizes, one begun further on, stay as far apart.       *)
Parallel(f, g, d, n) ==
  /\ \A i \in 0 .. n : f[i] \in Nat /\ g[i] \in Nat
  /\ f[0] = g[0] + d
  /\ \A i \in 1 .. n : f[i] + g[i - 1] = f[i - 1] + g[i]

LEMMA SameSums ==
  ASSUME NEW n \in Nat, NEW f, NEW g, NEW d \in Nat, Parallel(f, g, d, n)
  PROVE  f[n] = g[n] + d
<1> USE DEF Parallel
<1> DEFINE T == {i \in 0 .. n : f[i] # g[i] + d}
<1> SUFFICES ASSUME T # {} PROVE FALSE
  OBVIOUS
<1>1. PICK x \in T : \A y \in T : x <= y
  <2>1. T \subseteq Nat
    OBVIOUS
  <2> QED BY Zenon, <2>1, LeastOf
<1>2. x \in 1 .. n /\ x - 1 \in 0 .. n /\ x - 1 \notin T
  BY <1>1
<1> QED BY SMTT(60), <1>1, <1>2

Sized(bs) == [i \in 1 .. Len(bs) |-> Size(bs[i])]

LEMMA TotalIs ==
  ASSUME NEW bs, Len(bs) \in Nat, \A i \in 1 .. Len(bs) : Size(bs[i]) \in Nat,
         NEW f, SumsUp(f, Sized(bs), Len(bs))
  PROVE  InBatches(bs) = f[Len(bs)]
<1> DEFINE sums(g) == g = [i \in 0 .. Len(bs) |-> IF i = 0 THEN 0 ELSE g[i - 1] + Size(bs[i])]
           r == CHOOSE g : sums(g)
<1>1. sums(f)
  BY DEF SumsUp, Sized
<1>2. sums(r)
  BY Zenon, <1>1
<1>3. InBatches(bs) = r[Len(bs)]
  BY Zenon DEF InBatches
<1> HIDE DEF r
<1>4. r[0] = 0 /\ \A i \in 1 .. Len(bs) : r[i] = r[i - 1] + Size(bs[i])
  BY SMTT(60), <1>2
<1>5. \A i \in 0 .. Len(bs) : r[i] = f[i]
  <2> DEFINE T == {i \in 0 .. Len(bs) : r[i] # f[i]}
  <2> SUFFICES ASSUME T # {} PROVE FALSE
    OBVIOUS
  <2>1. PICK x \in T : \A y \in T : x <= y
    <3>1. T \subseteq Nat
      OBVIOUS
    <3> QED BY Zenon, <3>1, LeastOf
  <2>2. x # 0
    BY <1>4, <2>1 DEF SumsUp
  <2>3. x \in 1 .. Len(bs) /\ x - 1 \in 0 .. Len(bs) /\ x - 1 \notin T
    BY <2>1, <2>2
  <2> QED BY <1>4, <2>1, <2>3 DEF SumsUp, Sized
<1> QED BY <1>3, <1>5

(* The sizes of a queue of batches, and what a batch more or less makes.      *)
LEMMA TotalExists ==
  ASSUME NEW bs, Len(bs) \in Nat, \A i \in 1 .. Len(bs) : Size(bs[i]) \in Nat
  PROVE  \E f : SumsUp(f, Sized(bs), Len(bs)) /\ InBatches(bs) = f[Len(bs)] /\ InBatches(bs) \in Nat
<1>1. Sized(bs) \in [1 .. Len(bs) -> Nat]
  BY DEF Sized
<1>2. PICK f : SumsUp(f, Sized(bs), Len(bs))
  BY Zenon, <1>1, SumExists
<1>3. InBatches(bs) = f[Len(bs)]
  BY Zenon, <1>2, TotalIs
<1>4. f[Len(bs)] \in Nat
  BY <1>2 DEF SumsUp
<1> QED BY Zenon, <1>2, <1>3, <1>4

LEMMA TotalOfNone == InBatches(<<>>) = 0
<1> DEFINE f == [i \in 0 .. 0 |-> 0]
<1>1. SumsUp(f, Sized(<<>>), Len(<<>>))
  BY DEF SumsUp
<1>2. InBatches(<<>>) = f[Len(<<>>)]
  BY <1>1, TotalIs
<1> QED BY <1>2

LEMMA TotalOfMore ==
  ASSUME NEW S, NEW bs \in Seq(S), NEW b \in S, \A x \in S : Size(x) \in Nat
  PROVE  InBatches(Append(bs, b)) = InBatches(bs) + Size(b)
<1> DEFINE cs == Append(bs, b)
           n == Len(bs)
<1>0. /\ n \in Nat /\ Len(cs) = n + 1 /\ cs[n + 1] = b
      /\ \A i \in 1 .. n : cs[i] = bs[i] /\ Size(bs[i]) \in Nat
      /\ \A i \in 1 .. Len(cs) : Size(cs[i]) \in Nat
  OBVIOUS
<1>1. PICK f : SumsUp(f, Sized(bs), n) /\ InBatches(bs) = f[n]
  BY Zenon, <1>0, TotalExists
<1> HIDE DEF cs
<1>2. PICK g : SumsUp(g, Sized(cs), n + 1) /\ InBatches(cs) = g[n + 1]
  <2>1. Len(cs) \in Nat
    BY <1>0
  <2>2. \E g : SumsUp(g, Sized(cs), Len(cs)) /\ InBatches(cs) = g[Len(cs)]
    BY Zenon, <1>0, <2>1, TotalExists
  <2> QED BY Zenon, <1>0, <2>2
<1>3. \A i \in 1 .. n : Sized(bs)[i] = Sized(cs)[i]
  BY <1>0 DEF Sized
<1>4. g[n] = f[n] + 0
  <2>1. (\A i \in 0 .. n : g[i] \in Nat /\ f[i] \in Nat) /\ g[0] = f[0] + 0
    BY SMTT(60), <1>0, <1>1, <1>2 DEF SumsUp
  <2>2. ASSUME NEW i \in 1 .. n PROVE g[i] + f[i - 1] = g[i - 1] + f[i]
    <3>1. i \in 1 .. n + 1 /\ i \in 0 .. n /\ i - 1 \in 0 .. n
      BY <1>0
    <3>2. f[i] = f[i - 1] + Sized(cs)[i] /\ g[i] = g[i - 1] + Sized(cs)[i]
      BY Zenon, <1>1, <1>2, <1>3, <3>1 DEF SumsUp
    <3>3. Sized(cs)[i] \in Nat
      BY <1>0, <3>1 DEF Sized
    <3>4. f[i - 1] \in Nat /\ g[i - 1] \in Nat
      BY Zenon, <2>1, <3>1
    <3> QED BY <3>2, <3>3, <3>4
  <2>3. Parallel(g, f, 0, n)
    BY Zenon, <2>1, <2>2 DEF Parallel
  <2>4. n \in Nat /\ 0 \in Nat
    OBVIOUS
  <2> HIDE DEF n
  <2> QED BY <2>3, <2>4, SameSums
<1>5. g[n + 1] = g[n] + Size(b)
  BY SMTT(60), <1>0, <1>2 DEF SumsUp, Sized
<1>6. f[n] \in Nat
  <2>1. n \in 0 .. n
    BY <1>0
  <2> QED BY Zenon, <1>1, <2>1 DEF SumsUp
<1> HIDE DEF n
<1>7. g[n] = f[n]
  BY <1>4, <1>6
<1> QED BY Zenon, <1>1, <1>2, <1>5, <1>7 DEF cs

LEMMA TotalOfLess ==
  ASSUME NEW S, NEW bs \in Seq(S), bs # <<>>, \A x \in S : Size(x) \in Nat
  PROVE  InBatches(bs) = InBatches(Tail(bs)) + Size(bs[1])
<1> DEFINE cs == Tail(bs)
           n == Len(cs)
<1>0. /\ n \in Nat /\ Len(bs) = n + 1
      /\ \A i \in 1 .. n : cs[i] = bs[i + 1] /\ Size(cs[i]) \in Nat
      /\ \A i \in 1 .. Len(bs) : Size(bs[i]) \in Nat
  OBVIOUS
<1>1. PICK f : SumsUp(f, Sized(bs), n + 1) /\ InBatches(bs) = f[n + 1]
  <2>1. Len(bs) \in Nat
    OBVIOUS
  <2>2. \E f : SumsUp(f, Sized(bs), Len(bs)) /\ InBatches(bs) = f[Len(bs)]
    BY Zenon, <1>0, <2>1, TotalExists
  <2> QED BY Zenon, <1>0, <2>2
<1> HIDE DEF cs
<1>2. PICK g : SumsUp(g, Sized(cs), n) /\ InBatches(cs) = g[n]
  BY Zenon, <1>0, TotalExists
<1>3. \A i \in 1 .. n : Sized(cs)[i] = Sized(bs)[i + 1]
  BY <1>0 DEF Sized
<1> DEFINE h == [i \in 0 .. n |-> f[i + 1]]
<1>4. h[n] = g[n] + Size(bs[1])
  <2>1. ASSUME NEW i \in 0 .. n PROVE h[i] \in Nat /\ g[i] \in Nat
    <3>1. i + 1 \in 0 .. n + 1
      BY <1>0
    <3> QED BY Zenon, <1>1, <1>2, <3>1 DEF SumsUp
  <2>3. ASSUME NEW i \in 1 .. n PROVE h[i] + g[i - 1] = h[i - 1] + g[i]
    <3>1. i + 1 \in 1 .. n + 1 /\ i \in 0 .. n /\ i - 1 \in 0 .. n /\ (i + 1) - 1 = i /\ (i - 1) + 1 = i
      BY <1>0
    <3>2. f[i + 1] = f[i] + Sized(bs)[i + 1]
      BY Zenon, <1>1, <3>1 DEF SumsUp
    <3>3. g[i] = g[i - 1] + Sized(bs)[i + 1]
      BY Zenon, <1>2, <1>3 DEF SumsUp
    <3>4. Sized(bs)[i + 1] \in Nat
      BY <1>0, <3>1 DEF Sized
    <3>5. h[i] = f[i + 1] /\ h[i - 1] = f[i]
      BY <3>1
    <3> HIDE DEF h
    <3>6. h[i - 1] \in Nat /\ g[i - 1] \in Nat
      BY Zenon, <2>1, <3>1
    <3> QED BY SMTT(60), <3>2, <3>3, <3>4, <3>5, <3>6
  <2>2. h[0] = g[0] + Size(bs[1]) /\ Size(bs[1]) \in Nat
    BY <1>0, <1>1, <1>2 DEF SumsUp, Sized
  <2> HIDE DEF h
  <2>4. Parallel(h, g, Size(bs[1]), n)
    BY Zenon, <2>1, <2>2, <2>3 DEF Parallel
  <2>5. n \in Nat
    BY Zenon, <1>0
  <2> HIDE DEF n
  <2> QED BY <2>2, <2>4, <2>5, SameSums
<1>5. h[n] = f[n + 1]
  BY <1>0
<1> QED BY Zenon, <1>1, <1>2, <1>4, <1>5 DEF cs
-----------------------------------------------------------------------------
(* Lines in order.                                                            *)
Increasing(s) == \A m, n \in 1 .. Len(s) : m < n => s[m] < s[n]
Precedes(s, t) == \A m \in 1 .. Len(s), n \in 1 .. Len(t) : s[m] < t[n]
Within(s, w) == \A m \in 1 .. Len(s) : s[m] <= w

(* The window b, the lines h set aside, the batches M under way and the lines *)
(* l the agent holds back, of w lines read.                                   *)
Ordered(b, h, M, l, w) ==
  /\ Increasing(b) /\ Increasing(h) /\ Increasing(l)
  /\ Precedes(b, h) /\ Precedes(b, l) /\ Precedes(h, l)
  /\ \A i \in 1 .. Len(M) :
       /\ Increasing(M[i]) /\ Within(M[i], w)
       /\ Precedes(b, M[i]) /\ Precedes(h, M[i]) /\ Precedes(M[i], l)
       /\ \A j \in 1 .. Len(M) : i < j => Precedes(M[i], M[j])
  /\ Within(b, w) /\ Within(h, w) /\ Within(l, w)

LEMMA LenIsNat == \A S : \A s \in Seq(S) : Len(s) \in Nat
  OBVIOUS

(* The last lines of a piece, and two pieces made one.                        *)
LEMMA LatestIs ==
  ASSUME NEW s \in Seq(Nat), NEW max \in Nat
  PROVE  /\ Latest(s, max) \in Seq(Nat) /\ Surplus(s, max) \in Nat
         /\ Len(Latest(s, max)) + Surplus(s, max) = Len(s)
         /\ \A m \in 1 .. Len(Latest(s, max)) :
              m + Surplus(s, max) \in 1 .. Len(s) /\ Latest(s, max)[m] = s[m + Surplus(s, max)]
<1>1. Surplus(s, max) \in 0 .. Len(s)
  BY DEF Surplus
<1>2. PICK d \in 0 .. Len(s) : d = Surplus(s, max)
  BY Zenon, <1>1
<1>3. Latest(s, max) = SubSeq(s, d + 1, Len(s))
  BY Zenon, <1>2 DEF Latest
<1>4. \A i \in d + 1 .. Len(s) : s[i] \in Nat
  OBVIOUS
<1>5. SubSeq(s, d + 1, Len(s)) \in Seq(Nat) /\ Len(SubSeq(s, d + 1, Len(s))) = Len(s) - d
  OBVIOUS
<1>6. \A m \in 1 .. Len(s) - d : SubSeq(s, d + 1, Len(s))[m] = s[m + d]
  OBVIOUS
<1>7. PICK r : r = SubSeq(s, d + 1, Len(s))
  BY Zenon
<1>8. Len(r) = Len(s) - d /\ Len(s) \in Nat /\ r = Latest(s, max)
  BY Zenon, <1>3, <1>5, <1>7, LenIsNat
<1>9. \A m \in 1 .. Len(r) : m + d \in 1 .. Len(s) /\ r[m] = s[m + d]
  BY <1>6, <1>7, <1>8
<1>10. Len(r) + d = Len(s) /\ d \in Nat
  BY <1>8
<1> QED BY Zenon, <1>2, <1>5, <1>7, <1>8, <1>9, <1>10

LEMMA LatestKeeps ==
  ASSUME NEW s \in Seq(Nat), NEW max \in Nat
  PROVE  /\ Increasing(s) => Increasing(Latest(s, max))
         /\ \A w \in Nat : Within(s, w) => Within(Latest(s, max), w)
         /\ \A t \in Seq(Nat) : Precedes(s, t) => Precedes(Latest(s, max), t)
         /\ \A t \in Seq(Nat) : Precedes(t, s) => Precedes(t, Latest(s, max))
<1>1. PICK d \in Nat : d = Surplus(s, max)
  BY Zenon, LatestIs
<1>2. PICK r \in Seq(Nat) : r = Latest(s, max)
  BY Zenon, LatestIs
<1>3. \A m \in 1 .. Len(r) : m + d \in 1 .. Len(s) /\ r[m] = s[m + d]
  BY ZenonT(60), <1>1, <1>2, LatestIs
<1>4. Increasing(s) => Increasing(r)
  BY <1>3 DEF Increasing
<1>5. \A w \in Nat : Within(s, w) => Within(r, w)
  BY Zenon, <1>3 DEF Within
<1>6. \A t \in Seq(Nat) : Precedes(s, t) => Precedes(r, t)
  BY Zenon, <1>3 DEF Precedes
<1>7. \A t \in Seq(Nat) : Precedes(t, s) => Precedes(t, r)
  BY Zenon, <1>3 DEF Precedes
<1> QED BY Zenon, <1>2, <1>4, <1>5, <1>6, <1>7

LEMMA Joined ==
  ASSUME NEW s \in Seq(Nat), NEW t \in Seq(Nat)
  PROVE  /\ s \o t \in Seq(Nat)
         /\ Increasing(s) /\ Increasing(t) /\ Precedes(s, t) => Increasing(s \o t)
         /\ \A w \in Nat : Within(s, w) /\ Within(t, w) => Within(s \o t, w)
         /\ \A u \in Seq(Nat) : Precedes(s, u) /\ Precedes(t, u) => Precedes(s \o t, u)
         /\ \A u \in Seq(Nat) : Precedes(u, s) /\ Precedes(u, t) => Precedes(u, s \o t)
<1>1. PICK r \in Seq(Nat) : r = s \o t
  <2>1. s \o t \in Seq(Nat)
    OBVIOUS
  <2> QED BY Zenon, <2>1
<1>2. Len(r) = Len(s) + Len(t)
  BY <1>1
<1>3. \A i \in 1 .. Len(r) :
        \/ i \in 1 .. Len(s) /\ r[i] = s[i]
        \/ i - Len(s) \in 1 .. Len(t) /\ r[i] = t[i - Len(s)]
  <2> TAKE i \in 1 .. Len(r)
  <2>1. CASE i <= Len(s)
    <3>1. i \in 1 .. Len(s)
      BY <1>2, <2>1
    <3>2. r[i] = s[i]
      BY <1>1, <3>1
    <3> QED BY <3>1, <3>2
  <2>2. CASE i > Len(s)
    BY <1>1, <1>2, <2>2
  <2> QED BY <1>2, <2>1, <2>2
<1>a. \A i, j \in 1 .. Len(r) : i < j =>
        /\ ~ (i - Len(s) \in 1 .. Len(t) /\ j \in 1 .. Len(s))
        /\ i - Len(s) < j - Len(s)
  BY SMTT(60), <1>2
<1>4. Increasing(s) /\ Increasing(t) /\ Precedes(s, t) => Increasing(r)
  BY Zenon, <1>3, <1>a DEF Increasing, Precedes
<1>5. \A w \in Nat : Within(s, w) /\ Within(t, w) => Within(r, w)
  BY Zenon, <1>3 DEF Within
<1>6. \A u \in Seq(Nat) : Precedes(s, u) /\ Precedes(t, u) => Precedes(r, u)
  BY Zenon, <1>3 DEF Precedes
<1>7. \A u \in Seq(Nat) : Precedes(u, s) /\ Precedes(u, t) => Precedes(u, r)
  BY Zenon, <1>3 DEF Precedes
<1> QED BY Zenon, <1>1, <1>4, <1>5, <1>6, <1>7

(* What the steps make of the order.                                          *)
LEMMA OneMore ==
  ASSUME NEW b \in Seq(Nat), NEW h \in Seq(Nat), NEW M \in Seq(Seq(Nat)), NEW l \in Seq(Nat),
         NEW w \in Nat, Ordered(b, h, M, l, w)
  PROVE  Ordered(b, h, M, Append(l, w + 1), w + 1)
<1>1. PICK k \in Seq(Nat) : k = Append(l, w + 1)
  <2>1. Append(l, w + 1) \in Seq(Nat)
    OBVIOUS
  <2> QED BY Zenon, <2>1
<1>2. /\ k[Len(k)] = w + 1 /\ \A i \in 1 .. Len(l) : k[i] = l[i]
      /\ \A i \in 1 .. Len(k) : i = Len(k) \/ i \in 1 .. Len(l)
  BY SMTT(60), <1>1
<1>3. ASSUME NEW s \in Seq(Nat), Within(s, w) PROVE Within(s, w + 1) /\ (Precedes(s, l) => Precedes(s, k))
  <2>1. \A m \in 1 .. Len(s) : s[m] \in Nat /\ s[m] <= w
    BY SMTT(60), <1>3 DEF Within
  <2>2. \A m \in 1 .. Len(s) : s[m] <= w + 1 /\ s[m] < w + 1
    BY SMTT(60), <2>1
  <2> QED BY Zenon, <1>2, <2>2 DEF Within, Precedes
<1>4. Increasing(k) /\ Within(k, w + 1)
  <2>0. Increasing(l) /\ Within(l, w)
    BY Zenon DEF Ordered
  <2>1. \A m \in 1 .. Len(l) : l[m] \in Nat /\ l[m] <= w
    BY SMTT(60), <2>0 DEF Within
  <2>2. \A m \in 1 .. Len(l) : l[m] <= w + 1 /\ l[m] < w + 1
    BY SMTT(60), <2>1
  <2>3. w + 1 <= w + 1
    OBVIOUS
  <2>4. \A m, n \in 1 .. Len(k) : m < n => m # Len(k)
    BY <1>1
  <2> QED BY Zenon, <1>2, <2>0, <2>2, <2>3, <2>4 DEF Within, Increasing
<1>5. \A i \in 1 .. Len(M) : M[i] \in Seq(Nat)
  OBVIOUS
<1> QED BY Zenon, <1>1, <1>3, <1>4, <1>5 DEF Ordered

LEMMA NoneLeft ==
  ASSUME NEW b, NEW h, NEW M, NEW l, NEW w, Ordered(b, h, M, l, w)
  PROVE  Ordered(b, h, M, <<>>, w)
<1>1. Increasing(<<>>) /\ Within(<<>>, w) /\ \A s : Precedes(s, <<>>)
  BY DEF Increasing, Within, Precedes
<1> QED BY Zenon, <1>1 DEF Ordered

LEMMA BatchMore ==
  ASSUME NEW b \in Seq(Nat), NEW h \in Seq(Nat), NEW M \in Seq(Seq(Nat)), NEW l \in Seq(Nat),
         NEW w \in Nat, Ordered(b, h, M, l, w)
  PROVE  Ordered(b, h, Append(M, l), <<>>, w)
<1>1. PICK K \in Seq(Seq(Nat)) : K = Append(M, l)
  <2>1. Append(M, l) \in Seq(Seq(Nat))
    OBVIOUS
  <2> QED BY Zenon, <2>1
<1>2. \A i \in 1 .. Len(K) : (i \in 1 .. Len(M) /\ K[i] = M[i]) \/ (i = Len(M) + 1 /\ K[i] = l)
  BY <1>1
<1>3. \A i, j \in 1 .. Len(K) : i < j => i # Len(M) + 1
  BY <1>1
<1>4. Increasing(<<>>) /\ Within(<<>>, w) /\ \A s : Precedes(s, <<>>)
  BY DEF Increasing, Within, Precedes
<1>5. ASSUME NEW i \in 1 .. Len(K)
      PROVE  /\ Increasing(K[i]) /\ Within(K[i], w) /\ Precedes(b, K[i]) /\ Precedes(h, K[i])
             /\ \A j \in 1 .. Len(K) : i < j => Precedes(K[i], K[j])
  BY Zenon, <1>2, <1>3 DEF Ordered
<1> QED BY Zenon, <1>1, <1>4, <1>5 DEF Ordered

LEMMA BatchLess ==
  ASSUME NEW b \in Seq(Nat), NEW h \in Seq(Nat), NEW M \in Seq(Seq(Nat)), NEW l \in Seq(Nat),
         NEW w \in Nat, Ordered(b, h, M, l, w), M # <<>>, NEW max \in Nat
  PROVE  /\ h = <<>> => Ordered(Latest(b \o M[1], max), h, Tail(M), l, w)
         /\ Ordered(b, Latest(h \o M[1], max), Tail(M), l, w)
<1>1. PICK K \in Seq(Seq(Nat)) : K = Tail(M)
  <2>1. Tail(M) \in Seq(Seq(Nat))
    OBVIOUS
  <2> QED BY Zenon, <2>1
<1>2. /\ M[1] \in Seq(Nat) /\ 1 \in 1 .. Len(M)
      /\ \A i \in 1 .. Len(K) : i + 1 \in 1 .. Len(M) /\ K[i] = M[i + 1] /\ 1 < i + 1 /\ K[i] \in Seq(Nat)
  BY <1>1
<1>3. \A i, j \in 1 .. Len(K) : i < j => i + 1 < j + 1
  OBVIOUS
<1>4. ASSUME NEW i \in 1 .. Len(K)
      PROVE  /\ Increasing(K[i]) /\ Within(K[i], w) /\ Precedes(b, K[i]) /\ Precedes(h, K[i])
             /\ Precedes(K[i], l) /\ Precedes(M[1], K[i])
             /\ \A j \in 1 .. Len(K) : i < j => Precedes(K[i], K[j])
  BY Zenon, <1>2, <1>3 DEF Ordered
<1>5. /\ Increasing(M[1]) /\ Within(M[1], w) /\ Precedes(b, M[1]) /\ Precedes(h, M[1]) /\ Precedes(M[1], l)
  BY Zenon, <1>2 DEF Ordered
<1>6. ASSUME h = <<>> PROVE Ordered(Latest(b \o M[1], max), h, K, l, w)
  <2>1. PICK s \in Seq(Nat) : s = b \o M[1]
    <3>1. b \o M[1] \in Seq(Nat)
      BY <1>2
    <3> QED BY Zenon, <3>1
  <2>2. /\ Increasing(s) /\ Within(s, w) /\ Precedes(s, l)
        /\ \A i \in 1 .. Len(K) : Precedes(s, K[i])
    BY Zenon, <1>2, <1>4, <1>5, <2>1, Joined DEF Ordered
  <2>3. /\ Increasing(Latest(s, max)) /\ Within(Latest(s, max), w) /\ Precedes(Latest(s, max), l)
        /\ \A i \in 1 .. Len(K) : Precedes(Latest(s, max), K[i])
    BY Zenon, <1>2, <2>2, LatestKeeps
  <2>4. Precedes(Latest(s, max), h)
    BY <1>6 DEF Precedes
  <2> QED BY Zenon, <1>4, <2>1, <2>3, <2>4 DEF Ordered
<1>7. Ordered(b, Latest(h \o M[1], max), K, l, w)
  <2>1. PICK s \in Seq(Nat) : s = h \o M[1]
    <3>1. h \o M[1] \in Seq(Nat)
      BY <1>2
    <3> QED BY Zenon, <3>1
  <2>2. /\ Increasing(s) /\ Within(s, w) /\ Precedes(s, l) /\ Precedes(b, s)
        /\ \A i \in 1 .. Len(K) : Precedes(s, K[i])
    BY Zenon, <1>2, <1>4, <1>5, <2>1, Joined DEF Ordered
  <2>3. /\ Increasing(Latest(s, max)) /\ Within(Latest(s, max), w) /\ Precedes(Latest(s, max), l)
        /\ Precedes(b, Latest(s, max))
        /\ \A i \in 1 .. Len(K) : Precedes(Latest(s, max), K[i])
    BY Zenon, <1>2, <2>2, LatestKeeps
  <2> QED BY Zenon, <1>4, <2>1, <2>3 DEF Ordered
<1> QED BY Zenon, <1>1, <1>6, <1>7

LEMMA Resumed ==
  ASSUME NEW b \in Seq(Nat), NEW h \in Seq(Nat), NEW M \in Seq(Seq(Nat)), NEW l \in Seq(Nat),
         NEW w \in Nat, Ordered(b, h, M, l, w), NEW max \in Nat
  PROVE  Ordered(Latest(b \o h, max), <<>>, M, l, w)
<1>1. PICK s \in Seq(Nat) : s = b \o h
  <2>1. b \o h \in Seq(Nat)
    OBVIOUS
  <2> QED BY Zenon, <2>1
<1>0. \A i \in 1 .. Len(M) : M[i] \in Seq(Nat)
  OBVIOUS
<1>2. /\ Increasing(s) /\ Within(s, w) /\ Precedes(s, l)
      /\ \A i \in 1 .. Len(M) : Precedes(s, M[i])
  BY Zenon, <1>0, <1>1, Joined DEF Ordered
<1>3. /\ Increasing(Latest(s, max)) /\ Within(Latest(s, max), w) /\ Precedes(Latest(s, max), l)
      /\ \A i \in 1 .. Len(M) : Precedes(Latest(s, max), M[i])
  BY Zenon, <1>0, <1>2, LatestKeeps
<1>4. Increasing(<<>>) /\ Within(<<>>, w) /\ \A t : Precedes(t, <<>>) /\ Precedes(<<>>, t)
  BY DEF Increasing, Within, Precedes
<1> QED BY Zenon, <1>1, <1>3, <1>4 DEF Ordered

LEMMA Emptied ==
  ASSUME NEW b, NEW h, NEW M, NEW l, NEW w, Ordered(b, h, M, l, w)
  PROVE  Ordered(<<>>, <<>>, M, l, w)
<1>1. Increasing(<<>>) /\ Within(<<>>, w) /\ \A t : Precedes(t, <<>>) /\ Precedes(<<>>, t)
  BY DEF Increasing, Within, Precedes
<1> QED BY Zenon, <1>1 DEF Ordered

-----------------------------------------------------------------------------
(* The invariant.                                                             *)
Batches == [lines : Seq(Nat), dropped : Nat]
BatcherType == [lines : Seq(Nat), dropped : Nat, over : BOOLEAN]
Chunks == [seq : Nat, lines : Seq(Nat), dropped : Nat]

LinesTyped ==
  /\ written \in Nat
  /\ batcher \in BatcherType
  /\ queue \in Seq(Batches) /\ chunks \in Seq(Chunks)
  /\ seqOut \in Nat
  /\ buffer \in Seq(Nat) /\ held \in Seq(Nat)
  /\ discarded \in Nat /\ lost \in Nat /\ cleared \in Nat

(* The batches under way, the next to arrive first. *)
UnderWay == LinesOf(chunks) \o LinesOf(queue)

(* Nothing is set aside unless the tab is paused. *)
LinesInv ==
  /\ LinesTyped
  /\ ~paused => held = <<>>
  /\ EveryLineAccounted
  /\ Ordered(buffer, held, UnderWay, batcher.lines, written)

LEMMA Sizes ==
  /\ \A b \in Batches : Size(b) \in Nat
  /\ \A c \in Chunks : Size(c) \in Nat
  BY DEF Batches, Chunks, Size

(* Lines of batches as they come and go.                                      *)
LEMMA LinesOfThem ==
  ASSUME NEW S, NEW bs \in Seq(S), \A b \in S : b.lines \in Seq(Nat)
  PROVE  /\ LinesOf(bs) \in Seq(Seq(Nat)) /\ Len(LinesOf(bs)) = Len(bs)
         /\ \A i \in 1 .. Len(bs) : LinesOf(bs)[i] = bs[i].lines
         /\ \A b \in S : LinesOf(Append(bs, b)) = Append(LinesOf(bs), b.lines)
         /\ bs # <<>> => LinesOf(Tail(bs)) = Tail(LinesOf(bs)) /\ LinesOf(bs) # <<>>
                         /\ LinesOf(bs)[1] = Head(bs).lines
<1>1. LinesOf(bs) = [i \in 1 .. Len(bs) |-> bs[i].lines] /\ \A i \in 1 .. Len(bs) : bs[i] \in S
  BY DEF LinesOf
<1>2. LinesOf(bs) \in Seq(Seq(Nat)) /\ Len(LinesOf(bs)) = Len(bs)
  <2> DEFINE f == [i \in 1 .. Len(bs) |-> bs[i].lines]
  <2>1. \A i \in 1 .. Len(bs) : f[i] \in Seq(Nat)
    BY Zenon, <1>1
  <2>2. f \in [1 .. Len(bs) -> Seq(Nat)] /\ Len(bs) \in Nat
    BY <2>1
  <2> HIDE DEF f
  <2>3. f \in Seq(Seq(Nat)) /\ Len(f) = Len(bs)
    BY SMTT(60), <2>2
  <2> QED BY Zenon, <1>1, <2>3 DEF f
<1>3. \A i \in 1 .. Len(bs) : LinesOf(bs)[i] = bs[i].lines
  BY Zenon, <1>1
<1>4. ASSUME NEW b \in S PROVE LinesOf(Append(bs, b)) = Append(LinesOf(bs), b.lines)
  <2>1. PICK cs \in Seq(S) : cs = Append(bs, b)
    <3>1. Append(bs, b) \in Seq(S)
      OBVIOUS
    <3> QED BY Zenon, <3>1
  <2>2. DOMAIN cs = 1 .. Len(bs) + 1 /\ cs[Len(bs) + 1] = b /\ \A i \in 1 .. Len(bs) : cs[i] = bs[i]
    BY <2>1
  <2>3. PICK L \in Seq(Seq(Nat)) : L = LinesOf(bs)
    BY Zenon, <1>2
  <2>4. Append(L, b.lines) = [i \in 1 .. Len(bs) + 1 |-> cs[i].lines]
    <3>1. Len(L) = Len(bs) /\ \A i \in 1 .. Len(bs) : L[i] = bs[i].lines
      BY Zenon, <1>2, <1>3, <2>3
    <3>2. Append(L, b.lines) = [i \in 1 .. Len(L) + 1 |-> IF i = Len(L) + 1 THEN b.lines ELSE L[i]]
      OBVIOUS
    <3>3. \A i \in 1 .. Len(bs) + 1 : i # Len(bs) + 1 => i \in 1 .. Len(bs)
      OBVIOUS
    <3>4. \A i \in 1 .. Len(bs) + 1 : (IF i = Len(L) + 1 THEN b.lines ELSE L[i]) = cs[i].lines
      BY Zenon, <2>2, <3>1, <3>3
    <3> QED BY Zenon, <3>1, <3>2, <3>4
  <2> QED BY Zenon, <2>1, <2>2, <2>3, <2>4 DEF LinesOf
<1>5. ASSUME bs # <<>>
      PROVE  LinesOf(Tail(bs)) = Tail(LinesOf(bs)) /\ LinesOf(bs) # <<>> /\ LinesOf(bs)[1] = Head(bs).lines
  <2>1. PICK cs \in Seq(S) : cs = Tail(bs)
    <3>1. Tail(bs) \in Seq(S)
      BY <1>5
    <3> QED BY Zenon, <3>1
  <2>2. DOMAIN cs = 1 .. Len(bs) - 1 /\ \A i \in 1 .. Len(bs) - 1 : cs[i] = bs[i + 1] /\ i + 1 \in 1 .. Len(bs)
    BY <1>5, <2>1
  <2>3. PICK L \in Seq(Seq(Nat)) : L = LinesOf(bs)
    BY Zenon, <1>2
  <2>4. Len(L) = Len(bs) /\ \A i \in 1 .. Len(bs) : L[i] = bs[i].lines
    BY Zenon, <1>2, <1>3, <2>3
  <2>5. Len(bs) # 0 /\ 1 \in 1 .. Len(bs) /\ Head(bs) = bs[1]
    BY <1>5
  <2>6. L # <<>> /\ L[1] = Head(bs).lines
    BY <2>4, <2>5
  <2>7. Tail(L) = [i \in 1 .. Len(bs) - 1 |-> L[i + 1]]
    <3>1. PICK T \in Seq(Seq(Nat)) : T = Tail(L)
      <4>1. Tail(L) \in Seq(Seq(Nat))
        BY <2>6
      <4> QED BY Zenon, <4>1
    <3>2. DOMAIN T = 1 .. Len(bs) - 1 /\ \A i \in 1 .. Len(bs) - 1 : T[i] = L[i + 1]
      BY <2>4, <2>6, <3>1
    <3>3. T = [i \in DOMAIN T |-> T[i]]
      OBVIOUS
    <3> QED BY Zenon, <3>1, <3>2, <3>3
  <2>8. Tail(L) = [i \in 1 .. Len(bs) - 1 |-> cs[i].lines]
    BY ZenonT(60), <2>2, <2>4, <2>7
  <2> QED BY Zenon, <2>1, <2>2, <2>3, <2>6, <2>8 DEF LinesOf
<1> QED BY Zenon, <1>2, <1>3, <1>4, <1>5

(* A queue behind another, as one of the two moves.                           *)
LEMMA Behind ==
  ASSUME NEW S, NEW A \in Seq(S), NEW B \in Seq(S)
  PROVE  /\ A \o B \in Seq(S)
         /\ \A x \in S : A \o Append(B, x) = Append(A \o B, x)
         /\ B # <<>> => Append(A, B[1]) \o Tail(B) = A \o B
         /\ A # <<>> => Tail(A \o B) = Tail(A) \o B /\ (A \o B)[1] = A[1] /\ A \o B # <<>>
<1>1. A \o B \in Seq(S)
  OBVIOUS
<1>2. ASSUME NEW x \in S PROVE A \o Append(B, x) = Append(A \o B, x)
  OBVIOUS
<1>3. ASSUME B # <<>> PROVE Append(A, B[1]) \o Tail(B) = A \o B
  BY SMTT(60), <1>3
<1>4. ASSUME A # <<>> PROVE Tail(A \o B) = Tail(A) \o B /\ (A \o B)[1] = A[1] /\ A \o B # <<>>
  BY <1>4
<1> QED BY Zenon, <1>1, <1>2, <1>3, <1>4

LEMMA TotalsCount ==
  /\ \A bs \in Seq(Batches) : InBatches(bs) \in Nat
  /\ \A bs \in Seq(Chunks) : InBatches(bs) \in Nat
<1>1. ASSUME NEW S, NEW bs \in Seq(S), \A x \in S : Size(x) \in Nat PROVE InBatches(bs) \in Nat
  <2>1. Len(bs) \in Nat /\ \A i \in 1 .. Len(bs) : Size(bs[i]) \in Nat
    BY <1>1
  <2> QED BY Zenon, <2>1, TotalExists
<1> QED BY Zenon, <1>1, Sizes

LEMMA UnderWayTyped ==
  ASSUME LinesTyped
  PROVE  /\ LinesOf(chunks) \in Seq(Seq(Nat)) /\ LinesOf(queue) \in Seq(Seq(Nat))
         /\ UnderWay \in Seq(Seq(Nat))
         /\ (\A b \in Batches : b.lines \in Seq(Nat)) /\ (\A c \in Chunks : c.lines \in Seq(Nat))
<1>1. (\A b \in Batches : b.lines \in Seq(Nat)) /\ (\A c \in Chunks : c.lines \in Seq(Nat))
  BY DEF Batches, Chunks
<1>2. LinesOf(chunks) \in Seq(Seq(Nat)) /\ LinesOf(queue) \in Seq(Seq(Nat))
  BY Zenon, <1>1, LinesOfThem DEF LinesTyped
<1> QED BY Zenon, <1>1, <1>2, Behind DEF UnderWay

(* A flush loses nothing: the lines go into the queue behind the others, or   *)
(* into the count.                                                            *)
LEMMA FlushKeeps ==
  ASSUME LinesTyped, NEW ls \in Seq(Nat), NEW w \in Nat, NEW over \in BOOLEAN,
         ls = <<>> => batcher.lines = ls,
         Ordered(buffer, held, UnderWay, ls, w), flush(ls, over), UNCHANGED chunks
  PROVE  /\ batcher' \in BatcherType
         /\ queue' \in Seq(Batches)
         /\ Len(batcher'.lines) + batcher'.dropped + InBatches(queue')
              = Len(ls) + batcher.dropped + InBatches(queue)
         /\ Ordered(buffer, held, UnderWay', batcher'.lines, w)
<1>1. PICK d \in Nat : d = batcher.dropped
  BY DEF LinesTyped, BatcherType
<1>2. PICK n \in Nat : n = InBatches(queue)
  BY Zenon, TotalsCount DEF LinesTyped
<1>3. CASE ls = <<>> /\ d = 0
  <2>1. batcher' = [batcher EXCEPT !.over = over] /\ queue' = queue
    BY Zenon, <1>1, <1>3 DEF flush
  <2>2. /\ batcher' \in BatcherType
        /\ batcher'.lines = batcher.lines /\ batcher'.dropped = d
    BY Zenon, <1>1, <2>1 DEF LinesTyped, BatcherType
  <2>3. UnderWay' = UnderWay /\ batcher.lines = ls
    BY Zenon, <1>3, <2>1 DEF UnderWay, LinesOf
  <2> QED BY Zenon, <1>1, <2>1, <2>2, <2>3 DEF LinesTyped
<1>4. CASE ~ (ls = <<>> /\ d = 0) /\ Len(queue) < QueueDepth
  <2> DEFINE b == [lines |-> ls, dropped |-> d]
  <2>1. batcher' = [lines |-> <<>>, dropped |-> 0, over |-> over] /\ queue' = Append(queue, b)
    BY Zenon, <1>1, <1>4 DEF flush
  <2>2. b \in Batches /\ Size(b) = Len(ls) + d /\ b.lines = ls
    BY DEF Batches, Size
  <2> HIDE DEF b
  <2>3. InBatches(queue') = n + Size(b) /\ queue' \in Seq(Batches)
    <3>1. InBatches(Append(queue, b)) = InBatches(queue) + Size(b)
      BY Zenon, <2>2, Sizes, TotalOfMore DEF LinesTyped
    <3>2. Append(queue, b) \in Seq(Batches)
      BY <2>2 DEF LinesTyped
    <3> QED BY Zenon, <1>2, <2>1, <3>1, <3>2
  <2>4. /\ batcher' \in BatcherType
        /\ batcher'.lines = <<>> /\ batcher'.dropped = 0
    BY <2>1 DEF BatcherType
  <2>5. UnderWay' = Append(UnderWay, ls)
    <3>1. LinesOf(queue') = Append(LinesOf(queue), ls)
      BY Zenon, <2>1, <2>2, LinesOfThem, UnderWayTyped DEF LinesTyped
    <3>2. UnderWay' = LinesOf(chunks) \o Append(LinesOf(queue), ls)
      BY Zenon, <3>1 DEF UnderWay, LinesOf
    <3>3. LinesOf(chunks) \o Append(LinesOf(queue), ls) = Append(LinesOf(chunks) \o LinesOf(queue), ls)
      <4>1. PICK A \in Seq(Seq(Nat)) : A = LinesOf(chunks)
        BY Zenon, UnderWayTyped
      <4>2. PICK B \in Seq(Seq(Nat)) : B = LinesOf(queue)
        BY Zenon, UnderWayTyped
      <4>3. A \o Append(B, ls) = Append(A \o B, ls)
        BY SMTT(60)
      <4> QED BY Zenon, <4>1, <4>2, <4>3
    <3> QED BY Zenon, <3>2, <3>3 DEF UnderWay
  <2>6. Ordered(buffer, held, UnderWay', batcher'.lines, w)
    BY Zenon, <2>4, <2>5, UnderWayTyped, BatchMore DEF LinesTyped
  <2>7. Len(batcher'.lines) + batcher'.dropped + InBatches(queue') = Len(ls) + d + n
    <3>1. Len(batcher'.lines) = 0
      BY <2>4
    <3>2. Len(ls) \in Nat
      OBVIOUS
    <3> QED BY <2>2, <2>3, <2>4, <3>1, <3>2
  <2> QED BY Zenon, <1>1, <1>2, <2>3, <2>4, <2>6, <2>7
<1>5. CASE ~ (ls = <<>> /\ d = 0) /\ ~ (Len(queue) < QueueDepth)
  <2>1. batcher' = [lines |-> <<>>, dropped |-> d + Len(ls), over |-> over] /\ queue' = queue
    BY Zenon, <1>1, <1>5 DEF flush
  <2>2. /\ batcher' \in BatcherType
        /\ batcher'.lines = <<>> /\ batcher'.dropped = d + Len(ls)
    BY <2>1 DEF BatcherType
  <2>3. UnderWay' = UnderWay
    BY Zenon, <2>1 DEF UnderWay, LinesOf
  <2>4. Ordered(buffer, held, UnderWay', batcher'.lines, w)
    BY Zenon, <2>2, <2>3, NoneLeft
  <2>5. Len(batcher'.lines) + batcher'.dropped + n = Len(ls) + d + n
    <3>1. Len(batcher'.lines) = 0
      BY <2>2
    <3>2. Len(ls) \in Nat
      OBVIOUS
    <3> QED BY <2>2, <3>1, <3>2
  <2> QED BY Zenon, <1>1, <1>2, <2>1, <2>2, <2>4, <2>5 DEF LinesTyped
<1> QED BY Zenon, <1>3, <1>4, <1>5

(* The account is kept when the agent's part and the reader's add up.         *)
AtAgent(b, q) == Len(b.lines) + b.dropped + InBatches(q)
AtReader(c, bf, h, di, lo, cl) == InBatches(c) + Len(bf) + Len(h) + di + lo + cl

LEMMA Account ==
  ASSUME NEW b \in BatcherType, NEW q \in Seq(Batches), NEW c \in Seq(Chunks),
         NEW bf \in Seq(Nat), NEW h \in Seq(Nat), NEW di \in Nat, NEW lo \in Nat, NEW cl \in Nat
  PROVE  /\ AtAgent(b, q) \in Nat /\ AtReader(c, bf, h, di, lo, cl) \in Nat
         /\ Len(b.lines) + b.dropped + InBatches(q) + InBatches(c) + Len(bf) + Len(h) + di + lo + cl
              = AtAgent(b, q) + AtReader(c, bf, h, di, lo, cl)
<1>1. Len(b.lines) \in Nat /\ b.dropped \in Nat /\ Len(bf) \in Nat /\ Len(h) \in Nat
  BY DEF BatcherType
<1>2. PICK a1 \in Nat, a2 \in Nat, a3 \in Nat, a4 \in Nat, a5 \in Nat, a6 \in Nat :
        /\ a1 = Len(b.lines) /\ a2 = b.dropped /\ a3 = InBatches(q)
        /\ a4 = InBatches(c) /\ a5 = Len(bf) /\ a6 = Len(h)
  BY Zenon, <1>1, TotalsCount
<1>3. /\ a1 + a2 + a3 \in Nat /\ a4 + a5 + a6 + di + lo + cl \in Nat
      /\ a1 + a2 + a3 + a4 + a5 + a6 + di + lo + cl = (a1 + a2 + a3) + (a4 + a5 + a6 + di + lo + cl)
  OBVIOUS
<1> QED BY Zenon, <1>2, <1>3 DEF AtAgent, AtReader

LEMMA Accounts ==
  /\ LinesTyped => (EveryLineAccounted <=>
       written = AtAgent(batcher, queue) + AtReader(chunks, buffer, held, discarded, lost, cleared))
  /\ LinesTyped' => (EveryLineAccounted' <=>
       written' = AtAgent(batcher', queue') + AtReader(chunks', buffer', held', discarded', lost', cleared'))
<1>1. LinesTyped => (EveryLineAccounted <=>
       written = AtAgent(batcher, queue) + AtReader(chunks, buffer, held, discarded, lost, cleared))
  <2> SUFFICES ASSUME LinesTyped
               PROVE  EveryLineAccounted <=>
                        written = AtAgent(batcher, queue)
                                  + AtReader(chunks, buffer, held, discarded, lost, cleared)
    OBVIOUS
  <2>1. Len(batcher.lines) + batcher.dropped + InBatches(queue) + InBatches(chunks)
          + Len(buffer) + Len(held) + discarded + lost + cleared
        = AtAgent(batcher, queue) + AtReader(chunks, buffer, held, discarded, lost, cleared)
    BY Account DEF LinesTyped
  <2> QED BY Zenon, <2>1 DEF EveryLineAccounted
<1>2. LinesTyped' => (EveryLineAccounted' <=>
       written' = AtAgent(batcher', queue') + AtReader(chunks', buffer', held', discarded', lost', cleared'))
  <2> SUFFICES ASSUME LinesTyped'
               PROVE  EveryLineAccounted' <=>
                        written' = AtAgent(batcher', queue')
                                   + AtReader(chunks', buffer', held', discarded', lost', cleared')
    OBVIOUS
  <2>1. Len(batcher'.lines) + batcher'.dropped + InBatches(queue') + InBatches(chunks')
          + Len(buffer') + Len(held') + discarded' + lost' + cleared'
        = AtAgent(batcher', queue') + AtReader(chunks', buffer', held', discarded', lost', cleared')
    BY SMTT(60), Account DEF LinesTyped
  <2> QED BY Zenon, <2>1 DEF EveryLineAccounted
<1> QED BY Zenon, <1>1, <1>2

(* The agent reads a line, or hands over what it has.                         *)
Handed(ls, w) ==
  /\ ls = <<>> => batcher.lines = ls
  /\ w + Len(batcher.lines) = written + Len(ls)

LEMMA FlushStep ==
  ASSUME LinesInv, NEW ls \in Seq(Nat), NEW over \in BOOLEAN, NEW w \in Nat, written' = w,
         Handed(ls, w), Ordered(buffer, held, UnderWay, ls, w),
         flush(ls, over), UNCHANGED <<chunks, seqOut, tabVars>>
  PROVE  LinesInv'
<1> DEFINE r == AtReader(chunks, buffer, held, discarded, lost, cleared)
<1>1. /\ batcher' \in BatcherType /\ queue' \in Seq(Batches)
      /\ AtAgent(batcher', queue') = Len(ls) + batcher.dropped + InBatches(queue)
      /\ Ordered(buffer, held, UnderWay', batcher'.lines, w)
  BY Zenon, FlushKeeps DEF LinesInv, AtAgent, Handed
<1>2. LinesTyped' /\ (~paused' => held' = <<>>)
  BY Zenon, <1>1 DEF LinesInv, LinesTyped, tabVars
<1>3. Ordered(buffer, held, UnderWay, batcher.lines, written)'
  BY Zenon, <1>1 DEF tabVars
<1>4. w = AtAgent(batcher', queue') + r
  <2>1. written = AtAgent(batcher, queue) + r
    BY Zenon, Accounts DEF LinesInv
  <2>2. Len(batcher.lines) \in Nat /\ batcher.dropped \in Nat /\ written \in Nat /\ Len(ls) \in Nat
    BY SMTT(60) DEF LinesInv, LinesTyped, BatcherType
  <2>3. PICK q \in Nat : q = InBatches(queue)
    BY Zenon, TotalsCount DEF LinesInv, LinesTyped
  <2>4. PICK x \in Nat : x = r
    <3>1. r \in Nat
      BY Zenon, Account DEF LinesInv, LinesTyped
    <3> QED BY Zenon, <3>1
  <2> HIDE DEF r
  <2>5. written = Len(batcher.lines) + batcher.dropped + q + x
    BY Zenon, <2>1, <2>3, <2>4 DEF AtAgent
  <2>6. AtAgent(batcher', queue') = Len(ls) + batcher.dropped + q
    BY Zenon, <1>1, <2>3
  <2>7. PICK a \in Nat, b \in Nat, d \in Nat, k \in Nat :
          a = Len(batcher.lines) /\ b = Len(ls) /\ d = batcher.dropped /\ k = written
    BY Zenon, <2>2
  <2>8. w + a = k + b /\ k = a + d + q + x
    BY Zenon, <2>5, <2>7 DEF Handed
  <2>9. w = (b + d + q) + x
    BY SMTT(30), <2>8
  <2> QED BY Zenon, <2>4, <2>6, <2>7, <2>9
<1>5. r = AtReader(chunks', buffer', held', discarded', lost', cleared')
  BY Zenon DEF tabVars
<1>6. EveryLineAccounted'
  BY Zenon, <1>2, <1>4, <1>5, Accounts
<1> QED BY Zenon, <1>2, <1>3, <1>6 DEF LinesInv

LEMMA AgentLines ==
  ASSUME LinesInv, add \/ \E over \in BOOLEAN : readLogs(over)
  PROVE  LinesInv'
<1>1. PICK l \in Seq(Nat) : l = batcher.lines
  BY DEF LinesInv, LinesTyped, BatcherType
<1>2. written \in Nat /\ Ordered(buffer, held, UnderWay, l, written)
  BY Zenon, <1>1 DEF LinesInv, LinesTyped
<1>3. ASSUME NEW over \in BOOLEAN, readLogs(over) PROVE LinesInv'
  <2>1. flush(l, over) /\ UNCHANGED <<chunks, seqOut, tabVars>> /\ written' = written
    BY Zenon, <1>1, <1>3 DEF readLogs
  <2>2. Handed(l, written)
    BY Zenon, <1>1 DEF Handed
  <2> QED BY Zenon, <1>1, <1>2, <2>1, <2>2, FlushStep
<1>4. CASE add
  <2> DEFINE ls == Append(l, written + 1)
  <2>1. /\ ls \in Seq(Nat) /\ ls # <<>> /\ Len(ls) = Len(l) + 1 /\ Len(l) \in Nat
        /\ written + 1 \in Nat /\ (written + 1) + Len(l) = written + Len(ls)
    <3>1. written + 1 \in Nat /\ Len(l) \in Nat
      BY <1>2
    <3>2. ls \in Seq(Nat) /\ Len(ls) = Len(l) + 1
      BY <3>1
    <3>3. ls # <<>>
      BY <3>1, <3>2
    <3>4. (written + 1) + Len(l) = written + (Len(l) + 1)
      BY <1>2, <3>1
    <3> QED BY Zenon, <3>1, <3>2, <3>3, <3>4
  <2>2. Ordered(buffer, held, UnderWay, ls, written + 1)
    BY Zenon, <1>2, OneMore, UnderWayTyped DEF LinesInv, LinesTyped
  <2>3. /\ written' = written + 1 /\ UNCHANGED <<chunks, seqOut, tabVars>>
        /\ IF Len(ls) >= MaxBatchLines THEN flush(ls, FALSE)
           ELSE batcher' = [batcher EXCEPT !.lines = ls] /\ UNCHANGED queue
    BY Zenon, <1>1, <1>4 DEF add
  <2> HIDE DEF ls
  <2>4. CASE flush(ls, FALSE)
    <3>1. FALSE \in BOOLEAN
      OBVIOUS
    <3>2. Handed(ls, written + 1)
      BY Zenon, <1>1, <2>1 DEF Handed
    <3> QED BY Zenon, <2>1, <2>2, <2>3, <2>4, <3>1, <3>2, FlushStep
  <2>5. CASE batcher' = [batcher EXCEPT !.lines = ls] /\ UNCHANGED queue
    <3>1. batcher' \in BatcherType /\ batcher'.lines = ls /\ batcher'.dropped = batcher.dropped
      BY Zenon, <2>1, <2>5 DEF LinesInv, LinesTyped, BatcherType
    <3>2. LinesTyped' /\ (~paused' => held' = <<>>)
      BY Zenon, <2>1, <2>3, <2>5, <3>1 DEF LinesInv, LinesTyped, tabVars
    <3>3. UnderWay' = UnderWay
      BY Zenon, <2>3, <2>5 DEF UnderWay, LinesOf
    <3>4. Ordered(buffer, held, UnderWay, batcher.lines, written)'
      BY Zenon, <2>2, <2>3, <3>1, <3>3 DEF tabVars
    <3>5. PICK r \in Nat : /\ r = AtReader(chunks, buffer, held, discarded, lost, cleared)
                           /\ r = AtReader(chunks', buffer', held', discarded', lost', cleared')
      <4>1. AtReader(chunks, buffer, held, discarded, lost, cleared) \in Nat
        BY Zenon, Account DEF LinesInv, LinesTyped
      <4> QED BY Zenon, <2>3, <4>1 DEF tabVars
    <3>6. PICK q \in Nat : q = InBatches(queue)
      BY Zenon, TotalsCount DEF LinesInv, LinesTyped
    <3>7. batcher.dropped \in Nat
      BY DEF LinesInv, LinesTyped, BatcherType
    <3>8. written = Len(l) + batcher.dropped + q + r
      BY Zenon, <1>1, <3>5, <3>6, Accounts DEF LinesInv, AtAgent
    <3>9. AtAgent(batcher', queue') = Len(ls) + batcher.dropped + q
      BY Zenon, <2>5, <3>1, <3>6 DEF AtAgent
    <3>10. written' = AtAgent(batcher', queue') + r
      <4>1. PICK a \in Nat, d \in Nat : a = Len(l) /\ d = batcher.dropped
        BY Zenon, <2>1, <3>7
      <4>2. (a + d + q + r) + 1 = ((a + 1) + d + q) + r
        OBVIOUS
      <4> QED BY Zenon, <2>1, <2>3, <3>8, <3>9, <4>1, <4>2
    <3>11. EveryLineAccounted'
      BY Zenon, <3>2, <3>5, <3>10, Accounts
    <3> QED BY Zenon, <3>2, <3>4, <3>11 DEF LinesInv
  <2> QED BY Zenon, <2>3, <2>4, <2>5
<1> QED BY Zenon, <1>3, <1>4

(* A batch becomes the last chunk on the connection.                          *)
LEMMA EmitStep ==
  ASSUME LinesInv, emit
  PROVE  LinesInv'
<1> DEFINE h == Head(queue)
           c == [seq |-> seqOut, lines |-> h.lines, dropped |-> h.dropped]
<1>1. /\ queue # <<>> /\ chunks' = Append(chunks, c) /\ seqOut' = seqOut + 1 /\ queue' = Tail(queue)
      /\ UNCHANGED <<written, batcher, seqIn, tabVars>>
  BY Zenon DEF emit
<1>2. h \in Batches /\ h = queue[1] /\ Tail(queue) \in Seq(Batches)
  BY <1>1 DEF LinesInv, LinesTyped
<1>3. c \in Chunks /\ c.lines = h.lines /\ Size(c) = Size(h) /\ Size(h) \in Nat
  BY SMTT(60), <1>2 DEF LinesInv, LinesTyped, Batches, Chunks, Size
<1> HIDE DEF c
<1>4. Append(chunks, c) \in Seq(Chunks) /\ seqOut' \in Nat
  BY <1>1, <1>3 DEF LinesInv, LinesTyped
<1>5. LinesTyped' /\ (~paused' => held' = <<>>)
  BY Zenon, <1>1, <1>2, <1>4 DEF LinesInv, LinesTyped, tabVars
<1>6. UnderWay' = UnderWay
  <2>1. PICK A \in Seq(Seq(Nat)) : A = LinesOf(chunks)
    BY Zenon, UnderWayTyped DEF LinesInv
  <2>2. PICK B \in Seq(Seq(Nat)) : B = LinesOf(queue)
    BY Zenon, UnderWayTyped DEF LinesInv
  <2>3. LinesOf(Append(chunks, c)) = Append(A, c.lines)
    BY Zenon, <1>3, <2>1, LinesOfThem, UnderWayTyped DEF LinesInv, LinesTyped
  <2>4. LinesOf(Tail(queue)) = Tail(B) /\ B # <<>> /\ B[1] = h.lines
    BY Zenon, <1>1, <2>2, LinesOfThem, UnderWayTyped DEF LinesInv, LinesTyped
  <2>5. Append(A, B[1]) \o Tail(B) = A \o B
    BY SMTT(60), <2>4
  <2>6. UnderWay' = LinesOf(Append(chunks, c)) \o LinesOf(Tail(queue))
    BY Zenon, <1>1 DEF UnderWay, LinesOf
  <2>7. UnderWay' = A \o B
    BY Zenon, <1>3, <2>3, <2>4, <2>5, <2>6
  <2> QED BY Zenon, <2>1, <2>2, <2>7 DEF UnderWay
<1>7. Ordered(buffer, held, UnderWay, batcher.lines, written)'
  BY Zenon, <1>1, <1>6 DEF LinesInv, tabVars
<1>8. EveryLineAccounted'
  <2>1. InBatches(chunks') = InBatches(chunks) + Size(h)
    BY Zenon, <1>1, <1>3, Sizes, TotalOfMore DEF LinesInv, LinesTyped
  <2>2. InBatches(queue) = InBatches(queue') + Size(h)
    BY Zenon, <1>1, <1>2, Sizes, TotalOfLess DEF LinesInv, LinesTyped
  <2>3. PICK q \in Nat, k \in Nat : q = InBatches(queue') /\ k = InBatches(chunks)
    BY Zenon, <1>5, TotalsCount DEF LinesInv, LinesTyped
  <2>4. Len(batcher.lines) \in Nat /\ batcher.dropped \in Nat /\ Len(buffer) \in Nat /\ Len(held) \in Nat
        /\ discarded \in Nat /\ lost \in Nat /\ cleared \in Nat
    BY DEF LinesInv, LinesTyped, BatcherType
  <2>5. written = Len(batcher.lines) + batcher.dropped + (q + Size(h)) + k
                  + Len(buffer) + Len(held) + discarded + lost + cleared
    BY Zenon, <2>2, <2>3 DEF LinesInv, EveryLineAccounted
  <2>6. written = Len(batcher.lines) + batcher.dropped + q + (k + Size(h))
                  + Len(buffer) + Len(held) + discarded + lost + cleared
    BY SMTT(60), <1>3, <2>4, <2>5
  <2> QED BY Zenon, <1>1, <2>1, <2>3, <2>6 DEF EveryLineAccounted, tabVars
<1> QED BY Zenon, <1>5, <1>7, <1>8 DEF LinesInv

(* A chunk arrives: into the window, or beside it while the tab is paused.    *)
LEMMA AcceptStep ==
  ASSUME LinesInv, acceptStreamChunk
  PROVE  LinesInv'
<1> DEFINE c == Head(chunks)
<1>0. MaxShown \in Nat /\ MaxPaused \in Nat
  BY LogLinesAssumption
<1>1. /\ chunks # <<>> /\ chunks' = Tail(chunks) /\ lost' = lost + c.dropped /\ append(c.lines)
      /\ UNCHANGED <<written, batcher, queue, seqOut, paused, cleared>>
  BY Zenon DEF acceptStreamChunk, accept
<1>2. c \in Chunks /\ c = chunks[1] /\ Tail(chunks) \in Seq(Chunks)
  BY <1>1 DEF LinesInv, LinesTyped
<1>3. c.lines \in Seq(Nat) /\ c.dropped \in Nat /\ Size(c) = Len(c.lines) + c.dropped /\ Len(c.lines) \in Nat
  BY SMTT(60), <1>2 DEF Chunks, Size
<1>4. PICK ls \in Seq(Nat) : ls = c.lines
  BY Zenon, <1>3
<1> HIDE DEF c
<1>5. PICK M \in Seq(Seq(Nat)) : M = UnderWay
  BY Zenon, UnderWayTyped DEF LinesInv
<1>6. M # <<>> /\ M[1] = ls /\ UnderWay' = Tail(M)
  <2>1. PICK A \in Seq(Seq(Nat)) : A = LinesOf(chunks)
    BY Zenon, UnderWayTyped DEF LinesInv
  <2>2. PICK B \in Seq(Seq(Nat)) : B = LinesOf(queue)
    BY Zenon, UnderWayTyped DEF LinesInv
  <2>3. LinesOf(Tail(chunks)) = Tail(A) /\ A # <<>> /\ A[1] = ls
    BY Zenon, <1>1, <1>4, <2>1, LinesOfThem, UnderWayTyped DEF LinesInv, LinesTyped, c
  <2>4. Tail(A \o B) = Tail(A) \o B /\ (A \o B)[1] = A[1] /\ A \o B # <<>>
    BY SMTT(60), <2>3
  <2>5. M = A \o B
    BY Zenon, <1>5, <2>1, <2>2 DEF UnderWay
  <2>6. UnderWay' = LinesOf(Tail(chunks)) \o B
    BY Zenon, <1>1, <2>2 DEF UnderWay, LinesOf
  <2> QED BY Zenon, <2>3, <2>4, <2>5, <2>6
<1>7. Ordered(buffer, held, M, batcher.lines, written) /\ batcher.lines \in Seq(Nat) /\ written \in Nat
  BY <1>5 DEF LinesInv, LinesTyped, BatcherType
<1>8. PICK a \in Nat, k \in Nat, n \in Nat, d \in Nat, b \in Nat, h \in Nat :
        /\ a = AtAgent(batcher, queue) /\ k = InBatches(chunks') /\ n = Len(ls) /\ d = c.dropped
        /\ b = Len(buffer) /\ h = Len(held)
  <2>1. AtAgent(batcher, queue) \in Nat
    BY SMTT(60), Account DEF LinesInv, LinesTyped
  <2>2. InBatches(chunks') \in Nat
    BY Zenon, <1>1, <1>2, TotalsCount
  <2>3. Len(buffer) \in Nat /\ Len(held) \in Nat
    BY DEF LinesInv, LinesTyped
  <2> QED BY Zenon, <1>3, <1>4, <2>1, <2>2, <2>3
<1>9. written = a + ((k + (n + d)) + b + h + discarded + lost + cleared)
  <2>1. InBatches(chunks) = k + (n + d)
    BY Zenon, <1>1, <1>2, <1>3, <1>4, <1>8, Sizes, TotalOfLess DEF LinesInv, LinesTyped
  <2>2. written = a + AtReader(chunks, buffer, held, discarded, lost, cleared)
    BY Zenon, <1>8, Accounts DEF LinesInv
  <2> QED BY Zenon, <1>8, <2>1, <2>2 DEF AtReader
<1>10. discarded \in Nat /\ lost \in Nat /\ cleared \in Nat /\ buffer \in Seq(Nat) /\ held \in Seq(Nat)
  BY Zenon DEF LinesInv, LinesTyped
<1>11. CASE paused
  <2> DEFINE t == held \o ls
  <2>1. t \in Seq(Nat) /\ Len(t) = h + n
    BY <1>8, <1>10
  <2>2. held' = Latest(t, MaxPaused) /\ discarded' = discarded + Surplus(t, MaxPaused) /\ buffer' = buffer
    BY Zenon, <1>1, <1>4, <1>11 DEF append
  <2>3. Ordered(buffer, Latest(t, MaxPaused), Tail(M), batcher.lines, written)
    BY SMTT(60), <1>0, <1>6, <1>7, <1>10, BatchLess
  <2> HIDE DEF t
  <2>4. PICK o \in Nat, p \in Nat : o = Surplus(t, MaxPaused) /\ p = Len(held') /\ p + o = h + n
    <3>1. /\ Latest(t, MaxPaused) \in Seq(Nat) /\ Surplus(t, MaxPaused) \in Nat
          /\ Len(Latest(t, MaxPaused)) + Surplus(t, MaxPaused) = Len(t)
      BY Zenon, <1>0, <2>1, LatestIs
    <3> QED BY Zenon, <2>1, <2>2, <3>1, LenIsNat
  <2>5. LinesTyped' /\ (~paused' => held' = <<>>)
    <3>1. held' \in Seq(Nat)
      BY Zenon, <1>0, <2>1, <2>2, LatestIs
    <3>2. discarded' = discarded + o /\ lost' = lost + d
      BY Zenon, <1>1, <1>8, <2>2, <2>4
    <3>3. discarded + o \in Nat /\ lost + d \in Nat
      BY <1>10
    <3> QED BY Zenon, <1>1, <1>2, <1>11, <2>2, <3>1, <3>2, <3>3 DEF LinesInv, LinesTyped
  <2>6. Ordered(buffer, held, UnderWay, batcher.lines, written)'
    BY Zenon, <1>1, <1>6, <2>2, <2>3
  <2>7. written = a + (k + b + p + (discarded + o) + (lost + d) + cleared)
    <3>1. p + o = h + n
      BY Zenon, <2>4
    <3>2. discarded \in Nat /\ lost \in Nat /\ cleared \in Nat
      BY Zenon, <1>10
    <3> QED BY <1>9, <3>1, <3>2
  <2>8. AtReader(chunks', buffer', held', discarded', lost', cleared')
          = k + b + p + (discarded + o) + (lost + d) + cleared
    BY Zenon, <1>1, <1>8, <2>2, <2>4 DEF AtReader
  <2>9. EveryLineAccounted'
    BY Zenon, <1>1, <1>8, <2>5, <2>7, <2>8, Accounts
  <2> QED BY Zenon, <2>5, <2>6, <2>9 DEF LinesInv
<1>12. CASE ~paused
  <2> DEFINE t == buffer \o ls
  <2>1. t \in Seq(Nat) /\ Len(t) = b + n
    BY <1>8, <1>10
  <2>2. buffer' = Latest(t, MaxShown) /\ discarded' = discarded + Surplus(t, MaxShown) /\ held' = held
    BY Zenon, <1>1, <1>4, <1>12 DEF append, push
  <2>3. Ordered(Latest(t, MaxShown), held, Tail(M), batcher.lines, written)
    BY Zenon, <1>0, <1>6, <1>7, <1>10, <1>12, BatchLess DEF LinesInv
  <2> HIDE DEF t
  <2>4. PICK o \in Nat, p \in Nat : o = Surplus(t, MaxShown) /\ p = Len(buffer') /\ p + o = b + n
    <3>1. /\ Latest(t, MaxShown) \in Seq(Nat) /\ Surplus(t, MaxShown) \in Nat
          /\ Len(Latest(t, MaxShown)) + Surplus(t, MaxShown) = Len(t)
      BY Zenon, <1>0, <2>1, LatestIs
    <3> QED BY Zenon, <2>1, <2>2, <3>1, LenIsNat
  <2>5. LinesTyped' /\ (~paused' => held' = <<>>)
    <3>1. buffer' \in Seq(Nat)
      BY Zenon, <1>0, <2>1, <2>2, LatestIs
    <3>2. discarded' = discarded + o /\ lost' = lost + d
      BY Zenon, <1>1, <1>8, <2>2, <2>4
    <3>3. discarded + o \in Nat /\ lost + d \in Nat
      BY <1>10
    <3> QED BY Zenon, <1>1, <1>2, <1>12, <2>2, <3>1, <3>2, <3>3 DEF LinesInv, LinesTyped
  <2>6. Ordered(buffer, held, UnderWay, batcher.lines, written)'
    BY Zenon, <1>1, <1>6, <2>2, <2>3
  <2>7. written = a + (k + p + h + (discarded + o) + (lost + d) + cleared)
    <3>1. p + o = b + n
      BY Zenon, <2>4
    <3>2. discarded \in Nat /\ lost \in Nat /\ cleared \in Nat
      BY Zenon, <1>10
    <3> QED BY <1>9, <3>1, <3>2
  <2>8. AtReader(chunks', buffer', held', discarded', lost', cleared')
          = k + p + h + (discarded + o) + (lost + d) + cleared
    BY Zenon, <1>1, <1>8, <2>2, <2>4 DEF AtReader
  <2>9. EveryLineAccounted'
    BY Zenon, <1>1, <1>8, <2>5, <2>7, <2>8, Accounts
  <2> QED BY Zenon, <2>5, <2>6, <2>9 DEF LinesInv
<1> QED BY Zenon, <1>11, <1>12

(* The reader pauses, resumes, or clears the window.                          *)
LEMMA TabStep ==
  ASSUME LinesInv, togglePause \/ clear
  PROVE  LinesInv'
<1>0. MaxShown \in Nat
  BY LogLinesAssumption
<1>1. UNCHANGED <<written, batcher, queue, chunks, seqOut>> /\ UnderWay' = UnderWay
  BY Zenon DEF togglePause, clear, UnderWay, LinesOf
<1>2. PICK a \in Nat, k \in Nat, b \in Nat, h \in Nat :
        /\ a = AtAgent(batcher, queue) /\ k = InBatches(chunks) /\ b = Len(buffer) /\ h = Len(held)
  <2>1. AtAgent(batcher, queue) \in Nat
    BY Account DEF LinesInv, LinesTyped
  <2>2. InBatches(chunks) \in Nat
    BY Zenon, TotalsCount DEF LinesInv, LinesTyped
  <2>3. Len(buffer) \in Nat /\ Len(held) \in Nat
    BY DEF LinesInv, LinesTyped
  <2> QED BY Zenon, <2>1, <2>2, <2>3
<1>3. written = a + (k + b + h + discarded + lost + cleared)
  BY Zenon, <1>2, Accounts DEF LinesInv, AtReader
<1>4. /\ discarded \in Nat /\ lost \in Nat /\ cleared \in Nat /\ buffer \in Seq(Nat) /\ held \in Seq(Nat)
      /\ batcher.lines \in Seq(Nat) /\ written \in Nat
      /\ Ordered(buffer, held, UnderWay, batcher.lines, written) /\ UnderWay \in Seq(Seq(Nat))
  BY UnderWayTyped DEF LinesInv, LinesTyped, BatcherType
<1>5. CASE togglePause /\ ~paused
  <2>1. UNCHANGED <<buffer, held, discarded, lost, cleared>> /\ paused' = ~paused
    BY Zenon, <1>5 DEF togglePause
  <2>2. LinesTyped' /\ (~paused' => held' = <<>>)
    BY Zenon, <1>1, <1>5, <2>1 DEF LinesInv, LinesTyped
  <2>3. Ordered(buffer, held, UnderWay, batcher.lines, written)'
    BY Zenon, <1>1, <1>4, <2>1
  <2>4. EveryLineAccounted'
    BY Zenon, <1>1, <2>1, <2>2, Accounts DEF LinesInv
  <2> QED BY Zenon, <2>2, <2>3, <2>4 DEF LinesInv
<1>6. CASE togglePause /\ paused
  <2> DEFINE t == buffer \o held
  <2>1. t \in Seq(Nat) /\ Len(t) = b + h
    BY <1>2, <1>4
  <2>2. /\ buffer' = Latest(t, MaxShown) /\ discarded' = discarded + Surplus(t, MaxShown)
        /\ held' = <<>> /\ UNCHANGED <<lost, cleared>>
    BY Zenon, <1>6 DEF togglePause, push
  <2>3. Ordered(Latest(t, MaxShown), <<>>, UnderWay, batcher.lines, written)
    BY <1>0, <1>4, Resumed
  <2> HIDE DEF t
  <2>4. PICK o \in Nat, p \in Nat : o = Surplus(t, MaxShown) /\ p = Len(buffer') /\ p + o = b + h
    <3>1. /\ Latest(t, MaxShown) \in Seq(Nat) /\ Surplus(t, MaxShown) \in Nat
          /\ Len(Latest(t, MaxShown)) + Surplus(t, MaxShown) = Len(t)
      BY Zenon, <1>0, <2>1, LatestIs
    <3> QED BY Zenon, <2>1, <2>2, <3>1, LenIsNat
  <2>5. LinesTyped' /\ (~paused' => held' = <<>>) /\ Len(held') = 0
    <3>1. buffer' \in Seq(Nat)
      BY Zenon, <1>0, <2>1, <2>2, LatestIs
    <3>2. discarded' \in Nat /\ held' \in Seq(Nat) /\ Len(held') = 0
      BY SMTT(60), <1>4, <2>2, <2>4
    <3> QED BY Zenon, <1>1, <2>2, <3>1, <3>2 DEF LinesInv, LinesTyped
  <2>6. Ordered(buffer, held, UnderWay, batcher.lines, written)'
    BY Zenon, <1>1, <2>2, <2>3
  <2>7. written = a + (k + p + 0 + (discarded + o) + lost + cleared)
    <3>1. p + o = b + h
      BY Zenon, <2>4
    <3>2. discarded \in Nat /\ lost \in Nat /\ cleared \in Nat
      BY Zenon, <1>4
    <3> QED BY <1>3, <3>1, <3>2
  <2>8. AtReader(chunks', buffer', held', discarded', lost', cleared')
          = k + p + 0 + (discarded + o) + lost + cleared
    BY Zenon, <1>1, <1>2, <2>2, <2>4, <2>5 DEF AtReader
  <2>9. EveryLineAccounted'
    BY Zenon, <1>1, <1>2, <2>5, <2>7, <2>8, Accounts
  <2> QED BY Zenon, <2>5, <2>6, <2>9 DEF LinesInv
<1>7. CASE clear
  <2>1. /\ cleared' = cleared + b + h + discarded + lost
        /\ buffer' = <<>> /\ held' = <<>> /\ discarded' = 0 /\ lost' = 0 /\ paused' = paused
    BY Zenon, <1>2, <1>7 DEF clear
  <2>2. /\ cleared' \in Nat /\ buffer' \in Seq(Nat) /\ held' \in Seq(Nat)
        /\ discarded' \in Nat /\ lost' \in Nat /\ Len(buffer') = 0 /\ Len(held') = 0
    BY <1>4, <2>1
  <2>3. LinesTyped' /\ (~paused' => held' = <<>>)
    BY Zenon, <1>1, <2>1, <2>2 DEF LinesInv, LinesTyped
  <2>4. Ordered(buffer, held, UnderWay, batcher.lines, written)'
    BY Zenon, <1>1, <1>4, <2>1, Emptied
  <2>5. written = a + (k + 0 + 0 + 0 + 0 + (cleared + b + h + discarded + lost))
    BY <1>3, <1>4
  <2>6. AtReader(chunks', buffer', held', discarded', lost', cleared')
          = k + 0 + 0 + 0 + 0 + (cleared + b + h + discarded + lost)
    BY Zenon, <1>1, <1>2, <2>1, <2>2 DEF AtReader
  <2>7. EveryLineAccounted'
    BY Zenon, <1>1, <1>2, <2>3, <2>5, <2>6, Accounts
  <2> QED BY Zenon, <2>3, <2>4, <2>7 DEF LinesInv
<1> QED BY Zenon, <1>5, <1>6, <1>7

-----------------------------------------------------------------------------
(* ShownInOrder, of the pieces W.                                             *)
InOrder(W) ==
  \A i, j \in DOMAIN W : \A m \in DOMAIN W[i], n \in DOMAIN W[j] :
    i < j \/ (i = j /\ m < n) => W[i][m] < W[j][n]

LEMMA OrderedIsShown ==
  ASSUME NEW b \in Seq(Nat), NEW h \in Seq(Nat), NEW l \in Seq(Nat), NEW M \in Seq(Seq(Nat)),
         NEW w \in Nat, NEW W, W = (<<b, h>> \o M) \o <<l>>, Ordered(b, h, M, l, w)
  PROVE  InOrder(W)
<1>1. /\ DOMAIN W = 1 .. Len(M) + 3 /\ W[1] = b /\ W[2] = h /\ W[Len(M) + 3] = l
      /\ \A i \in 1 .. Len(M) : W[i + 2] = M[i]
  <2> DEFINE T == {b, h, l} \cup Seq(Nat)
  <2>1. M \in Seq(T) /\ <<b, h>> \in Seq(T) /\ l \in T
    OBVIOUS
  <2>2. PICK P \in Seq(T) : P = <<b, h>> \o M
    <3>1. <<b, h>> \o M \in Seq(T)
      BY <2>1
    <3> QED BY Zenon, <3>1
  <2>3. Len(P) = Len(M) + 2 /\ P[1] = b /\ P[2] = h /\ \A i \in 1 .. Len(M) : P[i + 2] = M[i]
    BY <2>2
  <2> HIDE DEF T
  <2>4. \A s \in Seq(T) :
          /\ s \o <<l>> = Append(s, l) /\ Len(Append(s, l)) = Len(s) + 1
          /\ Append(s, l) \in Seq(T) /\ Append(s, l)[Len(s) + 1] = l
          /\ \A i \in 1 .. Len(s) : Append(s, l)[i] = s[i]
    BY <2>1
  <2>5. W = Append(P, l)
    BY Zenon, <2>2, <2>4
  <2>6. /\ Len(W) = Len(P) + 1 /\ W \in Seq(T) /\ W[Len(P) + 1] = l
        /\ \A i \in 1 .. Len(P) : W[i] = P[i]
    BY Zenon, <2>4, <2>5
  <2> QED BY <2>3, <2>6
<1>2. PICK k \in Nat : k = Len(M)
  OBVIOUS
<1>3. \A i \in DOMAIN W : i = 1 \/ i = 2 \/ i = k + 3 \/ \E x \in 1 .. k : i = x + 2
  <2> SUFFICES ASSUME NEW i \in 1 .. k + 3, i # 1, i # 2, i # k + 3
               PROVE  \E x \in 1 .. k : i = x + 2
    BY Zenon, <1>1, <1>2
  <2>1. i - 2 \in 1 .. k /\ i = (i - 2) + 2
    OBVIOUS
  <2> QED BY Zenon, <2>1
<1>4. \A i \in DOMAIN W : W[i] \in Seq(Nat) /\ Increasing(W[i])
  <2> TAKE i \in DOMAIN W
  <2>1. CASE i \in {1, 2, k + 3}
    BY Zenon, <1>1, <1>2, <2>1 DEF Ordered
  <2>2. ASSUME NEW x \in 1 .. k, i = x + 2
        PROVE  W[i] \in Seq(Nat) /\ Increasing(W[i])
    <3>1. M[x] \in Seq(Nat)
      BY <1>2
    <3> QED BY Zenon, <1>1, <1>2, <2>2, <3>1 DEF Ordered
  <2> QED BY Zenon, <1>3, <2>1, <2>2
<1>5. \A i, j \in DOMAIN W : i < j => Precedes(W[i], W[j])
  <2> SUFFICES ASSUME NEW i \in DOMAIN W, NEW j \in DOMAIN W, i < j
               PROVE  Precedes(W[i], W[j])
    BY Zenon
  <2>0. i \in 1 .. k + 3 /\ j \in 1 .. k + 3
    BY Zenon, <1>1, <1>2
  <2>1. CASE i = 1
    <3>1. j = 2 \/ j = k + 3 \/ \E x \in 1 .. k : j = x + 2
      <4>1. j # 1
        BY <2>0, <2>1
      <4> QED BY Zenon, <1>3, <4>1
    <3> QED BY Zenon, <1>1, <1>2, <2>1, <3>1 DEF Ordered
  <2>2. CASE i = 2
    <3>1. j = k + 3 \/ \E x \in 1 .. k : j = x + 2
      <4>1. j # 1 /\ j # 2
        BY <2>0, <2>2
      <4> QED BY Zenon, <1>3, <4>1
    <3> QED BY Zenon, <1>1, <1>2, <2>2, <3>1 DEF Ordered
  <2>3. i # k + 3
    BY <2>0
  <2>4. ASSUME NEW x \in 1 .. k, i = x + 2
        PROVE  Precedes(W[i], W[j])
    <3>1. j = k + 3 \/ \E y \in 1 .. k : j = y + 2 /\ x < y
      <4>1. j # 1 /\ j # 2
        BY SMTT(60), <2>0, <2>4
      <4>2. \A y \in 1 .. k : j = y + 2 => x < y
        BY <2>4
      <4> QED BY Zenon, <1>3, <4>1, <4>2
    <3> QED BY Zenon, <1>1, <1>2, <2>4, <3>1 DEF Ordered
  <2> QED BY Zenon, <1>3, <2>1, <2>2, <2>3, <2>4
<1> SUFFICES ASSUME NEW i \in DOMAIN W, NEW j \in DOMAIN W, NEW m \in DOMAIN W[i],
                    NEW n \in DOMAIN W[j], i < j \/ (i = j /\ m < n)
             PROVE  W[i][m] < W[j][n]
  BY Zenon DEF InOrder
<1>6. PICK s \in Seq(Nat) : s = W[i]
  BY Zenon, <1>4
<1>7. PICK t \in Seq(Nat) : t = W[j]
  BY Zenon, <1>4
<1>8. DOMAIN s = 1 .. Len(s) /\ DOMAIN t = 1 .. Len(t)
  OBVIOUS
<1>9. m \in 1 .. Len(s) /\ n \in 1 .. Len(t)
  BY Zenon, <1>6, <1>7, <1>8
<1>10. CASE i < j
  BY Zenon, <1>5, <1>6, <1>7, <1>9, <1>10 DEF Precedes
<1>11. CASE i = j /\ m < n
  BY Zenon, <1>4, <1>6, <1>7, <1>9, <1>11 DEF Increasing
<1> QED BY Zenon, <1>10, <1>11

(* A container's output reaches the reader in the order the agent read it,    *)
(* none of it twice, and every line that does not is in a count the reader is *)
(* shown: for any number of lines, any size of the batches, of the queue and  *)
(* of the tab's two buffers, and through pauses and clears (batcher.flush of  *)
(* the agent, append, push, release and clear of the tab).                    *)
THEOREM LinesHold == LogLinesSpec => []LinesReachTheReader
<1>1. LogLinesInit => LinesInv
  <2> SUFFICES ASSUME LogLinesInit PROVE LinesInv
    BY Zenon
  <2>1. LinesTyped /\ ~paused /\ held = <<>> /\ UnderWay = <<>>
    BY DEF LogLinesInit, LinesTyped, BatcherType, UnderWay, LinesOf
  <2>2. InBatches(queue) = 0 /\ InBatches(chunks) = 0
    BY Zenon, TotalOfNone DEF LogLinesInit
  <2>3. EveryLineAccounted
    BY <2>2 DEF LogLinesInit, EveryLineAccounted
  <2>4. Ordered(<<>>, <<>>, <<>>, <<>>, 0)
    BY DEF Ordered, Increasing, Precedes, Within
  <2>5. batcher.lines = <<>>
    BY DEF LogLinesInit
  <2> QED BY Zenon, <2>1, <2>3, <2>4, <2>5 DEF LinesInv, LogLinesInit
<1>2. LinesInv /\ [LogLinesNext]_lineVars => LinesInv'
  <2> SUFFICES ASSUME LinesInv, [LogLinesNext]_lineVars PROVE LinesInv'
    BY Zenon
  <2>1. CASE UNCHANGED lineVars
    <3>1. /\ UNCHANGED <<written, batcher, queue, chunks, seqOut>>
          /\ UNCHANGED <<buffer, held, paused, discarded, lost, cleared>>
      BY Zenon, <2>1 DEF lineVars
    <3> QED BY Zenon, <3>1 DEF LinesInv, LinesTyped, EveryLineAccounted, InBatches, UnderWay, LinesOf
  <2>2. CASE add \/ \E over \in BOOLEAN : readLogs(over)
    BY Zenon, <2>2, AgentLines
  <2> QED BY Zenon, <2>1, <2>2, EmitStep, AcceptStep, TabStep DEF LogLinesNext
<1>3. LinesInv => LinesReachTheReader
  <2> SUFFICES ASSUME LinesInv PROVE ShownInOrder
    BY Zenon DEF LinesInv, LinesReachTheReader
  <2>1. /\ buffer \in Seq(Nat) /\ held \in Seq(Nat) /\ batcher.lines \in Seq(Nat) /\ written \in Nat
    BY DEF LinesInv, LinesTyped, BatcherType
  <2>2. UnderWay \in Seq(Seq(Nat)) /\ LinesOf(chunks) \in Seq(Seq(Nat)) /\ LinesOf(queue) \in Seq(Seq(Nat))
    BY Zenon, UnderWayTyped DEF LinesInv
  <2>3. way = (<<buffer, held>> \o UnderWay) \o <<batcher.lines>>
    <3>1. \A A, B \in Seq(Seq(Nat)) : (<<buffer, held>> \o A) \o B = <<buffer, held>> \o (A \o B)
      BY SMTT(60), <2>1
    <3> QED BY Zenon, <2>2, <3>1 DEF way, UnderWay
  <2>4. Ordered(buffer, held, UnderWay, batcher.lines, written)
    BY Zenon DEF LinesInv
  <2>5. \A W : \A b, h, l \in Seq(Nat), M \in Seq(Seq(Nat)), w \in Nat :
          W = (<<b, h>> \o M) \o <<l>> /\ Ordered(b, h, M, l, w) => InOrder(W)
    BY ZenonT(60), OrderedIsShown
  <2>6. InOrder(way)
    BY Zenon, <2>1, <2>2, <2>3, <2>4, <2>5
  <2> QED BY Zenon, <2>6 DEF ShownInOrder, InOrder
<1> QED BY <1>1, <1>2, <1>3, PTL DEF LogLinesSpec

-----------------------------------------------------------------------------
(*****************************************************************************)
(* VERSION NUMBERS. For all versions.                                        *)
(*****************************************************************************)

(* Identifiers are in order.                                                  *)
LEMMA IdentifierOrder ==
  ASSUME NEW l \in Identifier, NEW m \in Identifier, NEW r \in Identifier
  PROVE  /\ compareIdentifier(l, m) \in {-1, 0, 1}
         /\ compareIdentifier(l, m) = -compareIdentifier(m, l)
         /\ compareIdentifier(l, m) = 0 <=> l = m
         /\ compareIdentifier(l, m) < 0 /\ compareIdentifier(m, r) < 0 => compareIdentifier(l, r) < 0
  BY DEF Identifier, compareIdentifier, Sign

(* The first place where two lists differ, and what it says of them.          *)
Differs(a, b, i) == i > Len(a) \/ i > Len(b) \/ a[i] # b[i]

FirstAt(a, b, i) ==
  /\ i \in Nat /\ i > 0 /\ (i <= Len(a) \/ i <= Len(b))
  /\ Differs(a, b, i) /\ \A j \in 1 .. i - 1 : ~Differs(a, b, j)

Verdict(a, b, i) ==
  IF i > Len(a) THEN -1 ELSE IF i > Len(b) THEN 1 ELSE compareIdentifier(a[i], b[i])

(* Two lists that are not the same differ somewhere first.                    *)
LEMMA FirstExists ==
  ASSUME NEW a \in Seq(Identifier), NEW b \in Seq(Identifier), a # b
  PROVE  \E i \in Nat : FirstAt(a, b, i)
<1> DEFINE T == {i \in Nat : i > 0 /\ (i <= Len(a) \/ i <= Len(b)) /\ Differs(a, b, i)}
<1>1. T # {}
  <2>1. CASE Len(a) = Len(b)
    <3>1. PICK i \in 1 .. Len(a) : a[i] # b[i]
      BY <2>1
    <3> QED BY <2>1, <3>1 DEF Differs
  <2>2. CASE Len(a) < Len(b)
    <3>1. Len(b) \in T
      BY <2>2 DEF Differs
    <3> QED BY Zenon, <3>1
  <2>3. CASE Len(b) < Len(a)
    <3>1. Len(a) \in T
      BY <2>3 DEF Differs
    <3> QED BY Zenon, <3>1
  <2> QED BY <2>1, <2>2, <2>3
<1>2. PICK i \in T : \A y \in T : i <= y
  <2>1. T \subseteq Nat
    OBVIOUS
  <2> QED BY Zenon, <1>1, <2>1, LeastOf
<1>3. \A j \in 1 .. i - 1 : ~Differs(a, b, j)
  <2> SUFFICES ASSUME NEW j \in 1 .. i - 1, Differs(a, b, j) PROVE FALSE
    OBVIOUS
  <2>1. j \in T /\ j < i
    BY <1>2
  <2> QED BY <1>2, <2>1
<1> QED BY <1>2, <1>3 DEF FirstAt

(* comparePrerelease goes by that place.                                      *)
LEMMA ComparedThere ==
  ASSUME NEW a \in Seq(Identifier), NEW b \in Seq(Identifier), a # <<>>, b # <<>>,
         NEW i, FirstAt(a, b, i)
  PROVE  comparePrerelease(a, b) = Verdict(a, b, i)
<1> DEFINE Top == Max({Len(a), Len(b)})
           D == {k \in 1 .. Top : k > Len(a) \/ k > Len(b) \/ compareIdentifier(a[k], b[k]) # 0}
<1>1. Top \in Nat /\ Len(a) <= Top /\ Len(b) <= Top
  BY DEF Max
<1>2. \A k \in 1 .. Top : k \in D <=> Differs(a, b, k)
  <2> TAKE k \in 1 .. Top
  <2>1. CASE k <= Len(a) /\ k <= Len(b)
    <3>1. a[k] \in Identifier /\ b[k] \in Identifier
      BY <1>1, <2>1
    <3> QED BY <1>1, <2>1, <3>1, IdentifierOrder DEF Differs
  <2>2. CASE k > Len(a) \/ k > Len(b)
    BY <1>1, <2>2 DEF Differs
  <2> QED BY <1>1, <2>1, <2>2
<1>4. D \subseteq 1 .. Top
  OBVIOUS
<1>5. comparePrerelease(a, b) = IF D = {} THEN 0 ELSE Verdict(a, b, Min(D))
  BY Zenon DEF comparePrerelease, Verdict
<1> HIDE DEF D, Top
<1>3. i \in D /\ \A k \in D : i <= k
  <2>1. i \in 1 .. Top /\ Differs(a, b, i)
    BY <1>1 DEF FirstAt
  <2>2. ASSUME NEW k \in D PROVE i <= k
    <3>1. k \in 1 .. Top /\ Differs(a, b, k)
      BY Zenon, <1>2, <1>4
    <3>2. \A j \in 1 .. i - 1 : j # k
      BY Zenon, <3>1 DEF FirstAt
    <3> QED BY <1>1, <2>1, <3>1, <3>2
  <2> QED BY Zenon, <1>2, <2>1, <2>2
<1>6. Min(D) = i
  <2>1. Min(D) \in D /\ \A k \in D : Min(D) <= k
    BY Zenon, <1>3 DEF Min
  <2>2. PICK n \in 1 .. Top : n = Min(D)
    BY Zenon, <1>4, <2>1
  <2>3. i \in 1 .. Top /\ n <= i /\ i <= n
    BY Zenon, <1>3, <1>4, <2>1, <2>2
  <2> QED BY <1>1, <2>2, <2>3
<1> QED BY Zenon, <1>3, <1>5, <1>6

(* So prerelease lists are in order.                                          *)
LEMMA SameList ==
  ASSUME NEW a \in Seq(Identifier)
  PROVE  comparePrerelease(a, a) = 0
<1>1. CASE a = <<>>
  BY <1>1 DEF comparePrerelease
<1>2. CASE a # <<>>
  <2> DEFINE D == {k \in 1 .. Max({Len(a), Len(a)}) :
                     k > Len(a) \/ k > Len(a) \/ compareIdentifier(a[k], a[k]) # 0}
  <2>1. Max({Len(a), Len(a)}) = Len(a)
    BY DEF Max
  <2>2. ASSUME NEW k \in 1 .. Len(a) PROVE compareIdentifier(a[k], a[k]) = 0
    <3>1. a[k] \in Identifier
      OBVIOUS
    <3> QED BY <3>1, IdentifierOrder
  <2>3. D = {}
    <3> SUFFICES ASSUME NEW k \in D PROVE FALSE
      BY Zenon
    <3>1. k \in 1 .. Len(a) /\ (k > Len(a) \/ compareIdentifier(a[k], a[k]) # 0)
      BY Zenon, <2>1
    <3> QED BY <2>2, <3>1
  <2> QED BY Zenon, <1>2, <2>3 DEF comparePrerelease
<1> QED BY <1>1, <1>2

LEMMA ListsDiffer ==
  ASSUME NEW a \in Seq(Identifier), NEW b \in Seq(Identifier), a # b
  PROVE  /\ comparePrerelease(a, b) \in {-1, 1}
         /\ comparePrerelease(a, b) = -comparePrerelease(b, a)
<1>1. CASE a = <<>> \/ b = <<>>
  BY <1>1 DEF comparePrerelease
<1>2. CASE a # <<>> /\ b # <<>>
  <2>1. PICK i \in Nat : FirstAt(a, b, i)
    BY Zenon, FirstExists
  <2>2. FirstAt(b, a, i)
    BY <2>1 DEF FirstAt, Differs
  <2>3. Verdict(a, b, i) \in {-1, 1} /\ Verdict(a, b, i) = -Verdict(b, a, i)
    <3>1. CASE i <= Len(a) /\ i <= Len(b)
      <4>1. a[i] \in Identifier /\ b[i] \in Identifier /\ a[i] # b[i]
        BY <2>1, <3>1 DEF FirstAt, Differs
      <4> QED BY <3>1, <4>1, IdentifierOrder DEF Verdict
    <3>2. CASE i > Len(a) \/ i > Len(b)
      BY <2>1, <3>2 DEF Verdict, FirstAt
    <3> QED BY SMTT(60), <3>1, <3>2
  <2> QED BY Zenon, <1>2, <2>1, <2>2, <2>3, ComparedThere
<1> QED BY Zenon, <1>1, <1>2

LEMMA ListsInOrder ==
  ASSUME NEW a \in Seq(Identifier), NEW b \in Seq(Identifier), NEW c \in Seq(Identifier),
         comparePrerelease(a, b) = -1, comparePrerelease(b, c) = -1
  PROVE  comparePrerelease(a, c) = -1
<1>0. a # b /\ b # c
  BY SMTT(60), SameList
<1>1. a # <<>> /\ b # <<>>
  BY SMTT(60), <1>0 DEF comparePrerelease
<1>2. CASE c = <<>>
  BY <1>1, <1>2 DEF comparePrerelease
<1>3. CASE c # <<>>
  <2>1. PICK i \in Nat : FirstAt(a, b, i) /\ Verdict(a, b, i) = -1
    BY ZenonT(60), <1>0, <1>1, FirstExists, ComparedThere
  <2>2. PICK k \in Nat : FirstAt(b, c, k) /\ Verdict(b, c, k) = -1
    BY ZenonT(60), <1>0, <1>1, <1>3, FirstExists, ComparedThere
  <2>3. i > Len(a) => i <= Len(b)
    BY <2>1 DEF FirstAt
  <2>4. k > Len(b) => k <= Len(c)
    BY <2>2 DEF FirstAt
  <2>5. i <= Len(a) => i <= Len(b) /\ a[i] # b[i] /\ compareIdentifier(a[i], b[i]) = -1
                       /\ a[i] \in Identifier /\ b[i] \in Identifier
    BY <2>1 DEF Verdict, FirstAt, Differs
  <2>6. k <= Len(b) => k <= Len(c) /\ b[k] # c[k] /\ compareIdentifier(b[k], c[k]) = -1
                       /\ b[k] \in Identifier /\ c[k] \in Identifier
    BY <2>2 DEF Verdict, FirstAt, Differs
  <2>7. PICK m \in Nat : FirstAt(a, c, m) /\ Verdict(a, c, m) = -1
    <3>1. CASE i < k
      <4>1. i <= Len(b) /\ i <= Len(c) /\ b[i] = c[i] /\ \A j \in 1 .. i - 1 : ~Differs(b, c, j)
        BY SMTT(60), <2>1, <2>2, <3>1 DEF FirstAt, Differs
      <4>2. FirstAt(a, c, i)
        BY SMTT(60), <2>1, <4>1 DEF FirstAt, Differs
      <4>3. Verdict(a, c, i) = -1
        BY <2>1, <4>1 DEF Verdict, FirstAt
      <4> QED BY Zenon, <4>2, <4>3
    <3>2. CASE k < i
      <4>1. k <= Len(a) /\ k <= Len(b) /\ a[k] = b[k] /\ \A j \in 1 .. k - 1 : ~Differs(a, b, j)
        BY SMTT(60), <2>1, <2>2, <3>2 DEF FirstAt, Differs
      <4>2. FirstAt(a, c, k)
        BY <2>2, <4>1 DEF FirstAt, Differs
      <4>3. Verdict(a, c, k) = -1
        BY <2>2, <4>1 DEF Verdict, FirstAt
      <4> QED BY Zenon, <4>2, <4>3
    <3>3. CASE i = k
      <4>0. i <= Len(b) /\ i <= Len(c)
        BY SMTT(60), <2>3, <2>5, <2>6, <3>3
      <4>1. \A j \in 1 .. i - 1 : ~Differs(a, c, j)
        BY SMTT(60), <2>1, <2>2, <3>3 DEF FirstAt, Differs
      <4>2. CASE i > Len(a)
        BY SMTT(60), <2>1, <4>0, <4>1, <4>2 DEF FirstAt, Differs, Verdict
      <4>3. CASE i <= Len(a)
        <5>1. compareIdentifier(a[i], c[i]) = -1
          BY SMTT(60), <2>5, <2>6, <3>3, <4>0, <4>3, IdentifierOrder
        <5>2. a[i] # c[i]
          BY <5>1, <2>5, <4>3, IdentifierOrder
        <5> QED BY SMTT(60), <2>1, <4>0, <4>1, <4>3, <5>1, <5>2 DEF FirstAt, Differs, Verdict
      <4> QED BY <4>2, <4>3
    <3> QED BY <3>1, <3>2, <3>3
  <2> QED BY Zenon, <1>1, <1>3, <2>7, ComparedThere
<1> QED BY Zenon, <1>2, <1>3

(* A longer list that begins with another is above it.                        *)
LEMMA LongerIsAbove ==
  ASSUME NEW a \in Seq(Identifier), NEW b \in Seq(Identifier), a # <<>>, BeginsWith(b, a)
  PROVE  comparePrerelease(a, b) = -1
<1> DEFINE i == Len(a) + 1
<1>1. FirstAt(a, b, i) /\ Verdict(a, b, i) = -1
  BY DEF FirstAt, Differs, Verdict, BeginsWith
<1>2. b # <<>>
  BY DEF BeginsWith
<1> QED BY Zenon, <1>1, <1>2, ComparedThere

(* The three parts of a core in order.                                        *)
LEMMA CoreOrder ==
  ASSUME NEW a \in Nat \X Nat \X Nat, NEW b \in Nat \X Nat \X Nat, NEW c \in Nat \X Nat \X Nat
  PROVE  /\ positional(a, b) \in Int
         /\ positional(a, b) = -positional(b, a)
         /\ positional(a, b) = 0 <=> a = b
         /\ positional(a, b) < 0 /\ positional(b, c) < 0 => positional(a, c) < 0
  BY DEF positional

(* Versions of any size, with candidates of any length, are in the order      *)
(* compareParsed promises: comparePrerelease's loop decides at the first      *)
(* place where two lists differ, and that place of two pairs is, or is before *)
(* that of the third.                                                         *)
THEOREM VersionsOrdered ==
  ASSUME NEW a \in ParsedVersion, NEW b \in ParsedVersion, NEW c \in ParsedVersion
  PROVE  OrderedAsVersions(a, b, c)
<1>0. /\ a.core \in Nat \X Nat \X Nat /\ b.core \in Nat \X Nat \X Nat /\ c.core \in Nat \X Nat \X Nat
      /\ a.prerelease \in Seq(Identifier) /\ b.prerelease \in Seq(Identifier)
      /\ c.prerelease \in Seq(Identifier)
  BY DEF ParsedVersion
<1>a. a = b <=> a.core = b.core /\ a.prerelease = b.prerelease
  <2> DEFINE S == Nat \X Nat \X Nat
             T == Seq(Identifier)
  <2>1. a \in [core : S, prerelease : T] /\ b \in [core : S, prerelease : T]
    BY Zenon DEF ParsedVersion
  <2> HIDE DEF S, T
  <2> QED BY <2>1
<1> DEFINE pre(x, y) == comparePrerelease(x.prerelease, y.prerelease)
           pos(x, y) == positional(x.core, y.core)
<1>1. \A x, y \in {a, b, c} : pre(x, y) \in {-1, 0, 1} /\ (pre(x, y) = 0 <=> x.prerelease = y.prerelease)
                              /\ pre(x, y) = -pre(y, x)
  <2> TAKE x, y \in {a, b, c}
  <2>1. x.prerelease \in Seq(Identifier) /\ y.prerelease \in Seq(Identifier)
    BY SMTT(60), <1>0
  <2>2. CASE x.prerelease = y.prerelease
    BY <2>1, <2>2, SameList
  <2>3. CASE x.prerelease # y.prerelease
    BY <2>1, <2>3, ListsDiffer
  <2> QED BY Zenon, <2>2, <2>3
<1>2. \A x, y \in {a, b, c} : pos(x, y) \in Int /\ pos(x, y) = -pos(y, x)
                              /\ (pos(x, y) = 0 <=> x.core = y.core)
  <2> TAKE x, y \in {a, b, c}
  <2>1. x.core \in Nat \X Nat \X Nat /\ y.core \in Nat \X Nat \X Nat
    BY Zenon, <1>0
  <2> QED BY Zenon, <2>1, CoreOrder
<1>3. pos(a, b) < 0 /\ pos(b, c) < 0 => pos(a, c) < 0
  BY Zenon, <1>0, CoreOrder
<1>4. pre(a, b) = -1 /\ pre(b, c) = -1 => pre(a, c) = -1
  BY Zenon, <1>0, ListsInOrder
<1>5. a.prerelease # <<>> /\ b.prerelease = <<>> => pre(a, b) = -1
  BY <1>0 DEF comparePrerelease
<1>6. a.prerelease # <<>> /\ BeginsWith(b.prerelease, a.prerelease) => pre(a, b) = -1
  BY Zenon, <1>0, LongerIsAbove
<1>7. \A x, y \in {a, b, c} :
        compareParsed(x, y) = IF pos(x, y) # 0 THEN Sign(pos(x, y)) ELSE Sign(pre(x, y))
  BY Zenon DEF compareParsed
<1>8. /\ a.core = b.core => pos(a, c) = pos(b, c)
      /\ b.core = c.core => pos(a, c) = pos(a, b)
  OBVIOUS
<1> HIDE DEF pre, pos
<1>9. compareParsed(a, b) = -compareParsed(b, a)
  BY <1>1, <1>2, <1>7 DEF Sign
<1>10. compareParsed(a, b) = 0 <=> a = b
  BY SMTT(60), <1>a, <1>1, <1>2, <1>7 DEF Sign
<1>11. compareParsed(a, b) < 0 /\ compareParsed(b, c) < 0 => compareParsed(a, c) < 0
  BY SMTT(60), <1>1, <1>2, <1>3, <1>4, <1>7, <1>8 DEF Sign
<1>12. a.core = b.core /\ pre(a, b) = -1 => compareParsed(a, b) < 0
  BY <1>2, <1>7 DEF Sign
<1> QED BY Zenon, <1>5, <1>6, <1>9, <1>10, <1>11, <1>12 DEF OrderedAsVersions
=============================================================================
