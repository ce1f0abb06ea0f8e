---------------------------- MODULE QueueTheorems ----------------------------
(* Facts about natural numbers and about counting in a queue, for the proofs *)
(* of the components.                                                        *)
EXTENDS Queues, FiniteSetsExt, FiniteSetTheorems, SequenceTheorems,
        WellFoundedInduction, TLAPS

(***************************************************************************)
(* Least elements, induction, the ends of a finite set of numbers.         *)
(***************************************************************************)

LEMMA Least ==
    ASSUME NEW T \in SUBSET Nat, T # {}
    PROVE  \E x \in T : \A y \in T : x <= y
<1> DEFINE R == {ss \in Nat \X Nat : ss[1] < ss[2]}
<1>1. IsWellFoundedOn(R, Nat)
    BY NatLessThanWellFounded DEF OpToRel
<1>2. PICK x \in T : \A y \in T : ~ (<<y, x>> \in R)
    BY <1>1, WFMin
<1>3. \A y \in T : y \in Nat /\ ~(y < x)
    BY <1>2
<1> QED
    BY <1>2, <1>3

\* Induction over the natural numbers, stated for a set.
LEMMA Induction ==
    ASSUME NEW S, 0 \in S, \A n \in Nat : n \in S => n + 1 \in S
    PROVE  Nat \subseteq S
<1> SUFFICES ASSUME Nat \ S # {}
             PROVE  FALSE
    OBVIOUS
<1>1. PICK x \in Nat \ S : \A y \in Nat \ S : x <= y
    BY Least
<1>2. x # 0 /\ x - 1 \in Nat
    OBVIOUS
<1>3. x - 1 \in S
    BY <1>1, <1>2
<1> QED
    BY <1>1, <1>2, <1>3

\* A recursive definition over 0 .. n, where f[i] is made of an earlier value.
Descends(pred, n) == pred \in [1 .. n -> Nat] /\ \A i \in 1 .. n : pred[i] < i
Obeys(f, n, S, base, pred, step) ==
    /\ f \in [0 .. n -> S]
    /\ f[0] = base
    /\ \A i \in 1 .. n : f[i] = step[<<i, f[pred[i]]>>]

LEMMA Recursion ==
    ASSUME NEW n \in Nat, NEW S, NEW base \in S, NEW pred, Descends(pred, n),
           NEW step \in [(1 .. n) \X S -> S]
    PROVE  \E f : Obeys(f, n, S, base, pred, step)
<1> USE DEF Descends, Obeys
<1> DEFINE Good(m, f) == Obeys(f, m, S, base, pred, step)
           P == {m \in Nat : m <= n => \E f : Good(m, f)}
<1>1. 0 \in P
  <2>1. Good(0, [i \in 0 .. 0 |-> base])
      OBVIOUS
  <2> QED
      BY <2>1
<1>2. ASSUME NEW m \in Nat, m \in P
      PROVE  m + 1 \in P
  <2> SUFFICES ASSUME m + 1 <= n
               PROVE  \E g : Good(m + 1, g)
      OBVIOUS
  <2>1. PICK f : Good(m, f)
      BY <1>2
  <2> DEFINE p == pred[m + 1]
             g == [i \in 0 .. m + 1 |-> IF i = m + 1 THEN step[<<m + 1, f[p]>>] ELSE f[i]]
  <2>2. m + 1 \in 1 .. n /\ p \in 0 .. m
      OBVIOUS
  <2>3. f \in [0 .. m -> S] /\ f[p] \in S
      BY <2>1, <2>2
  <2>4. step[<<m + 1, f[p]>>] \in S
      BY <2>2, <2>3
  <2>5. g \in [0 .. m + 1 -> S] /\ g[0] = base
      BY <2>1, <2>3, <2>4
  <2>6. ASSUME NEW i \in 1 .. m + 1
        PROVE  g[i] = step[<<i, g[pred[i]]>>]
    <3>1. CASE i = m + 1
      <4>1. g[p] = f[p]
          BY <2>2
      <4>2. g[i] = step[<<i, f[p]>>] /\ pred[i] = p
          BY <3>1
      <4> HIDE DEF g, p
      <4> QED
          BY <4>1, <4>2
    <3>2. CASE i # m + 1
      <4>1. i \in 1 .. m /\ i \in 1 .. n /\ pred[i] \in 0 .. m
          BY <3>2
      <4>2. g[i] = f[i] /\ g[pred[i]] = f[pred[i]]
          BY <4>1
      <4> QED
          BY <2>1, <4>1, <4>2
    <3> QED
        BY <3>1, <3>2
  <2>7. Good(m + 1, g)
      BY <2>5, <2>6
  <2> QED
      BY <2>7
<1>3. n \in P
  <2> HIDE DEF P
  <2> QED
      BY <1>1, <1>2, Induction
<1> QED
    BY <1>3

LEMMA MinIs ==
    ASSUME NEW T \in SUBSET Nat, T # {}
    PROVE  Min(T) \in T /\ \A y \in T : Min(T) <= y
BY Least DEF Min

LEMMA MaxIs ==
    ASSUME NEW n \in Nat, NEW T \in SUBSET (0 .. n), T # {}
    PROVE  Max(T) \in T /\ \A y \in T : Max(T) >= y
<1> DEFINE U == {n - y : y \in T}
<1>1. U \in SUBSET Nat /\ U # {}
  <2>1. \A y \in T : n - y \in Nat
      OBVIOUS
  <2> QED
      BY <2>1
<1>2. PICK u \in U : \A v \in U : u <= v
    BY <1>1, Least
<1>3. PICK x \in T : u = n - x
    BY <1>2
<1>4. \A y \in T : x >= y
  <2> TAKE y \in T
  <2>1. n - y \in U
      OBVIOUS
  <2>2. n - x <= n - y /\ x \in 0 .. n /\ y \in 0 .. n
      BY <1>2, <1>3, <2>1
  <2> QED
      BY <2>2
<1> QED
    BY <1>4 DEF Max

(***************************************************************************)
(* The elements of a queue that are in a set.                              *)
(***************************************************************************)

LEMMA AmongIs ==
    ASSUME NEW M, NEW s \in Seq(M), NEW S
    PROVE  /\ IsFiniteSet({i \in DOMAIN s : s[i] \in S})
           /\ Among(s, S) \in Nat
           /\ Among(s, S) # 0 <=> \E i \in DOMAIN s : s[i] \in S
<1>1. DOMAIN s = 1 .. Len(s) /\ Len(s) \in Nat
    OBVIOUS
<1>2. IsFiniteSet(1 .. Len(s))
    BY <1>1, FS_Interval
<1>3. IsFiniteSet({i \in DOMAIN s : s[i] \in S})
    BY <1>1, <1>2, FS_Subset
<1> QED
    BY <1>3, FS_CardinalityType, FS_EmptySet DEF Among

LEMMA AmongEmpty ==
    ASSUME NEW S
    PROVE  Among(<<>>, S) = 0
<1>1. {i \in DOMAIN <<>> : <<>>[i] \in S} = {}
    OBVIOUS
<1> QED
    BY <1>1, FS_EmptySet DEF Among

LEMMA AmongAppend ==
    ASSUME NEW M, NEW s \in Seq(M), NEW x \in M, NEW S
    PROVE  Among(Append(s, x), S) = Among(s, S) + One(x \in S)
<1> DEFINE t == Append(s, x)
           R == {i \in DOMAIN s : s[i] \in S}
           n == Len(s) + 1
<1>1. /\ DOMAIN s = 1 .. Len(s) /\ Len(s) \in Nat
      /\ DOMAIN t = 1 .. n
      /\ \A i \in 1 .. Len(s) : t[i] = s[i]
      /\ t[n] = x
    OBVIOUS
<1>2. IsFiniteSet(R) /\ Cardinality(R) \in Nat
    BY AmongIs, FS_CardinalityType
<1>3. n \notin R
    BY <1>1
<1>4. CASE x \in S
  <2>1. {i \in DOMAIN t : t[i] \in S} = R \cup {n}
      BY <1>1, <1>4
  <2>2. Cardinality(R \cup {n}) = Cardinality(R) + 1
      BY <1>2, <1>3, FS_AddElement
  <2>3. Among(t, S) = Cardinality(R) + 1 /\ Among(s, S) = Cardinality(R)
      BY <2>1, <2>2 DEF Among
  <2>4. One(x \in S) = 1
      BY <1>4 DEF One
  <2> QED
      BY <2>3, <2>4
<1>5. CASE x \notin S
  <2>1. {i \in DOMAIN t : t[i] \in S} = R
      BY <1>1, <1>5
  <2>2. Among(t, S) = Cardinality(R) /\ Among(s, S) = Cardinality(R)
      BY <2>1 DEF Among
  <2>3. One(x \in S) = 0
      BY <1>5 DEF One
  <2> HIDE DEF R, t
  <2> QED
      BY <1>2, <2>2, <2>3 DEF t
<1> QED
    BY <1>4, <1>5

LEMMA AmongTail ==
    ASSUME NEW M, NEW s \in Seq(M), s # <<>>, NEW S
    PROVE  Among(s, S) = Among(Tail(s), S) + One(Head(s) \in S)
<1> DEFINE t == Tail(s)
           R == {i \in DOMAIN t : t[i] \in S}
           T == {i \in DOMAIN s : s[i] \in S} \ {1}
<1>1. /\ t \in Seq(M)
      /\ DOMAIN s = 1 .. Len(s) /\ Len(s) \in Nat /\ Len(s) >= 1
      /\ DOMAIN t = 1 .. (Len(s) - 1)
      /\ \A i \in 1 .. (Len(s) - 1) : t[i] = s[i + 1]
      /\ s[1] = Head(s)
    OBVIOUS
<1>2. IsFiniteSet(R) /\ IsFiniteSet({i \in DOMAIN s : s[i] \in S})
    BY <1>1, AmongIs
<1>3. IsFiniteSet(T)
    BY <1>2, FS_RemoveElement
<1> DEFINE f == [i \in R |-> i + 1]
<1>4. f \in Bijection(R, T)
  <2>1. f \in [R -> T]
      BY <1>1
  <2>2. \A i, j \in R : f[i] = f[j] => i = j
      BY <1>1
  <2>3. \A j \in T : j - 1 \in R /\ f[j - 1] = j
      BY <1>1
  <2> QED
      BY <2>1, <2>2, <2>3 DEF Bijection, Injection, Surjection, IsInjective
<1>5. Cardinality(T) = Cardinality(R)
    BY <1>2, <1>4, FS_Bijection DEF ExistsBijection
<1>6. Cardinality(R) \in Nat
    BY <1>2, FS_CardinalityType
<1>7. CASE Head(s) \in S
  <2>1. {i \in DOMAIN s : s[i] \in S} = T \cup {1} /\ 1 \notin T
      BY <1>1, <1>7
  <2>2. Cardinality(T \cup {1}) = Cardinality(T) + 1
      BY <1>3, <2>1, FS_AddElement
  <2>3. Among(s, S) = Cardinality(R) + 1 /\ Among(t, S) = Cardinality(R)
      BY <1>5, <2>1, <2>2 DEF Among
  <2>4. One(Head(s) \in S) = 1
      BY <1>7 DEF One
  <2> QED
      BY <2>3, <2>4
<1>8. CASE Head(s) \notin S
  <2>1. {i \in DOMAIN s : s[i] \in S} = T
      BY <1>1, <1>8
  <2>2. Among(s, S) = Cardinality(R) /\ Among(t, S) = Cardinality(R)
      BY <1>5, <2>1 DEF Among
  <2>3. One(Head(s) \in S) = 0
      BY <1>8 DEF One
  <2> HIDE DEF R
  <2> QED
      BY <1>6, <2>2, <2>3
<1> QED
    BY <1>7, <1>8

(***************************************************************************)
(* The copies of a message in a queue.                                     *)
(***************************************************************************)

LEMMA WaitingAmong ==
    ASSUME NEW s, NEW m
    PROVE  Waiting(s, m) = Among(s, {m})
<1>1. {i \in DOMAIN s : s[i] = m} = {i \in DOMAIN s : s[i] \in {m}}
    OBVIOUS
<1> QED
    BY <1>1 DEF Waiting, Among

LEMMA WaitingIs ==
    ASSUME NEW M, NEW s \in Seq(M), NEW m
    PROVE  /\ IsFiniteSet({i \in DOMAIN s : s[i] = m})
           /\ Waiting(s, m) \in Nat
           /\ Waiting(s, m) # 0 => \E i \in DOMAIN s : s[i] = m
<1>1. {i \in DOMAIN s : s[i] = m} = {i \in DOMAIN s : s[i] \in {m}}
    OBVIOUS
<1>2. IsFiniteSet({i \in DOMAIN s : s[i] \in {m}})
    BY AmongIs
<1>3. Among(s, {m}) \in Nat /\ (Among(s, {m}) # 0 => \E i \in DOMAIN s : s[i] \in {m})
    BY AmongIs
<1> QED
    BY <1>1, <1>2, <1>3, WaitingAmong

LEMMA WaitingEmpty ==
    ASSUME NEW m
    PROVE  Waiting(<<>>, m) = 0
BY WaitingAmong, AmongEmpty

LEMMA WaitingAppend ==
    ASSUME NEW M, NEW s \in Seq(M), NEW x \in M, NEW m
    PROVE  Waiting(Append(s, x), m) = Waiting(s, m) + One(x = m)
<1>1. Among(Append(s, x), {m}) = Among(s, {m}) + One(x \in {m})
    BY AmongAppend
<1>2. One(x \in {m}) = One(x = m)
    BY DEF One
<1> QED
    BY <1>1, <1>2, WaitingAmong

LEMMA WaitingTail ==
    ASSUME NEW M, NEW s \in Seq(M), s # <<>>, NEW m
    PROVE  Waiting(s, m) = Waiting(Tail(s), m) + One(Head(s) = m)
<1>1. Among(s, {m}) = Among(Tail(s), {m}) + One(Head(s) \in {m})
    BY AmongTail
<1>2. One(Head(s) \in {m}) = One(Head(s) = m)
    BY DEF One
<1> QED
    BY <1>1, <1>2, WaitingAmong

LEMMA WaitingOnce ==
    ASSUME NEW M, NEW s \in Seq(M), NEW m,
           \A i, j \in DOMAIN s : s[i] = s[j] => i = j
    PROVE  Waiting(s, m) = One(\E i \in DOMAIN s : s[i] = m)
<1>1. CASE \E i \in DOMAIN s : s[i] = m
  <2>1. PICK i \in DOMAIN s : s[i] = m
      BY <1>1
  <2>2. {j \in DOMAIN s : s[j] = m} = {i}
      BY <2>1
  <2> QED
      BY <1>1, <2>2, FS_Singleton DEF Waiting, One
<1>2. CASE ~ \E i \in DOMAIN s : s[i] = m
  <2>1. {j \in DOMAIN s : s[j] = m} = {}
      BY <1>2
  <2> QED
      BY <1>2, <2>1, FS_EmptySet DEF Waiting, One
<1> QED
    BY <1>1, <1>2
=============================================================================
