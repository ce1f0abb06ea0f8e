----------------------------- MODULE YamlProofs -----------------------------
(* Theorems about Yaml.  The first half is about trees and paths, for any   *)
(* sequence of nodes: NodeAt and Paths are what At and PathsIn are for the  *)
(* variable `nodes'.                                                        *)
EXTENDS Yaml, QueueTheorems

\* The strings that occur.
Name == Names \cup {ToString(n) : n \in 0..MaxWidth}
          \cup {"logging", "client", "Sink", "Pool", NoKey, OtherKey,
                "YamlMappingValue", "YamlSequenceValue"}

Node == [parent : Nat, name : Name, type : Types, value : Name]
IsTree(ns) == ns \in Seq(Node) /\ \A i \in DOMAIN ns : ns[i].parent < i

Below(ns, n) == {i \in DOMAIN ns : ns[i].parent = n}
NamedIn(ns, n, name) == {i \in Below(ns, n) : ns[i].name = name}
FirstIn(ns, n, name) == IF NamedIn(ns, n, name) = {} THEN Missing ELSE Min(NamedIn(ns, n, name))
StepIn(ns, n, name) == IF n = Missing THEN Missing ELSE FirstIn(ns, n, name)

At(ns, path) ==
    LET at[i \in 0..Len(path)] ==
            IF i = 0 THEN 0
            ELSE IF at[i - 1] = Missing THEN Missing
            ELSE FirstIn(ns, at[i - 1], path[i])
    IN  at[Len(path)]

PathsIn(ns) ==
    LET path[i \in 0..Len(ns)] ==
            IF i = 0 THEN <<>> ELSE Append(path[ns[i].parent], ns[i].name)
    IN  path

LEMMA TreeIs ==
    /\ \A n, name : FirstNamed(n, name) = FirstIn(nodes, n, name)
    /\ \A path : NodeAt(path) = At(nodes, path)
    /\ Paths = PathsIn(nodes)
<1>1. \A n, name : FirstNamed(n, name) = FirstIn(nodes, n, name)
    BY DEF FirstNamed, FirstIn, Named, NamedIn, ChildrenOf, Below
<1>2. \A path : NodeAt(path) = At(nodes, path)
    BY DEF NodeAt, At, FirstNamed, FirstIn, Named, NamedIn, ChildrenOf, Below
<1>3. Paths = PathsIn(nodes)
    BY DEF Paths, PathsIn
<1> QED
    BY <1>1, <1>2, <1>3

Spots(ns) == {Missing} \cup (0 .. Len(ns))

LEMMA NamedTyped ==
    ASSUME NEW ns, IsTree(ns), NEW n, NEW name
    PROVE  /\ Len(ns) \in Nat /\ DOMAIN ns = 1 .. Len(ns)
           /\ NamedIn(ns, n, name) \subseteq 1 .. Len(ns)
           /\ NamedIn(ns, n, name) # {} =>
                 /\ FirstIn(ns, n, name) \in NamedIn(ns, n, name)
                 /\ \A j \in NamedIn(ns, n, name) : FirstIn(ns, n, name) <= j
           /\ FirstIn(ns, n, name) \in {Missing} \cup (1 .. Len(ns))
           /\ StepIn(ns, n, name) \in Spots(ns)
<1>1. Len(ns) \in Nat /\ DOMAIN ns = 1 .. Len(ns)
    BY DEF IsTree
<1>2. NamedIn(ns, n, name) \subseteq 1 .. Len(ns)
    BY <1>1 DEF NamedIn, Below
<1>3. NamedIn(ns, n, name) # {} =>
         /\ FirstIn(ns, n, name) \in NamedIn(ns, n, name)
         /\ \A j \in NamedIn(ns, n, name) : FirstIn(ns, n, name) <= j
  <2>1. NamedIn(ns, n, name) \in SUBSET Nat
      BY <1>1, <1>2
  <2> QED
      BY <2>1, MinIs DEF FirstIn
<1>4. FirstIn(ns, n, name) \in {Missing} \cup (1 .. Len(ns))
    BY <1>2, <1>3 DEF FirstIn
<1> QED
    BY <1>1, <1>2, <1>3, <1>4 DEF StepIn, Spots

LEMMA AtIs ==
    ASSUME NEW ns, IsTree(ns), NEW path \in Seq(Name)
    PROVE  \E at \in [0 .. Len(path) -> Spots(ns)] :
              /\ at[0] = 0
              /\ \A i \in 1 .. Len(path) : at[i] = StepIn(ns, at[i - 1], path[i])
              /\ At(ns, path) = at[Len(path)]
<1> DEFINE n == Len(path)
           S == Spots(ns)
           pred == [i \in 1 .. n |-> i - 1]
           step == [x \in (1 .. n) \X S |-> StepIn(ns, x[2], path[x[1]])]
<1>1. n \in Nat /\ 0 \in S
    BY NamedTyped DEF Spots
<1>2. step \in [(1 .. n) \X S -> S]
    BY NamedTyped
<1>3. Descends(pred, n)
    BY <1>1 DEF Descends
<1>4. \E f : Obeys(f, n, S, 0, pred, step)
  <2> HIDE DEF n, S, pred, step
  <2> QED
      BY <1>1, <1>2, <1>3, Recursion
<1>5. PICK f \in [0 .. n -> S] : f[0] = 0 /\ \A i \in 1 .. n : f[i] = step[<<i, f[pred[i]]>>]
    BY <1>4 DEF Obeys
<1>6. \A i \in 1 .. n : f[i] = StepIn(ns, f[i - 1], path[i])
  <2> TAKE i \in 1 .. n
  <2>1. f[pred[i]] = f[i - 1] /\ f[i - 1] \in S
      BY <1>1, <1>3, <1>5
  <2>2. f[i] = step[<<i, f[i - 1]>>]
      BY <1>5, <2>1
  <2> QED
      BY <2>1, <2>2
<1> DEFINE at[i \in 0..Len(path)] ==
               IF i = 0 THEN 0
               ELSE IF at[i - 1] = Missing THEN Missing
               ELSE FirstIn(ns, at[i - 1], path[i])
<1>7. f = [i \in 0 .. n |-> IF i = 0 THEN 0
                            ELSE IF f[i - 1] = Missing THEN Missing
                            ELSE FirstIn(ns, f[i - 1], path[i])]
  <2> DEFINE e(i) == IF i = 0 THEN 0
                     ELSE IF f[i - 1] = Missing THEN Missing
                     ELSE FirstIn(ns, f[i - 1], path[i])
  <2>1. \A i \in 0 .. n : f[i] = e(i)
    <3> TAKE i \in 0 .. n
    <3>1. i = 0 => f[i] = 0
        BY <1>5
    <3>2. i # 0 => i \in 1 .. n
        BY <1>1
    <3> HIDE DEF n
    <3> QED
        BY <1>6, <3>1, <3>2 DEF StepIn
  <2> HIDE DEF e
  <2>2. f = [i \in 0 .. n |-> e(i)]
      BY <1>5, <2>1
  <2> QED
      BY <2>2 DEF e
<1>8. at = [i \in 0 .. n |-> IF i = 0 THEN 0
                             ELSE IF at[i - 1] = Missing THEN Missing
                             ELSE FirstIn(ns, at[i - 1], path[i])]
    BY <1>7 DEF at
<1>9. At(ns, path) = at[n]
    BY DEF At
<1> HIDE DEF at
<1>10. /\ at[0] = 0 /\ DOMAIN at = 0 .. n
       /\ \A i \in 1 .. n : at[i] = StepIn(ns, at[i - 1], path[i])
  <2>1. DOMAIN at = 0 .. n /\ at[0] = 0
      BY <1>1, <1>8
  <2>2. \A i \in 1 .. n : i \in 0 .. n /\ i # 0
      BY <1>1
  <2>3. \A i \in 1 .. n : at[i] = IF at[i - 1] = Missing THEN Missing
                                   ELSE FirstIn(ns, at[i - 1], path[i])
      BY <1>8, <2>2
  <2> QED
      BY <2>1, <2>3 DEF StepIn
<1> HIDE DEF n, S
<1>11. \A i \in 0 .. n : at[i] \in S
  <2>1. \A i \in 1 .. n : at[i] \in S
      BY <1>10, NamedTyped DEF S
  <2>2. \A i \in 0 .. n : i = 0 \/ i \in 1 .. n
      BY <1>1
  <2> QED
      BY <1>1, <1>10, <2>1, <2>2
<1>12. at \in [0 .. n -> S]
  <2>1. at = [i \in 0 .. n |-> at[i]]
      BY <1>8, <1>10 DEF n
  <2> QED
      BY <2>1, <1>11
<1> QED
    BY <1>9, <1>10, <1>12 DEF n, S

LEMMA AtTyped ==
    ASSUME NEW ns, IsTree(ns), NEW path \in Seq(Name)
    PROVE  At(ns, path) \in Spots(ns)
<1>1. PICK at \in [0 .. Len(path) -> Spots(ns)] : At(ns, path) = at[Len(path)]
    BY AtIs
<1>2. Len(path) \in 0 .. Len(path)
    OBVIOUS
<1> QED
    BY <1>1, <1>2

LEMMA AtEmpty ==
    ASSUME NEW ns, IsTree(ns)
    PROVE  At(ns, <<>>) = 0
<1> DEFINE path == <<>>
<1>1. path \in Seq(Name) /\ Len(path) = 0
    OBVIOUS
<1> HIDE DEF path
<1>2. PICK at \in [0 .. Len(path) -> Spots(ns)] : at[0] = 0 /\ At(ns, path) = at[Len(path)]
    BY <1>1, AtIs
<1> QED
    BY <1>1, <1>2 DEF path

LEMMA AppendIs ==
    ASSUME NEW S, NEW p \in Seq(S), NEW x \in S
    PROVE  /\ Append(p, x) \in Seq(S) /\ Len(p) \in Nat
           /\ Len(Append(p, x)) = Len(p) + 1 /\ Append(p, x)[Len(p) + 1] = x
           /\ \A i \in 1 .. Len(p) : Append(p, x)[i] = p[i]
<1>1. \A q \in Seq(S), y \in S : Append(q, y) \in Seq(S)
    OBVIOUS
<1>2. Append(p, x) \in Seq(S)
    BY <1>1
<1>3. /\ Len(p) \in Nat /\ Len(Append(p, x)) = Len(p) + 1 /\ Append(p, x)[Len(p) + 1] = x
      /\ \A i \in 1 .. Len(p) : Append(p, x)[i] = p[i]
    OBVIOUS
<1> QED
    BY <1>2, <1>3

LEMMA AtAppend ==
    ASSUME NEW ns, IsTree(ns), NEW p \in Seq(Name), NEW x \in Name
    PROVE  /\ At(ns, Append(p, x)) = StepIn(ns, At(ns, p), x)
           /\ At(ns, p) \in Spots(ns)
<1> DEFINE q == Append(p, x)
           n == Len(p)
<1>1. /\ q \in Seq(Name) /\ n \in Nat /\ Len(q) = n + 1 /\ q[n + 1] = x
      /\ \A i \in 1 .. n : q[i] = p[i]
    BY AppendIs
<1>2. PICK at \in [0 .. n -> Spots(ns)] :
          /\ at[0] = 0
          /\ \A i \in 1 .. n : at[i] = StepIn(ns, at[i - 1], p[i])
          /\ At(ns, p) = at[n]
    BY AtIs
<1> HIDE DEF q, n
<1>3. PICK bt \in [0 .. Len(q) -> Spots(ns)] :
          /\ bt[0] = 0
          /\ \A i \in 1 .. Len(q) : bt[i] = StepIn(ns, bt[i - 1], q[i])
          /\ At(ns, q) = bt[Len(q)]
    BY <1>1, AtIs
<1> DEFINE T == {i \in Nat : i <= n => bt[i] = at[i]}
<1>4. 0 \in T
    BY <1>2, <1>3
<1>5. ASSUME NEW i \in Nat, i \in T
      PROVE  i + 1 \in T
  <2> SUFFICES ASSUME i + 1 <= n
               PROVE  bt[i + 1] = at[i + 1]
      OBVIOUS
  <2>1. i + 1 \in 1 .. n /\ i + 1 \in 1 .. Len(q) /\ (i + 1) - 1 = i /\ bt[i] = at[i]
      BY <1>1, <1>5
  <2>2. bt[i + 1] = StepIn(ns, bt[i], q[i + 1])
      BY <1>3, <2>1
  <2>3. at[i + 1] = StepIn(ns, at[i], p[i + 1])
      BY <1>2, <2>1
  <2> QED
      BY <1>1, <2>1, <2>2, <2>3
<1>6. Nat \subseteq T
  <2> HIDE DEF T
  <2> QED
      BY <1>4, <1>5, Induction
<1>7. bt[n] = at[n]
    BY <1>1, <1>6
<1>8. n + 1 \in 1 .. Len(q) /\ (n + 1) - 1 = n
    BY <1>1
<1>9. bt[n + 1] = StepIn(ns, bt[n], q[n + 1])
    BY <1>3, <1>8
<1>10. At(ns, p) \in Spots(ns)
    BY <1>1, <1>2
<1> QED
    BY <1>1, <1>2, <1>3, <1>7, <1>9, <1>10 DEF q

\* A path is empty, or it is a shorter one and a last element.
LEMMA ShorterPath ==
    ASSUME NEW p \in Seq(Name), p # <<>>
    PROVE  \E q \in Seq(Name), x \in Name : p = Append(q, x) /\ Len(p) = Len(q) + 1
<1> DEFINE n == Len(p) - 1
           q == [i \in 1 .. n |-> p[i]]
           x == p[Len(p)]
<1>1. n \in Nat /\ Len(p) \in Nat /\ Len(p) \in 1 .. Len(p) /\ DOMAIN p = 1 .. Len(p)
    OBVIOUS
<1>2. \A i \in 1 .. Len(p) : p[i] \in Name
    OBVIOUS
<1>3. x \in Name /\ \A i \in 1 .. n : p[i] \in Name
    BY <1>1, <1>2
<1>4. q \in Seq(Name) /\ Len(q) = n
    BY <1>1, <1>3
<1>5. p = Append(q, x)
    BY <1>1, <1>4
<1>6. Len(p) = Len(q) + 1
    BY <1>1, <1>4
<1> QED
    BY <1>3, <1>4, <1>5, <1>6

\* What holds for the empty path, and for a longer one if for the shorter.
LEMMA PathInduction ==
    ASSUME NEW P, <<>> \in P,
           \A q \in Seq(Name), x \in Name : q \in P => Append(q, x) \in P
    PROVE  Seq(Name) \subseteq P
<1> DEFINE T == {n \in Nat : \A p \in Seq(Name) : Len(p) = n => p \in P}
<1>1. 0 \in T
  <2>1. \A p \in Seq(Name) : Len(p) = 0 => p = <<>>
      OBVIOUS
  <2> QED
      BY <2>1
<1>2. ASSUME NEW n \in Nat, n \in T
      PROVE  n + 1 \in T
  <2> SUFFICES ASSUME NEW p \in Seq(Name), Len(p) = n + 1
               PROVE  p \in P
      OBVIOUS
  <2>1. p # <<>>
      OBVIOUS
  <2>2. PICK q \in Seq(Name), x \in Name : p = Append(q, x) /\ Len(p) = Len(q) + 1
      BY <2>1, ShorterPath
  <2>3. Len(q) = n
      BY <2>2
  <2> QED
      BY <1>2, <2>2, <2>3
<1>3. Nat \subseteq T
  <2> HIDE DEF T
  <2> QED
      BY <1>1, <1>2, Induction
<1>4. \A p \in Seq(Name) : Len(p) \in Nat
    OBVIOUS
<1> QED
    BY <1>3, <1>4

(* Each path is the one of the node above with one more name. *)
LEMMA PathsAre ==
    ASSUME NEW ns, IsTree(ns)
    PROVE  /\ PathsIn(ns) \in [0 .. Len(ns) -> Seq(Name)]
           /\ PathsIn(ns)[0] = <<>>
           /\ \A i \in 1 .. Len(ns) :
                 PathsIn(ns)[i] = Append(PathsIn(ns)[ns[i].parent], ns[i].name)
<1> DEFINE n == Len(ns)
           S == Seq(Name)
           none == <<>>
           pred == [i \in 1 .. n |-> ns[i].parent]
           step == [x \in (1 .. n) \X S |-> Append(x[2], ns[x[1]].name)]
<1>1. /\ n \in Nat /\ none \in S
      /\ \A i \in 1 .. n : ns[i].parent \in Nat /\ ns[i].parent < i /\ ns[i].name \in Name
  <2>1. n \in Nat /\ DOMAIN ns = 1 .. n
      BY DEF IsTree
  <2>2. none \in S
      OBVIOUS
  <2>3. \A i \in 1 .. n : ns[i] \in Node
      BY <2>1 DEF IsTree
  <2>4. \A e \in Node : e.parent \in Nat /\ e.name \in Name
      BY DEF Node
  <2> QED
      BY <2>1, <2>2, <2>3, <2>4 DEF IsTree
<1>2. step \in [(1 .. n) \X S -> S]
    BY <1>1
<1>3. Descends(pred, n)
    BY <1>1 DEF Descends
<1>4. \E f : Obeys(f, n, S, none, pred, step)
  <2> HIDE DEF n, S, none, pred, step
  <2> QED
      BY <1>1, <1>2, <1>3, Recursion
<1>5. PICK f \in [0 .. n -> S] : f[0] = <<>> /\ \A i \in 1 .. n : f[i] = step[<<i, f[pred[i]]>>]
    BY <1>4 DEF Obeys
<1>6. \A i \in 1 .. n : f[i] = Append(f[ns[i].parent], ns[i].name)
  <2> TAKE i \in 1 .. n
  <2>1. f[pred[i]] = f[ns[i].parent] /\ f[ns[i].parent] \in S
      BY <1>1, <1>5
  <2>2. f[i] = step[<<i, f[ns[i].parent]>>]
      BY <1>5, <2>1
  <2> QED
      BY <2>1, <2>2
<1> DEFINE path[i \in 0..Len(ns)] ==
               IF i = 0 THEN <<>> ELSE Append(path[ns[i].parent], ns[i].name)
<1>7. f = [i \in 0 .. n |-> IF i = 0 THEN <<>> ELSE Append(f[ns[i].parent], ns[i].name)]
  <2> DEFINE e(i) == IF i = 0 THEN <<>> ELSE Append(f[ns[i].parent], ns[i].name)
  <2>1. \A i \in 0 .. n : f[i] = e(i)
    <3> TAKE i \in 0 .. n
    <3>1. i = 0 => f[i] = <<>>
        BY <1>5
    <3>2. i # 0 => i \in 1 .. n
        BY <1>1
    <3> HIDE DEF n
    <3> QED
        BY <1>6, <3>1, <3>2
  <2> HIDE DEF e
  <2>2. f = [i \in 0 .. n |-> e(i)]
      BY <1>5, <2>1
  <2> QED
      BY <2>2 DEF e
<1>8. path = [i \in 0 .. n |-> IF i = 0 THEN <<>> ELSE Append(path[ns[i].parent], ns[i].name)]
    BY <1>7 DEF path
<1>9. PathsIn(ns) = path
    BY DEF PathsIn
<1> HIDE DEF path
<1>10. /\ path[0] = <<>> /\ DOMAIN path = 0 .. n
       /\ \A i \in 1 .. n : path[i] = Append(path[ns[i].parent], ns[i].name)
  <2>1. DOMAIN path = 0 .. n /\ path[0] = <<>>
      BY <1>1, <1>8
  <2>2. \A i \in 1 .. n : i \in 0 .. n /\ i # 0
      BY <1>1
  <2> QED
      BY <1>8, <2>1, <2>2
<1> DEFINE T == {k \in Nat : \A i \in 0 .. n : i <= k => path[i] \in S}
<1> HIDE DEF n
<1>11. 0 \in T
  <2>1. \A i \in 0 .. n : i <= 0 => i = 0
      OBVIOUS
  <2> QED
      BY <1>1, <1>10, <2>1
<1>12. ASSUME NEW k \in Nat, k \in T
       PROVE  k + 1 \in T
  <2> SUFFICES ASSUME NEW i \in 0 .. n, i <= k + 1
               PROVE  path[i] \in S
      OBVIOUS
  <2>1. CASE i <= k
      BY <1>12, <2>1
  <2>2. CASE i = k + 1
    <3>1. i \in 1 .. n
        BY <2>2
    <3>2. ns[i].parent \in 0 .. n /\ ns[i].parent <= k /\ ns[i].name \in Name
        BY <1>1, <2>2, <3>1
    <3>3. path[ns[i].parent] \in S
        BY <1>12, <3>2
    <3>4. Append(path[ns[i].parent], ns[i].name) \in S
        BY <3>2, <3>3, AppendIs
    <3> QED
        BY <1>10, <3>1, <3>4
  <2> QED
      BY <2>1, <2>2
<1>13. Nat \subseteq T
  <2> HIDE DEF T
  <2> QED
      BY <1>11, <1>12, Induction
<1>14. \A i \in 0 .. n : path[i] \in S
  <2>1. \A i \in 0 .. n : i \in Nat /\ i <= i
      BY <1>1
  <2>2. ASSUME NEW i \in 0 .. n
        PROVE  path[i] \in S
    <3>1. i \in T
      <4> HIDE DEF T
      <4> QED
          BY <1>13, <2>1
    <3> QED
        BY <2>1, <3>1
  <2> QED
      BY <2>2
<1>15. path \in [0 .. n -> S]
  <2>1. path = [i \in 0 .. n |-> path[i]]
      BY <1>8, <1>10 DEF n
  <2> HIDE DEF S
  <2> QED
      BY <2>1, <1>14
<1> QED
    BY <1>9, <1>10, <1>15 DEF n

\* A walk ends at the node whose path it took.
LEMMA LandsOn ==
    ASSUME NEW ns, IsTree(ns), NEW p \in Seq(Name), At(ns, p) # Missing
    PROVE  At(ns, p) \in 0 .. Len(ns) /\ PathsIn(ns)[At(ns, p)] = p
<1> DEFINE P == {q \in Seq(Name) : At(ns, q) # Missing => PathsIn(ns)[At(ns, q)] = q}
<1>1. <<>> \in P
  <2>1. <<>> \in Seq(Name)
      OBVIOUS
  <2> QED
      BY <2>1, AtEmpty, PathsAre
<1>2. ASSUME NEW q \in Seq(Name), NEW x \in Name, q \in P
      PROVE  Append(q, x) \in P
  <2>1. Append(q, x) \in Seq(Name)
      BY AppendIs
  <2> SUFFICES ASSUME At(ns, Append(q, x)) # Missing
               PROVE  PathsIn(ns)[At(ns, Append(q, x))] = Append(q, x)
      BY <2>1
  <2> DEFINE n == At(ns, q)
             j == FirstIn(ns, n, x)
  <2>2. At(ns, Append(q, x)) = StepIn(ns, n, x)
      BY AtAppend
  <2>3. n # Missing /\ At(ns, Append(q, x)) = j /\ j # Missing
      BY <2>2 DEF StepIn
  <2>4. PathsIn(ns)[n] = q
      BY <1>2, <2>3
  <2>5. j \in NamedIn(ns, n, x) /\ j \in 1 .. Len(ns)
    <3>1. NamedIn(ns, n, x) # {}
        BY <2>3 DEF FirstIn
    <3> HIDE DEF n
    <3> QED
        BY <2>3, <3>1, NamedTyped
  <2>6. ns[j].parent = n /\ ns[j].name = x
      BY <2>5 DEF NamedIn, Below
  <2> HIDE DEF n, j
  <2>7. PathsIn(ns)[j] = Append(PathsIn(ns)[ns[j].parent], ns[j].name)
      BY <2>5, PathsAre
  <2> QED
      BY <2>3, <2>4, <2>6, <2>7
<1>3. p \in P
  <2> HIDE DEF P
  <2> QED
      BY <1>1, <1>2, PathInduction
<1>4. At(ns, p) \in Spots(ns)
    BY AtTyped
<1> QED
    BY <1>3, <1>4 DEF Spots

-----------------------------------------------------------------------------
(* A tree with one more node. *)

Grows(ns, r, ms) ==
    /\ IsTree(ns)
    /\ r \in Node /\ r.parent <= Len(ns)
    /\ ms = Append(ns, r)

LEMMA GrownTree ==
    ASSUME NEW ns, NEW r, NEW ms, Grows(ns, r, ms)
    PROVE  /\ IsTree(ms) /\ Len(ns) \in Nat /\ Len(ms) = Len(ns) + 1
           /\ DOMAIN ns = 1 .. Len(ns) /\ DOMAIN ms = 1 .. (Len(ns) + 1)
           /\ \A i \in 1 .. Len(ns) : ms[i] = ns[i]
           /\ ms[Len(ns) + 1] = r
           /\ r.parent \in 0 .. Len(ns) /\ r.name \in Name
<1> DEFINE n == Len(ns)
<1>1. ns \in Seq(Node) /\ r \in Node /\ ms = Append(ns, r) /\ r.parent <= n
    BY DEF Grows, IsTree
<1>2. ms \in Seq(Node)
    BY <1>1, AppendIs
<1>3. /\ n \in Nat /\ Len(ms) = n + 1 /\ DOMAIN ns = 1 .. n /\ DOMAIN ms = 1 .. (n + 1)
      /\ \A i \in 1 .. n : ms[i] = ns[i]
      /\ ms[n + 1] = r
    BY <1>1
<1>4. r.parent \in 0 .. n /\ r.name \in Name
    BY <1>1, <1>3 DEF Node
<1> HIDE DEF n
<1>5. \A i \in 1 .. (n + 1) : ms[i].parent < i
  <2>1. \A i \in 1 .. n : ns[i].parent < i
      BY <1>3 DEF Grows, IsTree, n
  <2>2. \A i \in 1 .. (n + 1) : i \in 1 .. n \/ i = n + 1
      BY <1>3
  <2>3. r.parent < n + 1
      BY <1>3, <1>4
  <2> QED
      BY <1>3, <2>1, <2>2, <2>3
<1>6. IsTree(ms)
    BY <1>2, <1>3, <1>5 DEF IsTree
<1> QED
    BY <1>3, <1>4, <1>6 DEF n

LEMMA GrownPaths ==
    ASSUME NEW ns, NEW r, NEW ms, Grows(ns, r, ms)
    PROVE  /\ \A i \in 0 .. Len(ns) : PathsIn(ms)[i] = PathsIn(ns)[i]
           /\ PathsIn(ms)[Len(ns) + 1] = Append(PathsIn(ns)[r.parent], r.name)
<1> DEFINE n == Len(ns)
           T == {k \in Nat : \A i \in 0 .. n : i <= k => PathsIn(ms)[i] = PathsIn(ns)[i]}
<1>1. /\ IsTree(ns) /\ IsTree(ms) /\ n \in Nat /\ Len(ms) = n + 1
      /\ \A i \in 1 .. n : ms[i] = ns[i] /\ ns[i].parent \in Nat /\ ns[i].parent < i
      /\ ms[n + 1] = r /\ r.parent \in 0 .. n
  <2>1. IsTree(ns) /\ DOMAIN ns = 1 .. n
      BY GrownTree DEF Grows
  <2>2. \A i \in 1 .. n : ns[i] \in Node /\ ns[i].parent < i
      BY <2>1 DEF IsTree
  <2>3. \A e \in Node : e.parent \in Nat
      BY DEF Node
  <2> QED
      BY <2>1, <2>2, <2>3, GrownTree
<1>2. PathsIn(ms)[0] = <<>> /\ PathsIn(ns)[0] = <<>>
    BY <1>1, PathsAre
<1>3. /\ \A i \in 1 .. n : PathsIn(ns)[i] = Append(PathsIn(ns)[ns[i].parent], ns[i].name)
      /\ \A i \in 1 .. Len(ms) : PathsIn(ms)[i] = Append(PathsIn(ms)[ms[i].parent], ms[i].name)
    BY <1>1, PathsAre
<1> HIDE DEF n
<1>4. 0 \in T
  <2>1. \A i \in 0 .. n : i <= 0 => i = 0
      OBVIOUS
  <2> QED
      BY <1>2, <2>1
<1>5. ASSUME NEW k \in Nat, k \in T
      PROVE  k + 1 \in T
  <2> SUFFICES ASSUME NEW i \in 0 .. n, i <= k + 1
               PROVE  PathsIn(ms)[i] = PathsIn(ns)[i]
      OBVIOUS
  <2>1. CASE i <= k
      BY <1>5, <2>1
  <2>2. CASE i = k + 1
    <3>1. i \in 1 .. n /\ i \in 1 .. Len(ms)
        BY <1>1, <2>2
    <3>2. ns[i].parent \in 0 .. n /\ ns[i].parent <= k
        BY <1>1, <2>2, <3>1
    <3>3. PathsIn(ms)[ns[i].parent] = PathsIn(ns)[ns[i].parent]
        BY <1>5, <3>2
    <3>4. PathsIn(ms)[i] = Append(PathsIn(ms)[ms[i].parent], ms[i].name) /\ ms[i] = ns[i]
        BY <1>1, <1>3, <3>1
    <3>5. PathsIn(ns)[i] = Append(PathsIn(ns)[ns[i].parent], ns[i].name)
        BY <1>3, <3>1
    <3> QED
        BY <3>3, <3>4, <3>5
  <2> QED
      BY <2>1, <2>2
<1>6. \A i \in 0 .. n : PathsIn(ms)[i] = PathsIn(ns)[i]
  <2>1. Nat \subseteq T
    <3> HIDE DEF T
    <3> QED
        BY <1>4, <1>5, Induction
  <2>2. \A i \in 0 .. n : i \in Nat /\ i <= i
      BY <1>1
  <2>3. ASSUME NEW i \in 0 .. n
        PROVE  PathsIn(ms)[i] = PathsIn(ns)[i]
    <3>1. i \in T
      <4> HIDE DEF T
      <4> QED
          BY <2>1, <2>2
    <3> QED
        BY <2>2, <3>1
  <2> QED
      BY <2>3
<1>7. PathsIn(ms)[n + 1] = Append(PathsIn(ns)[r.parent], r.name)
  <2>1. n + 1 \in 1 .. Len(ms)
      BY <1>1
  <2> QED
      BY <1>1, <1>3, <1>6, <2>1
<1> QED
    BY <1>6, <1>7 DEF n

LEMMA GrownFirst ==
    ASSUME NEW ns, NEW r, NEW ms, Grows(ns, r, ms), NEW n, NEW x
    PROVE  /\ NamedIn(ns, n, x) # {} => FirstIn(ms, n, x) = FirstIn(ns, n, x)
           /\ NamedIn(ns, n, x) = {} =>
                 FirstIn(ms, n, x) = IF r.parent = n /\ r.name = x THEN Len(ns) + 1 ELSE Missing
<1> DEFINE N == Len(ns)
<1>1. /\ IsTree(ns) /\ IsTree(ms) /\ N \in Nat
      /\ DOMAIN ns = 1 .. N /\ DOMAIN ms = 1 .. (N + 1)
      /\ \A i \in 1 .. N : ms[i] = ns[i]
      /\ ms[N + 1] = r
  <2>1. IsTree(ns)
      BY DEF Grows
  <2> QED
      BY <2>1, GrownTree
<1> HIDE DEF N
<1>2. \A i \in 1 .. (N + 1) : i \in 1 .. N \/ i = N + 1
    BY <1>1
<1>3. \A i \in 1 .. N : i \in 1 .. (N + 1) /\ i < N + 1
    BY <1>1
<1>4. /\ \A i \in NamedIn(ns, n, x) : i \in NamedIn(ms, n, x) /\ i < N + 1 /\ i \in Nat
      /\ \A i \in NamedIn(ms, n, x) :
            i \in NamedIn(ns, n, x) \/ (i = N + 1 /\ r.parent = n /\ r.name = x)
      /\ r.parent = n /\ r.name = x => N + 1 \in NamedIn(ms, n, x)
  <2>1. N + 1 \in 1 .. (N + 1)
      BY <1>1
  <2> QED
      BY <1>1, <1>2, <1>3, <2>1 DEF NamedIn, Below
<1>5. CASE NamedIn(ns, n, x) # {}
  <2> DEFINE a == FirstIn(ns, n, x)
             b == FirstIn(ms, n, x)
  <2>1. a \in NamedIn(ns, n, x) /\ \A j \in NamedIn(ns, n, x) : a <= j
      BY <1>1, <1>5, NamedTyped
  <2>2. NamedIn(ms, n, x) # {}
      BY <1>4, <1>5
  <2>3. b \in NamedIn(ms, n, x) /\ \A j \in NamedIn(ms, n, x) : b <= j
      BY <1>1, <2>2, NamedTyped
  <2> HIDE DEF a, b
  <2>4. a \in Nat /\ a < N + 1 /\ b <= a
      BY <1>4, <2>1, <2>3
  <2>5. b \in NamedIn(ns, n, x) /\ b \in Nat
      BY <1>1, <1>4, <2>3, <2>4
  <2>6. a = b
      BY <2>1, <2>4, <2>5
  <2> QED
      BY <1>5, <2>6 DEF a, b
<1>6. CASE NamedIn(ns, n, x) = {} /\ r.parent = n /\ r.name = x
  <2>1. N + 1 \in NamedIn(ms, n, x) /\ \A i \in NamedIn(ms, n, x) : i = N + 1
      BY <1>4, <1>6
  <2>2. FirstIn(ms, n, x) \in NamedIn(ms, n, x)
      BY <1>1, <2>1, NamedTyped
  <2> QED
      BY <1>6, <2>1, <2>2 DEF N
<1>7. CASE NamedIn(ns, n, x) = {} /\ ~(r.parent = n /\ r.name = x)
  <2>1. NamedIn(ms, n, x) = {}
      BY <1>4, <1>7
  <2> QED
      BY <1>7, <2>1 DEF FirstIn
<1> QED
    BY <1>5, <1>6, <1>7

\* A new node takes no path from an older one.
LEMMA Stable ==
    ASSUME NEW ns, NEW r, NEW ms, Grows(ns, r, ms), NEW p \in Seq(Name)
    PROVE  At(ms, p) = At(ns, p) \/ (At(ns, p) = Missing /\ At(ms, p) = Len(ns) + 1)
<1> DEFINE N == Len(ns)
           Same(q) == At(ms, q) = At(ns, q) \/ (At(ns, q) = Missing /\ At(ms, q) = N + 1)
           P == {q \in Seq(Name) : Same(q)}
<1>1. IsTree(ns) /\ IsTree(ms) /\ N \in Nat /\ r.parent \in 0 .. N
    BY GrownTree DEF Grows
<1>2. <<>> \in P
  <2>1. <<>> \in Seq(Name)
      OBVIOUS
  <2> QED
      BY <1>1, <2>1, AtEmpty
<1> HIDE DEF N
<1>3. ASSUME NEW q \in Seq(Name), NEW x \in Name, q \in P
      PROVE  Append(q, x) \in P
  <2>1. Append(q, x) \in Seq(Name)
      BY AppendIs
  <2>2. /\ At(ns, Append(q, x)) = StepIn(ns, At(ns, q), x)
        /\ At(ms, Append(q, x)) = StepIn(ms, At(ms, q), x)
      BY <1>1, AtAppend
  <2>3. At(ns, q) \in Spots(ns)
      BY <1>1, AtAppend
  <2>4. CASE At(ns, q) = Missing /\ At(ms, q) = Missing
      BY <2>1, <2>2, <2>4 DEF StepIn
  <2>5. CASE At(ns, q) = Missing /\ At(ms, q) = N + 1
    <3>1. NamedIn(ns, N + 1, x) = {}
      <4>1. \A i \in DOMAIN ns : ns[i].parent # N + 1
        <5>1. ns \in Seq(Node) /\ DOMAIN ns = 1 .. N /\ \A i \in DOMAIN ns : ns[i].parent < i
            BY <1>1 DEF IsTree, N
        <5>2. \A i \in 1 .. N : ns[i] \in Node
            BY <5>1 DEF N
        <5>3. \A e \in Node : e.parent \in Nat
            BY DEF Node
        <5> QED
            BY <1>1, <5>1, <5>2, <5>3
      <4> QED
          BY <4>1 DEF NamedIn, Below
    <3>2. r.parent # N + 1
        BY <1>1
    <3>3. FirstIn(ms, N + 1, x) = Missing
        BY <3>1, <3>2, GrownFirst
    <3> QED
        BY <2>1, <2>2, <2>5, <3>3 DEF StepIn
  <2>6. CASE At(ns, q) # Missing /\ At(ms, q) = At(ns, q)
    <3> DEFINE n == At(ns, q)
    <3>1. At(ns, Append(q, x)) = FirstIn(ns, n, x) /\ At(ms, Append(q, x)) = FirstIn(ms, n, x)
        BY <2>2, <2>6 DEF StepIn
    <3> HIDE DEF n
    <3>2. FirstIn(ms, n, x) = FirstIn(ns, n, x)
          \/ (FirstIn(ns, n, x) = Missing /\ FirstIn(ms, n, x) = N + 1)
      <4>1. NamedIn(ns, n, x) = {} => FirstIn(ns, n, x) = Missing
          BY DEF FirstIn
      <4> QED
          BY <4>1, GrownFirst DEF N
    <3> QED
        BY <2>1, <3>1, <3>2
  <2> QED
      BY <1>3, <2>4, <2>5, <2>6
<1>4. p \in P
  <2> HIDE DEF P
  <2> QED
      BY <1>2, <1>3, PathInduction
<1> QED
    BY <1>4 DEF N

\* When the new node is found at its own path.
LEMMA NewReached ==
    ASSUME NEW ns, NEW r, NEW ms, Grows(ns, r, ms)
    PROVE  LET q == PathsIn(ns)[r.parent] IN
           /\ q \in Seq(Name) /\ Append(q, r.name) \in Seq(Name)
           /\ At(ms, Append(q, r.name)) = Len(ns) + 1
                 <=> At(ns, q) = r.parent /\ NamedIn(ns, r.parent, r.name) = {}
<1> DEFINE q == PathsIn(ns)[r.parent]
           N == Len(ns)
           x == r.name
<1>1. IsTree(ns) /\ IsTree(ms) /\ N \in Nat /\ r.parent \in 0 .. N /\ x \in Name
    BY GrownTree DEF Grows
<1>2. q \in Seq(Name) /\ Append(q, x) \in Seq(Name)
    BY <1>1, PathsAre, AppendIs
<1> HIDE DEF q
<1>3. /\ At(ms, Append(q, x)) = StepIn(ms, At(ms, q), x)
      /\ At(ns, q) \in Spots(ns)
    BY <1>1, <1>2, AtAppend
<1>4. At(ms, q) = At(ns, q) \/ (At(ns, q) = Missing /\ At(ms, q) = N + 1)
    BY <1>2, Stable
<1>5. ASSUME At(ns, q) = r.parent, NamedIn(ns, r.parent, x) = {}
      PROVE  At(ms, Append(q, x)) = N + 1
  <2>1. At(ms, q) = r.parent /\ r.parent # Missing
      BY <1>1, <1>4, <1>5 DEF Missing
  <2>2. FirstIn(ms, r.parent, x) = N + 1
      BY <1>5, GrownFirst
  <2> QED
      BY <1>3, <2>1, <2>2 DEF StepIn
<1>6. ASSUME At(ms, Append(q, x)) = N + 1
      PROVE  At(ns, q) = r.parent /\ NamedIn(ns, r.parent, x) = {}
  <2> DEFINE m == At(ms, q)
  <2>1. N + 1 # Missing
      BY <1>1 DEF Missing
  <2>2. m # Missing /\ FirstIn(ms, m, x) = N + 1
      BY <1>3, <1>6, <2>1 DEF StepIn
  <2>3. NamedIn(ns, m, x) = {}
    <3> SUFFICES ASSUME NamedIn(ns, m, x) # {}
                 PROVE  FALSE
        OBVIOUS
    <3>1. FirstIn(ms, m, x) = FirstIn(ns, m, x)
        BY GrownFirst
    <3>2. FirstIn(ns, m, x) \in {Missing} \cup (1 .. N)
        BY <1>1, NamedTyped
    <3> QED
        BY <1>1, <2>1, <2>2, <3>1, <3>2
  <2>4. r.parent = m
      BY <2>1, <2>2, <2>3, GrownFirst
  <2>5. At(ns, q) = m
      BY <1>1, <1>4, <2>4
  <2> QED
      BY <2>3, <2>4, <2>5
<1> QED
    BY <1>2, <1>5, <1>6 DEF q

-----------------------------------------------------------------------------
(* The open collections and the nodes they stand for. *)

Entry == [kind : {"MAPPING", "SEQUENCE"}, key : Name, count : 0 .. MaxWidth,
          path : Seq(Name), reached : BOOLEAN]

LevelIs(ns, e, a) ==
    /\ a \in 1 .. Len(ns)
    /\ ns[a].type = e.kind
    /\ PathsIn(ns)[a] = e.path
    /\ e.reached <=> At(ns, e.path) = a
    /\ e.kind = "SEQUENCE" => e.key = NoKey /\ e.count = Cardinality(Below(ns, a))

StackIs(ns, cur, op, anc) ==
    /\ anc \in Seq(Nat) /\ Len(anc) = Len(op)
    /\ \A j \in 1 .. Len(op) : LevelIs(ns, op[j], anc[j])
    /\ \A j \in 1 .. Len(op) : ns[anc[j]].parent = IF j = 1 THEN 0 ELSE anc[j - 1]
    /\ \A j \in 1 .. Len(op) : j # Len(op) => op[j].key = NoKey
    /\ \A j, k \in 1 .. Len(op) : j < k => anc[j] < anc[k]
    /\ cur = IF Len(op) = 0 THEN 0 ELSE anc[Len(op)]

\* The innermost collection has one more element, or one more pair.
UsedUp(op, op2) ==
    /\ op2 \in Seq(Entry) /\ Len(op2) = Len(op)
    /\ \A j \in 1 .. Len(op) : j # Len(op) => op2[j] = op[j]
    /\ Len(op) # 0 =>
          /\ op2[Len(op)].kind = op[Len(op)].kind
          /\ op2[Len(op)].path = op[Len(op)].path
          /\ op2[Len(op)].reached = op[Len(op)].reached
          /\ op2[Len(op)].key = NoKey
          /\ op2[Len(op)].count = op[Len(op)].count + 1

LEMMA BelowIs ==
    ASSUME NEW ns, IsTree(ns), NEW a
    PROVE  /\ IsFiniteSet(Below(ns, a)) /\ Cardinality(Below(ns, a)) \in Nat
           /\ Cardinality(Below(ns, a)) <= Len(ns) /\ Len(ns) \in Nat
<1> DEFINE D == 1 .. Len(ns)
<1>1. Len(ns) \in Nat /\ DOMAIN ns = D
    BY DEF IsTree
<1>2. IsFiniteSet(D) /\ Cardinality(D) = Len(ns)
  <2>1. Len(ns) >= 1 \/ Len(ns) = 0
      BY <1>1
  <2> QED
      BY <1>1, <2>1, FS_Interval
<1>3. Below(ns, a) \subseteq D
    BY <1>1 DEF Below
<1> HIDE DEF D
<1> QED
    BY <1>1, <1>2, <1>3, FS_Subset, FS_CardinalityType

LEMMA GrownBelow ==
    ASSUME NEW ns, NEW r, NEW ms, Grows(ns, r, ms), NEW a
    PROVE  /\ Cardinality(Below(ms, a)) = Cardinality(Below(ns, a)) + One(r.parent = a)
           /\ a = Len(ns) + 1 => Cardinality(Below(ms, a)) = 0
<1> DEFINE N == Len(ns)
<1>1. /\ IsTree(ns) /\ IsTree(ms) /\ N \in Nat
      /\ DOMAIN ns = 1 .. N /\ DOMAIN ms = 1 .. (N + 1)
      /\ \A i \in 1 .. N : ms[i] = ns[i]
      /\ ms[N + 1] = r /\ r.parent \in 0 .. N
  <2>1. IsTree(ns)
      BY DEF Grows
  <2> QED
      BY <2>1, GrownTree
<1> HIDE DEF N
<1>2. \A i \in 1 .. (N + 1) : i \in 1 .. N \/ i = N + 1
    BY <1>1
<1>3. N + 1 \in 1 .. (N + 1) /\ N + 1 \notin 1 .. N /\ \A i \in 1 .. N : i \in 1 .. (N + 1)
    BY <1>1
<1>4. IsFiniteSet(Below(ns, a)) /\ Cardinality(Below(ns, a)) \in Nat
    BY <1>1, BelowIs
<1>5. CASE r.parent = a
  <2>1. Below(ms, a) = Below(ns, a) \cup {N + 1}
      BY <1>1, <1>2, <1>3, <1>5 DEF Below
  <2>2. N + 1 \notin Below(ns, a)
      BY <1>1, <1>3 DEF Below
  <2>3. Cardinality(Below(ms, a)) = Cardinality(Below(ns, a)) + 1
      BY <1>4, <2>1, <2>2, FS_AddElement
  <2>4. a # N + 1
      BY <1>1, <1>5
  <2> QED
      BY <1>5, <2>3, <2>4 DEF One, N
<1>6. CASE r.parent # a
  <2>1. Below(ms, a) = Below(ns, a)
      BY <1>1, <1>2, <1>3, <1>6 DEF Below
  <2>2. ASSUME a = N + 1
        PROVE  Below(ns, a) = {}
    <3>1. ns \in Seq(Node) /\ \A i \in 1 .. N : ns[i].parent < i
        BY <1>1 DEF IsTree
    <3>2. \A i \in 1 .. N : ns[i] \in Node
        BY <1>1, <3>1 DEF N
    <3>3. \A e \in Node : e.parent \in Nat
        BY DEF Node
    <3>4. \A i \in 1 .. N : ns[i].parent # N + 1
        BY <1>1, <3>1, <3>2, <3>3
    <3> QED
        BY <1>1, <2>2, <3>4 DEF Below
  <2>3. Cardinality({}) = 0
      BY FS_EmptySet
  <2>4. a = N + 1 => Cardinality(Below(ms, a)) = 0
      BY <2>1, <2>2, <2>3
  <2>5. One(r.parent = a) = 0
      BY <1>6 DEF One
  <2>6. Cardinality(Below(ms, a)) = Cardinality(Below(ns, a)) + One(r.parent = a)
      BY <1>4, <2>1, <2>5
  <2> QED
      BY <2>4, <2>6 DEF N
<1> QED
    BY <1>5, <1>6

LEMMA LevelKept ==
    ASSUME NEW ns, NEW r, NEW ms, Grows(ns, r, ms),
           NEW e \in Entry, NEW f \in Entry, NEW a \in Nat, LevelIs(ns, e, a),
           f.kind = e.kind, f.path = e.path, f.reached = e.reached,
           f.kind = "SEQUENCE" => f.key = NoKey /\ f.count = e.count + One(r.parent = a)
    PROVE  LevelIs(ms, f, a)
<1> DEFINE p == e.path
<1>1. p \in Seq(Name)
    BY DEF Entry
<1>2. /\ Len(ns) \in Nat /\ Len(ms) = Len(ns) + 1
      /\ \A i \in 1 .. Len(ns) : ms[i] = ns[i]
    BY GrownTree
<1> HIDE DEF p
<1>3. a \in 1 .. Len(ns) /\ a \in 1 .. Len(ms) /\ a \in 0 .. Len(ns) /\ a # Missing /\ a # Len(ns) + 1
    BY <1>2 DEF LevelIs, Missing
<1>4. ms[a].type = f.kind
    BY <1>2, <1>3 DEF LevelIs
<1>5. PathsIn(ms)[a] = f.path
    BY <1>3, GrownPaths DEF LevelIs
<1>6. At(ms, p) = a <=> At(ns, p) = a
    BY <1>1, <1>3, Stable
<1>7. f.reached <=> At(ms, f.path) = a
    BY <1>6 DEF LevelIs, p
<1>8. f.kind = "SEQUENCE" => f.key = NoKey /\ f.count = Cardinality(Below(ms, a))
    BY GrownBelow DEF LevelIs
<1> QED
    BY <1>3, <1>4, <1>5, <1>7, <1>8 DEF LevelIs

LEMMA NewLevel ==
    ASSUME NEW ns, NEW r, NEW ms, Grows(ns, r, ms), NEW e \in Entry,
           e.kind = r.type, e.key = NoKey, e.count = 0,
           e.path = PathsIn(ms)[Len(ns) + 1],
           e.reached <=> At(ms, e.path) = Len(ns) + 1
    PROVE  LevelIs(ms, e, Len(ns) + 1)
<1>1. /\ Len(ns) \in Nat /\ Len(ms) = Len(ns) + 1 /\ ms[Len(ns) + 1] = r
    BY GrownTree
<1>2. Cardinality(Below(ms, Len(ns) + 1)) = 0
    BY GrownBelow
<1> QED
    BY <1>1, <1>2 DEF LevelIs

LEMMA GrownStack ==
    ASSUME NEW ns, NEW r, NEW ms, Grows(ns, r, ms),
           NEW op \in Seq(Entry), NEW op2, UsedUp(op, op2),
           NEW anc, StackIs(ns, r.parent, op, anc)
    PROVE  /\ StackIs(ms, r.parent, op2, anc)
           /\ \A j \in 1 .. Len(op2) : op2[j].key = NoKey /\ anc[j] < Len(ns) + 1
<1> DEFINE L == Len(op)
<1>1. /\ L \in Nat /\ anc \in Seq(Nat) /\ Len(anc) = L
      /\ op2 \in Seq(Entry) /\ Len(op2) = L
      /\ \A j \in 1 .. L : op[j] \in Entry /\ op2[j] \in Entry /\ anc[j] \in Nat
    BY DEF UsedUp, StackIs
<1>2. /\ Len(ns) \in Nat /\ \A i \in 1 .. Len(ns) : ms[i] = ns[i]
    BY GrownTree
<1>3. \A j \in 1 .. L : LevelIs(ns, op[j], anc[j])
    BY DEF StackIs
<1>4. \A j \in 1 .. L : One(r.parent = anc[j]) = One(j = L)
  <2>1. \A j \in 1 .. L : r.parent = anc[L] /\ L \in 1 .. L
      BY <1>1 DEF StackIs
  <2>2. \A j \in 1 .. L : j # L => anc[j] < anc[L]
      BY <1>1 DEF StackIs
  <2>3. \A j \in 1 .. L : r.parent = anc[j] <=> j = L
      BY <1>1, <2>1, <2>2
  <2> HIDE DEF L
  <2> QED
      BY <2>3 DEF One
<1>5. ASSUME NEW j \in 1 .. L
      PROVE  LevelIs(ms, op2[j], anc[j])
  <2> DEFINE e == op[j]
             f == op2[j]
             a == anc[j]
  <2>1. e \in Entry /\ f \in Entry /\ a \in Nat /\ LevelIs(ns, e, a)
      BY <1>1, <1>3, <1>5
  <2>2. e.count \in Nat
      BY <2>1 DEF Entry
  <2>3. f.kind = e.kind /\ f.path = e.path /\ f.reached = e.reached
      BY <1>5 DEF UsedUp
  <2>4. f.kind = "SEQUENCE" => f.key = NoKey /\ f.count = e.count + One(r.parent = a)
    <3>1. CASE j = L
        BY <1>1, <1>4, <1>5, <3>1 DEF UsedUp, One
    <3>2. CASE j # L
      <4>1. f = e /\ One(r.parent = a) = 0
          BY <1>4, <1>5, <3>2 DEF UsedUp, One
      <4> HIDE DEF e, f, a
      <4>2. e.kind = "SEQUENCE" => e.key = NoKey
          BY <2>1 DEF LevelIs
      <4> QED
          BY <2>2, <4>1, <4>2
    <3> QED
        BY <3>1, <3>2
  <2> HIDE DEF e, f, a
  <2>5. LevelIs(ms, f, a)
      BY <2>1, <2>3, <2>4, LevelKept
  <2> QED
      BY <2>5 DEF f, a
<1>6. \A j \in 1 .. L : ms[anc[j]].parent = IF j = 1 THEN 0 ELSE anc[j - 1]
  <2>1. \A j \in 1 .. L : anc[j] \in 1 .. Len(ns)
      BY <1>3 DEF LevelIs
  <2>2. \A j \in 1 .. L : ns[anc[j]].parent = IF j = 1 THEN 0 ELSE anc[j - 1]
      BY DEF StackIs
  <2> QED
      BY <1>2, <2>1, <2>2
<1>7. \A j \in 1 .. L : op2[j].key = NoKey
  <2>1. \A j \in 1 .. L : j # L => op2[j].key = NoKey
      BY DEF UsedUp, StackIs
  <2>2. L # 0 => op2[L].key = NoKey
      BY DEF UsedUp
  <2> QED
      BY <1>1, <2>1, <2>2
<1>8. \A j \in 1 .. L : anc[j] < Len(ns) + 1
    BY <1>2, <1>3 DEF LevelIs
<1>9. /\ \A j, k \in 1 .. L : j < k => anc[j] < anc[k]
      /\ r.parent = IF L = 0 THEN 0 ELSE anc[L]
    BY DEF StackIs
<1> HIDE DEF L
<1>10. StackIs(ms, r.parent, op2, anc)
    BY <1>1, <1>5, <1>6, <1>7, <1>9 DEF StackIs
<1> QED
    BY <1>1, <1>7, <1>8, <1>10

\* The node that a new collection is goes on top.
LEMMA PushedStack ==
    ASSUME NEW ns, NEW cur, NEW op \in Seq(Entry), NEW anc, StackIs(ns, cur, op, anc),
           NEW n \in Nat, NEW e \in Entry, LevelIs(ns, e, n), ns[n].parent = cur,
           \A j \in 1 .. Len(op) : op[j].key = NoKey /\ anc[j] < n
    PROVE  StackIs(ns, n, Append(op, e), Append(anc, n))
<1> DEFINE L == Len(op)
           o == Append(op, e)
           b == Append(anc, n)
<1>1. /\ L \in Nat /\ anc \in Seq(Nat) /\ Len(anc) = L
      /\ o \in Seq(Entry) /\ Len(o) = L + 1 /\ o[L + 1] = e
      /\ \A j \in 1 .. L : o[j] = op[j]
    BY AppendIs DEF StackIs
<1>2. /\ b \in Seq(Nat) /\ Len(b) = L + 1 /\ b[L + 1] = n
      /\ \A j \in 1 .. L : b[j] = anc[j]
    BY <1>1, AppendIs
<1> HIDE DEF o, b
<1>3. /\ \A j \in 1 .. L : LevelIs(ns, op[j], anc[j])
      /\ \A j \in 1 .. L : ns[anc[j]].parent = IF j = 1 THEN 0 ELSE anc[j - 1]
      /\ \A j, k \in 1 .. L : j < k => anc[j] < anc[k]
      /\ cur = IF L = 0 THEN 0 ELSE anc[L]
    BY DEF StackIs
<1>4. \A j \in 1 .. L : op[j].key = NoKey /\ anc[j] < n
    OBVIOUS
<1> HIDE DEF L
<1>5. \A j \in 1 .. (L + 1) : j \in 1 .. L \/ j = L + 1
    BY <1>1
<1>6. \A j \in 1 .. (L + 1) : LevelIs(ns, o[j], b[j])
    BY <1>1, <1>2, <1>3, <1>5
<1>7. ASSUME NEW j \in 1 .. (L + 1)
      PROVE  ns[b[j]].parent = IF j = 1 THEN 0 ELSE b[j - 1]
  <2>1. CASE j \in 1 .. L
    <3>1. b[j] = anc[j] /\ (j # 1 => b[j - 1] = anc[j - 1])
        BY <1>1, <1>2, <2>1
    <3> QED
        BY <1>3, <2>1, <3>1
  <2>2. CASE j = L + 1
    <3>1. b[j] = n /\ (L = 0 <=> j = 1) /\ j - 1 = L
        BY <1>1, <1>2, <2>2
    <3>2. L # 0 => b[L] = anc[L]
        BY <1>1, <1>2
    <3> QED
        BY <1>3, <3>1, <3>2
  <2> QED
      BY <1>5, <2>1, <2>2
<1>8. \A j \in 1 .. (L + 1) : j # L + 1 => o[j].key = NoKey
    BY <1>1, <1>4, <1>5
<1>9. \A j, k \in 1 .. (L + 1) : j < k => b[j] < b[k]
  <2> TAKE j, k \in 1 .. (L + 1)
  <2> HAVE j < k
  <2>1. j \in 1 .. L /\ b[j] = anc[j]
      BY <1>1, <1>2
  <2>2. CASE k \in 1 .. L
      BY <1>2, <1>3, <2>1, <2>2
  <2>3. CASE k = L + 1
      BY <1>2, <1>4, <2>1, <2>3
  <2> QED
      BY <1>5, <2>2, <2>3
<1>10. n = IF L + 1 = 0 THEN 0 ELSE b[L + 1]
    BY <1>1, <1>2
<1>11. StackIs(ns, n, o, b)
    BY <1>1, <1>2, <1>6, <1>7, <1>8, <1>9, <1>10 DEF StackIs
<1> QED
    BY <1>11 DEF o, b

LEMMA FrontIs ==
    ASSUME NEW S, NEW s \in Seq(S), s # <<>>
    PROVE  /\ Front(s) \in Seq(S) /\ Len(s) \in Nat /\ Len(s) >= 1
           /\ Len(Front(s)) = Len(s) - 1 /\ Last(s) = s[Len(s)] /\ Last(s) \in S
           /\ \A j \in 1 .. (Len(s) - 1) : Front(s)[j] = s[j]
<1>1. Len(s) \in Nat /\ Len(s) >= 1 /\ \A j \in 1 .. Len(s) : s[j] \in S
    OBVIOUS
<1>2. Front(s) = [j \in 1 .. (Len(s) - 1) |-> s[j]]
    BY <1>1 DEF Front
<1>3. \A j \in 1 .. (Len(s) - 1) : s[j] \in S
    BY <1>1
<1> QED
    BY <1>1, <1>2, <1>3 DEF Last

\* A collection that ends leaves the one around it, for which no key waits.
LEMMA PoppedStack ==
    ASSUME NEW ns, IsTree(ns), NEW cur, NEW op \in Seq(Entry), op # <<>>, NEW anc, StackIs(ns, cur, op, anc)
    PROVE  /\ StackIs(ns, ns[cur].parent, Front(op), Front(anc))
           /\ cur \in 1 .. Len(ns)
           /\ \A j \in 1 .. Len(Front(op)) : Front(op)[j].key = NoKey
<1> DEFINE L == Len(op)
           o == Front(op)
           b == Front(anc)
<1>1. L \in Nat /\ L >= 1 /\ anc \in Seq(Nat) /\ Len(anc) = L /\ anc # <<>>
    BY DEF StackIs
<1>2. /\ o \in Seq(Entry) /\ Len(o) = L - 1 /\ b \in Seq(Nat) /\ Len(b) = L - 1
      /\ \A j \in 1 .. (L - 1) : o[j] = op[j] /\ b[j] = anc[j]
    BY <1>1, FrontIs
<1> HIDE DEF o, b
<1>3. /\ \A j \in 1 .. L : LevelIs(ns, op[j], anc[j])
      /\ \A j \in 1 .. L : ns[anc[j]].parent = IF j = 1 THEN 0 ELSE anc[j - 1]
      /\ \A j, k \in 1 .. L : j < k => anc[j] < anc[k]
      /\ \A j \in 1 .. L : j # L => op[j].key = NoKey
      /\ cur = IF L = 0 THEN 0 ELSE anc[L]
    BY DEF StackIs
<1> HIDE DEF L
<1>4. \A j \in 1 .. (L - 1) : j \in 1 .. L /\ j # L
    BY <1>1
<1>5. L \in 1 .. L /\ cur = anc[L]
    BY <1>1, <1>3
<1>6. cur \in 1 .. Len(ns)
    BY <1>3, <1>5 DEF LevelIs
<1>7. /\ \A j \in 1 .. (L - 1) : LevelIs(ns, o[j], b[j])
      /\ \A j \in 1 .. (L - 1) : o[j].key = NoKey
      /\ \A j, k \in 1 .. (L - 1) : j < k => b[j] < b[k]
    BY <1>2, <1>3, <1>4
<1>8. ASSUME NEW j \in 1 .. (L - 1)
      PROVE  ns[b[j]].parent = IF j = 1 THEN 0 ELSE b[j - 1]
  <2>1. b[j] = anc[j] /\ (j # 1 => b[j - 1] = anc[j - 1])
      BY <1>1, <1>2
  <2> QED
      BY <1>3, <1>4, <2>1
<1>9. ns[cur].parent = IF L - 1 = 0 THEN 0 ELSE b[L - 1]
  <2>1. ns[cur].parent = IF L = 1 THEN 0 ELSE anc[L - 1]
      BY <1>3, <1>5
  <2>2. L # 1 => b[L - 1] = anc[L - 1]
      BY <1>1, <1>2
  <2> QED
      BY <1>1, <2>1, <2>2
<1>10. StackIs(ns, ns[cur].parent, o, b)
    BY <1>2, <1>7, <1>8, <1>9 DEF StackIs
<1> QED
    BY <1>2, <1>6, <1>7, <1>10 DEF o, b

\* A key waits at the innermost collection, a mapping.
LEMMA KeyedStack ==
    ASSUME NEW ns, NEW cur, NEW op \in Seq(Entry), op # <<>>, NEW anc, StackIs(ns, cur, op, anc),
           op[Len(op)].kind = "MAPPING",
           NEW op2, op2 \in Seq(Entry), Len(op2) = Len(op),
           \A j \in 1 .. Len(op) : j # Len(op) => op2[j] = op[j],
           op2[Len(op)].kind = op[Len(op)].kind,
           op2[Len(op)].path = op[Len(op)].path,
           op2[Len(op)].reached = op[Len(op)].reached
    PROVE  StackIs(ns, cur, op2, anc)
<1> DEFINE L == Len(op)
<1>1. L \in Nat /\ L \in 1 .. L /\ Len(op2) = L
    OBVIOUS
<1>2. \A j \in 1 .. L : LevelIs(ns, op[j], anc[j])
    BY DEF StackIs
<1> HIDE DEF L
<1>3. LevelIs(ns, op2[L], anc[L])
    BY <1>1, <1>2 DEF LevelIs, L
<1>4. \A j \in 1 .. L : LevelIs(ns, op2[j], anc[j])
    BY <1>2, <1>3 DEF L
<1> QED
    BY <1>1, <1>4 DEF StackIs, L

-----------------------------------------------------------------------------
(* What the document says, and what is found in the tree. *)

\* What is said at a path is the value of the node found there.
Found(ns, said) ==
    \A p \in DOMAIN said :
        /\ p \in Seq(Name) /\ p # <<>>
        /\ At(ns, p) \in 1 .. Len(ns)
        /\ ns[At(ns, p)].value = said[p]

\* What is found is said.
OnlySaid(ns, said) ==
    \A i \in 1 .. Len(ns) : At(ns, PathsIn(ns)[i]) = i => PathsIn(ns)[i] \in DOMAIN said

LEMMA FoundKept ==
    ASSUME NEW ns, NEW r, NEW ms, Grows(ns, r, ms), NEW said, Found(ns, said)
    PROVE  Found(ms, said)
<1> SUFFICES ASSUME NEW p \in DOMAIN said
             PROVE  /\ p \in Seq(Name) /\ p # <<>>
                    /\ At(ms, p) \in 1 .. Len(ms)
                    /\ ms[At(ms, p)].value = said[p]
    BY DEF Found
<1> DEFINE a == At(ns, p)
<1>1. p \in Seq(Name) /\ p # <<>> /\ a \in 1 .. Len(ns) /\ ns[a].value = said[p]
    BY DEF Found
<1>2. /\ Len(ns) \in Nat /\ Len(ms) = Len(ns) + 1
      /\ \A i \in 1 .. Len(ns) : ms[i] = ns[i]
    BY GrownTree
<1> HIDE DEF a
<1>3. a # Missing /\ a \in 1 .. Len(ms)
    BY <1>1, <1>2 DEF Missing
<1>4. At(ms, p) = a
    BY <1>1, <1>3, Stable DEF a
<1> QED
    BY <1>1, <1>2, <1>3, <1>4

\* A new node is what its path leads to when nothing was found there before.
LEMMA FirstIsReached ==
    ASSUME NEW ns, NEW r, NEW ms, Grows(ns, r, ms),
           NEW said, Found(ns, said), OnlySaid(ns, said)
    PROVE  LET q == PathsIn(ns)[r.parent]
               p == PathsIn(ms)[Len(ns) + 1]
           IN  /\ p = Append(q, r.name) /\ p \in Seq(Name) /\ p # <<>>
               /\ At(ms, p) = Len(ns) + 1 <=> At(ns, q) = r.parent /\ p \notin DOMAIN said
<1> DEFINE q == PathsIn(ns)[r.parent]
           p == PathsIn(ms)[Len(ns) + 1]
           x == r.name
           N == Len(ns)
<1>1. IsTree(ns) /\ N \in Nat /\ r.parent \in 0 .. N /\ x \in Name
  <2>1. IsTree(ns)
      BY DEF Grows
  <2> QED
      BY <2>1, GrownTree
<1>2. p = Append(q, x)
    BY GrownPaths
<1>3. /\ q \in Seq(Name) /\ p \in Seq(Name)
      /\ At(ms, p) = N + 1 <=> At(ns, q) = r.parent /\ NamedIn(ns, r.parent, x) = {}
    BY <1>2, NewReached
<1> HIDE DEF p, q, x, N
<1>4. p # <<>>
    BY <1>1, <1>2, <1>3, AppendIs
<1>5. ASSUME At(ns, q) = r.parent
      PROVE  NamedIn(ns, r.parent, x) = {} <=> p \notin DOMAIN said
  <2>1. At(ns, p) = FirstIn(ns, r.parent, x)
    <3>1. At(ns, p) = StepIn(ns, r.parent, x)
        BY <1>1, <1>2, <1>3, <1>5, AtAppend
    <3>2. r.parent # Missing
        BY <1>1 DEF Missing
    <3> QED
        BY <3>1, <3>2 DEF StepIn
  <2>2. ASSUME NamedIn(ns, r.parent, x) = {}, p \in DOMAIN said
        PROVE  FALSE
    <3>1. At(ns, p) = Missing
        BY <2>1, <2>2 DEF FirstIn
    <3>2. At(ns, p) \in 1 .. N
        BY <2>2 DEF Found, N
    <3> QED
        BY <1>1, <3>1, <3>2 DEF Missing
  <2>3. ASSUME NamedIn(ns, r.parent, x) # {}
        PROVE  p \in DOMAIN said
    <3>1. At(ns, p) \in 1 .. N
        BY <1>1, <2>1, <2>3, NamedTyped DEF N
    <3>2. At(ns, p) # Missing
        BY <1>1, <3>1 DEF Missing
    <3>3. PathsIn(ns)[At(ns, p)] = p
        BY <1>1, <1>3, <3>2, LandsOn
    <3> QED
        BY <3>1, <3>3 DEF OnlySaid, N
  <2> QED
      BY <2>2, <2>3
<1> QED
    BY <1>2, <1>3, <1>4, <1>5 DEF p, q, x, N

LEMMA SaidGrows ==
    ASSUME NEW ns, NEW r, NEW ms, Grows(ns, r, ms),
           NEW said, Found(ns, said), OnlySaid(ns, said), NEW said2,
           LET p == PathsIn(ms)[Len(ns) + 1]
           IN  said2 = IF At(ms, p) = Len(ns) + 1
                       THEN [path \in DOMAIN said \cup {p} |->
                                IF path \in DOMAIN said THEN said[path] ELSE r.value]
                       ELSE said
    PROVE  Found(ms, said2) /\ OnlySaid(ms, said2)
<1> DEFINE p == PathsIn(ms)[Len(ns) + 1]
           N == Len(ns)
<1>1. /\ IsTree(ns) /\ IsTree(ms) /\ N \in Nat /\ Len(ms) = N + 1 /\ ms[N + 1] = r
      /\ \A i \in 1 .. N : PathsIn(ms)[i] = PathsIn(ns)[i]
  <2>1. IsTree(ns)
      BY DEF Grows
  <2>2. N \in Nat
      BY GrownTree
  <2> QED
      BY <2>1, <2>2, GrownTree, GrownPaths
<1>2. p \in Seq(Name) /\ p # <<>>
    BY FirstIsReached
<1>3. Found(ms, said)
    BY FoundKept
<1>4. PathsIn(ms)[N + 1] = p
    OBVIOUS
<1>5. /\ At(ms, p) = N + 1 =>
            said2 = [path \in DOMAIN said \cup {p} |->
                        IF path \in DOMAIN said THEN said[path] ELSE r.value]
      /\ At(ms, p) # N + 1 => said2 = said
    OBVIOUS
<1> HIDE DEF p, N
<1>6. DOMAIN said \subseteq DOMAIN said2
    BY <1>5
<1>7. Found(ms, said2)
  <2>1. CASE At(ms, p) = N + 1
    <3>1. \A s \in DOMAIN said2 : s \in DOMAIN said \/ s = p
        BY <1>5, <2>1
    <3>2. \A s \in DOMAIN said : said2[s] = said[s]
        BY <1>5, <2>1
    <3>3. p \notin DOMAIN said => said2[p] = r.value
        BY <1>5, <2>1
    <3>4. At(ms, p) \in 1 .. Len(ms) /\ ms[At(ms, p)].value = r.value
        BY <1>1, <2>1
    <3> QED
        BY <1>2, <1>3, <3>1, <3>2, <3>3, <3>4 DEF Found
  <2>2. CASE At(ms, p) # N + 1
      BY <1>3, <1>5, <2>2
  <2> QED
      BY <2>1, <2>2
<1>8. OnlySaid(ms, said2)
  <2> SUFFICES ASSUME NEW i \in 1 .. Len(ms), At(ms, PathsIn(ms)[i]) = i
               PROVE  PathsIn(ms)[i] \in DOMAIN said2
      BY DEF OnlySaid
  <2>1. CASE i = N + 1
      BY <1>4, <1>5, <2>1
  <2>2. CASE i # N + 1
    <3> DEFINE s == PathsIn(ns)[i]
    <3>1. i \in 1 .. N
        BY <1>1, <2>2
    <3>2. s \in Seq(Name) /\ s = PathsIn(ms)[i]
      <4>1. i \in 0 .. N
          BY <1>1, <3>1
      <4> QED
          BY <1>1, <3>1, <4>1, PathsAre DEF N
    <3> HIDE DEF s
    <3>3. At(ms, s) = i
        BY <3>2
    <3>4. At(ns, s) = i
        BY <2>2, <3>2, <3>3, Stable DEF N
    <3>5. s \in DOMAIN said
        BY <3>1, <3>4 DEF OnlySaid, s, N
    <3> QED
        BY <1>6, <3>2, <3>5
  <2> QED
      BY <2>1, <2>2
<1> QED
    BY <1>7, <1>8

-----------------------------------------------------------------------------
(* The invariant. *)

TreeInv ==
    /\ pc \in {"ctor", "file", "builtIn", "constructed", "logger", "aborted"}
    /\ IsTree(nodes)
    /\ \A i \in 1 .. Len(nodes) : nodes[i].parent # 0 => nodes[nodes[i].parent].type # "VALUE"
    /\ \A i \in 1 .. Len(nodes) : nodes[i].name \in Names
    /\ current \in 0 .. Len(nodes)
    /\ current # 0 => nodes[current].type # "VALUE"
    /\ prevWasKey \in BOOLEAN
    /\ keyName \in {""} \cup Scalars
    /\ logger.pool \in Int
    /\ open \in Seq(Entry) /\ Len(open) <= MaxOpen
    /\ odd \in BOOLEAN
    /\ events \in 0 .. MaxEvents /\ Len(nodes) <= events

\* The nodes from the root to current are the collections that are open.
StackInv ==
    pc \in {"file", "builtIn"} /\ ~odd =>
        /\ \E anc : StackIs(nodes, current, open, anc)
        /\ prevWasKey <=> Role = "value"
        /\ prevWasKey => keyName = Top.key

SaidInv ==
    /\ Found(nodes, denoted)
    /\ ~odd => OnlySaid(nodes, denoted)

LEMMA NamesTyped ==
    /\ {"", "logging", "client", "Sink", "Pool", NoKey, OtherKey,
        "YamlMappingValue", "YamlSequenceValue"} \subseteq Name
    /\ Names \subseteq Name /\ Scalars \subseteq Names /\ "" \in Names
    /\ \A d \in 1 .. MaxOpen : Keys[d] \subseteq Scalars /\ NoKey \notin Keys[d]
    /\ \A d \in 0 .. MaxOpen : Texts[d] \subseteq Scalars
    /\ \A n \in 0 .. MaxEvents : ToString(n) \in Names
    /\ \A n \in 0 .. MaxWidth : ToString(n) \in Name
    /\ MaxEvents \in Nat /\ MaxWidth \in Nat /\ MaxOpen \in Nat
<1>1. {"", "logging", "client", "Sink", "Pool", NoKey, OtherKey,
       "YamlMappingValue", "YamlSequenceValue"} \subseteq Name
    BY DEF Name, Names
<1>2. /\ DOMAIN Keys = 1 .. MaxOpen /\ DOMAIN Texts = 0 .. MaxOpen
      /\ NoKey \notin UNION Range(Keys)
      /\ MaxEvents \in Nat /\ MaxWidth \in Nat /\ MaxOpen \in Nat
    BY YamlAssumption
<1>3. /\ \A d \in 1 .. MaxOpen : Keys[d] \subseteq UNION Range(Keys)
      /\ \A d \in 0 .. MaxOpen : Texts[d] \subseteq UNION Range(Texts)
  <2>1. \A d \in 1 .. MaxOpen : Keys[d] \in Range(Keys)
      BY <1>2 DEF Range
  <2>2. \A d \in 0 .. MaxOpen : Texts[d] \in Range(Texts)
      BY <1>2 DEF Range
  <2> QED
      BY <2>1, <2>2
<1>4. /\ \A n \in 0 .. MaxEvents : ToString(n) \in Names
      /\ \A n \in 0 .. MaxWidth : ToString(n) \in Name
    BY DEF Name, Names
<1>5. Names \subseteq Name /\ Scalars \subseteq Names /\ "" \in Names
    BY DEF Name, Names
<1> QED
    BY <1>1, <1>2, <1>3, <1>4, <1>5 DEF Scalars

LEMMA EntryTyped ==
    \A e \in Entry : /\ e.kind \in {"MAPPING", "SEQUENCE"} /\ e.key \in Name
                     /\ e.count \in 0 .. MaxWidth /\ e.path \in Seq(Name)
                     /\ e.reached \in BOOLEAN
BY DEF Entry

Replaced(s, i, e) == [s EXCEPT ![i] = e]

LEMMA ReplacedIs ==
    ASSUME NEW S, NEW s \in Seq(S), NEW i \in 1 .. Len(s), NEW e \in S
    PROVE  LET t == Replaced(s, i, e)
           IN  /\ t \in Seq(S) /\ Len(t) = Len(s) /\ t[i] = e
               /\ \A j \in 1 .. Len(s) : j # i => t[j] = s[j]
BY DEF Replaced

\* What Advanced leaves of the open collections.
LEMMA AdvancedIs ==
    ASSUME TreeInv, open # <<>> => Top.count < MaxWidth, NEW key \in Name
    PROVE  LET op2 == Advanced(key)
               L == Len(open)
           IN  /\ op2 \in Seq(Entry) /\ Len(op2) = L
               /\ \A j \in 1 .. L : j # L => op2[j] = open[j]
               /\ open # <<>> => /\ op2[L].kind = open[L].kind
                                 /\ op2[L].path = open[L].path
                                 /\ op2[L].reached = open[L].reached
               /\ Role # "key" => UsedUp(open, op2)
               /\ Role = "key" => /\ open # <<>> /\ op2[L].key = key
                                  /\ open[L].kind = "MAPPING" /\ open[L].key = NoKey
<1> DEFINE op2 == Advanced(key)
           L == Len(open)
<1>1. open \in Seq(Entry) /\ L \in Nat /\ DOMAIN open = 1 .. L /\ NoKey \in Name
  <2>1. open \in Seq(Entry)
      BY DEF TreeInv
  <2>2. NoKey \in Name
      BY NamesTyped
  <2> QED
      BY <2>1, <2>2
<1>2. \A j \in 1 .. L : open[j] \in Entry
    BY <1>1
<1>3. CASE open = <<>>
  <2>1. L = 0 /\ Role = "document" /\ op2 = open
      BY <1>1, <1>3 DEF Role, Advanced
  <2> QED
      BY <1>1, <1>3, <2>1 DEF UsedUp
<1>4. CASE open # <<>>
  <2> DEFINE e == open[L]
  <2>1. /\ L \in 1 .. L /\ Top = e /\ e \in Entry /\ Role \in {"element", "key", "value"}
        /\ e.count < MaxWidth
      BY <1>1, <1>2, <1>4 DEF Top, Last, Role
  <2>2. /\ e.kind \in {"MAPPING", "SEQUENCE"} /\ e.count \in 0 .. MaxWidth
        /\ e.count + 1 \in 0 .. MaxWidth /\ e.path \in Seq(Name) /\ e.reached \in BOOLEAN
    <3>1. /\ e.kind \in {"MAPPING", "SEQUENCE"} /\ e.count \in 0 .. MaxWidth
          /\ e.path \in Seq(Name) /\ e.reached \in BOOLEAN
        BY <2>1, EntryTyped
    <3>2. MaxWidth \in Nat
        BY NamesTyped
    <3> HIDE DEF e
    <3> QED
        BY <2>1, <3>1, <3>2
  <2>3. CASE Role = "key"
    <3> DEFINE f == [e EXCEPT !.key = key]
    <3>1. op2 = Replaced(open, L, f)
        BY <2>3 DEF Advanced, Replaced
    <3>2. /\ f \in Entry /\ f.kind = e.kind /\ f.path = e.path /\ f.reached = e.reached
          /\ f.key = key
        BY <2>1 DEF Entry
    <3>3. e.kind = "MAPPING" /\ e.key = NoKey
        BY <1>4, <2>1, <2>2, <2>3 DEF Role
    <3> HIDE DEF op2, f
    <3>4. /\ op2 \in Seq(Entry) /\ Len(op2) = L /\ op2[L] = f
          /\ \A j \in 1 .. L : j # L => op2[j] = open[j]
      <4>1. L \in 1 .. Len(open) /\ f \in Entry
          BY <2>1, <3>2
      <4>2. open \in Seq(Entry)
          BY <1>1
      <4> HIDE DEF e, L
      <4>3. /\ Replaced(open, L, f) \in Seq(Entry) /\ Len(Replaced(open, L, f)) = Len(open)
            /\ Replaced(open, L, f)[L] = f
            /\ \A j \in 1 .. Len(open) : j # L => Replaced(open, L, f)[j] = open[j]
          BY <4>1, <4>2, ReplacedIs
      <4> QED
          BY <3>1, <4>3 DEF L
    <3> QED
        BY <1>4, <2>3, <3>2, <3>3, <3>4 DEF op2
  <2>4. CASE Role # "key"
    <3> DEFINE f == [e EXCEPT !.key = NoKey, !.count = @ + 1]
    <3>1. op2 = Replaced(open, L, f)
      <4>1. op2 = [open EXCEPT ![L].key = NoKey, ![L].count = @ + 1]
          BY <2>1, <2>4 DEF Advanced
      <4> QED
          BY <1>1, <2>1, <4>1 DEF Entry, Replaced
    <3>2. /\ f \in Entry /\ f.kind = e.kind /\ f.path = e.path /\ f.reached = e.reached
          /\ f.key = NoKey /\ f.count = e.count + 1
        BY <1>1, <2>1, <2>2 DEF Entry
    <3> HIDE DEF op2, f
    <3>4. /\ op2 \in Seq(Entry) /\ Len(op2) = L /\ op2[L] = f
          /\ \A j \in 1 .. L : j # L => op2[j] = open[j]
      <4>1. L \in 1 .. Len(open) /\ f \in Entry
          BY <2>1, <3>2
      <4>2. open \in Seq(Entry)
          BY <1>1
      <4> HIDE DEF e, L
      <4>3. /\ Replaced(open, L, f) \in Seq(Entry) /\ Len(Replaced(open, L, f)) = Len(open)
            /\ Replaced(open, L, f)[L] = f
            /\ \A j \in 1 .. Len(open) : j # L => Replaced(open, L, f)[j] = open[j]
          BY <4>1, <4>2, ReplacedIs
      <4> QED
          BY <3>1, <4>3 DEF L
    <3>5. UsedUp(open, op2)
        BY <3>2, <3>4 DEF UsedUp
    <3> QED
        BY <1>4, <2>4, <3>2, <3>4, <3>5 DEF op2
  <2> QED
      BY <2>3, <2>4
<1> QED
    BY <1>3, <1>4

LEMMA PathHereTyped ==
    ASSUME TreeInv
    PROVE  PathHere \in Seq(Name)
<1>1. open \in Seq(Entry)
    BY DEF TreeInv
<1>2. CASE open = <<>>
  <2>1. "" \in Name
      BY NamesTyped
  <2>2. \A x \in Name : <<x>> \in Seq(Name)
      OBVIOUS
  <2> QED
      BY <1>2, <2>1, <2>2 DEF PathHere, Role
<1>3. CASE open # <<>>
  <2>1. Top \in Entry
      BY <1>1, <1>3 DEF Top, Last
  <2>2. Top.path \in Seq(Name) /\ Top.key \in Name /\ ToString(Top.count) \in Name
      BY <2>1, EntryTyped, NamesTyped
  <2>3. Role \in {"element", "key", "value"}
      BY <1>3 DEF Role
  <2>4. PathHere = Append(Top.path, ToString(Top.count)) \/ PathHere = Append(Top.path, Top.key)
      BY <2>3 DEF PathHere
  <2> QED
      BY <2>2, <2>4, AppendIs
<1> QED
    BY <1>2, <1>3

\* AddChild adds a node below current.
LEMMA ChildAdded ==
    ASSUME TreeInv, events < MaxEvents,
           NEW type \in Types, NEW value \in Name, AddChild(type, value)
    PROVE  \E r \in Node :
              /\ r.parent = current /\ r.name = ChildName /\ r.type = type /\ r.value = value
              /\ r.name \in Names
              /\ Grows(nodes, r, nodes')
              /\ Len(nodes') = Len(nodes) + 1 /\ Len(nodes) \in Nat
              /\ Len(nodes') <= events + 1
              /\ nodes'[Len(nodes')] = r
              /\ \A i \in 1 .. Len(nodes') :
                    nodes'[i].parent # 0 => nodes'[nodes'[i].parent].type # "VALUE"
<1> DEFINE N == Len(nodes)
           r == [parent |-> current, name |-> ChildName, type |-> type, value |-> value]
<1>1. /\ IsTree(nodes) /\ N \in Nat /\ DOMAIN nodes = 1 .. N /\ current \in 0 .. N
      /\ N <= events /\ events \in Nat /\ MaxEvents \in Nat
  <2>1. IsTree(nodes) /\ current \in 0 .. N /\ N <= events /\ events \in 0 .. MaxEvents
      BY DEF TreeInv
  <2>2. MaxEvents \in Nat
      BY NamesTyped
  <2>3. N \in Nat /\ DOMAIN nodes = 1 .. N
      BY <2>1 DEF IsTree
  <2> QED
      BY <2>1, <2>2, <2>3
<1>2. ChildName \in Names /\ Names \subseteq Name
  <2>1. Cardinality(Below(nodes, current)) \in 0 .. MaxEvents
      BY <1>1, BelowIs
  <2>2. ElementName(current) \in Names
    <3>1. ElementName(current) = ToString(Cardinality(Below(nodes, current)))
        BY DEF ElementName, ChildrenOf, Below
    <3> QED
        BY <2>1, <3>1, NamesTyped
  <2>3. keyName \in Names /\ "" \in Names
      BY NamesTyped DEF TreeInv
  <2> QED
      BY <2>2, <2>3, NamesTyped DEF ChildName
<1>3. r \in Node /\ r.parent = current /\ r.name = ChildName /\ r.type = type /\ r.value = value
    BY <1>1, <1>2 DEF Node
<1>4. nodes' = Append(nodes, r)
    BY DEF AddChild
<1> HIDE DEF r
<1>5. Grows(nodes, r, nodes')
    BY <1>1, <1>3, <1>4 DEF Grows
<1>6. /\ Len(nodes') = N + 1 /\ nodes'[N + 1] = r
      /\ \A i \in 1 .. N : nodes'[i] = nodes[i]
    BY <1>5, GrownTree
<1>7. \A i \in 1 .. N : nodes[i].parent # 0 => nodes[i].parent \in 1 .. N
  <2>1. \A i \in 1 .. N : nodes[i] \in Node /\ nodes[i].parent < i
      BY <1>1 DEF IsTree
  <2>2. \A e \in Node : e.parent \in Nat
      BY DEF Node
  <2> QED
      BY <1>1, <2>1, <2>2
<1>8. ASSUME NEW i \in 1 .. (N + 1), nodes'[i].parent # 0
      PROVE  nodes'[nodes'[i].parent].type # "VALUE"
  <2>1. CASE i \in 1 .. N
    <3>1. nodes'[i].parent = nodes[i].parent /\ nodes[i].parent \in 1 .. N
        BY <1>6, <1>7, <1>8, <2>1
    <3>2. nodes[nodes[i].parent].type # "VALUE"
        BY <1>8, <2>1, <3>1 DEF TreeInv
    <3> QED
        BY <1>6, <3>1, <3>2
  <2>2. CASE i = N + 1
    <3>1. nodes'[i].parent = current /\ current \in 1 .. N
        BY <1>1, <1>3, <1>6, <1>8, <2>2
    <3>2. nodes[current].type # "VALUE"
      <4>1. current # 0
          BY <1>1, <3>1
      <4> QED
          BY <4>1 DEF TreeInv
    <3> QED
        BY <1>6, <3>1, <3>2
  <2> QED
      BY <1>1, <2>1, <2>2
<1> HIDE DEF N
<1>9. N + 1 <= events + 1
    BY <1>1
<1> QED
    BY <1>1, <1>2, <1>3, <1>5, <1>6, <1>8, <1>9 DEF N

\* The innermost collection and the node it stands for.
LEMMA TopIs ==
    ASSUME TreeInv, NEW anc, StackIs(nodes, current, open, anc), open # <<>>
    PROVE  /\ Len(open) \in 1 .. Len(open) /\ Top = open[Len(open)] /\ Top \in Entry
           /\ LevelIs(nodes, Top, current)
           /\ TypeOf(current) = Top.kind
           /\ current \in 1 .. Len(nodes)
<1> DEFINE L == Len(open)
<1>1. open \in Seq(Entry)
    BY DEF TreeInv
<1>2. L \in 1 .. L /\ L # 0 /\ Top = open[L] /\ Top \in Entry
    BY <1>1 DEF Top, Last
<1> HIDE DEF L
<1>3. current = anc[L] /\ LevelIs(nodes, open[L], anc[L])
    BY <1>2 DEF StackIs, L
<1>4. LevelIs(nodes, Top, current)
    BY <1>2, <1>3
<1>5. current \in 1 .. Len(nodes) /\ nodes[current].type = Top.kind /\ Len(nodes) \in Nat
  <2>1. IsTree(nodes)
      BY DEF TreeInv
  <2>2. Len(nodes) \in Nat
      BY <2>1 DEF IsTree
  <2> QED
      BY <1>4, <2>2 DEF LevelIs
<1>6. TypeOf(current) = Top.kind
    BY <1>5 DEF TypeOf
<1> QED
    BY <1>2, <1>4, <1>5, <1>6 DEF L

LEMMA RootIs ==
    ASSUME NEW anc, StackIs(nodes, current, open, anc), open = <<>>
    PROVE  current = 0 /\ TypeOf(current) = "DOC" /\ Role = "document"
<1>1. Len(open) = 0
    OBVIOUS
<1> QED
    BY <1>1 DEF StackIs, TypeOf, Role

Reading == pc \in {"file", "builtIn"} /\ ~odd

\* The path of the new node is the path at which libyaml's node stands, and
\* it is the first there when the walk along the path ends at it.
LEMMA NodeHere ==
    ASSUME TreeInv, StackInv, SaidInv, Reading, Role # "key",
           NEW r, r.parent = current, r.name = ChildName, Grows(nodes, r, nodes')
    PROVE  /\ PathHere = PathsIn(nodes')[Len(nodes) + 1]
           /\ FirstHere <=> At(nodes', PathHere) = Len(nodes) + 1
<1> DEFINE q == PathsIn(nodes)[current]
           p == PathsIn(nodes')[Len(nodes) + 1]
<1>1. PICK anc : StackIs(nodes, current, open, anc)
    BY DEF StackInv, Reading
<1>2. /\ prevWasKey <=> Role = "value"
      /\ prevWasKey => keyName = Top.key
    BY DEF StackInv, Reading
<1>3. /\ p = Append(q, ChildName)
      /\ At(nodes', p) = Len(nodes) + 1 <=> At(nodes, q) = current /\ p \notin DOMAIN denoted
    BY FirstIsReached DEF SaidInv, Reading
<1> HIDE DEF p, q
<1>4. IsTree(nodes)
    BY DEF TreeInv
<1>5. CASE open = <<>>
  <2>1. current = 0 /\ TypeOf(current) = "DOC" /\ Role = "document"
      BY <1>1, <1>5, RootIs
  <2>2. ChildName = ""
      BY <1>2, <2>1 DEF ChildName
  <2>3. q = <<>>
      BY <1>4, <2>1, PathsAre DEF q
  <2>4. PathHere = <<"">>
      BY <2>1 DEF PathHere
  <2>5. p = PathHere
    <3>1. Append(<<>>, "") = <<"">>
        OBVIOUS
    <3> QED
        BY <1>3, <2>2, <2>3, <2>4, <3>1
  <2>6. At(nodes, q) = current
      BY <1>4, <2>1, <2>3, AtEmpty
  <2>7. FirstHere <=> p \notin DOMAIN denoted
      BY <1>5, <2>5 DEF FirstHere
  <2> QED
      BY <1>3, <2>5, <2>6, <2>7 DEF p
<1>6. CASE open # <<>>
  <2>1. /\ Top \in Entry /\ LevelIs(nodes, Top, current)
        /\ TypeOf(current) = Top.kind
      BY <1>1, <1>6, TopIs
  <2>2. q = Top.path /\ (Top.reached <=> At(nodes, q) = current)
      BY <2>1 DEF LevelIs, q
  <2>3. Role \in {"element", "value"}
      BY <1>6 DEF Role
  <2>4. ASSUME Role = "element"
        PROVE  p = PathHere
    <3>1. Top.kind = "SEQUENCE"
        BY <1>6, <2>4 DEF Role
    <3>2. ChildName = ElementName(current)
        BY <1>2, <2>1, <2>4, <3>1 DEF ChildName
    <3>3. ElementName(current) = ToString(Top.count)
        BY <2>1, <3>1 DEF LevelIs, ElementName, ChildrenOf, Below
    <3>4. PathHere = Append(Top.path, ToString(Top.count))
        BY <2>4 DEF PathHere
    <3> QED
        BY <1>3, <2>2, <3>2, <3>3, <3>4
  <2>5. ASSUME Role = "value"
        PROVE  p = PathHere
    <3>1. ChildName = Top.key
        BY <1>2, <2>5 DEF ChildName
    <3>2. PathHere = Append(Top.path, Top.key)
        BY <2>5 DEF PathHere
    <3> QED
        BY <1>3, <2>2, <3>1, <3>2
  <2>6. p = PathHere
      BY <2>3, <2>4, <2>5
  <2>7. FirstHere <=> At(nodes, q) = current /\ p \notin DOMAIN denoted
      BY <1>6, <2>2, <2>6 DEF FirstHere
  <2> QED
      BY <1>3, <2>6, <2>7 DEF p
<1> QED
    BY <1>5, <1>6

-----------------------------------------------------------------------------
(* The events. *)

\* What is said and what is found once a node is added.
LEMMA SaidStep ==
    ASSUME TreeInv, StackInv, SaidInv, pc \in {"file", "builtIn"}, odd' \in BOOLEAN,
           ~odd' => ~odd /\ Role # "key",
           NEW r, r.parent = current, r.name = ChildName, Grows(nodes, r, nodes'),
           Denote(r.value)
    PROVE  SaidInv'
<1>1. CASE odd'
  <2>1. denoted' = denoted
      BY <1>1 DEF Denote
  <2>2. Found(nodes', denoted)
      BY FoundKept DEF SaidInv
  <2> QED
      BY <1>1, <2>1, <2>2 DEF SaidInv
<1>2. CASE ~odd'
  <2>1. /\ PathHere = PathsIn(nodes')[Len(nodes) + 1]
        /\ FirstHere <=> At(nodes', PathHere) = Len(nodes) + 1
      BY <1>2, NodeHere DEF Reading
  <2> DEFINE p == PathHere
             new == [path \in DOMAIN denoted \cup {p} |->
                        IF path \in DOMAIN denoted THEN denoted[path] ELSE r.value]
             said2 == denoted'
  <2>2. said2 = IF At(nodes', p) = Len(nodes) + 1 THEN new ELSE denoted
      BY <1>2, <2>1 DEF Denote
  <2>3. Found(nodes, denoted) /\ OnlySaid(nodes, denoted)
      BY <1>2 DEF SaidInv
  <2>4. Found(nodes', said2) /\ OnlySaid(nodes', said2)
    <3> HIDE DEF said2
    <3> QED
        BY <2>1, <2>2, <2>3, SaidGrows
  <2> QED
      BY <2>4 DEF SaidInv
<1> QED
    BY <1>1, <1>2

\* A new node in the stack: as an element or a value of the innermost
\* collection, and on top of it when it is a collection itself.
LEMMA StackStep ==
    ASSUME TreeInv, StackInv, SaidInv, Reading, Role # "key",
           open # <<>> => Top.count < MaxWidth,
           NEW r, r.parent = current, r.name = ChildName, Grows(nodes, r, nodes'),
           NEW key \in Name
    PROVE  \E anc :
              /\ StackIs(nodes', current, Advanced(key), anc)
              /\ \A j \in 1 .. Len(Advanced(key)) :
                    Advanced(key)[j].key = NoKey /\ anc[j] < Len(nodes) + 1
<1> DEFINE op2 == Advanced(key)
<1>1. PICK anc : StackIs(nodes, current, open, anc)
    BY DEF StackInv, Reading
<1>2. UsedUp(open, op2) /\ open \in Seq(Entry)
    BY AdvancedIs DEF TreeInv
<1> HIDE DEF op2
<1>3. /\ StackIs(nodes', r.parent, op2, anc)
      /\ \A j \in 1 .. Len(op2) : op2[j].key = NoKey /\ anc[j] < Len(nodes) + 1
    BY <1>1, <1>2, GrownStack
<1> QED
    BY <1>3 DEF op2

LEMMA ValuesTyped ==
    ASSUME NEW type \in {"MAPPING", "SEQUENCE"}
    PROVE  ValueOf(type) \in Name /\ type \in Types /\ type # "VALUE"
BY NamesTyped DEF ValueOf, Types

LEMMA StartKeeps ==
    ASSUME TreeInv, StackInv, SaidInv, NEW type \in {"MAPPING", "SEQUENCE"}, StartEvent(type)
    PROVE  TreeInv' /\ StackInv' /\ SaidInv'
<1> DEFINE N == Len(nodes)
           op2 == Advanced(OtherKey)
           e == [kind |-> type, key |-> NoKey, count |-> 0, path |-> PathHere,
                 reached |-> FirstHere]
<1>1. /\ pc \in {"file", "builtIn"} /\ events < MaxEvents /\ events' = events + 1
      /\ open # <<>> => Top.count < MaxWidth
      /\ Len(open) < MaxOpen
      /\ AddChild(type, ValueOf(type))
      /\ current' = Len(nodes') /\ prevWasKey' = FALSE
      /\ pc' = pc /\ keyName' = keyName /\ logger' = logger
      /\ open' = Append(op2, e)
      /\ Denote(ValueOf(type))
    BY DEF StartEvent, Parsing, KeyAfterCollection, Opened
<1>2. odd' \in BOOLEAN /\ (~odd' => ~odd /\ Role # "key")
    BY DEF StartEvent, Odd, TreeInv
<1>3. ValueOf(type) \in Name /\ type \in Types /\ type # "VALUE"
    BY ValuesTyped
<1>4. PICK r \in Node :
          /\ r.parent = current /\ r.name = ChildName /\ r.type = type /\ r.value = ValueOf(type)
          /\ r.name \in Names
          /\ Grows(nodes, r, nodes')
          /\ Len(nodes') = N + 1 /\ N \in Nat
          /\ Len(nodes') <= events + 1
          /\ nodes'[Len(nodes')] = r
          /\ \A i \in 1 .. Len(nodes') :
                nodes'[i].parent # 0 => nodes'[nodes'[i].parent].type # "VALUE"
    BY <1>1, <1>3, ChildAdded
<1>5. /\ IsTree(nodes') /\ \A i \in 1 .. N : nodes'[i] = nodes[i]
    BY <1>4, GrownTree
<1>6. e \in Entry
  <2>1. PathHere \in Seq(Name) /\ NoKey \in Name /\ 0 \in 0 .. MaxWidth
    <3>1. MaxWidth \in Nat /\ NoKey \in Name
        BY NamesTyped
    <3> QED
        BY <3>1, PathHereTyped
  <2>2. FirstHere \in BOOLEAN
      BY DEF FirstHere
  <2> QED
      BY <2>1, <2>2 DEF Entry
<1>7. op2 \in Seq(Entry) /\ Len(op2) = Len(open)
    BY <1>1, AdvancedIs, NamesTyped
<1>8. TreeInv'
  <2>1. open' \in Seq(Entry) /\ Len(open') <= MaxOpen
    <3>1. Len(op2) \in Nat /\ MaxOpen \in Nat /\ Len(open) < MaxOpen
      <4>1. MaxOpen \in Nat
          BY NamesTyped
      <4> HIDE DEF op2
      <4> QED
          BY <1>1, <1>7, <4>1
    <3> HIDE DEF op2, e
    <3>2. open' \in Seq(Entry) /\ Len(open') = Len(op2) + 1
        BY <1>1, <1>6, <1>7, AppendIs
    <3> QED
        BY <1>7, <3>1, <3>2
  <2>2. \A i \in 1 .. Len(nodes') : nodes'[i].name \in Names
    <3>1. \A i \in 1 .. N : nodes[i].name \in Names
        BY DEF TreeInv
    <3>2. \A i \in 1 .. (N + 1) : i \in 1 .. N \/ i = N + 1
        BY <1>4
    <3> QED
        BY <1>4, <1>5, <3>1, <3>2
  <2>3. /\ current' \in 0 .. Len(nodes') /\ (current' # 0 => nodes'[current'].type # "VALUE")
        /\ events' \in 0 .. MaxEvents /\ Len(nodes') <= events'
    <3>1. current' = N + 1 /\ nodes'[current'] = r /\ r.type # "VALUE"
        BY <1>1, <1>3, <1>4
    <3>2. events \in 0 .. MaxEvents /\ MaxEvents \in Nat
        BY NamesTyped DEF TreeInv
    <3> QED
        BY <1>1, <1>4, <3>1, <3>2
  <2>4. /\ pc' \in {"ctor", "file", "builtIn", "constructed", "logger", "aborted"}
        /\ prevWasKey' \in BOOLEAN /\ keyName' \in {""} \cup Scalars /\ logger'.pool \in Int
      BY <1>1 DEF TreeInv
  <2> QED
      BY <1>2, <1>4, <1>5, <2>1, <2>2, <2>3, <2>4 DEF TreeInv
<1>9. SaidInv'
    BY <1>1, <1>2, <1>4, SaidStep
<1>10. StackInv'
  <2>1. ASSUME ~odd'
        PROVE  \E anc : StackIs(nodes', current', open', anc)
    <3>1. Reading /\ Role # "key"
        BY <1>1, <1>2, <2>1 DEF Reading
    <3>2. PICK anc : /\ StackIs(nodes', current, op2, anc)
                     /\ \A j \in 1 .. Len(op2) : op2[j].key = NoKey /\ anc[j] < N + 1
        BY <1>1, <1>4, <3>1, StackStep, NamesTyped
    <3>3. LevelIs(nodes', e, N + 1)
      <4>1. /\ e.path = PathsIn(nodes')[N + 1]
            /\ e.reached <=> At(nodes', e.path) = N + 1
          BY <1>4, <3>1, NodeHere
      <4>2. e.kind = r.type /\ e.key = NoKey /\ e.count = 0
          BY <1>4
      <4> HIDE DEF e
      <4> QED
          BY <1>4, <1>6, <4>1, <4>2, NewLevel
    <3>4. nodes'[N + 1].parent = current /\ N + 1 \in Nat /\ current' = N + 1
        BY <1>1, <1>4
    <3> HIDE DEF op2, e, N
    <3>5. StackIs(nodes', N + 1, Append(op2, e), Append(anc, N + 1))
        BY <1>6, <1>7, <3>2, <3>3, <3>4, PushedStack
    <3> QED
        BY <1>1, <3>4, <3>5
  <2>2. Role' # "value"
    <3>1. Last(Append(op2, e)) = e /\ Append(op2, e) # <<>>
      <4> HIDE DEF op2, e
      <4> QED
          BY <1>6, <1>7 DEF Last
    <3>2. open' # <<>> /\ Top' = e
        BY <1>1, <3>1 DEF Top
    <3> QED
        BY <3>2 DEF Role
  <2> QED
      BY <1>1, <2>1, <2>2 DEF StackInv
<1> QED
    BY <1>8, <1>9, <1>10

LEMMA EndKeeps ==
    ASSUME TreeInv, StackInv, SaidInv, EndEvent
    PROVE  TreeInv' /\ StackInv' /\ SaidInv'
<1>1. /\ pc \in {"file", "builtIn"} /\ open # <<>>
      /\ Top.kind = "MAPPING" => Top.key = NoKey
      /\ current' = ParentOf(current) /\ open' = Front(open)
      /\ pc' = pc /\ nodes' = nodes /\ prevWasKey' = prevWasKey /\ keyName' = keyName
      /\ logger' = logger /\ denoted' = denoted /\ odd' = odd /\ events' = events
    BY DEF EndEvent, BackFrom
<1>2. IsTree(nodes) /\ open \in Seq(Entry)
    BY DEF TreeInv
<1>3. /\ open' \in Seq(Entry) /\ Len(open) \in Nat /\ Len(open') = Len(open) - 1
      /\ Top = open[Len(open)]
    BY <1>1, <1>2, FrontIs DEF Top
<1>4. TreeInv'
  <2>1. current' \in 0 .. Len(nodes) /\ (current' # 0 => nodes[current'].type # "VALUE")
    <3>1. Len(nodes) \in Nat /\ current \in 0 .. Len(nodes) /\ DOMAIN nodes = 1 .. Len(nodes)
      <4>1. current \in 0 .. Len(nodes)
          BY DEF TreeInv
      <4> QED
          BY <1>2, <4>1 DEF IsTree
    <3>2. CASE current = 0
        BY <1>1, <3>1, <3>2 DEF ParentOf
    <3>3. CASE current # 0
      <4>1. current \in 1 .. Len(nodes) /\ current' = nodes[current].parent
          BY <1>1, <3>1, <3>3 DEF ParentOf
      <4>2. nodes[current] \in Node /\ nodes[current].parent < current
          BY <1>2, <3>1, <4>1 DEF IsTree
      <4>3. nodes[current].parent \in Nat
          BY <4>2 DEF Node
      <4>4. nodes[current].parent # 0 => nodes[nodes[current].parent].type # "VALUE"
          BY <4>1 DEF TreeInv
      <4> QED
          BY <3>1, <4>1, <4>2, <4>3, <4>4
    <3> QED
        BY <3>2, <3>3
  <2>2. Len(open') <= MaxOpen
    <3>1. Len(open) <= MaxOpen
        BY DEF TreeInv
    <3>2. MaxOpen \in Nat
        BY NamesTyped
    <3> QED
        BY <1>3, <3>1, <3>2
  <2> QED
      BY <1>1, <1>3, <2>1, <2>2 DEF TreeInv
<1>5. SaidInv'
    BY <1>1 DEF SaidInv
<1>6. ASSUME Reading
      PROVE  /\ \E anc : StackIs(nodes, current', open', anc)
             /\ ~prevWasKey /\ Role' # "value"
  <2>1. PICK anc : StackIs(nodes, current, open, anc)
      BY <1>6 DEF StackInv, Reading
  <2>2. /\ StackIs(nodes, nodes[current].parent, Front(open), Front(anc))
        /\ current \in 1 .. Len(nodes)
        /\ \A j \in 1 .. Len(Front(open)) : Front(open)[j].key = NoKey
      BY <1>1, <1>2, <2>1, PoppedStack
  <2>3. current' = nodes[current].parent
    <3>1. current # 0
        BY <2>2
    <3> QED
        BY <1>1, <3>1 DEF ParentOf
  <2>4. Role # "value"
    <3>1. Top.kind \in {"MAPPING", "SEQUENCE"}
        BY <1>1, <2>1, TopIs, EntryTyped
    <3> QED
        BY <1>1, <3>1 DEF Role
  <2>5. Role' # "value"
    <3>1. \A j \in 1 .. Len(open') : open'[j].key = NoKey
        BY <1>1, <2>2
    <3>2. open' # <<>> => Len(open') \in 1 .. Len(open')
        BY <1>3
    <3>3. open' # <<>> => Top'.key = NoKey
        BY <3>1, <3>2 DEF Top, Last
    <3> QED
        BY <3>3 DEF Role
  <2> QED
      BY <1>1, <1>6, <2>2, <2>3, <2>4, <2>5 DEF StackInv, Reading
<1>7. StackInv'
    BY <1>1, <1>6 DEF StackInv, Reading
<1> QED
    BY <1>4, <1>5, <1>7

\* The key, or the element or value, that a scalar is.
LEMMA ScalarKeeps ==
    ASSUME TreeInv, StackInv, SaidInv, NEW text, ScalarEvent(text)
    PROVE  TreeInv' /\ StackInv' /\ SaidInv'
<1> DEFINE N == Len(nodes)
           L == Len(open)
           op2 == Advanced(text)
           IsKey == /\ ~prevWasKey /\ TypeOf(current) # "SEQUENCE"
                    /\ prevWasKey' = TRUE /\ keyName' = text /\ nodes' = nodes
           IsValue == /\ prevWasKey \/ TypeOf(current) = "SEQUENCE"
                      /\ AddChild("VALUE", text)
                      /\ prevWasKey' = FALSE /\ keyName' = keyName
<1>1. /\ pc \in {"file", "builtIn"} /\ events < MaxEvents /\ events' = events + 1
      /\ open # <<>> => Top.count < MaxWidth
      /\ IsKey \/ IsValue
      /\ open' = op2
      /\ Role = "key" => denoted' = denoted
      /\ Role # "key" => Denote(text)
      /\ pc' = pc /\ current' = current /\ logger' = logger
    BY DEF ScalarEvent, Parsing
<1>2. odd' \in BOOLEAN /\ (~odd' => ~odd /\ Role # "document")
    BY DEF ScalarEvent, Odd, TreeInv
<1>3. IsTree(nodes) /\ open \in Seq(Entry) /\ L \in Nat /\ L <= MaxOpen /\ MaxOpen \in Nat
  <2>1. IsTree(nodes) /\ open \in Seq(Entry) /\ L <= MaxOpen
      BY DEF TreeInv
  <2>2. MaxOpen \in Nat
      BY NamesTyped
  <2> QED
      BY <2>1, <2>2
<1>4. text \in Scalars /\ text \in Name /\ (Role = "key" => text # NoKey)
  <2>1. text \in IF Role = "key" THEN Keys[L] ELSE Texts[L]
      BY DEF ScalarEvent
  <2>2. L \in 0 .. MaxOpen /\ (Role = "key" => L \in 1 .. MaxOpen)
    <3>1. Role = "key" => open # <<>>
        BY DEF Role
    <3> QED
        BY <1>3, <3>1
  <2>3. Scalars \subseteq Name
      BY NamesTyped
  <2>4. Role = "key" => text \in Scalars /\ text # NoKey
      BY <2>1, <2>2, NamesTyped
  <2>5. Role # "key" => text \in Scalars
      BY <2>1, <2>2, NamesTyped
  <2> QED
      BY <2>3, <2>4, <2>5
<1>5. /\ op2 \in Seq(Entry) /\ Len(op2) = L
      /\ \A j \in 1 .. L : j # L => op2[j] = open[j]
      /\ open # <<>> => /\ op2[L].kind = open[L].kind
                        /\ op2[L].path = open[L].path
                        /\ op2[L].reached = open[L].reached
      /\ Role # "key" => UsedUp(open, op2)
      /\ Role = "key" => open # <<>> /\ op2[L].key = text /\ open[L].kind = "MAPPING"
    BY <1>1, <1>4, AdvancedIs
<1> HIDE DEF op2
<1>6. events' \in 0 .. MaxEvents /\ events \in Nat
  <2>1. events \in 0 .. MaxEvents /\ MaxEvents \in Nat
      BY NamesTyped DEF TreeInv
  <2> QED
      BY <1>1, <2>1
<1>7. CASE IsKey
  <2>1. TreeInv'
    <3>1. N \in Nat /\ N <= events
      <4>1. N <= events
          BY DEF TreeInv
      <4> QED
          BY <1>3, <4>1 DEF IsTree
    <3>2. N <= events'
        BY <1>1, <1>6, <3>1
    <3>3. prevWasKey' \in BOOLEAN /\ keyName' \in {""} \cup Scalars /\ nodes' = nodes
        BY <1>4, <1>7
    <3>4. open' \in Seq(Entry) /\ Len(open') <= MaxOpen
        BY <1>1, <1>3, <1>5
    <3> QED
        BY <1>1, <1>2, <1>6, <3>2, <3>3, <3>4 DEF TreeInv
  <2>2. ASSUME Reading, Role # "document"
        PROVE  Role = "key"
    <3>1. PICK anc : StackIs(nodes, current, open, anc)
        BY <2>2 DEF StackInv, Reading
    <3>2. Role # "value"
        BY <1>7, <2>2 DEF StackInv, Reading
    <3>3. open # <<>>
        BY <2>2 DEF Role
    <3>4. Top.kind # "SEQUENCE"
        BY <1>7, <3>1, <3>3, TopIs
    <3> QED
        BY <3>2, <3>3, <3>4 DEF Role
  <2>3. SaidInv'
    <3>1. CASE odd'
      <4>1. denoted' = denoted
          BY <1>1, <3>1 DEF Denote
      <4> QED
          BY <1>7, <3>1, <4>1 DEF SaidInv
    <3>2. CASE ~odd'
      <4>1. denoted' = denoted
          BY <1>1, <1>2, <2>2, <3>2 DEF Reading
      <4> QED
          BY <1>2, <1>7, <3>2, <4>1 DEF SaidInv
    <3> QED
        BY <3>1, <3>2
  <2>4. ASSUME ~odd'
        PROVE  /\ \E anc : StackIs(nodes, current, op2, anc)
               /\ Role' = "value" /\ Top'.key = text
    <3>1. Reading /\ Role = "key"
        BY <1>1, <1>2, <2>2, <2>4 DEF Reading
    <3>2. PICK anc : StackIs(nodes, current, open, anc)
        BY <3>1 DEF StackInv, Reading
    <3>3. StackIs(nodes, current, op2, anc)
        BY <1>3, <1>5, <3>1, <3>2, KeyedStack
    <3>4. open' # <<>> /\ Top' = op2[L]
        BY <1>1, <1>3, <1>5, <3>1 DEF Top, Last
    <3>5. Role' = "value" /\ Top'.key = text
        BY <1>4, <1>5, <3>1, <3>4 DEF Role
    <3> QED
        BY <3>3, <3>5
  <2>5. StackInv'
      BY <1>1, <1>7, <2>4 DEF StackInv
  <2> QED
      BY <2>1, <2>3, <2>5
<1>8. CASE IsValue
  <2>1. PICK r \in Node :
          /\ r.parent = current /\ r.name = ChildName /\ r.type = "VALUE" /\ r.value = text
          /\ r.name \in Names
          /\ Grows(nodes, r, nodes')
          /\ Len(nodes') = N + 1 /\ N \in Nat
          /\ Len(nodes') <= events + 1
          /\ nodes'[Len(nodes')] = r
          /\ \A i \in 1 .. Len(nodes') :
                nodes'[i].parent # 0 => nodes'[nodes'[i].parent].type # "VALUE"
    <3>1. "VALUE" \in Types
        BY DEF Types
    <3> QED
        BY <1>1, <1>4, <1>8, <3>1, ChildAdded
  <2>2. IsTree(nodes') /\ \A i \in 1 .. N : nodes'[i] = nodes[i]
      BY <2>1, GrownTree
  <2>3. TreeInv'
    <3>1. \A i \in 1 .. Len(nodes') : nodes'[i].name \in Names
      <4>1. \A i \in 1 .. N : nodes[i].name \in Names
          BY DEF TreeInv
      <4>2. \A i \in 1 .. (N + 1) : i \in 1 .. N \/ i = N + 1
          BY <2>1
      <4> QED
          BY <2>1, <2>2, <4>1, <4>2
    <3>2. current \in 0 .. Len(nodes') /\ (current # 0 => nodes'[current].type # "VALUE")
      <4>1. current \in 0 .. N /\ (current # 0 => nodes[current].type # "VALUE")
          BY DEF TreeInv
      <4> QED
          BY <2>1, <2>2, <4>1
    <3>3. open' \in Seq(Entry) /\ Len(open') <= MaxOpen
        BY <1>1, <1>3, <1>5
    <3>4. prevWasKey' \in BOOLEAN /\ keyName' \in {""} \cup Scalars
        BY <1>8 DEF TreeInv
    <3>5. Len(nodes') <= events'
        BY <1>1, <2>1
    <3> QED
        BY <1>1, <1>2, <1>6, <2>1, <2>2, <3>1, <3>2, <3>3, <3>4, <3>5 DEF TreeInv
  <2>4. ASSUME Reading
        PROVE  Role # "key"
    <3> SUFFICES ASSUME Role = "key"
                 PROVE  FALSE
        OBVIOUS
    <3>1. PICK anc : StackIs(nodes, current, open, anc)
        BY <2>4 DEF StackInv, Reading
    <3>2. ~prevWasKey
        BY <2>4 DEF StackInv, Reading
    <3>3. open # <<>> /\ Top.kind # "SEQUENCE"
        BY DEF Role
    <3>4. TypeOf(current) # "SEQUENCE"
        BY <3>1, <3>3, TopIs
    <3> QED
        BY <1>8, <3>2, <3>4
  <2>5. SaidInv'
    <3>1. CASE Role = "key"
      <4>1. odd' /\ denoted' = denoted
          BY <1>1, <1>2, <2>4, <3>1 DEF Reading
      <4>2. Found(nodes', denoted)
          BY <2>1, FoundKept DEF SaidInv
      <4> QED
          BY <4>1, <4>2 DEF SaidInv
    <3>2. CASE Role # "key"
        BY <1>1, <1>2, <2>1, <3>2, SaidStep
    <3> QED
        BY <3>1, <3>2
  <2>6. ASSUME ~odd'
        PROVE  /\ \E anc : StackIs(nodes', current, op2, anc)
               /\ Role' # "value"
    <3>1. Reading /\ Role # "key"
        BY <1>1, <1>2, <2>4, <2>6 DEF Reading
    <3>2. PICK anc : /\ StackIs(nodes', current, op2, anc)
                     /\ \A j \in 1 .. Len(op2) : op2[j].key = NoKey
        BY <1>1, <1>4, <2>1, <3>1, StackStep DEF op2
    <3>3. open' # <<>> => Len(op2) \in 1 .. Len(op2)
        BY <1>1, <1>3, <1>5
    <3>4. open' # <<>> => Top'.key = NoKey
        BY <1>1, <3>2, <3>3 DEF Top, Last
    <3>5. Role' # "value"
        BY <3>4 DEF Role
    <3> QED
        BY <3>2, <3>5
  <2>7. StackInv'
      BY <1>1, <1>8, <2>6 DEF StackInv
  <2> QED
      BY <2>3, <2>5, <2>7
<1> QED
    BY <1>1, <1>7, <1>8

LEMMA AliasKeeps ==
    ASSUME TreeInv, StackInv, SaidInv, AliasEvent
    PROVE  TreeInv' /\ StackInv' /\ SaidInv'
<1> DEFINE op2 == Advanced(OtherKey)
<1>1. /\ pc \in {"file", "builtIn"} /\ events < MaxEvents /\ events' = events + 1
      /\ open # <<>> => Top.count < MaxWidth
      /\ odd' = TRUE /\ open' = op2
      /\ pc' = pc /\ logger' = logger /\ denoted' = denoted
      /\ nodes' = nodes /\ current' = current /\ prevWasKey' = prevWasKey /\ keyName' = keyName
    BY DEF AliasEvent, Parsing, Odd, tree
<1>2. op2 \in Seq(Entry) /\ Len(op2) = Len(open)
    BY <1>1, AdvancedIs, NamesTyped
<1> HIDE DEF op2
<1>3. events' \in 0 .. MaxEvents /\ Len(nodes) <= events'
  <2>1. events \in 0 .. MaxEvents /\ Len(nodes) <= events
      BY DEF TreeInv
  <2>2. MaxEvents \in Nat
      BY NamesTyped
  <2>3. Len(nodes) \in Nat
    <3>1. IsTree(nodes)
        BY DEF TreeInv
    <3> QED
        BY <3>1 DEF IsTree
  <2> QED
      BY <1>1, <2>1, <2>2, <2>3
<1>4. TreeInv'
    BY <1>1, <1>2, <1>3 DEF TreeInv
<1>5. SaidInv' /\ StackInv'
    BY <1>1 DEF SaidInv, StackInv
<1> QED
    BY <1>4, <1>5

\* Outside an event of libyaml nothing but a call of parse touches the stack.
LEMMA StreamEndKeeps ==
    ASSUME TreeInv, StackInv, SaidInv, StreamEnd
    PROVE  TreeInv' /\ StackInv' /\ SaidInv'
<1>1. /\ pc' = "constructed" /\ logger' = logger
      /\ nodes' = nodes /\ current' = current /\ prevWasKey' = prevWasKey /\ keyName' = keyName
      /\ open' = open /\ denoted' = denoted /\ odd' = odd /\ events' = events
    BY DEF StreamEnd, tree, grammar
<1> QED
    BY <1>1 DEF TreeInv, StackInv, SaidInv

LEMMA EnterKeeps ==
    ASSUME TreeInv, SaidInv, NEW source \in {"file", "builtIn"}, EnterParse(source)
    PROVE  TreeInv' /\ StackInv' /\ SaidInv'
<1>1. /\ pc' = source /\ current' = 0 /\ prevWasKey' = FALSE /\ keyName' = "" /\ open' = <<>>
      /\ nodes' = nodes /\ denoted' = denoted /\ odd' = odd /\ events' = events /\ logger' = logger
    BY DEF EnterParse
<1>2. <<>> \in Seq(Entry) /\ Len(<<>>) = 0 /\ <<>> \in Seq(Nat)
    OBVIOUS
<1>3. IsTree(nodes) /\ Len(nodes) \in Nat /\ MaxOpen \in Nat
  <2>1. IsTree(nodes)
      BY DEF TreeInv
  <2>2. MaxOpen \in Nat
      BY NamesTyped
  <2> QED
      BY <2>1, <2>2 DEF IsTree
<1>4. TreeInv'
  <2>1. 0 \in 0 .. Len(nodes) /\ 0 <= MaxOpen
      BY <1>3
  <2>2. source \in {"ctor", "file", "builtIn", "constructed", "logger", "aborted"}
      OBVIOUS
  <2>3. open' \in Seq(Entry) /\ Len(open') <= MaxOpen
      BY <1>1, <1>2, <2>1
  <2> QED
      BY <1>1, <2>1, <2>2, <2>3 DEF TreeInv
<1>5. SaidInv'
    BY <1>1 DEF SaidInv
<1>6. StackInv'
  <2>1. StackIs(nodes, 0, <<>>, <<>>)
      BY <1>2 DEF StackIs
  <2>2. Role' = "document"
      BY <1>1 DEF Role
  <2> QED
      BY <1>1, <2>1, <2>2 DEF StackInv
<1> QED
    BY <1>4, <1>5, <1>6

\* A tree of no node.
LEMMA NothingRead ==
    /\ IsTree(<<>>) /\ Found(<<>>, <<>>) /\ OnlySaid(<<>>, <<>>)
    /\ Len(<<>>) = 0 /\ <<>> \in Seq(Entry) /\ \A i : i \notin 1 .. Len(<<>>)
    /\ 0 \in 0 .. MaxEvents /\ 0 <= MaxOpen /\ 0 \in 0 .. 0 /\ 0 <= 0
<1>1. \A S : <<>> \in Seq(S)
    OBVIOUS
<1>2. Len(<<>>) = 0 /\ DOMAIN <<>> = {}
  <2>1. Len(<<>>) = 0
      OBVIOUS
  <2>2. DOMAIN <<>> = {}
      OBVIOUS
  <2> QED
      BY <2>1, <2>2
<1>3. \A i : i \notin 1 .. 0
    OBVIOUS
<1>4. MaxOpen \in Nat /\ MaxEvents \in Nat
    BY NamesTyped
<1>5. IsTree(<<>>)
    BY <1>1, <1>2 DEF IsTree
<1>6. Found(<<>>, <<>>) /\ OnlySaid(<<>>, <<>>)
    BY <1>2, <1>3 DEF Found, OnlySaid
<1> QED
    BY <1>1, <1>2, <1>3, <1>4, <1>5, <1>6

LEMMA ErrorKeeps ==
    ASSUME TreeInv, StackInv, SaidInv, ConstructorError
    PROVE  TreeInv' /\ StackInv' /\ SaidInv'
<1>1. CASE Abort
  <2>1. /\ nodes' = <<>> /\ current' = 0 /\ prevWasKey' = FALSE /\ keyName' = "" /\ open' = <<>>
        /\ denoted' = <<>> /\ odd' = FALSE /\ events' = 0 /\ pc' = "aborted" /\ logger' = logger
        /\ logger.pool \in Int
      BY <1>1 DEF Abort, TreeInv
  <2> QED
      BY <2>1, NothingRead DEF TreeInv, StackInv, SaidInv
<1>2. CASE ~Abort
  <2>1. /\ pc' = "constructed" /\ logger' = logger
        /\ nodes' = nodes /\ current' = current /\ prevWasKey' = prevWasKey /\ keyName' = keyName
        /\ open' = open /\ denoted' = denoted /\ odd' = odd /\ events' = events
      BY <1>2 DEF ConstructorError, tree, grammar
  <2> QED
      BY <2>1 DEF TreeInv, StackInv, SaidInv
<1> QED
    BY <1>1, <1>2

-----------------------------------------------------------------------------
(* The logger. *)

ValueAt(ns, path) ==
    IF path = <<>> \/ At(ns, path) = Missing THEN NOT_FOUND ELSE ns[At(ns, path)].value

\* What Logger reads is read from the tree that the constructor has left.
LoggerInv ==
    pc = "logger" =>
        LET s == ValueAt(nodes, SinkPath)
            v == ValueAt(nodes, PoolPath)
        IN  /\ logger.sink = IF s = NOT_FOUND THEN DefaultSink ELSE s
            /\ logger.pool = IF v \in DOMAIN Numbers THEN Wrapped(Numbers[v]) ELSE DefaultPool

IInv == TreeInv /\ StackInv /\ SaidInv /\ LoggerInv

LEMMA LoggerReads ==
    /\ \A path : getValueImpl(path) = ValueAt(nodes, path)
    /\ OrDefault(getValueString(SinkPath), DefaultSink)
           = LET s == ValueAt(nodes, SinkPath) IN IF s = NOT_FOUND THEN DefaultSink ELSE s
    /\ OrDefault(getValueInt(PoolPath), DefaultPool)
           = LET v == ValueAt(nodes, PoolPath)
             IN  IF v \in DOMAIN Numbers THEN Wrapped(Numbers[v]) ELSE DefaultPool
<1>1. \A path : getValueImpl(path) = ValueAt(nodes, path)
    BY TreeIs DEF getValueImpl, ValueAt
<1> QED
    BY <1>1 DEF getValueString, getValueInt, OrDefault, Valid, Invalid

LEMMA WrappedIsNumber ==
    \A v : v \in DOMAIN Numbers => Wrapped(Numbers[v]) \in Int
<1> DEFINE half == 2 ^ (IntWidth - 1)
<1>1. half \in Nat \ {0}
    BY WidthAssumption
<1>2. \A v : v \in DOMAIN Numbers => Numbers[v] \in Int
    BY YamlAssumption
<1> HIDE DEF half
<1>3. \A i \in Int : ((i + half) % (2 * half)) - half \in Int
    BY <1>1
<1>4. \A i \in Int : Wrapped(i) \in Int
    BY <1>3 DEF Wrapped, half
<1> QED
    BY <1>2, <1>4

LEMMA LoggerKeeps ==
    ASSUME TreeInv, StackInv, SaidInv, CreateLogger
    PROVE  TreeInv' /\ StackInv' /\ SaidInv' /\ LoggerInv'
<1> DEFINE s == ValueAt(nodes, SinkPath)
           v == ValueAt(nodes, PoolPath)
<1>1. /\ pc' = "logger"
      /\ nodes' = nodes /\ current' = current /\ prevWasKey' = prevWasKey /\ keyName' = keyName
      /\ open' = open /\ denoted' = denoted /\ odd' = odd /\ events' = events
      /\ logger'.sink = OrDefault(getValueString(SinkPath), DefaultSink)
      /\ logger'.pool = OrDefault(getValueInt(PoolPath), DefaultPool)
    BY DEF CreateLogger, tree, grammar
<1>2. /\ logger'.sink = IF s = NOT_FOUND THEN DefaultSink ELSE s
      /\ logger'.pool = IF v \in DOMAIN Numbers THEN Wrapped(Numbers[v]) ELSE DefaultPool
    BY <1>1, LoggerReads
<1>3. logger'.pool \in Int
  <2> HIDE DEF v
  <2> QED
      BY <1>2, WrappedIsNumber DEF DefaultPool
<1>4. TreeInv'
    BY <1>1, <1>3 DEF TreeInv
<1>5. StackInv' /\ SaidInv'
    BY <1>1 DEF StackInv, SaidInv
<1> QED
    BY <1>1, <1>2, <1>4, <1>5 DEF LoggerInv

LEMMA Invariance == Spec => []IInv
<1>1. Init => IInv
  <2> SUFFICES ASSUME Init
               PROVE  IInv
      OBVIOUS
  <2>1. /\ pc = "ctor" /\ nodes = <<>> /\ current = 0 /\ prevWasKey = FALSE /\ keyName = ""
        /\ logger = NoLogger /\ open = <<>> /\ denoted = <<>> /\ odd = FALSE /\ events = 0
      BY DEF Init
  <2>2. logger.pool \in Int
    <3>1. logger.pool = -1
        BY <2>1 DEF NoLogger
    <3> QED
        BY <3>1
  <2>3. TreeInv /\ StackInv /\ SaidInv
      BY <2>1, <2>2, NothingRead DEF TreeInv, StackInv, SaidInv
  <2> QED
      BY <2>1, <2>3 DEF IInv, LoggerInv
<1>2. IInv /\ [Next]_vars => IInv'
  <2> SUFFICES ASSUME IInv, [Next]_vars
               PROVE  IInv'
      OBVIOUS
  <2> USE DEF IInv
  <2>1. CASE ReadFile
    <3>1. EnterParse("file") /\ pc' = "file"
        BY <2>1 DEF ReadFile, EnterParse
    <3> QED
        BY <3>1, EnterKeeps DEF LoggerInv
  <2>2. CASE NoFile
    <3>1. CASE EnterParse("builtIn")
      <4>1. pc' = "builtIn"
          BY <3>1 DEF EnterParse
      <4> QED
          BY <3>1, <4>1, EnterKeeps DEF LoggerInv
    <3>2. CASE ConstructorError
      <4>1. pc' # "logger"
          BY <3>2 DEF ConstructorError, Abort
      <4> QED
          BY <3>2, <4>1, ErrorKeeps DEF LoggerInv
    <3> QED
        BY <2>2, <3>1, <3>2 DEF NoFile
  <2>3. CASE ParserError
    <3>1. CASE EnterParse("builtIn")
      <4>1. pc' = "builtIn"
          BY <3>1 DEF EnterParse
      <4> QED
          BY <3>1, <4>1, EnterKeeps DEF LoggerInv
    <3>2. CASE ConstructorError
      <4>1. pc' # "logger"
          BY <3>2 DEF ConstructorError, Abort
      <4> QED
          BY <3>2, <4>1, ErrorKeeps DEF LoggerInv
    <3> QED
        BY <2>3, <3>1, <3>2 DEF ParserError
  <2>4. ASSUME NEW type \in {"MAPPING", "SEQUENCE"}, StartEvent(type)
        PROVE  IInv'
    <3>1. pc' # "logger"
        BY <2>4 DEF StartEvent, Parsing
    <3> QED
        BY <2>4, <3>1, StartKeeps DEF LoggerInv
  <2>5. CASE EndEvent
    <3>1. pc' # "logger"
        BY <2>5 DEF EndEvent
    <3> QED
        BY <2>5, <3>1, EndKeeps DEF LoggerInv
  <2>6. ASSUME NEW text \in Scalars, ScalarEvent(text)
        PROVE  IInv'
    <3>1. pc' # "logger"
        BY <2>6 DEF ScalarEvent, Parsing
    <3> QED
        BY <2>6, <3>1, ScalarKeeps DEF LoggerInv
  <2>7. CASE AliasEvent
    <3>1. pc' # "logger"
        BY <2>7 DEF AliasEvent, Parsing
    <3> QED
        BY <2>7, <3>1, AliasKeeps DEF LoggerInv
  <2>8. CASE StreamEnd
    <3>1. pc' # "logger"
        BY <2>8 DEF StreamEnd
    <3> QED
        BY <2>8, <3>1, StreamEndKeeps DEF LoggerInv
  <2>9. CASE CreateLogger
      BY <2>9, LoggerKeeps
  <2>10. CASE UNCHANGED vars
    <3>1. /\ pc' = pc /\ logger' = logger
          /\ nodes' = nodes /\ current' = current /\ prevWasKey' = prevWasKey /\ keyName' = keyName
          /\ open' = open /\ denoted' = denoted /\ odd' = odd /\ events' = events
        BY <2>10 DEF vars, tree, grammar
    <3>2. TreeInv'
        BY <3>1 DEF TreeInv
    <3>3. StackInv' /\ SaidInv'
      <4>1. Top' = Top
          BY <3>1 DEF Top, Last
      <4>2. Role' = Role
          BY <3>1, <4>1 DEF Role
      <4>3. SaidInv'
          BY <3>1 DEF SaidInv
      <4>4. StackInv'
          BY <3>1, <4>1, <4>2 DEF StackInv
      <4> QED
          BY <4>3, <4>4
    <3>4. LoggerInv'
        BY <3>1 DEF LoggerInv
    <3> QED
        BY <3>2, <3>3, <3>4
  <2> QED
      BY <2>1, <2>2, <2>3, <2>4, <2>5, <2>6, <2>7, <2>8, <2>9, <2>10
      DEF Next, Event, Terminated
<1> QED
    BY <1>1, <1>2, PTL DEF Spec

(* Every variable has its type at every moment, and the nodes are a tree:  *)
(* parse hangs each below an earlier one that is a collection.             *)
THEOREM Typing == Spec => []TypeOK
<1>1. IInv => TypeOK
  <2> SUFFICES ASSUME IInv
               PROVE  TypeOK
      OBVIOUS
  <2>1. IsTree(nodes) /\ DOMAIN nodes = 1 .. Len(nodes) /\ Len(nodes) \in Nat
    <3>1. IsTree(nodes)
        BY DEF IInv, TreeInv
    <3> QED
        BY <3>1 DEF IsTree
  <2>2. ASSUME NEW i \in DOMAIN nodes
        PROVE  /\ nodes[i].type \in Types
               /\ nodes[i].parent \in 0..(i - 1)
               /\ TypeOf(nodes[i].parent) # "VALUE"
               /\ nodes[i].name \in Names
    <3>1. nodes[i] \in Node /\ nodes[i].parent < i /\ i \in 1 .. Len(nodes)
        BY <2>1 DEF IsTree
    <3>2. nodes[i].type \in Types /\ nodes[i].parent \in Nat
        BY <3>1 DEF Node
    <3>3. TypeOf(nodes[i].parent) # "VALUE"
        BY <3>1 DEF TypeOf, IInv, TreeInv
    <3>4. nodes[i].name \in Names
        BY <3>1 DEF IInv, TreeInv
    <3>5. nodes[i].parent \in 0..(i - 1)
        BY <2>1, <3>1, <3>2
    <3> QED
        BY <3>2, <3>3, <3>4, <3>5
  <2> QED
      BY <2>2 DEF TypeOK, IInv, TreeInv
<1> QED
    BY <1>1, Invariance, PTL

(* The one flag and the one name of parse agree with the stack of open     *)
(* collections at every event, however deep the document is nested: as     *)
(* long as no event is ignored, current is the node of the innermost.      *)
THEOREM GrammarFollowed == Spec => []ParseFollowsGrammar
<1>1. IInv => ParseFollowsGrammar
  <2> SUFFICES ASSUME IInv, pc \in {"file", "builtIn"}, ~odd
               PROVE  /\ Paths[current] = IF open = <<>> THEN <<>> ELSE Top.path
                      /\ TypeOf(current) = IF open = <<>> THEN "DOC" ELSE Top.kind
                      /\ prevWasKey <=> Role = "value"
                      /\ prevWasKey => keyName = Top.key
      BY DEF ParseFollowsGrammar
  <2>1. PICK anc : StackIs(nodes, current, open, anc)
      BY DEF IInv, StackInv
  <2>2. /\ prevWasKey <=> Role = "value"
        /\ prevWasKey => keyName = Top.key
      BY DEF IInv, StackInv
  <2>3. CASE open = <<>>
    <3>1. current = 0 /\ TypeOf(current) = "DOC"
        BY <2>1, <2>3, RootIs
    <3>2. Paths[0] = <<>>
        BY TreeIs, PathsAre DEF IInv, TreeInv
    <3> QED
        BY <2>2, <2>3, <3>1, <3>2
  <2>4. CASE open # <<>>
    <3>1. LevelIs(nodes, Top, current) /\ TypeOf(current) = Top.kind
        BY <2>1, <2>4, TopIs DEF IInv
    <3>2. Paths[current] = Top.path
        BY <3>1, TreeIs DEF LevelIs
    <3> QED
        BY <2>2, <2>4, <3>1, <3>2
  <2> QED
      BY <2>3, <2>4
<1> QED
    BY <1>1, Invariance, PTL

(* What a document says at a path, getValue returns for that path, also    *)
(* after the parser has failed and a second document was read.             *)
THEOREM SaidIsAlwaysRead == Spec => []SaidIsRead
<1>1. IInv => SaidIsRead
  <2> SUFFICES ASSUME IInv, NEW path \in DOMAIN denoted
               PROVE  getValueImpl(path) = denoted[path]
      BY DEF SaidIsRead
  <2>1. /\ path # <<>> /\ At(nodes, path) \in 1 .. Len(nodes)
        /\ nodes[At(nodes, path)].value = denoted[path]
      BY DEF IInv, SaidInv, Found
  <2>2. NodeAt(path) = At(nodes, path)
      BY TreeIs
  <2>3. NodeAt(path) # Missing
    <3>1. Len(nodes) \in Nat
      <4>1. IsTree(nodes)
          BY DEF IInv, TreeInv
      <4> QED
          BY <4>1 DEF IsTree
    <3> QED
        BY <2>1, <2>2, <3>1 DEF Missing
  <2> QED
      BY <2>1, <2>2, <2>3 DEF getValueImpl
<1> QED
    BY <1>1, Invariance, PTL

(* getValue finds nothing that no document says: a second node under a     *)
(* key, or a second document, stays hidden behind the first.               *)
THEOREM ReadIsAlwaysSaid == Spec => []ReadIsSaid
<1>1. IInv => ReadIsSaid
  <2> SUFFICES ASSUME IInv, ~odd, NEW i \in Reached
               PROVE  Paths[i] \in DOMAIN denoted
      BY DEF ReadIsSaid
  <2>1. DOMAIN nodes = 1 .. Len(nodes)
    <3>1. IsTree(nodes)
        BY DEF IInv, TreeInv
    <3> QED
        BY <3>1 DEF IsTree
  <2>2. i \in 1 .. Len(nodes) /\ At(nodes, PathsIn(nodes)[i]) = i
      BY <2>1, TreeIs DEF Reached
  <2>3. PathsIn(nodes)[i] \in DOMAIN denoted
      BY <2>2 DEF IInv, SaidInv, OnlySaid
  <2> QED
      BY <2>3, TreeIs
<1> QED
    BY <1>1, Invariance, PTL

\* What getValue returns, in terms of what is said.
LEMMA ReadIs ==
    ASSUME IInv, ~odd, NEW path \in Seq(Name), path # <<>>
    PROVE  getValueImpl(path) = IF path \in DOMAIN denoted THEN denoted[path] ELSE NOT_FOUND
<1>1. IsTree(nodes) /\ Found(nodes, denoted) /\ OnlySaid(nodes, denoted)
    BY DEF IInv, TreeInv, SaidInv
<1>2. NodeAt(path) = At(nodes, path) /\ Len(nodes) \in Nat
    BY <1>1, TreeIs DEF IsTree
<1>3. CASE path \in DOMAIN denoted
  <2>1. /\ At(nodes, path) \in 1 .. Len(nodes)
        /\ nodes[At(nodes, path)].value = denoted[path]
      BY <1>1, <1>3 DEF Found
  <2>2. NodeAt(path) # Missing
      BY <1>2, <2>1 DEF Missing
  <2> QED
      BY <1>2, <1>3, <2>1, <2>2 DEF getValueImpl
<1>4. CASE path \notin DOMAIN denoted
  <2> DEFINE a == At(nodes, path)
  <2>1. ASSUME a # Missing
        PROVE  FALSE
    <3>1. a \in 0 .. Len(nodes) /\ PathsIn(nodes)[a] = path
        BY <1>1, <2>1, LandsOn
    <3>2. PathsIn(nodes)[0] = <<>>
        BY <1>1, PathsAre
    <3> HIDE DEF a
    <3>3. a \in 1 .. Len(nodes)
        BY <1>2, <3>1, <3>2
    <3>4. At(nodes, PathsIn(nodes)[a]) = a
        BY <3>1 DEF a
    <3> QED
        BY <1>1, <1>4, <3>1, <3>3, <3>4 DEF OnlySaid
  <2> QED
      BY <1>2, <1>4, <2>1 DEF getValueImpl
<1> QED
    BY <1>3, <1>4

(* Each setting of the logger is the document's where it has it in the     *)
(* right type, and the default otherwise, whatever else the document has.  *)
THEOREM LoggerAsDocumented == Spec => []LoggerFollowsDocument
<1>1. IInv => LoggerFollowsDocument
  <2> SUFFICES ASSUME IInv, pc = "logger", ~odd
               PROVE  /\ logger.sink = IF Says(SinkPath) THEN denoted[SinkPath] ELSE DefaultSink
                      /\ ~SaysNumber(PoolPath) => logger.pool = DefaultPool
                      /\ SaysNumber(PoolPath) /\ Fits(Numbers[denoted[PoolPath]])
                            => logger.pool = Numbers[denoted[PoolPath]]
      BY DEF LoggerFollowsDocument
  <2>1. SinkPath \in Seq(Name) /\ PoolPath \in Seq(Name) /\ SinkPath # <<>> /\ PoolPath # <<>>
    <3>1. "" \in Name /\ "logging" \in Name /\ "client" \in Name /\ "Sink" \in Name /\ "Pool" \in Name
        BY NamesTyped
    <3>2. \A a, b, c, d \in Name : <<a, b, c, d>> \in Seq(Name) /\ <<a, b, c, d>> # <<>>
        OBVIOUS
    <3> QED
        BY <3>1, <3>2 DEF SinkPath, PoolPath
  <2> DEFINE s == getValueImpl(SinkPath)
             v == getValueImpl(PoolPath)
  <2>2. /\ s = IF SinkPath \in DOMAIN denoted THEN denoted[SinkPath] ELSE NOT_FOUND
        /\ v = IF PoolPath \in DOMAIN denoted THEN denoted[PoolPath] ELSE NOT_FOUND
      BY <2>1, ReadIs
  <2>3. NOT_FOUND \notin DOMAIN Numbers
      BY YamlAssumption
  <2>4. /\ logger.sink = IF s = NOT_FOUND THEN DefaultSink ELSE s
        /\ logger.pool = IF v \in DOMAIN Numbers THEN Wrapped(Numbers[v]) ELSE DefaultPool
      BY LoggerReads DEF IInv, LoggerInv
  <2> HIDE DEF s, v
  <2>5. logger.sink = IF Says(SinkPath) THEN denoted[SinkPath] ELSE DefaultSink
      BY <2>2, <2>4 DEF Says
  <2>6. SaysNumber(PoolPath) <=> v \in DOMAIN Numbers
      BY <2>2, <2>3 DEF SaysNumber
  <2>7. SaysNumber(PoolPath) => v = denoted[PoolPath]
      BY <2>2 DEF SaysNumber
  <2> QED
      BY <2>4, <2>5, <2>6, <2>7 DEF Fits
<1> QED
    BY <1>1, Invariance, PTL
=============================================================================
