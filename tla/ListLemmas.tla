------------------------------ MODULE ListLemmas ------------------------------
(***************************************************************************)
(* Facts about the lists of the program, modelled as sequences: what       *)
(* linking a node at the tail and unlinking a node do to the set of nodes  *)
(* and to their being distinct; and the least element of a set of indices. *)
(***************************************************************************)
EXTENDS Naturals, SequencesExt, SequenceTheorems, WellFoundedInduction, TLAPS

(* Linking adds the new node and nothing else. *)
LEMMA AppendNode ==
  ASSUME NEW S, NEW q \in Seq(S), NEW n \in S
  PROVE  /\ Append(q, n) \in Seq(S) /\ Len(Append(q, n)) = Len(q) + 1
         /\ ToSet(Append(q, n)) = ToSet(q) \cup {n}
         /\ IsInjective(q) /\ n \notin ToSet(q) => IsInjective(Append(q, n))
<1> DEFINE r == Append(q, n)
<1>1. /\ r \in Seq(S) /\ Len(r) = Len(q) + 1
      /\ \A i \in 1..Len(q) : r[i] = q[i]
      /\ r[Len(q) + 1] = n
  BY AppendProperties
<1>2. DOMAIN q = 1..Len(q) /\ DOMAIN r = 1..(Len(q) + 1) /\ Len(q) \in Nat
  BY <1>1, LenProperties
<1>3. ToSet(r) = ToSet(q) \cup {n}
  BY <1>1, <1>2 DEF ToSet
<1>4. ASSUME IsInjective(q), n \notin ToSet(q) PROVE IsInjective(r)
  <2>1. \A j \in 1..Len(q) : q[j] # n
    BY <1>2, <1>4 DEF ToSet
  <2> SUFFICES ASSUME NEW j \in 1..(Len(q) + 1), NEW k \in 1..(Len(q) + 1), r[j] = r[k]
               PROVE  j = k
    BY <1>2 DEF IsInjective
  <2>2. CASE j = Len(q) + 1 \/ k = Len(q) + 1
    BY <1>1, <1>2, <2>1, <2>2
  <2>3. CASE j \in 1..Len(q) /\ k \in 1..Len(q)
    BY <1>1, <1>2, <1>4, <2>3 DEF IsInjective
  <2> QED BY <1>2, <2>2, <2>3
<1> QED BY <1>1, <1>3, <1>4

(* Linking at the head. *)
LEMMA PrependNode ==
  ASSUME NEW S, NEW q \in Seq(S), NEW n \in S
  PROVE  /\ <<n>> \o q \in Seq(S)
         /\ ToSet(<<n>> \o q) = ToSet(q) \cup {n}
         /\ IsInjective(q) /\ n \notin ToSet(q) => IsInjective(<<n>> \o q)
<1> DEFINE r == <<n>> \o q
<1>1. <<n>> \in Seq(S) /\ Len(<<n>>) = 1 /\ <<n>>[1] = n
  OBVIOUS
<1>2. /\ r \in Seq(S) /\ Len(r) = 1 + Len(q)
      /\ \A i \in 1..(1 + Len(q)) : r[i] = IF i <= 1 THEN <<n>>[i] ELSE q[i - 1]
  BY <1>1, ConcatProperties
<1>3. DOMAIN q = 1..Len(q) /\ DOMAIN r = 1..(1 + Len(q)) /\ Len(q) \in Nat
  BY <1>2, LenProperties
<1>4. r[1] = n /\ \A i \in 1..Len(q) : r[i + 1] = q[i]
  <2>1. \A i \in 1..Len(q) : i + 1 \in 1..(1 + Len(q)) /\ ~(i + 1 <= 1) /\ (i + 1) - 1 = i
    BY <1>3
  <2>2. 1 \in 1..(1 + Len(q))
    BY <1>3
  <2> HIDE DEF r
  <2> QED BY <1>1, <1>2, <2>1, <2>2
<1> HIDE DEF r
<1>5. \A j \in 1..(1 + Len(q)) : j = 1 \/ (j - 1 \in 1..Len(q) /\ r[j] = q[j - 1])
  <2> SUFFICES ASSUME NEW j \in 1..(1 + Len(q)), j # 1
               PROVE  j - 1 \in 1..Len(q) /\ r[j] = q[j - 1]
    OBVIOUS
  <2>1. j - 1 \in 1..Len(q) /\ (j - 1) + 1 = j
    BY <1>3
  <2> QED BY <1>4, <2>1
<1>6. ToSet(r) = ToSet(q) \cup {n}
  <2>1. ASSUME NEW x \in ToSet(r) PROVE x \in ToSet(q) \cup {n}
    <3>1. PICK j \in 1..(1 + Len(q)) : r[j] = x
      BY <1>3, <2>1 DEF ToSet
    <3>2. CASE j = 1
      BY <1>4, <3>1, <3>2
    <3>3. CASE j # 1
      BY <1>3, <1>5, <3>1, <3>3 DEF ToSet
    <3> QED BY <3>2, <3>3
  <2>2. ASSUME NEW x \in ToSet(q) PROVE x \in ToSet(r)
    <3>1. PICK i \in 1..Len(q) : q[i] = x
      BY <1>3 DEF ToSet
    <3>2. i + 1 \in 1..(1 + Len(q)) /\ r[i + 1] = x
      BY <1>3, <1>4, <3>1
    <3> QED BY <1>3, <3>2 DEF ToSet
  <2>3. n \in ToSet(r)
    <3>1. 1 \in 1..(1 + Len(q))
      BY <1>3
    <3> QED BY <1>3, <1>4, <3>1 DEF ToSet
  <2> QED BY <2>1, <2>2, <2>3
<1>7. ASSUME IsInjective(q), n \notin ToSet(q) PROVE IsInjective(r)
  <2>1. \A i \in 1..Len(q) : q[i] # n
    BY <1>3, <1>7 DEF ToSet
  <2> SUFFICES ASSUME NEW i \in 1..(1 + Len(q)), NEW j \in 1..(1 + Len(q)), r[i] = r[j]
               PROVE  i = j
    BY <1>3 DEF IsInjective
  <2>2. CASE i = 1 \/ j = 1
    BY <1>4, <1>5, <2>1, <2>2
  <2>3. CASE i # 1 /\ j # 1
    <3>1. i - 1 = j - 1
      BY <1>3, <1>5, <1>7, <2>3 DEF IsInjective
    <3> QED BY <3>1
  <2> QED BY <2>2, <2>3
<1> QED BY <1>2, <1>6, <1>7 DEF r

(* The nodes of a list are of its type. *)
LEMMA NodesTyped ==
  ASSUME NEW S, NEW q \in Seq(S)
  PROVE  ToSet(q) \subseteq S
<1> QED BY LenProperties, ElementOfSeq DEF ToSet

(* Unlinking takes one node out of a list without repetitions, and nothing else. *)
LEMMA RemoveNode ==
  ASSUME NEW S, NEW q \in Seq(S), IsInjective(q), NEW n \in ToSet(q)
  PROVE  /\ RemoveFirst(q, n) \in Seq(S) /\ Len(RemoveFirst(q, n)) = Len(q) - 1
         /\ ToSet(RemoveFirst(q, n)) = ToSet(q) \ {n}
         /\ IsInjective(RemoveFirst(q, n))
<1>0. DOMAIN q = 1..Len(q) /\ Len(q) \in Nat /\ \A i \in 1..Len(q) : q[i] \in S
  BY LenProperties, ElementOfSeq
<1>1. PICK k \in 1..Len(q) : q[k] = n
  BY <1>0 DEF ToSet
<1>2. {i \in 1..Len(q) : q[i] = n} = {k}
  BY <1>0, <1>1 DEF IsInjective
<1>3. RemoveFirst(q, n) = RemoveAt(q, k)
  <2>1. {i \in 1..Len(q) : q[i] = n} # {} /\ Min({i \in 1..Len(q) : q[i] = n}) = k
    BY <1>2 DEF Min
  <2>2. SelectInSeq(q, LAMBDA v : v = n) = k
    BY <2>1 DEF SelectInSeq
  <2> QED BY <1>1, <2>2 DEF RemoveFirst
<1> DEFINE a == SubSeq(q, 1, k - 1)
           b == SubSeq(q, k + 1, Len(q))
           r == a \o b
<1>4. RemoveFirst(q, n) = r
  BY <1>3 DEF RemoveAt
<1>5. a \in Seq(S) /\ Len(a) = k - 1 /\ \A i \in 1..(k - 1) : a[i] = q[i]
  <2>1. 1 \in Int /\ k - 1 \in Int /\ \A i \in 1..(k - 1) : q[i] \in S
    BY <1>0
  <2> HIDE DEF a
  <2>2. /\ a \in Seq(S) /\ Len(a) = IF 1 <= k - 1 THEN (k - 1) - 1 + 1 ELSE 0
        /\ \A i \in 1..((k - 1) - 1 + 1) : a[i] = q[1 + i - 1]
    BY <2>1, SubSeqProperties DEF a
  <2> QED BY <1>0, <2>2
<1>6. b \in Seq(S) /\ Len(b) = Len(q) - k /\ \A i \in 1..(Len(q) - k) : b[i] = q[k + i]
  <2>1. k + 1 \in Int /\ Len(q) \in Int /\ \A i \in (k + 1)..Len(q) : q[i] \in S
    BY <1>0
  <2> HIDE DEF b
  <2>2. /\ b \in Seq(S) /\ Len(b) = IF k + 1 <= Len(q) THEN Len(q) - (k + 1) + 1 ELSE 0
        /\ \A i \in 1..(Len(q) - (k + 1) + 1) : b[i] = q[k + 1 + i - 1]
    BY <2>1, SubSeqProperties DEF b
  <2>3. Len(b) = Len(q) - k
    <3>1. Len(q) \in Nat /\ k \in Nat /\ k <= Len(q)
      BY <1>0
    <3>2. Len(b) = IF k + 1 <= Len(q) THEN Len(q) - (k + 1) + 1 ELSE 0
      BY <2>2
    <3> QED BY <3>1, <3>2
  <2>4. \A i \in 1..(Len(q) - k) : i \in 1..(Len(q) - (k + 1) + 1) /\ k + 1 + i - 1 = k + i
    BY <1>0
  <2> QED BY <2>2, <2>3, <2>4
<1> HIDE DEF a, b
<1>7. /\ r \in Seq(S) /\ Len(r) = Len(q) - 1
      /\ \A j \in 1..Len(r) : r[j] = IF j < k THEN q[j] ELSE q[j + 1]
  <2>1. /\ r \in Seq(S) /\ Len(r) = Len(a) + Len(b)
        /\ \A i \in 1..(Len(a) + Len(b)) :
             r[i] = IF i <= Len(a) THEN a[i] ELSE b[i - Len(a)]
    BY <1>5, <1>6, ConcatProperties
  <2>2. Len(r) = Len(q) - 1
    BY <1>0, <1>5, <1>6, <2>1
  <2>3. ASSUME NEW j \in 1..Len(r) PROVE r[j] = IF j < k THEN q[j] ELSE q[j + 1]
    <3>1. CASE j < k
      BY <1>0, <1>5, <2>1, <2>2, <3>1
    <3>2. CASE ~(j < k)
      <4>1. j - Len(a) \in 1..(Len(q) - k) /\ k + (j - Len(a)) = j + 1
        BY <1>0, <1>5, <2>2, <3>2
      <4> QED BY <1>0, <1>5, <1>6, <2>1, <2>2, <3>2, <4>1
    <3> QED BY <3>1, <3>2
  <2> QED BY <2>1, <2>2, <2>3
<1> HIDE DEF r
<1>8. DOMAIN r = 1..Len(r) /\ Len(r) \in Nat
  BY <1>7, LenProperties
<1>9. ToSet(r) = ToSet(q) \ {n}
  <2>1. ASSUME NEW x \in ToSet(r) PROVE x \in ToSet(q) /\ x # n
    <3>1. PICK j \in 1..Len(r) : r[j] = x
      BY <1>8 DEF ToSet
    <3>2. PICK m \in 1..Len(q) : q[m] = x /\ m # k
      BY <1>0, <1>7, <1>8, <3>1
    <3> QED BY <1>0, <1>1, <3>2 DEF ToSet, IsInjective
  <2>2. ASSUME NEW x \in ToSet(q), x # n PROVE x \in ToSet(r)
    <3>1. PICK m \in 1..Len(q) : q[m] = x
      BY <1>0 DEF ToSet
    <3>2. CASE m < k
      <4>1. m \in 1..Len(r) /\ r[m] = x
        BY <1>0, <1>7, <3>1, <3>2
      <4> QED BY <1>8, <4>1 DEF ToSet
    <3>3. CASE m > k
      <4>1. m - 1 \in 1..Len(r) /\ r[m - 1] = x
        BY <1>0, <1>7, <3>1, <3>3
      <4> QED BY <1>8, <4>1 DEF ToSet
    <3> QED BY <1>0, <1>1, <2>2, <3>1, <3>2, <3>3
  <2> QED BY <2>1, <2>2
<1>10. IsInjective(r)
  <2>1. ASSUME NEW i \in 1..Len(r), NEW j \in 1..Len(r), r[i] = r[j] PROVE i = j
    <3> DEFINE at(m) == IF m < k THEN m ELSE m + 1
    <3>1. /\ at(i) \in 1..Len(q) /\ at(j) \in 1..Len(q)
          /\ r[i] = q[at(i)] /\ r[j] = q[at(j)]
      BY <1>0, <1>7, <1>8
    <3>2. at(i) = at(j)
      BY <1>0, <2>1, <3>1 DEF IsInjective
    <3> QED BY <3>2
  <2> QED BY <1>8, <2>1 DEF IsInjective
<1> QED BY <1>4, <1>7, <1>9, <1>10

(* Taking the first element leaves the others. *)
LEMMA TailNode ==
  ASSUME NEW S, NEW q \in Seq(S), q # <<>>
  PROVE  /\ Head(q) \in S /\ Head(q) \in ToSet(q) /\ Tail(q) \in Seq(S)
         /\ ToSet(q) = ToSet(Tail(q)) \cup {Head(q)}
         /\ IsInjective(q) => IsInjective(Tail(q)) /\ Head(q) \notin ToSet(Tail(q))
<1> DEFINE r == Tail(q)
<1>1. /\ Head(q) = q[1] /\ Head(q) \in S
      /\ r \in Seq(S) /\ Len(r) = Len(q) - 1
      /\ \A i \in 1..Len(r) : r[i] = q[i + 1]
  BY HeadTailProperties
<1>2. /\ DOMAIN q = 1..Len(q) /\ Len(q) \in Nat /\ Len(q) > 0
      /\ DOMAIN r = 1..Len(r)
  BY <1>1, LenProperties, EmptySeq
<1> HIDE DEF r
<1>3. ASSUME NEW x \in ToSet(q), x # Head(q) PROVE x \in ToSet(r)
  <2>1. PICK j \in 1..Len(q) : q[j] = x
    BY <1>2 DEF ToSet
  <2>2. j - 1 \in 1..Len(r) /\ r[j - 1] = x
    BY <1>1, <1>2, <1>3, <2>1
  <2> QED BY <1>2, <2>2 DEF ToSet
<1>4. ASSUME NEW x \in ToSet(r) PROVE \E j \in 2..Len(q) : q[j] = x
  <2>1. PICK j \in 1..Len(r) : r[j] = x
    BY <1>2 DEF ToSet
  <2>2. j + 1 \in 2..Len(q) /\ q[j + 1] = x
    BY <1>1, <1>2, <2>1
  <2> QED BY <2>2
<1>5. Head(q) \in ToSet(q) /\ ToSet(r) \subseteq ToSet(q)
  BY <1>1, <1>2, <1>4 DEF ToSet
<1>6. ASSUME IsInjective(q) PROVE IsInjective(r) /\ Head(q) \notin ToSet(r)
  <2>1. Head(q) \notin ToSet(r)
    BY <1>1, <1>2, <1>4, <1>6 DEF IsInjective
  <2>2. ASSUME NEW i \in 1..Len(r), NEW j \in 1..Len(r), r[i] = r[j] PROVE i = j
    <3>1. i + 1 \in 1..Len(q) /\ j + 1 \in 1..Len(q) /\ q[i + 1] = q[j + 1]
      BY <1>1, <1>2, <2>2
    <3>2. i + 1 = j + 1
      BY <1>2, <1>6, <3>1 DEF IsInjective
    <3> QED BY <3>2
  <2> QED BY <1>2, <2>1, <2>2 DEF IsInjective
<1> QED BY <1>1, <1>3, <1>5, <1>6 DEF r

(* No first counterexample, no counterexample. *)
LEMMA LeastNumber ==
  ASSUME NEW T \in SUBSET Nat, T # {}
  PROVE  \E x \in T : \A y \in T : x <= y
<1> DEFINE R == OpToRel(<, Nat)
<1>1. \E x \in T : \A y \in T : ~(<<y, x>> \in R)
  BY WFMin, NatLessThanWellFounded
<1>2. ASSUME NEW x \in Nat, NEW y \in Nat, x < y PROVE <<x, y>> \in R
  BY <1>2, Zenon DEF OpToRel
<1> HIDE DEF R
<1>3. PICK x \in T : \A y \in T : <<y, x>> \notin R
  BY <1>1
<1>4. ASSUME NEW y \in T PROVE x <= y
  <2>1. x \in Nat /\ y \in Nat /\ ~(y < x)
    BY <1>2, <1>3
  <2> QED BY <2>1
<1> QED BY <1>4

(* The least element a CHOOSE picks from a non-empty set of indices exists. *)
LEMMA LeastIndex ==
  ASSUME NEW T \in SUBSET Nat, T # {}
  PROVE  LET least == CHOOSE i \in T : \A j \in T : i <= j
         IN  least \in T /\ \A j \in T : least <= j
BY LeastNumber

-----------------------------------------------------------------------------
LEMMA Regroup ==
  ASSUME NEW S
  PROVE  \A s, t, u \in Seq(S) : (s \o t) \o u = s \o (t \o u)
BY ConcatAssociative

(* What FlattenSeq builds: prefix by prefix. *)
Partial(f, q, n) ==
  \A i \in 1..n : f[i] = IF i = 1 THEN q[i] ELSE f[i - 1] \o q[i]

LEMMA PartialTyped ==
  ASSUME NEW S, NEW q \in Seq(Seq(S)), NEW f, NEW n \in 1..Len(q), Partial(f, q, n)
  PROVE  \A i \in 1..n : f[i] \in Seq(S)
<1> DEFINE Bad == {i \in 1..n : f[i] \notin Seq(S)}
<1>0. Len(q) \in Nat /\ \A i \in 1..Len(q) : q[i] \in Seq(S)
  BY LenProperties, ElementOfSeq
<1>1. SUFFICES ASSUME Bad # {} PROVE FALSE
  OBVIOUS
<1>2. PICK m \in Bad : \A j \in Bad : m <= j
  <2>1. Bad \in SUBSET Nat
    BY <1>0
  <2> HIDE DEF Bad
  <2> QED BY <1>1, <2>1, LeastNumber
<1>3. m \in 1..n /\ f[m] \notin Seq(S) /\ q[m] \in Seq(S)
  BY <1>0, <1>2
<1>4. CASE m = 1
  BY <1>3, <1>4 DEF Partial
<1>5. CASE m # 1
  <2>1. m - 1 \in 1..n /\ ~(m <= m - 1)
    BY <1>0, <1>3, <1>5
  <2>2. f[m - 1] \in Seq(S)
    BY <1>2, <2>1
  <2>3. f[m] = f[m - 1] \o q[m]
    BY <1>3, <1>5 DEF Partial
  <2> QED BY <1>3, <2>2, <2>3, ConcatProperties
<1> QED BY <1>4, <1>5

Agree(f, g, n) == \A i \in 1..n : f[i] = g[i]

LEMMA PartialUnique ==
  ASSUME NEW q, NEW r, NEW f, NEW g, NEW n \in Nat, Partial(f, q, n), Partial(g, r, n),
         Agree(q, r, n)
  PROVE  Agree(f, g, n)
<1> SUFFICES \A i \in 1..n : f[i] = g[i]
  BY DEF Agree
<1> DEFINE Bad == {i \in 1..n : f[i] # g[i]}
<1>1. SUFFICES ASSUME Bad # {} PROVE FALSE
  OBVIOUS
<1>2. PICK m \in Bad : \A j \in Bad : m <= j
  <2>1. Bad \in SUBSET Nat
    OBVIOUS
  <2> HIDE DEF Bad
  <2> QED BY <1>1, <2>1, LeastNumber
<1>3. m \in 1..n /\ f[m] # g[m] /\ q[m] = r[m]
  BY <1>2 DEF Agree
<1>4. CASE m = 1
  BY <1>3, <1>4 DEF Partial
<1>5. CASE m # 1
  <2>1. m - 1 \in 1..n /\ ~(m <= m - 1)
    BY <1>3, <1>5
  <2>2. f[m - 1] = g[m - 1]
    BY <1>2, <2>1
  <2> QED BY <1>3, <1>5, <2>2 DEF Partial
<1> QED BY <1>4, <1>5

Flattens(f, q, n) == f = [i \in 1..n |-> IF i = 1 THEN q[i] ELSE f[i - 1] \o q[i]]

LEMMA FlattensPartial ==
  ASSUME NEW q, NEW f, NEW n \in Nat, Flattens(f, q, n)
  PROVE  Partial(f, q, n)
<1> DEFINE e(h, i) == IF i = 1 THEN q[i] ELSE h[i - 1] \o q[i]
<1>1. f = [i \in 1..n |-> e(f, i)]
  BY DEF Flattens
<1> HIDE DEF e
<1>2. \A i \in 1..n : f[i] = e(f, i)
  BY <1>1
<1> QED BY <1>2 DEF Partial, e

(* The function that FlattenSeq chooses exists. *)
LEMMA FlattenExists ==
  ASSUME NEW q, NEW n \in Nat
  PROVE  \E f : Flattens(f, q, n)
<1> DEFINE Bad == {m \in Nat : ~\E f : Flattens(f, q, m)}
<1>1. SUFFICES ASSUME Bad # {} PROVE FALSE
  OBVIOUS
<1>2. PICK m \in Bad : \A j \in Bad : m <= j
  BY <1>1, LeastNumber
<1>3. m \in Nat /\ ~\E f : Flattens(f, q, m)
  BY <1>2
<1>4. CASE m = 0
  <2> DEFINE f == [i \in 1..0 |-> q]
  <2>1. 1..0 = {}
    OBVIOUS
  <2>2. Flattens(f, q, 0)
    BY <2>1 DEF Flattens
  <2> QED BY <1>3, <1>4, <2>2
<1>5. CASE m # 0
  <2>1. m - 1 \in Nat /\ ~(m <= m - 1)
    BY <1>3, <1>5
  <2>2. PICK g : Flattens(g, q, m - 1)
    BY <1>2, <2>1
  <2>3. Partial(g, q, m - 1)
    BY <2>1, <2>2, FlattensPartial
  <2> DEFINE e(h, i) == IF i = 1 THEN q[i] ELSE h[i - 1] \o q[i]
             f == [i \in 1..m |-> IF i = m THEN e(g, i) ELSE g[i]]
  <2>4. \A i \in 1..m : f[i] = IF i = m THEN e(g, i) ELSE g[i]
    OBVIOUS
  <2> HIDE DEF f
  <2>5. ASSUME NEW i \in 1..m PROVE f[i] = e(f, i)
    <3>1. CASE i = 1
      <4>1. i = m \/ (i # m /\ i \in 1..(m - 1))
        BY <1>3, <3>1
      <4> QED BY <2>3, <2>4, <3>1, <4>1 DEF Partial
    <3>2. CASE i # 1
      <4>1. i - 1 \in 1..m /\ i - 1 # m
        BY <1>3, <3>2
      <4>2. f[i - 1] = g[i - 1]
        BY <2>4, <4>1
      <4>3. CASE i = m
        BY <2>4, <3>2, <4>2, <4>3
      <4>4. CASE i # m
        <5>1. i \in 1..(m - 1)
          BY <1>3, <4>4
        <5> QED BY <2>3, <2>4, <3>2, <4>2, <4>4, <5>1 DEF Partial
      <4> QED BY <4>3, <4>4
    <3> QED BY <3>1, <3>2
  <2>6. f = [i \in 1..m |-> f[i]]
    BY DEF f
  <2>7. f = [i \in 1..m |-> e(f, i)]
    <3> HIDE DEF e
    <3> QED BY <2>5, <2>6, Zenon
  <2>8. Flattens(f, q, m)
    BY <2>7 DEF Flattens
  <2> QED BY <1>3, <2>8
<1> QED BY <1>4, <1>5

LEMMA FlattenIs ==
  ASSUME NEW S, NEW q \in Seq(Seq(S)), q # <<>>
  PROVE  \E f : Partial(f, q, Len(q)) /\ FlattenSeq(q) = f[Len(q)]
<1>1. Len(q) \in Nat /\ Len(q) # 0
  BY LenProperties, EmptySeq
<1> DEFINE f == CHOOSE g : g = [i \in 1..Len(q) |-> IF i = 1 THEN q[i] ELSE g[i - 1] \o q[i]]
<1>2. FlattenSeq(q) = f[Len(q)]
  BY <1>1, Zenon DEF FlattenSeq
<1>3. Flattens(f, q, Len(q))
  <2>1. \E g : g = [i \in 1..Len(q) |-> IF i = 1 THEN q[i] ELSE g[i - 1] \o q[i]]
    BY <1>1, FlattenExists, Zenon DEF Flattens
  <2>2. f = [i \in 1..Len(q) |-> IF i = 1 THEN q[i] ELSE f[i - 1] \o q[i]]
    BY <2>1, Zenon
  <2> QED BY <2>2, Zenon DEF Flattens
<1>4. Partial(f, q, Len(q))
  BY <1>1, <1>3, FlattensPartial
<1> QED BY <1>2, <1>4, Zenon

-----------------------------------------------------------------------------
(* The bytes of a list of packets are bytes. *)
LEMMA FlattenTyped ==
  ASSUME NEW S, NEW q \in Seq(Seq(S))
  PROVE  FlattenSeq(q) \in Seq(S)
<1>1. CASE q = <<>>
  <2>1. FlattenSeq(q) = q
    BY <1>1, EmptySeq DEF FlattenSeq
  <2> QED BY <1>1, <2>1, EmptySeq
<1>2. CASE q # <<>>
  <2>1. PICK f : Partial(f, q, Len(q)) /\ FlattenSeq(q) = f[Len(q)]
    BY <1>2, FlattenIs
  <2>2. Len(q) \in Nat /\ Len(q) # 0 /\ Len(q) \in 1..Len(q)
    BY <1>2, LenProperties, EmptySeq
  <2> QED BY <2>1, <2>2, PartialTyped
<1> QED BY <1>1, <1>2

LEMMA FlattenEmpty == FlattenSeq(<<>>) = <<>>
<1>1. Len(<<>>) = 0
  OBVIOUS
<1> QED BY <1>1 DEF FlattenSeq

(* A packet that is appended comes last. *)
LEMMA FlattenAppend ==
  ASSUME NEW S, NEW q \in Seq(Seq(S)), NEW p \in Seq(S)
  PROVE  FlattenSeq(Append(q, p)) = FlattenSeq(q) \o p
<1> DEFINE r == Append(q, p)
<1>1. /\ r \in Seq(Seq(S)) /\ r # <<>> /\ Len(r) = Len(q) + 1
      /\ \A i \in 1..Len(q) : r[i] = q[i]
      /\ r[Len(q) + 1] = p /\ Len(q) \in Nat
  BY AppendProperties, LenProperties
<1> HIDE DEF r
<1>2. PICK g : Partial(g, r, Len(r)) /\ FlattenSeq(r) = g[Len(r)]
  BY <1>1, FlattenIs
<1>3. CASE q = <<>>
  <2>1. Len(q) = 0 /\ Len(r) = 1 /\ FlattenSeq(q) = <<>>
    BY <1>1, <1>3, FlattenEmpty
  <2>2. g[1] = p
    BY <1>1, <1>2, <2>1 DEF Partial
  <2> QED BY <1>2, <2>1, <2>2, ConcatEmptySeq DEF r
<1>4. CASE q # <<>>
  <2>1. PICK f : Partial(f, q, Len(q)) /\ FlattenSeq(q) = f[Len(q)]
    BY <1>4, FlattenIs
  <2>2. Len(q) # 0
    BY <1>4, EmptySeq
  <2>3. Partial(g, r, Len(q))
    BY <1>1, <1>2 DEF Partial
  <2>4. f[Len(q)] = g[Len(q)]
    <3>1. \A i \in 1..Len(q) : f[i] = g[i]
      <4>1. Len(q) \in Nat /\ Agree(q, r, Len(q))
        BY <1>1 DEF Agree
      <4>2. Agree(f, g, Len(q))
        BY <2>1, <2>3, <4>1, PartialUnique, Zenon
      <4> QED BY <4>2 DEF Agree
    <3> QED BY <1>1, <2>2, <3>1
  <2>5. g[Len(q) + 1] = g[Len(q)] \o p
    <3>1. Len(q) + 1 \in 1..Len(r) /\ Len(q) + 1 # 1 /\ (Len(q) + 1) - 1 = Len(q)
      BY <1>1, <2>2
    <3> QED BY <1>1, <1>2, <3>1 DEF Partial
  <2> QED BY <1>1, <1>2, <2>1, <2>4, <2>5 DEF r
<1> QED BY <1>3, <1>4

(* The first packet comes first. *)
LEMMA FlattenHead ==
  ASSUME NEW S, NEW q \in Seq(Seq(S)), q # <<>>
  PROVE  FlattenSeq(q) = Head(q) \o FlattenSeq(Tail(q))
<1> DEFINE r == Tail(q)
<1>1. /\ r \in Seq(Seq(S)) /\ Len(r) = Len(q) - 1 /\ Head(q) = q[1] /\ q[1] \in Seq(S)
      /\ \A i \in 1..Len(r) : r[i] = q[i + 1]
      /\ Len(q) \in Nat /\ Len(q) # 0 /\ Len(r) \in Nat
  BY HeadTailProperties, LenProperties, EmptySeq
<1> HIDE DEF r
<1>2. PICK f : Partial(f, q, Len(q)) /\ FlattenSeq(q) = f[Len(q)]
  BY FlattenIs
<1>3. CASE r = <<>>
  <2>1. Len(r) = 0 /\ Len(q) = 1 /\ FlattenSeq(r) = <<>>
    BY <1>1, <1>3, FlattenEmpty
  <2>2. f[1] = q[1]
    BY <1>2, <2>1 DEF Partial
  <2> QED BY <1>1, <1>2, <2>1, <2>2, ConcatEmptySeq DEF r
<1>4. CASE r # <<>>
  <2>1. PICK g : Partial(g, r, Len(r)) /\ FlattenSeq(r) = g[Len(r)]
    BY <1>1, <1>4, FlattenIs
  <2>2. Len(r) \in 1..Len(r) /\ Len(r) # 0
    <3>1. Len(r) # 0
      BY <1>1, <1>4, EmptySeq
    <3> QED BY <1>1, <3>1
  <2>3. \A i \in 1..Len(r) : g[i] \in Seq(S) /\ r[i] \in Seq(S)
    BY <1>1, <2>1, <2>2, PartialTyped, ElementOfSeq
  <2> DEFINE N == Len(r)
             Bad == {i \in 1..N : f[i + 1] # q[1] \o g[i]}
  <2>4. ASSUME Bad # {} PROVE FALSE
    <3>1. PICK m \in Bad : \A j \in Bad : m <= j
      <4>1. Bad \in SUBSET Nat
        <5>1. 1..N \subseteq Nat
          BY <1>1
        <5> QED BY <5>1, Zenon
      <4> HIDE DEF Bad
      <4> QED BY <2>4, <4>1, LeastNumber
    <3>2. m \in 1..Len(r) /\ f[m + 1] # q[1] \o g[m]
      BY <3>1
    <3>3. f[m + 1] = f[m] \o r[m]
      <4>1. m + 1 \in 1..Len(q) /\ m + 1 # 1 /\ (m + 1) - 1 = m /\ r[m] = q[m + 1]
        BY <1>1, <3>2
      <4> QED BY <1>2, <4>1 DEF Partial
    <3>4. CASE m = 1
      <4>1. f[1] = q[1]
        BY <1>1, <1>2 DEF Partial
      <4>2. g[1] = r[1]
        BY <2>1, <2>2, <1>1, <3>2, <3>4 DEF Partial
      <4> QED BY <3>2, <3>3, <3>4, <4>1, <4>2
    <3>5. CASE m # 1
      <4>1. m - 1 \in 1..Len(r) /\ ~(m <= m - 1) /\ (m - 1) + 1 = m
        BY <1>1, <3>2, <3>5
      <4>2. f[m] = q[1] \o g[m - 1]
        <5>1. m - 1 \notin Bad
          BY <3>1, <4>1
        <5> QED BY <4>1, <5>1
      <4>3. g[m] = g[m - 1] \o r[m]
        BY <2>1, <3>2, <3>5 DEF Partial
      <4>4. (q[1] \o g[m - 1]) \o r[m] = q[1] \o (g[m - 1] \o r[m])
        <5>1. q[1] \in Seq(S) /\ g[m - 1] \in Seq(S) /\ r[m] \in Seq(S)
          BY <1>1, <2>3, <3>2, <4>1
        <5>2. \A s, t, u \in Seq(S) : (s \o t) \o u = s \o (t \o u)
          BY ONLY Regroup
        <5> QED BY <5>1, <5>2
      <4> QED BY <3>2, <3>3, <4>2, <4>3, <4>4
    <3> QED BY <3>4, <3>5
  <2>5. f[Len(r) + 1] = q[1] \o g[Len(r)]
    BY <2>2, <2>4
  <2>6. Len(r) + 1 = Len(q)
    BY <1>1
  <2>7. FlattenSeq(q) = Head(q) \o FlattenSeq(r)
    BY <1>1, <1>2, <2>1, <2>5, <2>6
  <2> QED BY <2>7 DEF r
<1> QED BY <1>3, <1>4

LEMMA FlattenPrepend ==
  ASSUME NEW S, NEW q \in Seq(Seq(S)), NEW p \in Seq(S)
  PROVE  FlattenSeq(<<p>> \o q) = p \o FlattenSeq(q)
<1> DEFINE r == <<p>> \o q
<1>1. <<p>> \in Seq(Seq(S)) /\ <<p>> # <<>> /\ Len(<<p>>) = 1 /\ <<p>>[1] = p
  OBVIOUS
<1>2. r \in Seq(Seq(S)) /\ r # <<>> /\ Head(r) = p /\ Tail(r) = q
  BY <1>1, ConcatSimplifications, ConcatProperties, HeadTailProperties
<1> HIDE DEF r
<1>3. FlattenSeq(r) = Head(r) \o FlattenSeq(Tail(r))
  BY <1>2, FlattenHead
<1> QED BY <1>2, <1>3 DEF r

(* A list is its front and its last element. *)
LEMMA FrontLast ==
  ASSUME NEW S, NEW q \in Seq(S), q # <<>>
  PROVE  Front(q) \in Seq(S) /\ Last(q) \in S /\ q = Append(Front(q), Last(q))
<1>1. PICK r \in Seq(S), e \in S : q = Append(r, e)
  BY SequenceEmptyOrAppend
<1>2. /\ Len(q) = Len(r) + 1 /\ q[Len(q)] = e /\ \A i \in 1..Len(r) : q[i] = r[i]
      /\ Len(r) \in Nat
  BY <1>1, AppendProperties, LenProperties
<1>3. Last(q) = e
  BY <1>2 DEF Last
<1>4. Front(q) = SubSeq(q, 1, Len(r))
  BY <1>2 DEF Front
<1>5. SubSeq(q, 1, Len(r)) = r
  <2>1. \A i \in 1..Len(r) : q[i] \in S
    BY <1>2, ElementOfSeq
  <2>2. /\ SubSeq(q, 1, Len(r)) \in Seq(S)
        /\ Len(SubSeq(q, 1, Len(r))) = IF 1 <= Len(r) THEN Len(r) - 1 + 1 ELSE 0
        /\ \A i \in 1..(Len(r) - 1 + 1) : SubSeq(q, 1, Len(r))[i] = q[1 + i - 1]
    BY <1>2, <2>1, SubSeqProperties
  <2> DEFINE t == SubSeq(q, 1, Len(r))
  <2> HIDE DEF t
  <2>3. t \in Seq(S) /\ Len(t) = Len(r) /\ \A i \in 1..Len(r) : t[i] = r[i]
    BY <1>2, <2>2 DEF t
  <2>4. t = r
    BY <2>3, SeqEqual
  <2> QED BY <2>4 DEF t
<1> QED BY <1>1, <1>3, <1>4, <1>5

(* What is joined to the last packet comes last. *)
LEMMA FlattenExtend ==
  ASSUME NEW S, NEW q \in Seq(Seq(S)), q # <<>>, NEW p \in Seq(S)
  PROVE  /\ Front(q) \o <<Last(q) \o p>> \in Seq(Seq(S))
         /\ FlattenSeq(Front(q) \o <<Last(q) \o p>>) = FlattenSeq(q) \o p
<1>1. Front(q) \in Seq(Seq(S)) /\ Last(q) \in Seq(S) /\ q = Append(Front(q), Last(q))
  BY FrontLast
<1>2. Front(q) \o <<Last(q) \o p>> = Append(Front(q), Last(q) \o p)
  BY <1>1, ConcatProperties, AppendIsConcat
<1>3. FlattenSeq(Front(q)) \in Seq(S)
  BY <1>1, FlattenTyped
<1>4. Last(q) \o p \in Seq(S)
  BY <1>1, ConcatProperties
<1> DEFINE a == Front(q)
           b == Last(q)
<1>5. FlattenSeq(Append(a, b \o p)) = FlattenSeq(a) \o (b \o p)
  BY <1>1, <1>4, FlattenAppend
<1>6. FlattenSeq(Append(a, b)) = FlattenSeq(a) \o b
  BY <1>1, FlattenAppend
<1>7. (FlattenSeq(a) \o b) \o p = FlattenSeq(a) \o (b \o p)
  <2>1. \A s, t, u \in Seq(S) : (s \o t) \o u = s \o (t \o u)
    BY ONLY Regroup
  <2> QED BY <1>1, <1>3, <2>1
<1>8. Append(a, b \o p) \in Seq(Seq(S))
  BY <1>1, <1>4, AppendProperties
<1> HIDE DEF a, b
<1> QED BY <1>1, <1>2, <1>5, <1>6, <1>7, <1>8 DEF a, b

(* The smaller of two numbers. *)
LEMMA MinOfTwo ==
  ASSUME NEW a \in Nat, NEW b \in Nat
  PROVE  Min({a, b}) \in Nat /\ Min({a, b}) <= a /\ Min({a, b}) <= b /\ Min({a, b}) \in {a, b}
<1>1. \E x \in {a, b} : \A y \in {a, b} : x <= y
  <2>1. a <= b \/ b <= a
    OBVIOUS
  <2> QED BY <2>1
<1> DEFINE m == Min({a, b})
<1>2. m \in {a, b} /\ \A y \in {a, b} : m <= y
  BY <1>1 DEF Min
<1> HIDE DEF m
<1>3. m \in Nat /\ m <= a /\ m <= b /\ m \in {a, b}
  BY <1>2
<1> QED BY <1>3 DEF m
=============================================================================
