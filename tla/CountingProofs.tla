--------------------------- MODULE CountingProofs ----------------------------
(* What Append and Tail do to the counts of Counting, and what a change of  *)
(* one member does to a total.                                              *)
EXTENDS Counting, FiniteSetTheorems, TLAPS

LEMMA PositionsFinite ==
  ASSUME NEW S, NEW seq \in Seq(S), NEW x
  PROVE  /\ IsFiniteSet(Positions(seq, x)) /\ Count(seq, x) \in Nat
         /\ Positions(seq, x) \subseteq Nat
<1>1. IsFiniteSet(1..Len(seq)) /\ 1..Len(seq) \subseteq Nat
  BY FS_Interval
<1>2. Positions(seq, x) \subseteq 1..Len(seq)
  BY DEF Positions
<1>3. IsFiniteSet(Positions(seq, x))
  BY <1>1, <1>2, FS_Subset
<1> QED BY <1>1, <1>2, <1>3, FS_CardinalityType DEF Count

LEMMA CountEmpty == \A x : Positions(<<>>, x) = {} /\ Count(<<>>, x) = 0
<1>1. \A x : Positions(<<>>, x) = {}
  BY DEF Positions
<1> QED BY <1>1, FS_EmptySet DEF Count

(* Append adds the last position when its element is the one counted. *)
LEMMA PositionsAppend ==
  ASSUME NEW S, NEW seq \in Seq(S), NEW y \in S, NEW x
  PROVE  /\ x = y => Positions(Append(seq, y), x) = Positions(seq, x) \cup {Len(seq) + 1}
         /\ x # y => Positions(Append(seq, y), x) = Positions(seq, x)
         /\ Len(seq) + 1 \notin Positions(seq, x)
<1> DEFINE more == Append(seq, y)
           n == Len(seq)
<1>1. Len(more) = n + 1 /\ n \in Nat /\ more[n + 1] = y /\ \A i \in 1..n : more[i] = seq[i]
  OBVIOUS
<1>2. Positions(seq, x) = {i \in 1..n : seq[i] = x}
  BY DEF Positions
<1> HIDE DEF more, n
<1>3. \A i : i \in 1..Len(more) <=> i \in 1..n \/ i = n + 1
  BY <1>1
<1>4. n + 1 \notin 1..n
  BY <1>1
<1>5. x = y => Positions(more, x) = Positions(seq, x) \cup {n + 1}
  BY <1>1, <1>2, <1>3, <1>4 DEF Positions
<1>6. x # y => Positions(more, x) = Positions(seq, x)
  BY <1>1, <1>2, <1>3, <1>4 DEF Positions
<1>7. n + 1 \notin Positions(seq, x)
  BY <1>2, <1>4
<1> QED BY <1>5, <1>6, <1>7 DEF more, n

LEMMA CountAppend ==
  ASSUME NEW S, NEW seq \in Seq(S), NEW y \in S, NEW x
  PROVE  Count(Append(seq, y), x) = Count(seq, x) + (IF x = y THEN 1 ELSE 0)
<1>1. IsFiniteSet(Positions(seq, x)) /\ Count(seq, x) \in Nat
  BY PositionsFinite
<1>2. CASE x = y
  <2>1. Positions(Append(seq, y), x) = Positions(seq, x) \cup {Len(seq) + 1}
    BY <1>2, PositionsAppend
  <2>2. Len(seq) + 1 \notin Positions(seq, x)
    BY PositionsAppend
  <2>3. Cardinality(Positions(seq, x) \cup {Len(seq) + 1}) = Cardinality(Positions(seq, x)) + 1
    BY <1>1, <2>2, FS_AddElement
  <2> QED BY <1>2, <2>1, <2>3 DEF Count
<1>3. CASE x # y
  <2>1. Positions(Append(seq, y), x) = Positions(seq, x)
    BY <1>3, PositionsAppend
  <2> QED BY <1>1, <1>3, <2>1 DEF Count
<1> QED BY <1>2, <1>3

(* Tail removes the first position and shifts the others. *)
LEMMA CountTail ==
  ASSUME NEW S, NEW seq \in Seq(S), seq # <<>>, NEW x
  PROVE  Count(seq, x) = Count(Tail(seq), x) + (IF x = Head(seq) THEN 1 ELSE 0)
<1> DEFINE rest == Tail(seq)
           n == Len(seq)
           old == Positions(seq, x)
           new == Positions(rest, x)
           later == old \ {1}
<1>1. /\ n \in Nat /\ n >= 1 /\ Len(rest) = n - 1 /\ rest \in Seq(S) /\ Head(seq) = seq[1]
      /\ \A i \in 1..Len(rest) : rest[i] = seq[i + 1]
  OBVIOUS
<1>2. IsFiniteSet(old) /\ IsFiniteSet(new) /\ Count(seq, x) \in Nat /\ Count(rest, x) \in Nat
  BY <1>1, PositionsFinite
<1>3. old = {i \in 1..n : seq[i] = x} /\ new = {i \in 1..Len(rest) : rest[i] = x}
  BY DEF Positions
<1> HIDE DEF rest, n, old, new
<1>4. IsFiniteSet(later)
  BY <1>2, FS_Subset
<1> DEFINE f == [i \in later |-> i - 1]
<1>5. \A i \in later : i \in 2..n /\ seq[i] = x /\ i \in Int
  BY <1>1, <1>3
<1>6. \A i \in later : i - 1 \in 1..Len(rest) /\ (i - 1) + 1 = i
  BY <1>1, <1>5
<1>7. \A i \in later : i - 1 \in new
  BY <1>1, <1>3, <1>5, <1>6
<1>8. \A j \in new : j + 1 \in later /\ (j + 1) - 1 = j
  <2>1. \A j \in new : j \in 1..Len(rest) /\ rest[j] = x
    BY <1>3
  <2>2. \A j \in 1..Len(rest) : j + 1 \in 1..n /\ j + 1 # 1 /\ (j + 1) - 1 = j
    BY <1>1
  <2>3. \A j \in new : seq[j + 1] = x
    BY <1>1, <2>1
  <2> QED BY <1>3, <2>1, <2>2, <2>3
<1>9. f \in Bijection(later, new)
  <2>1. f \in [later -> new]
    BY <1>7
  <2>2. \A a, b \in later : f[a] = f[b] => a = b
    BY <1>5
  <2>3. \A j \in new : \E i \in later : f[i] = j
    BY <1>8
  <2> QED BY <2>1, <2>2, <2>3 DEF Bijection, Injection, Surjection, IsInjective
<1>10. Cardinality(new) = Cardinality(later)
  <2>1. ExistsBijection(later, new)
    BY <1>9 DEF ExistsBijection
  <2> QED BY <1>4, <2>1, FS_Bijection
<1>11. CASE x = seq[1]
  <2>1. 1 \in old
    BY <1>1, <1>3, <1>11
  <2>2. Cardinality(later) = Cardinality(old) - 1
    BY <1>2, <2>1, FS_RemoveElement
  <2> QED BY <1>1, <1>2, <1>10, <1>11, <2>2 DEF Count, old, new, rest
<1>12. CASE x # seq[1]
  <2>1. later = old
    BY <1>3, <1>12
  <2> HIDE DEF later
  <2> QED BY <1>1, <1>2, <1>10, <1>12, <2>1 DEF Count, old, new, rest
<1> QED BY <1>11, <1>12

-----------------------------------------------------------------------------
(* Totals *)

Pairs(family) == UNION {{k} \X family[k] : k \in DOMAIN family}

LEMMA PairsMember ==
  ASSUME NEW family, NEW p
  PROVE  p \in Pairs(family) <=> \E k \in DOMAIN family : \E i \in family[k] : p = <<k, i>>
BY DEF Pairs

(* The pairs of one key are as many as its set has elements. *)
LEMMA PairsOfOne ==
  ASSUME NEW k, NEW T, IsFiniteSet(T)
  PROVE  IsFiniteSet({k} \X T) /\ Cardinality({k} \X T) = Cardinality(T)
<1>1. IsFiniteSet({k}) /\ Cardinality({k}) = 1
  BY FS_Singleton
<1>2. IsFiniteSet({k} \X T) /\ Cardinality({k} \X T) = Cardinality({k}) * Cardinality(T)
  BY <1>1, FS_Product
<1>3. Cardinality(T) \in Nat
  BY FS_CardinalityType
<1> QED BY <1>1, <1>2, <1>3

LEMMA PairsFinite ==
  ASSUME NEW family, IsFiniteSet(DOMAIN family),
         \A k \in DOMAIN family : IsFiniteSet(family[k])
  PROVE  IsFiniteSet(Pairs(family)) /\ Total(family) \in Nat
<1> DEFINE parts == {{k} \X family[k] : k \in DOMAIN family}
           g == [k \in DOMAIN family |-> {k} \X family[k]]
<1>1. IsFiniteSet(parts)
  <2>1. g \in Surjection(DOMAIN family, parts)
    BY DEF Surjection
  <2> QED BY <2>1, FS_Surjection
<1>2. ASSUME NEW p \in parts PROVE IsFiniteSet(p)
  <2>1. PICK k \in DOMAIN family : p = {k} \X family[k]
    OBVIOUS
  <2> QED BY <2>1, PairsOfOne
<1>3. IsFiniteSet(UNION parts)
  BY <1>1, <1>2, FS_UNION
<1> QED BY <1>3, FS_CardinalityType DEF Pairs, Total

(* A change of one member changes the total as it changes the member. *)
LEMMA TotalUpdate ==
  ASSUME NEW D, IsFiniteSet(D), NEW f, NEW g, DOMAIN f = D, DOMAIN g = D,
         \A k \in D : IsFiniteSet(f[k]), NEW d \in D, IsFiniteSet(g[d]),
         \A k \in D \ {d} : g[k] = f[k]
  PROVE  /\ Total(f) \in Nat /\ Total(g) \in Nat
         /\ Total(g) + Cardinality(f[d]) = Total(f) + Cardinality(g[d])
<1> DEFINE others == {p \in Pairs(f) : p[1] # d}
           mine(h) == {d} \X h[d]
<1>1. \A k \in D : IsFiniteSet(g[k])
  OBVIOUS
<1>2. /\ IsFiniteSet(Pairs(f)) /\ IsFiniteSet(Pairs(g))
      /\ Total(f) \in Nat /\ Total(g) \in Nat
  BY <1>1, PairsFinite
<1>3. IsFiniteSet(others)
  BY <1>2, FS_Subset
<1>4. /\ IsFiniteSet(mine(f)) /\ Cardinality(mine(f)) = Cardinality(f[d])
      /\ IsFiniteSet(mine(g)) /\ Cardinality(mine(g)) = Cardinality(g[d])
  BY PairsOfOne
<1>5. Pairs(f) = others \cup mine(f) /\ others \cap mine(f) = {}
  <2>1. \A p : p \in Pairs(f) <=> \E k \in D : \E i \in f[k] : p = <<k, i>>
    BY PairsMember
  <2>2. \A p : p \in mine(f) <=> \E i \in f[d] : p = <<d, i>>
    OBVIOUS
  <2> HIDE DEF mine
  <2> QED BY <2>1, <2>2
<1>6. Pairs(g) = others \cup mine(g) /\ others \cap mine(g) = {}
  <2>1. \A p : p \in Pairs(f) <=> \E k \in D : \E i \in f[k] : p = <<k, i>>
    BY PairsMember
  <2>2. \A p : p \in Pairs(g) <=> \E k \in D : \E i \in g[k] : p = <<k, i>>
    BY PairsMember
  <2>3. \A p : p \in mine(g) <=> \E i \in g[d] : p = <<d, i>>
    OBVIOUS
  <2> HIDE DEF mine
  <2>4. \A p : p \in others <=> \E k \in D \ {d} : \E i \in g[k] : p = <<k, i>>
    BY <2>1
  <2> HIDE DEF others
  <2>5. \A p : p \in Pairs(g) <=> p \in others \/ p \in mine(g)
    BY <2>2, <2>3, <2>4
  <2>6. \A p : ~(p \in others /\ p \in mine(g))
    BY <2>3, <2>4
  <2> QED BY <2>5, <2>6
<1> HIDE DEF others, mine
<1>7. ASSUME NEW S, NEW T, IsFiniteSet(S), IsFiniteSet(T), S \cap T = {}
      PROVE  Cardinality(S \cup T) = Cardinality(S) + Cardinality(T)
  <2>1. Cardinality(S \cap T) = 0 /\ Cardinality(S) \in Nat /\ Cardinality(T) \in Nat
    BY <1>7, FS_EmptySet, FS_CardinalityType
  <2>2. Cardinality(S \cup T) = Cardinality(S) + Cardinality(T) - Cardinality(S \cap T)
    BY <1>7, FS_Union
  <2> QED BY <2>1, <2>2
<1>8. /\ Cardinality(Pairs(f)) = Cardinality(others) + Cardinality(mine(f))
      /\ Cardinality(Pairs(g)) = Cardinality(others) + Cardinality(mine(g))
  BY <1>3, <1>4, <1>5, <1>6, <1>7
<1>9. Total(f) = Cardinality(Pairs(f)) /\ Total(g) = Cardinality(Pairs(g))
  BY DEF Total, Pairs
<1>10. Cardinality(others) \in Nat /\ Cardinality(f[d]) \in Nat /\ Cardinality(g[d]) \in Nat
  BY <1>3, FS_CardinalityType
<1> QED BY <1>2, <1>4, <1>8, <1>9, <1>10

LEMMA TotalEmpty ==
  ASSUME NEW f, \A k \in DOMAIN f : f[k] = {}
  PROVE  Total(f) = 0
<1>1. Pairs(f) = {}
  BY DEF Pairs
<1> QED BY <1>1, FS_EmptySet DEF Total, Pairs

(* A function on 1..n is a sequence of its values. *)
LEMMA SeqOfElements ==
  ASSUME NEW f, NEW n \in Nat, DOMAIN f = 1..n, f = [i \in 1..n |-> f[i]]
  PROVE  f \in Seq(Elements(f)) /\ Len(f) = n
<1> DEFINE S == {f[i] : i \in 1..n}
<1>1. f \in [1..n -> S]
  BY Zenon
<1>2. f \in Seq(S)
  BY <1>1
<1>3. Len(f) = n
  BY <1>2
<1> QED BY <1>2, <1>3 DEF Elements

(* What Append does to a sequence of whatever it holds. *)
LEMMA AppendFacts ==
  ASSUME NEW s, s \in Seq(Elements(s)), NEW x
  PROVE  /\ Len(s) \in Nat /\ Len(Append(s, x)) = Len(s) + 1
         /\ DOMAIN s = 1..Len(s) /\ DOMAIN Append(s, x) = 1..(Len(s) + 1)
         /\ Append(s, x)[Len(s) + 1] = x
         /\ \A k \in 1..Len(s) : Append(s, x)[k] = s[k]
         /\ Append(s, x) \in Seq(Elements(Append(s, x)))
<1> DEFINE S == Elements(s) \cup {x}
           a == Append(s, x)
           n == Len(s) + 1
<1>1. s \in Seq(S) /\ x \in S
  <2>1. Elements(s) \subseteq S /\ x \in S
    OBVIOUS
  <2> HIDE DEF S
  <2>2. \A i \in 1..Len(s) : s[i] \in S
    BY <2>1
  <2>3. s = [i \in 1..Len(s) |-> s[i]] /\ Len(s) \in Nat
    OBVIOUS
  <2> QED BY <2>1, <2>2, <2>3
<1> HIDE DEF S
<1>2. Len(s) \in Nat /\ n \in Nat /\ a \in Seq(S) /\ Len(a) = n /\ DOMAIN s = 1..Len(s)
  BY <1>1
<1>3. a[n] = x /\ \A k \in 1..Len(s) : a[k] = s[k]
  BY <1>1
<1>4. ASSUME NEW q \in Seq(S)
      PROVE  DOMAIN q = 1..Len(q) /\ q = [k \in 1..Len(q) |-> q[k]]
  OBVIOUS
<1>5. DOMAIN a = 1..n /\ a = [k \in 1..n |-> a[k]]
  BY <1>2, <1>4
<1>6. a \in Seq(Elements(a))
  <2> HIDE DEF a, n
  <2> QED BY <1>2, <1>5, SeqOfElements
<1> QED BY <1>2, <1>3, <1>5, <1>6

(* The interval that stands for n in a sum. *)
LEMMA IntervalSize == \A n \in Nat : IsFiniteSet(1..n) /\ Cardinality(1..n) = n
BY FS_Interval

(* A sum of sizes when one of them changes. *)
LEMMA SizesUpdate ==
  ASSUME NEW D, IsFiniteSet(D), NEW F, NEW G, DOMAIN F = D, DOMAIN G = D, NEW d \in D,
         NEW a \in Nat, NEW b \in Nat, F[d] = 1..a, G[d] = 1..b,
         \A k \in D : IsFiniteSet(F[k]), \A k \in D \ {d} : G[k] = F[k]
  PROVE  Total(F) \in Nat /\ Total(G) \in Nat /\ Total(G) + a = Total(F) + b
<1>1. IsFiniteSet(G[d]) /\ Cardinality(F[d]) = a /\ Cardinality(G[d]) = b
  BY IntervalSize
<1>2. /\ Total(F) \in Nat /\ Total(G) \in Nat
      /\ Total(G) + Cardinality(F[d]) = Total(F) + Cardinality(G[d])
  BY <1>1, TotalUpdate
<1> QED BY <1>1, <1>2

(* Keys without elements do not count. *)
LEMMA TotalExtend ==
  ASSUME NEW f, NEW g, DOMAIN f \subseteq DOMAIN g, \A k \in DOMAIN f : g[k] = f[k],
         \A k \in DOMAIN g \ DOMAIN f : g[k] = {}
  PROVE  Total(g) = Total(f)
<1>1. UNION {{k} \X g[k] : k \in DOMAIN g} = UNION {{k} \X f[k] : k \in DOMAIN f}
  <2>1. ASSUME NEW x \in UNION {{k} \X g[k] : k \in DOMAIN g}
        PROVE  x \in UNION {{k} \X f[k] : k \in DOMAIN f}
    <3>1. PICK k \in DOMAIN g : x \in {k} \X g[k]
      OBVIOUS
    <3>2. k \in DOMAIN f
      BY <3>1
    <3> QED BY <3>1, <3>2
  <2>2. ASSUME NEW x \in UNION {{k} \X f[k] : k \in DOMAIN f}
        PROVE  x \in UNION {{k} \X g[k] : k \in DOMAIN g}
    <3>1. PICK k \in DOMAIN f : x \in {k} \X f[k]
      OBVIOUS
    <3> QED BY <3>1
  <2> QED BY <2>1, <2>2
<1> QED BY <1>1 DEF Total

(* A set that gains or loses at most one member. *)
LEMMA MemberUpdate ==
  ASSUME NEW S, IsFiniteSet(S), NEW R, NEW x, \A y : y # x => (y \in R <=> y \in S)
  PROVE  /\ Cardinality(S) \in Nat /\ Cardinality(R) \in Nat
         /\ Cardinality(R) + (IF x \in S THEN 1 ELSE 0) = Cardinality(S) + (IF x \in R THEN 1 ELSE 0)
<1>1. Cardinality(S) \in Nat
  BY FS_CardinalityType
<1>2. CASE x \in S <=> x \in R
  <2>1. R = S
    BY <1>2
  <2> QED BY <1>1, <2>1
<1>3. CASE x \in S /\ x \notin R
  <2>1. R = S \ {x}
    BY <1>3
  <2>2. Cardinality(R) = Cardinality(S) - 1 /\ IsFiniteSet(R)
    BY <1>3, <2>1, FS_RemoveElement
  <2>3. Cardinality(R) \in Nat
    BY <2>2, FS_CardinalityType
  <2> QED BY <1>1, <1>3, <2>2, <2>3
<1>4. CASE x \notin S /\ x \in R
  <2>1. R = S \cup {x}
    BY <1>4
  <2>2. Cardinality(R) = Cardinality(S) + 1
    BY <1>4, <2>1, FS_AddElement
  <2> QED BY <1>1, <1>4, <2>2
<1> QED BY <1>2, <1>3, <1>4

=============================================================================
