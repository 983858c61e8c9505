----------------------------- MODULE DataProofs -----------------------------
(***************************************************************************)
(* Lemmas about the data that the components share: sums, sets in order,   *)
(* and layouts and streams.                                                *)
(***************************************************************************)
EXTENDS Layout, Sums, SequenceTheorems, FiniteSetTheorems, WellFoundedInduction, TLAPS

(***************************************************************************)
(* Induction.  The library states it for an operator; that every set of    *)
(* naturals that is not empty has a least element says the same about      *)
(* sets, and a proof by a least counterexample uses nothing else.          *)
(***************************************************************************)
Below == {p \in Nat \X Nat : p[1] < p[2]}

LEMMA BelowWellFounded == IsWellFoundedOn(Below, Nat)
BY NatLessThanWellFounded DEF OpToRel, Below

LEMMA LeastOf ==
  ASSUME NEW T, T \subseteq Nat, T # {}
  PROVE  \E n \in T : \A k \in T : n <= k
<1>1. PICK n \in T : \A k \in T : ~(<<k, n>> \in Below)
  BY BelowWellFounded, WFMin
<1>2. ASSUME NEW k \in T PROVE n <= k
  <2>1. <<k, n>> \in Nat \X Nat /\ <<k, n>>[1] = k /\ <<k, n>>[2] = n
    OBVIOUS
  <2>2. ~(k < n)
    BY <1>1, <2>1 DEF Below
  <2>. QED BY <2>2
<1>. QED BY <1>2

\* A set of naturals that has 0, and with every number the next one, has all.
LEMMA InductiveSet ==
  ASSUME NEW G, 0 \in G, \A n \in Nat : n \in G => n + 1 \in G
  PROVE  Nat \subseteq G
<1> DEFINE T == Nat \ G
<1> SUFFICES ASSUME T # {} PROVE FALSE
  OBVIOUS
<1>1. PICK n \in T : \A k \in T : n <= k
  BY LeastOf
<1>2. n - 1 \in Nat /\ n - 1 \notin T
  BY <1>1
<1>3. (n - 1) + 1 \in G
  BY <1>2
<1>. QED BY <1>1, <1>3

(***************************************************************************)
(* Sums.                                                                   *)
(***************************************************************************)
\* The partial sums up to the n-th.
Partial(s, n, g) == g = [i \in 0..n |-> IF i = 0 THEN 0 ELSE g[i - 1] + s[i]]

LEMMA PartialExists ==
  ASSUME NEW s, NEW k \in Nat
  PROVE  \E g : Partial(s, k, g)
<1> DEFINE G == {n \in Nat : \E g : Partial(s, n, g)}
<1>1. 0 \in G
  <2>1. Partial(s, 0, [i \in 0..0 |-> 0])
    BY DEF Partial
  <2>. QED BY <2>1
<1>2. ASSUME NEW n \in Nat, n \in G PROVE n + 1 \in G
  <2>1. PICK g : Partial(s, n, g)
    BY <1>2
  <2> DEFINE h == [i \in 0..(n + 1) |-> IF i = n + 1 THEN g[n] + s[n + 1] ELSE g[i]]
  <2>2. \A i \in 0..(n + 1) : h[i] = IF i = 0 THEN 0 ELSE h[i - 1] + s[i]
    BY <2>1 DEF Partial
  <2>3. Partial(s, n + 1, h)
    BY <2>2 DEF Partial
  <2>. QED BY <2>3
<1>3. Nat \subseteq G
  <2> HIDE DEF G
  <2>. QED BY <1>1, <1>2, InductiveSet
<1>. QED BY <1>3

LEMMA TotalIsPartial ==
  ASSUME NEW s, Len(s) \in Nat
  PROVE  \E g : Partial(s, Len(s), g) /\ Total(s) = g[Len(s)]
BY PartialExists DEF Total, Partial

\* Partial sums of two sequences that begin alike.
LEMMA PartialUnique ==
  ASSUME NEW s, NEW t, NEW m \in Nat, NEW n \in Nat, NEW k \in Nat, k <= m, k <= n,
         NEW g, NEW h, Partial(s, m, g), Partial(t, n, h), \A i \in 1..k : s[i] = t[i]
  PROVE  g[k] = h[k]
<1> DEFINE G == {i \in Nat : i <= k => g[i] = h[i]}
<1>1. 0 \in G
  BY DEF Partial
<1>2. ASSUME NEW i \in Nat, i \in G PROVE i + 1 \in G
  <2> SUFFICES ASSUME i + 1 <= k PROVE g[i + 1] = h[i + 1]
    OBVIOUS
  <2>1. g[i] = h[i] /\ s[i + 1] = t[i + 1]
    BY <1>2
  <2>2. g[i + 1] = g[i] + s[i + 1]
    BY DEF Partial
  <2>3. h[i + 1] = h[i] + t[i + 1]
    BY DEF Partial
  <2>. QED BY <2>1, <2>2, <2>3
<1>3. Nat \subseteq G
  <2> HIDE DEF G
  <2>. QED BY <1>1, <1>2, InductiveSet
<1>. QED BY <1>3

\* Partial sums of naturals are naturals, and none is less than one before it or
\* than one of its terms; those of integers are integers.
LEMMA PartialInt ==
  ASSUME NEW n \in Nat, NEW s, \A i \in 1..n : s[i] \in Int, NEW g, Partial(s, n, g)
  PROVE  \A i \in 0..n : g[i] \in Int
<1> DEFINE G == {i \in Nat : i <= n => g[i] \in Int}
<1>1. 0 \in G
  BY DEF Partial
<1>2. ASSUME NEW i \in Nat, i \in G PROVE i + 1 \in G
  <2> SUFFICES ASSUME i + 1 <= n PROVE g[i + 1] \in Int
    OBVIOUS
  <2>1. g[i + 1] = g[i] + s[i + 1]
    BY DEF Partial
  <2>. QED BY <1>2, <2>1
<1>3. Nat \subseteq G
  <2> HIDE DEF G
  <2>. QED BY <1>1, <1>2, InductiveSet
<1>. QED BY <1>3

LEMMA PartialNat ==
  ASSUME NEW n \in Nat, NEW s, \A i \in 1..n : s[i] \in Nat, NEW g, Partial(s, n, g)
  PROVE  /\ \A i \in 0..n : g[i] \in Nat /\ g[i] <= g[n]
         /\ \A i \in 1..n : s[i] <= g[n]
<1> DEFINE G == {i \in Nat : i <= n => g[i] \in Nat /\ \A j \in 0..i : g[j] <= g[i]}
<1>0. \A i \in 1..n : g[i] = g[i - 1] + s[i]
  BY DEF Partial
<1>1. 0 \in G
  BY DEF Partial
<1>2. ASSUME NEW i \in Nat, i \in G PROVE i + 1 \in G
  <2> SUFFICES ASSUME i + 1 <= n PROVE g[i + 1] \in Nat /\ \A j \in 0..(i + 1) : g[j] <= g[i + 1]
    OBVIOUS
  <2>1. g[i + 1] = g[i] + s[i + 1] /\ s[i + 1] \in Nat
    BY <1>0
  <2>2. g[i] \in Nat /\ \A j \in 0..i : g[j] <= g[i] /\ g[j] \in Int
    <3>1. \A j \in 0..n : g[j] \in Int
      BY PartialInt
    <3>. QED BY <1>2, <3>1
  <2>. QED BY <2>1, <2>2
<1>3. Nat \subseteq G
  <2> HIDE DEF G
  <2>. QED BY <1>1, <1>2, InductiveSet
<1>4. \A i \in 0..n : g[i] \in Nat /\ g[i] <= g[n]
  BY <1>3
<1>5. ASSUME NEW i \in 1..n PROVE s[i] <= g[n]
  <2>1. g[i] = g[i - 1] + s[i] /\ g[i - 1] \in Nat /\ g[i] \in Nat /\ g[i] <= g[n] /\ s[i] \in Nat /\ g[n] \in Nat
    BY <1>0, <1>4
  <2>. QED BY <2>1
<1>. QED BY <1>4, <1>5

LEMMA TotalInt ==
  ASSUME NEW s \in Seq(Int)
  PROVE  Total(s) \in Int
<1>1. PICK g : Partial(s, Len(s), g) /\ Total(s) = g[Len(s)]
  BY TotalIsPartial
<1>2. \A i \in 1..Len(s) : s[i] \in Int
  OBVIOUS
<1>. QED BY <1>1, <1>2, PartialInt

LEMMA TotalNat ==
  ASSUME NEW s \in Seq(Nat)
  PROVE  Total(s) \in Nat /\ \A i \in 1..Len(s) : s[i] <= Total(s)
<1>1. PICK g : Partial(s, Len(s), g) /\ Total(s) = g[Len(s)]
  BY TotalIsPartial
<1>2. \A i \in 1..Len(s) : s[i] \in Nat
  OBVIOUS
<1>. QED BY <1>1, <1>2, PartialNat

LEMMA TotalNone == Total(<<>>) = 0
<1>1. PICK g : Partial(<<>>, Len(<<>>), g) /\ Total(<<>>) = g[Len(<<>>)]
  BY TotalIsPartial
<1>. QED BY <1>1 DEF Partial

LEMMA TotalAppend ==
  ASSUME NEW s \in Seq(Int), NEW x \in Int
  PROVE  Total(Append(s, x)) = Total(s) + x
<1> DEFINE t == Append(s, x)
           n == Len(s)
<1>1. /\ t \in Seq(Int) /\ Len(t) = n + 1 /\ n \in Nat
      /\ \A i \in 1..n : s[i] = t[i]
      /\ t[n + 1] = x
  OBVIOUS
<1>2. PICK g : Partial(s, n, g) /\ Total(s) = g[n]
  BY TotalIsPartial
<1> HIDE DEF t
<1>3. PICK h : Partial(t, n + 1, h) /\ Total(t) = h[n + 1]
  BY <1>1, TotalIsPartial
<1> HIDE DEF n
<1>4. g[n] = h[n]
  <2>1. n + 1 \in Nat /\ n <= n /\ n <= n + 1
    BY <1>1
  <2>. QED BY <1>1, <1>2, <1>3, <2>1, PartialUnique
<1>5. h[n + 1] = h[n] + t[n + 1]
  BY <1>1, <1>3 DEF Partial
<1>. QED BY <1>1, <1>2, <1>3, <1>4, <1>5 DEF t

(***************************************************************************)
(* Sets in order.                                                          *)
(***************************************************************************)
LEMMA FiniteMax ==
  ASSUME NEW R \in SUBSET Int, IsFiniteSet(R), R # {}
  PROVE  \E m \in R : \A x \in R : x <= m
<1> DEFINE Bounded(S) == S # {} => \E m \in S : \A x \in S : x <= m
           G == {n \in Nat : \A S \in SUBSET Int : IsFiniteSet(S) /\ Cardinality(S) = n => Bounded(S)}
<1>1. 0 \in G
  BY FS_EmptySet
<1>2. ASSUME NEW n \in Nat, n \in G PROVE n + 1 \in G
  <2> SUFFICES ASSUME NEW S \in SUBSET Int, IsFiniteSet(S), Cardinality(S) = n + 1, S # {}
               PROVE  \E m \in S : \A x \in S : x <= m
    OBVIOUS
  <2>1. PICK y \in S : TRUE
    OBVIOUS
  <2> DEFINE U == S \ {y}
  <2>2. IsFiniteSet(U) /\ Cardinality(U) = n /\ U \in SUBSET Int
    <3>1. IsFiniteSet(U) /\ Cardinality(U) = Cardinality(S) - 1
      BY FS_RemoveElement, Zenon
    <3>. QED BY <3>1
  <2>3. CASE U = {}
    <3>1. \A x \in S : x = y
      BY <2>3
    <3>. QED BY <3>1
  <2>4. CASE U # {}
    <3>1. PICK m \in U : \A x \in U : x <= m
      BY <1>2, <2>2, <2>4
    <3>2. CASE y <= m
      BY <3>1, <3>2
    <3>3. CASE m <= y
      <4>1. \A x \in S : x <= y
        BY <3>1, <3>3
      <4>. QED BY <4>1
    <3>. QED BY <3>2, <3>3
  <2>. QED BY <2>3, <2>4
<1>3. Nat \subseteq G
  <2> HIDE DEF G
  <2>. QED BY <1>1, <1>2, InductiveSet
<1>4. Cardinality(R) \in G
  BY <1>3, FS_CardinalityType
<1>. QED BY <1>4

Increasing(s) == \A i, j \in DOMAIN s : i < j => s[i] < s[j]

LEMMA OrderExists ==
  ASSUME NEW R \in SUBSET Int, IsFiniteSet(R)
  PROVE  \E s \in [1..Cardinality(R) -> R] : Increasing(s)
<1> DEFINE G == {n \in Nat : \A S \in SUBSET Int :
                   IsFiniteSet(S) /\ Cardinality(S) = n => \E s \in [1..n -> S] : Increasing(s)}
<1>1. 0 \in G
  <2> SUFFICES ASSUME NEW S \in SUBSET Int, IsFiniteSet(S), Cardinality(S) = 0
               PROVE  \E s \in [1..0 -> S] : Increasing(s)
    OBVIOUS
  <2> DEFINE s == [i \in 1..0 |-> 0]
  <2>1. s \in [1..0 -> S] /\ Increasing(s)
    BY DEF Increasing
  <2>. QED BY <2>1
<1>2. ASSUME NEW n \in Nat, n \in G PROVE n + 1 \in G
  <2> SUFFICES ASSUME NEW S \in SUBSET Int, IsFiniteSet(S), Cardinality(S) = n + 1
               PROVE  \E s \in [1..(n + 1) -> S] : Increasing(s)
    OBVIOUS
  <2>1. S # {}
    BY FS_EmptySet
  <2>2. PICK m \in S : \A x \in S : x <= m
    BY <2>1, FiniteMax
  <2> DEFINE U == S \ {m}
  <2>3. IsFiniteSet(U) /\ Cardinality(U) = n /\ U \in SUBSET Int
    <3>1. IsFiniteSet(U) /\ Cardinality(U) = Cardinality(S) - 1
      BY FS_RemoveElement, Zenon
    <3>. QED BY <3>1
  <2>4. PICK s \in [1..n -> U] : Increasing(s)
    BY <1>2, <2>3
  <2> DEFINE t == [i \in 1..(n + 1) |-> IF i = n + 1 THEN m ELSE s[i]]
  <2>5. t \in [1..(n + 1) -> S]
    OBVIOUS
  <2>6. ASSUME NEW i \in 1..(n + 1), NEW j \in 1..(n + 1), i < j PROVE t[i] < t[j]
    <3>1. i \in 1..n /\ t[i] = s[i] /\ s[i] \in U
      BY <2>6
    <3>2. CASE j = n + 1
      <4>1. t[j] = m /\ s[i] \in S /\ s[i] # m /\ s[i] \in Int /\ m \in Int
        BY <3>1, <3>2
      <4>2. s[i] <= m
        BY <2>2, <4>1
      <4>. QED BY <3>1, <4>1, <4>2
    <3>3. CASE j # n + 1
      <4>1. j \in 1..n /\ t[j] = s[j]
        BY <3>3
      <4>. QED BY <2>4, <2>6, <3>1, <4>1 DEF Increasing
    <3>. QED BY <3>2, <3>3
  <2>7. Increasing(t)
    BY <2>6 DEF Increasing
  <2>. QED BY <2>5, <2>7
<1>3. Nat \subseteq G
  <2> HIDE DEF G
  <2>. QED BY <1>1, <1>2, InductiveSet
<1>4. Cardinality(R) \in G
  BY <1>3, FS_CardinalityType
<1>. QED BY <1>4

LEMMA OrderedIs ==
  ASSUME NEW R \in SUBSET Int, IsFiniteSet(R)
  PROVE  /\ Cardinality(R) \in Nat
         /\ Ordered(R) \in [1..Cardinality(R) -> R]
         /\ Increasing(Ordered(R))
<1>1. Cardinality(R) \in Nat
  BY FS_CardinalityType
<1>. QED BY <1>1, OrderExists DEF Ordered, Increasing

(***************************************************************************)
(* Layouts.  What is written is put together with \o, some of it only in a *)
(* newer version: the lemmas take such sequences apart.  The last ones are *)
(* about reading what was written.                                         *)
(***************************************************************************)

\* A layout, or a stream: a sequence of any calls.
IsLayout(l) == \E S : l \in Seq(S)

\* The calls of a concatenation are those of its parts, in their order.
LEMMA LayoutConcat ==
  ASSUME NEW a, NEW b, IsLayout(a), IsLayout(b)
  PROVE  /\ IsLayout(a \o b) /\ Len(a \o b) = Len(a) + Len(b)
         /\ Len(a) \in Nat /\ Len(b) \in Nat
         /\ MembersOf(a \o b) = MembersOf(a) \cup MembersOf(b)
         /\ \A i \in 1..Len(a) : (a \o b)[i] = a[i]
         /\ \A i \in 1..Len(b) : (a \o b)[Len(a) + i] = b[i]
<1> DEFINE s == a \o b
<1>0. PICK A, B : a \in Seq(A) /\ b \in Seq(B)
  BY DEF IsLayout
<1>1. /\ s \in Seq(A \cup B) /\ Len(s) = Len(a) + Len(b)
      /\ \A i \in 1..(Len(a) + Len(b)) : s[i] = IF i <= Len(a) THEN a[i] ELSE b[i - Len(a)]
  <2>1. a \in Seq(A \cup B) /\ b \in Seq(A \cup B)
    BY <1>0
  <2>. QED BY <2>1, ConcatProperties, Zenon
<1> HIDE DEF s
<1>2. /\ Len(a) \in Nat /\ Len(b) \in Nat
      /\ DOMAIN a = 1..Len(a) /\ DOMAIN b = 1..Len(b) /\ DOMAIN s = 1..(Len(a) + Len(b))
  BY <1>0, <1>1
<1>3. \A i \in 1..Len(a) : i \in DOMAIN s /\ s[i] = a[i]
  BY <1>1, <1>2
<1>4. \A i \in 1..Len(b) : Len(a) + i \in DOMAIN s /\ s[Len(a) + i] = b[i]
  BY <1>1, <1>2
<1>5. \A i \in DOMAIN s : (i \in DOMAIN a /\ s[i] = a[i]) \/ (i - Len(a) \in DOMAIN b /\ s[i] = b[i - Len(a)])
  BY <1>1, <1>2
<1>6. MembersOf(s) = MembersOf(a) \cup MembersOf(b)
  BY <1>2, <1>3, <1>4, <1>5 DEF MembersOf
<1>7. IsLayout(s)
  BY <1>1 DEF IsLayout
<1>. QED BY <1>1, <1>2, <1>3, <1>4, <1>6, <1>7 DEF s

\* Literal layouts.
LEMMA LayoutOfNone == IsLayout(<<>>) /\ Len(<<>>) = 0 /\ MembersOf(<<>>) = {}
<1>1. <<>> \in Seq({}) /\ Len(<<>>) = 0
  OBVIOUS
<1>2. MembersOf(<<>>) = {}
  BY DEF MembersOf
<1>3. IsLayout(<<>>)
  BY <1>1, Zenon DEF IsLayout
<1>. QED BY <1>1, <1>2, <1>3

LEMMA LayoutOfOne ==
  ASSUME NEW a
  PROVE  /\ IsLayout(<<a>>) /\ Len(<<a>>) = 1
         /\ MembersOf(<<a>>) = {a[2]} \ {Unset}
<1>1. <<a>> \in Seq({a}) /\ Len(<<a>>) = 1
  OBVIOUS
<1>2. MembersOf(<<a>>) = {a[2]} \ {Unset}
  BY DEF MembersOf
<1>3. IsLayout(<<a>>)
  BY <1>1, Zenon DEF IsLayout
<1>. QED BY <1>1, <1>2, <1>3

LEMMA LayoutOfTwo ==
  ASSUME NEW a, NEW b
  PROVE  /\ IsLayout(<<a, b>>) /\ Len(<<a, b>>) = 2
         /\ MembersOf(<<a, b>>) = {a[2], b[2]} \ {Unset}
<1>1. <<a, b>> \in Seq({a, b}) /\ Len(<<a, b>>) = 2
  OBVIOUS
<1>2. MembersOf(<<a, b>>) = {a[2], b[2]} \ {Unset}
  BY DEF MembersOf
<1>3. IsLayout(<<a, b>>)
  BY <1>1, Zenon DEF IsLayout
<1>. QED BY <1>1, <1>2, <1>3

LEMMA LayoutOfThree ==
  ASSUME NEW a, NEW b, NEW c
  PROVE  /\ IsLayout(<<a, b, c>>) /\ Len(<<a, b, c>>) = 3
         /\ MembersOf(<<a, b, c>>) = {a[2], b[2], c[2]} \ {Unset}
<1>1. <<a, b, c>> \in Seq({a, b, c}) /\ Len(<<a, b, c>>) = 3
  OBVIOUS
<1>2. MembersOf(<<a, b, c>>) = {a[2], b[2], c[2]} \ {Unset}
  BY DEF MembersOf
<1>3. IsLayout(<<a, b, c>>)
  BY <1>1, Zenon DEF IsLayout
<1>. QED BY <1>1, <1>2, <1>3

LEMMA LayoutOfFour ==
  ASSUME NEW a, NEW b, NEW c, NEW d
  PROVE  /\ IsLayout(<<a, b, c, d>>) /\ Len(<<a, b, c, d>>) = 4
         /\ MembersOf(<<a, b, c, d>>) = {a[2], b[2], c[2], d[2]} \ {Unset}
<1>1. <<a, b, c, d>> \in Seq({a, b, c, d}) /\ Len(<<a, b, c, d>>) = 4
  OBVIOUS
<1>2. MembersOf(<<a, b, c, d>>) = {a[2], b[2], c[2], d[2]} \ {Unset}
  BY DEF MembersOf
<1>3. IsLayout(<<a, b, c, d>>)
  BY <1>1, Zenon DEF IsLayout
<1>. QED BY <1>1, <1>2, <1>3

\* One more call.
LEMMA LayoutAppend ==
  ASSUME NEW s, IsLayout(s), NEW a, a[2] # Unset
  PROVE  /\ IsLayout(s \o <<a>>) /\ Len(s \o <<a>>) = Len(s) + 1 /\ Len(s) \in Nat
         /\ MembersOf(s \o <<a>>) = MembersOf(s) \cup {a[2]}
         /\ \A n \in 1..Len(s) : (s \o <<a>>)[n] = s[n]
         /\ (s \o <<a>>)[Len(s) + 1] = a
<1> DEFINE l == <<a>>
           t == s \o l
<1>1. IsLayout(l) /\ Len(l) = 1 /\ MembersOf(l) = {a[2]} \ {Unset}
  BY LayoutOfOne
<1>2. MembersOf(l) = {a[2]}
  BY <1>1
<1>3. l[1] = a
  OBVIOUS
<1> HIDE DEF l
<1>4. /\ IsLayout(t) /\ Len(t) = Len(s) + Len(l) /\ Len(s) \in Nat
      /\ MembersOf(t) = MembersOf(s) \cup MembersOf(l)
      /\ \A n \in 1..Len(s) : t[n] = s[n]
      /\ \A n \in 1..Len(l) : t[Len(s) + n] = l[n]
  BY <1>1, LayoutConcat
<1> HIDE DEF t
<1>5. /\ IsLayout(t) /\ Len(t) = Len(s) + 1 /\ Len(s) \in Nat
      /\ MembersOf(t) = MembersOf(s) \cup {a[2]}
      /\ \A n \in 1..Len(s) : t[n] = s[n]
      /\ t[Len(s) + 1] = a
  BY <1>1, <1>2, <1>3, <1>4
<1>. QED BY <1>5, Zenon DEF t, l

\* The member that a call is about.
LEMMA CallMembers ==
  ASSUME NEW m
  PROVE  /\ Uint8(m)[2] = m /\ Uint16(m)[2] = m /\ Uint32(m)[2] = m /\ Uint64(m)[2] = m
         /\ VarUint(m)[2] = m /\ VarBytes(m)[2] = m /\ Hash168(m)[2] = m /\ Hash256(m)[2] = m
         /\ \A c : Nested(c, m)[2] = m
BY DEF Uint8, Uint16, Uint32, Uint64, VarUint, VarBytes, Hash168, Hash256, Nested

(***************************************************************************)
(* Reading what was written.                                               *)
(***************************************************************************)
\* Every call is about a member.
IsCall(c) == c[2] # Unset

Named(l) == IsLayout(l) /\ \A n \in DOMAIN l : IsCall(l[n])

LEMMA CallsAreCalls ==
  ASSUME NEW m, m # Unset
  PROVE  /\ IsCall(Uint8(m)) /\ IsCall(Uint16(m)) /\ IsCall(Uint32(m)) /\ IsCall(Uint64(m))
         /\ IsCall(VarUint(m)) /\ IsCall(VarBytes(m)) /\ IsCall(Hash168(m)) /\ IsCall(Hash256(m))
         /\ \A c : IsCall(Nested(c, m))
BY CallMembers DEF IsCall

LEMMA NamedConcat ==
  ASSUME NEW a, NEW b, Named(a), Named(b)
  PROVE  Named(a \o b)
<1> DEFINE s == a \o b
<1>1. /\ IsLayout(s) /\ Len(s) = Len(a) + Len(b) /\ Len(a) \in Nat /\ Len(b) \in Nat
      /\ \A i \in 1..Len(a) : s[i] = a[i]
      /\ \A i \in 1..Len(b) : s[Len(a) + i] = b[i]
  BY LayoutConcat DEF Named
<1>2. DOMAIN a = 1..Len(a) /\ DOMAIN b = 1..Len(b)
  BY DEF Named, IsLayout
<1> HIDE DEF s
<1>3. DOMAIN s = 1..(Len(a) + Len(b))
  BY <1>1 DEF IsLayout
<1>4. ASSUME NEW n \in DOMAIN s PROVE IsCall(s[n])
  <2>1. CASE n <= Len(a)
    BY <1>1, <1>2, <1>3, <2>1 DEF Named
  <2>2. CASE n > Len(a)
    <3>1. n - Len(a) \in 1..Len(b) /\ n = Len(a) + (n - Len(a))
      BY <1>1, <1>3, <2>2
    <3>2. s[n] = b[n - Len(a)]
      BY <1>1, <3>1
    <3>. QED BY <1>2, <3>1, <3>2 DEF Named
  <2>. QED BY <1>1, <1>3, <2>1, <2>2
<1>. QED BY <1>1, <1>4 DEF Named, s

LEMMA NamedNone == Named(<<>>)
BY LayoutOfNone DEF Named

LEMMA NamedOne ==
  ASSUME NEW a, IsCall(a)
  PROVE  Named(<<a>>)
BY LayoutOfOne DEF Named

LEMMA NamedTwo ==
  ASSUME NEW a, NEW b, IsCall(a), IsCall(b)
  PROVE  Named(<<a, b>>)
BY LayoutOfTwo DEF Named

LEMMA NamedThree ==
  ASSUME NEW a, NEW b, NEW c, IsCall(a), IsCall(b), IsCall(c)
  PROVE  Named(<<a, b, c>>)
BY LayoutOfThree DEF Named

LEMMA NamedFour ==
  ASSUME NEW a, NEW b, NEW c, NEW d, IsCall(a), IsCall(b), IsCall(c), IsCall(d)
  PROVE  Named(<<a, b, c, d>>)
BY LayoutOfFour DEF Named

\* Both ways to put three sequences together.
LEMMA ConcatAssoc ==
  ASSUME NEW a, NEW b, NEW c, IsLayout(a), IsLayout(b), IsLayout(c)
  PROVE  (a \o b) \o c = a \o (b \o c)
<1>1. PICK A, B, C : a \in Seq(A) /\ b \in Seq(B) /\ c \in Seq(C)
  BY DEF IsLayout
<1>2. a \in Seq(A \cup B \cup C) /\ b \in Seq(A \cup B \cup C) /\ c \in Seq(A \cup B \cup C)
  BY <1>1
<1>. QED BY <1>2, ConcatAssociative

\* The two parts of a concatenation.
LEMMA SplitConcat ==
  ASSUME NEW a, NEW b, IsLayout(a), IsLayout(b)
  PROVE  /\ SubSeq(a \o b, 1, Len(a)) = a
         /\ SubSeq(a \o b, Len(a) + 1, Len(a \o b)) = b
<1> DEFINE s == a \o b
<1>1. /\ IsLayout(s) /\ Len(s) = Len(a) + Len(b) /\ Len(a) \in Nat /\ Len(b) \in Nat
      /\ \A i \in 1..Len(a) : s[i] = a[i]
      /\ \A i \in 1..Len(b) : s[Len(a) + i] = b[i]
  BY LayoutConcat
<1>2. PICK A, B : a \in Seq(A) /\ b \in Seq(B)
  BY DEF IsLayout
<1> HIDE DEF s
<1>3. PICK S : s \in Seq(S)
  BY <1>1 DEF IsLayout
<1>4. SubSeq(s, 1, Len(a)) = a
  <2> DEFINE t == SubSeq(s, 1, Len(a))
  <2>1. t \in Seq(S) /\ Len(t) = Len(a) /\ \A i \in 1..Len(a) : t[i] = s[i]
    BY <1>1, <1>3
  <2> HIDE DEF t
  <2>2. \A i \in 1..Len(a) : t[i] = a[i]
    BY <1>1, <2>1
  <2>3. t = a
    BY <1>2, <2>1, <2>2, SeqEqual
  <2>. QED BY <2>3 DEF t
<1>5. SubSeq(s, Len(a) + 1, Len(s)) = b
  <2> DEFINE t == SubSeq(s, Len(a) + 1, Len(s))
  <2>1. t \in Seq(S) /\ Len(t) = Len(b) /\ \A i \in 1..Len(b) : t[i] = s[Len(a) + i]
    BY <1>1, <1>3
  <2> HIDE DEF t
  <2>2. \A i \in 1..Len(b) : t[i] = b[i]
    BY <1>1, <2>1
  <2>3. t = b
    BY <1>2, <2>1, <2>2, SeqEqual
  <2>. QED BY <2>3 DEF t
<1>. QED BY <1>4, <1>5 DEF s

LEMMA WrittenStream ==
  ASSUME NEW l, IsLayout(l), NEW val
  PROVE  /\ IsLayout(Written(l, val)) /\ Len(Written(l, val)) = Len(l)
         /\ \A i \in DOMAIN l : Written(l, val)[i] = <<l[i][1], val[l[i][2]]>>
<1> DEFINE w == Written(l, val)
<1>1. DOMAIN l = 1..Len(l) /\ Len(l) \in Nat
  BY DEF IsLayout
<1>2. w = [i \in 1..Len(l) |-> <<l[i][1], val[l[i][2]]>>]
  BY <1>1 DEF Written
<1> HIDE DEF w
<1>3. w \in Seq({w[i] : i \in 1..Len(l)}) /\ Len(w) = Len(l)
  BY <1>1, <1>2
<1>4. IsLayout(w)
  BY <1>3 DEF IsLayout
<1>5. \A i \in DOMAIN l : w[i] = <<l[i][1], val[l[i][2]]>>
  BY <1>1, <1>2
<1>. QED BY <1>3, <1>4, <1>5 DEF w

\* A Deserialize function with the layout of Serialize reads the members that were
\* written, and leaves what follows: writing them again gives the same bytes.
LEMMA ReadBackWritten ==
  ASSUME NEW l, Named(l), NEW val, NEW t, IsLayout(t)
  PROVE  LET s == Written(l, val) \o t
         IN  /\ Fits(l, SubSeq(s, 1, Len(l)))
             /\ SubSeq(s, Len(l) + 1, Len(s)) = t
             /\ Written(l, ReadBack(l, s, MembersOf(l))) = Written(l, val)
<1> DEFINE w == Written(l, val)
           s == w \o t
           back == ReadBack(l, s, MembersOf(l))
<1>0. IsLayout(l) /\ DOMAIN l = 1..Len(l) /\ Len(l) \in Nat
  BY DEF Named, IsLayout
<1>1. IsLayout(w) /\ Len(w) = Len(l) /\ \A i \in DOMAIN l : w[i] = <<l[i][1], val[l[i][2]]>>
  BY <1>0, WrittenStream
<1> HIDE DEF w
<1>2. \A i \in 1..Len(w) : s[i] = w[i]
  BY <1>1, LayoutConcat
<1>3. SubSeq(s, 1, Len(w)) = w /\ SubSeq(s, Len(w) + 1, Len(s)) = t
  BY <1>1, SplitConcat
<1> HIDE DEF s
<1>4. Fits(l, w)
  BY <1>0, <1>1 DEF Fits
<1>5. ASSUME NEW i \in DOMAIN l PROVE back[l[i][2]] = val[l[i][2]]
  <2> DEFINE calls == {n \in DOMAIN l : l[n][2] = l[i][2]}
             n0 == CHOOSE n \in calls : TRUE
  <2>1. l[i][2] \in MembersOf(l)
    BY DEF MembersOf, Named, IsCall
  <2>2. calls # {}
    OBVIOUS
  <2>3. back[l[i][2]] = s[n0][2]
    BY <2>1, <2>2 DEF ReadBack
  <2>4. n0 \in calls
    BY <2>2
  <2> HIDE DEF n0
  <2>5. s[n0] = <<l[n0][1], val[l[n0][2]]>> /\ l[n0][2] = l[i][2]
    BY <1>0, <1>1, <1>2, <2>4
  <2>. QED BY <2>3, <2>5
<1> HIDE DEF back
<1>6. Written(l, back) = Written(l, val)
  BY <1>5 DEF Written
<1>. QED BY <1>1, <1>3, <1>4, <1>6 DEF w, s, back
=============================================================================
