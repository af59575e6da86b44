-------------------------- MODULE PrefixSum_proofs --------------------------
(***************************************************************************)
(* What SumTo and Length satisfy.  An inductive fact about them is proved  *)
(* from the least natural number that would refute it (LeastNat), which is *)
(* the form of induction that mentions no operator parameter.  Also how    *)
(* often something occurs in a sequence, which the proofs about wires need.*)
(***************************************************************************)
EXTENDS PrefixSum, WellFoundedInduction, FiniteSetTheorems, FunctionTheorems, TLAPS

LessThan == {e \in Nat \X Nat : e[1] < e[2]}

\* A set of natural numbers that is not empty has a least element.
LEMMA LeastNat ==
  ASSUME NEW T \in SUBSET Nat, T # {}
  PROVE  \E m \in T : \A k \in T : m <= k
<1>1. IsWellFoundedOn(LessThan, Nat)
  BY NatLessThanWellFounded, Zenon DEF OpToRel, LessThan
<1>2. PICK m \in T : \A k \in T : <<k, m>> \notin LessThan
  BY <1>1, WFMin
<1>3. \A k \in T : ~(k < m)
  BY <1>2 DEF LessThan
<1>4. QED
  BY <1>3

\* g holds the partial sums of f up to n.
Sums(g, f, n) == g = [i \in 0..n |-> IF i = 0 THEN 0 ELSE g[i - 1] + f[i]]

\* The recursive definition of the partial sums has a solution.
LEMMA SumsExist ==
  ASSUME NEW n \in Nat, NEW f
  PROVE  \E g : Sums(g, f, n)
<1> DEFINE Bad == {k \in Nat : ~ \E g : Sums(g, f, k)}
<1>1. SUFFICES ASSUME Bad # {} PROVE FALSE
  OBVIOUS
<1>2. PICK m \in Bad : \A k \in Bad : m <= k
  <2> HIDE DEF Bad
  <2>1. Bad \in SUBSET Nat
    BY DEF Bad
  <2>2. QED
    BY <1>1, <2>1, LeastNat
<1>3. m # 0
  <2>1. Sums([i \in {0} |-> 0], f, 0)
    BY DEF Sums
  <2>2. QED
    BY <1>2, <2>1
<1>4. m - 1 \in Nat /\ m - 1 \notin Bad
  BY <1>2, <1>3
<1>5. PICK g : Sums(g, f, m - 1)
  BY <1>4
<1> DEFINE h == [i \in 0..m |-> IF i = 0 THEN 0 ELSE g[i - 1] + f[i]]
<1>6. \A i \in 0..m : i # 0 => h[i - 1] = g[i - 1]
  BY <1>2, <1>5 DEF Sums
<1>7. Sums(h, f, m)
  BY <1>6 DEF Sums
<1>8. QED
  BY <1>2, <1>7

\* The partial sums as the pair of equations that the proofs below use.
LEMMA PartialSumsDef ==
  ASSUME NEW n \in Nat, NEW f
  PROVE  /\ PartialSums(f, n)[0] = 0
         /\ \A i \in 1..n : PartialSums(f, n)[i] = PartialSums(f, n)[i - 1] + f[i]
<1>1. PartialSums(f, n) = CHOOSE g : Sums(g, f, n)
  BY Zenon DEF PartialSums, Sums
<1>2. Sums(PartialSums(f, n), f, n)
  BY <1>1, SumsExist
<1>3. ASSUME NEW g, Sums(g, f, n)
      PROVE  \A i \in 0..n : g[i] = IF i = 0 THEN 0 ELSE g[i - 1] + f[i]
  <2>1. g = [i \in 0..n |-> IF i = 0 THEN 0 ELSE g[i - 1] + f[i]]
    BY <1>3 DEF Sums
  <2>2. QED
    BY ONLY <2>1, Zenon
<1>4. \A i \in 0..n : PartialSums(f, n)[i] =
                         IF i = 0 THEN 0 ELSE PartialSums(f, n)[i - 1] + f[i]
  BY <1>2, <1>3
<1>5. QED
  BY <1>4

\* Partial sums of integers are integers.
LEMMA PartialSumsType ==
  ASSUME NEW n \in Nat, NEW f, \A i \in 1..n : f[i] \in Int
  PROVE  \A i \in 0..n : PartialSums(f, n)[i] \in Int
<1> DEFINE P == PartialSums(f, n)
           Bad == {k \in 0..n : P[k] \notin Int}
<1>1. /\ P[0] = 0
      /\ \A i \in 1..n : P[i] = P[i - 1] + f[i]
  BY PartialSumsDef
<1> HIDE DEF P
<1>2. SUFFICES ASSUME Bad # {} PROVE FALSE
  BY DEF P
<1>3. PICK m \in Bad : \A k \in Bad : m <= k
  <2> HIDE DEF Bad
  <2>1. Bad \in SUBSET Nat
    BY DEF Bad
  <2>2. QED
    BY <1>2, <2>1, LeastNat
<1>4. m \in 1..n /\ m - 1 \in 0..n /\ m - 1 \notin Bad
  BY <1>1, <1>3
<1>5. QED
  BY <1>1, <1>3, <1>4

\* Functions that agree up to n have the same partial sums, however many
\* values are summed in all.
LEMMA PartialSumsAgree ==
  ASSUME NEW n \in Nat, NEW m \in Nat, NEW k \in Nat, k <= m, k <= n,
         NEW f, NEW g, \A i \in 1..k : f[i] = g[i]
  PROVE  PartialSums(f, m)[k] = PartialSums(g, n)[k]
<1> DEFINE F == PartialSums(f, m)
           G == PartialSums(g, n)
           Bad == {j \in 0..k : F[j] # G[j]}
<1>1. /\ F[0] = 0 /\ \A i \in 1..m : F[i] = F[i - 1] + f[i]
      /\ G[0] = 0 /\ \A i \in 1..n : G[i] = G[i - 1] + g[i]
  BY PartialSumsDef
<1> HIDE DEF F, G
<1>2. SUFFICES ASSUME Bad # {} PROVE FALSE
  BY DEF F, G
<1>3. PICK j \in Bad : \A i \in Bad : j <= i
  <2> HIDE DEF Bad
  <2>1. Bad \in SUBSET Nat
    BY DEF Bad
  <2>2. QED
    BY <1>2, <2>1, LeastNat
<1>4. j \in 1..k /\ j - 1 \in 0..k /\ j - 1 \notin Bad
  BY <1>1, <1>3
<1>5. QED
  BY <1>1, <1>3, <1>4

\* A sum of integers is an integer.
LEMMA SumToType ==
  ASSUME NEW n \in Nat, NEW f, \A i \in 1..n : f[i] \in Int
  PROVE  SumTo(f, n) \in Int
BY PartialSumsType DEF SumTo

\* A sum of natural numbers is a natural number.
LEMMA SumToNat ==
  ASSUME NEW n \in Nat, NEW f, \A i \in 1..n : f[i] \in Nat
  PROVE  SumTo(f, n) \in Nat
<1> DEFINE F == PartialSums(f, n)
           Bad == {k \in 0..n : F[k] \notin Nat}
<1>1. F[0] = 0 /\ \A i \in 1..n : F[i] = F[i - 1] + f[i]
  BY PartialSumsDef
<1> HIDE DEF F
<1>2. SUFFICES ASSUME Bad # {} PROVE FALSE
  BY DEF F, SumTo
<1>3. PICK m \in Bad : \A k \in Bad : m <= k
  <2> HIDE DEF Bad
  <2>1. Bad \in SUBSET Nat
    BY DEF Bad
  <2>2. QED
    BY <1>2, <2>1, LeastNat
<1>4. m \in 1..n /\ m - 1 \in 0..n /\ m - 1 \notin Bad
  BY <1>1, <1>3
<1>5. QED
  BY <1>1, <1>3, <1>4

\* Changing one value of f changes the sum by the same amount.
LEMMA SumToUpdate ==
  ASSUME NEW n \in Nat, NEW f, \A i \in 1..n : f[i] \in Int,
         NEW g, \A i \in 1..n : g[i] \in Int,
         NEW k \in 1..n, \A i \in 1..n : i # k => g[i] = f[i]
  PROVE  SumTo(g, n) = SumTo(f, n) + (g[k] - f[k])
<1> DEFINE F == PartialSums(f, n)
           G == PartialSums(g, n)
           Bad == {j \in 0..n : G[j] # F[j] + (IF j < k THEN 0 ELSE g[k] - f[k])}
<1>1. /\ F[0] = 0 /\ \A i \in 1..n : F[i] = F[i - 1] + f[i]
      /\ G[0] = 0 /\ \A i \in 1..n : G[i] = G[i - 1] + g[i]
  BY PartialSumsDef
<1>2. \A i \in 0..n : F[i] \in Int /\ G[i] \in Int
  BY PartialSumsType
<1> HIDE DEF F, G
<1>3. SUFFICES ASSUME Bad # {} PROVE FALSE
  BY DEF F, G, SumTo
<1>4. PICK j \in Bad : \A i \in Bad : j <= i
  <2> HIDE DEF Bad
  <2>1. Bad \in SUBSET Nat
    BY DEF Bad
  <2>2. QED
    BY <1>3, <2>1, LeastNat
<1>5. j \in 1..n /\ j - 1 \in 0..n /\ j - 1 \notin Bad
  BY <1>1, <1>4
<1>6. /\ G[j - 1] = F[j - 1] + (IF j - 1 < k THEN 0 ELSE g[k] - f[k])
      /\ G[j] # F[j] + (IF j < k THEN 0 ELSE g[k] - f[k])
      /\ F[j] = F[j - 1] + f[j] /\ G[j] = G[j - 1] + g[j]
      /\ F[j - 1] \in Int /\ G[j - 1] \in Int
      /\ f[j] \in Int /\ g[j] \in Int /\ f[k] \in Int /\ g[k] \in Int
  BY <1>1, <1>2, <1>4, <1>5
<1>7. CASE j = k
  BY <1>5, <1>6, <1>7
<1>8. CASE j # k
  <2>1. g[j] = f[j]
    BY <1>5, <1>8
  <2>2. QED
    BY <1>5, <1>6, <1>8, <2>1
<1>9. QED
  BY <1>7, <1>8

-----------------------------------------------------------------------------
\* Packets are records with a length.
Lens(s) == [i \in 1..Len(s) |-> s[i].len]

\* The length of an empty queue is 0.
LEMMA LengthEmpty == Length(<<>>) = 0
<1>1. Len(<<>>) = 0
  OBVIOUS
<1>2. PartialSums(Lens(<<>>), 0)[0] = 0
  BY PartialSumsDef
<1>3. QED
  BY <1>1, <1>2 DEF Length, SumTo, Lens

\* The length of a queue is a natural number.
LEMMA LengthType ==
  ASSUME NEW P, \A p \in P : p.len \in Nat, NEW s \in Seq(P)
  PROVE  Length(s) \in Nat
<1>1. Len(s) \in Nat /\ \A i \in 1..Len(s) : Lens(s)[i] \in Nat
  BY DEF Lens
<1>2. SumTo(Lens(s), Len(s)) \in Nat
  BY <1>1, SumToNat
<1>3. QED
  BY <1>2 DEF Length, Lens

\* cPacketQueue::insert adds the length of the packet.
LEMMA LengthAppend ==
  ASSUME NEW P, \A p \in P : p.len \in Nat, NEW s \in Seq(P), NEW p \in P
  PROVE  Length(Append(s, p)) = Length(s) + p.len
<1> DEFINE t == Append(s, p)
           n == Len(s)
<1>1. /\ n \in Nat
      /\ t \in Seq(P) /\ Len(t) = n + 1
      /\ t[n + 1] = p
      /\ \A i \in 1..n : t[i] = s[i]
  OBVIOUS
<1> HIDE DEF t
<1>2. /\ \A i \in 1..n : Lens(t)[i] = Lens(s)[i]
      /\ Lens(t)[n + 1] = p.len
  BY <1>1 DEF Lens
<1>3. PartialSums(Lens(t), n + 1)[n + 1] = PartialSums(Lens(t), n + 1)[n] + p.len
  BY <1>1, <1>2, PartialSumsDef
<1>4. PartialSums(Lens(t), n + 1)[n] = PartialSums(Lens(s), n)[n]
  BY <1>1, <1>2, PartialSumsAgree
<1>5. QED
  BY <1>1, <1>3, <1>4 DEF Length, SumTo, Lens, t

\* A sum is its first value and the sum of the others.
LEMMA SumShift ==
  ASSUME NEW n \in Nat, NEW f, NEW g,
         \A i \in 1..(n + 1) : f[i] \in Int,
         \A i \in 1..n : g[i] = f[i + 1]
  PROVE  SumTo(f, n + 1) = f[1] + SumTo(g, n) /\ SumTo(g, n) \in Int
<1> DEFINE F == PartialSums(f, n + 1)
           G == PartialSums(g, n)
           Bad == {k \in 0..n : F[k + 1] # f[1] + G[k]}
<1>1. \A i \in 1..n : i + 1 \in 1..(n + 1) /\ (i + 1) - 1 = i
  OBVIOUS
<1>2. \A i \in 1..n : g[i] \in Int
  BY <1>1
<1>3. /\ F[0] = 0 /\ \A i \in 1..(n + 1) : F[i] = F[i - 1] + f[i]
      /\ G[0] = 0 /\ \A i \in 1..n : G[i] = G[i - 1] + g[i]
  <2>1. n + 1 \in Nat
    OBVIOUS
  <2>2. QED
    BY <2>1, PartialSumsDef
<1>4. \A i \in 0..n : G[i] \in Int
  BY <1>2, PartialSumsType
<1>5. SumTo(f, n + 1) = F[n + 1] /\ SumTo(g, n) = G[n] /\ n \in 0..n
  BY DEF SumTo
<1> HIDE DEF F, G
<1>6. SUFFICES ASSUME Bad # {} PROVE FALSE
  BY <1>4, <1>5
<1>7. PICK m \in Bad : \A k \in Bad : m <= k
  <2>1. Bad \in SUBSET Nat
    BY DEF Bad
  <2> HIDE DEF Bad
  <2>2. QED
    BY <1>6, <2>1, LeastNat
<1>8. m \in 0..n /\ F[m + 1] # f[1] + G[m]
  BY <1>7
<1>9. f[1] \in Int
  <2>1. 1 \in 1..(n + 1)
    OBVIOUS
  <2>2. QED
    BY <2>1
<1>10. m # 0
  <2>1. 1 \in 1..(n + 1) /\ 1 - 1 = 0 /\ 0 + 1 = 1
    OBVIOUS
  <2>2. F[1] = F[0] + f[1]
    BY <1>3, <2>1
  <2>3. F[0 + 1] = f[1] + G[0]
    BY <1>3, <1>9, <2>1, <2>2
  <2>4. QED
    BY <1>8, <2>3
<1>11. m \in 1..n /\ m - 1 \in 0..n /\ (m - 1) + 1 = m
  BY <1>8, <1>10
<1>12. m - 1 \notin Bad
  <2>1. ~(m <= m - 1)
    BY <1>8
  <2> HIDE DEF Bad
  <2>2. QED
    BY <1>7, <2>1
<1>13. F[m] = f[1] + G[m - 1]
  BY <1>11, <1>12
<1>14. G[m] = G[m - 1] + f[m + 1]
  BY <1>3, <1>11
<1>15. F[m + 1] = F[m] + f[m + 1]
  <2>1. m + 1 \in 1..(n + 1) /\ (m + 1) - 1 = m
    BY <1>11
  <2>2. QED
    BY <1>3, <2>1
<1>16. G[m - 1] \in Int /\ f[m + 1] \in Int
  BY <1>1, <1>4, <1>11
<1>17. F[m + 1] = f[1] + G[m]
  BY <1>9, <1>13, <1>14, <1>15, <1>16
<1>18. QED
  BY <1>8, <1>17

\* cPacketQueue::pop takes the length of the first packet off.
LEMMA LengthTail ==
  ASSUME NEW P, \A p \in P : p.len \in Nat, NEW s \in Seq(P), s # <<>>
  PROVE  Length(s) = Head(s).len + Length(Tail(s))
<1> DEFINE t == Tail(s)
           n == Len(t)
<1>1. /\ n \in Nat /\ Len(s) = n + 1
      /\ s[1] = Head(s)
      /\ \A i \in 1..(n + 1) : s[i] \in P
      /\ \A i \in 1..n : t[i] = s[i + 1]
  OBVIOUS
<1> HIDE DEF t
<1>2. \A i \in 1..(n + 1) : Lens(s)[i] = s[i].len /\ Lens(s)[i] \in Int
  BY <1>1 DEF Lens
<1>3. \A i \in 1..n : Lens(t)[i] = Lens(s)[i + 1]
  BY <1>1, <1>2 DEF Lens
<1>4. SumTo(Lens(s), n + 1) = Lens(s)[1] + SumTo(Lens(t), n)
  BY <1>1, <1>2, <1>3, SumShift
<1>5. Lens(s)[1] = Head(s).len
  BY <1>1, <1>2
<1>6. QED
  BY <1>1, <1>4, <1>5 DEF Length, Lens, t

\* Packets of length one count themselves.
LEMMA LengthOfUnits ==
  ASSUME NEW P, \A p \in P : p.len = 1, NEW s \in Seq(P)
  PROVE  Length(s) = Len(s)
<1> DEFINE f == [i \in 1..Len(s) |-> s[i].len]
           n == Len(s)
           F == PartialSums(f, n)
           Bad == {k \in 0..n : F[k] # k}
<1>1. n \in Nat /\ \A i \in 1..n : f[i] = 1
  OBVIOUS
<1>2. F[0] = 0 /\ \A i \in 1..n : F[i] = F[i - 1] + f[i]
  BY <1>1, PartialSumsDef
<1> HIDE DEF F, f, n
<1>3. Bad = {}
  <2>1. SUFFICES ASSUME Bad # {} PROVE FALSE
    OBVIOUS
  <2>2. Bad \in SUBSET Nat
    BY <1>1
  <2>3. PICK m \in Bad : \A k \in Bad : m <= k
    BY <2>1, <2>2, LeastNat
  <2>4. m \in 1..n /\ m - 1 \in 0..n
    BY <1>1, <1>2, <2>3
  <2>5. F[m - 1] = m - 1
    BY <2>3, <2>4
  <2>6. QED
    BY <1>1, <1>2, <2>3, <2>4, <2>5
<1>4. F[n] = n
  BY <1>1, <1>3
<1>5. QED
  BY <1>4 DEF Length, SumTo, F, f, n

-----------------------------------------------------------------------------
(***************************************************************************)
(* Counting in a sequence.                                                 *)
(***************************************************************************)
Places(s, x) == {k \in 1..Len(s) : s[k] = x}
Copies(s, x) == Cardinality(Places(s, x))

LEMMA PlacesFinite ==
  ASSUME NEW S, NEW s \in Seq(S), NEW x
  PROVE  IsFiniteSet(Places(s, x)) /\ Copies(s, x) \in Nat
<1>1. IsFiniteSet(1..Len(s))
  BY FS_Interval
<1>2. Places(s, x) \in SUBSET (1..Len(s))
  BY DEF Places
<1>3. IsFiniteSet(Places(s, x))
  BY <1>1, <1>2, FS_Subset
<1>4. QED
  BY <1>3, FS_CardinalityType DEF Copies

LEMMA CopiesOfNone ==
  ASSUME NEW x
  PROVE  Copies(<<>>, x) = 0
<1>1. Places(<<>>, x) = {}
  BY DEF Places
<1>2. QED
  BY <1>1, FS_EmptySet DEF Copies

\* No more copies than elements.
LEMMA CopiesFit ==
  ASSUME NEW S, NEW s \in Seq(S), NEW x
  PROVE  Copies(s, x) <= Len(s)
<1>1. IsFiniteSet(1..Len(s)) /\ Cardinality(1..Len(s)) = Len(s)
  <2>1. Len(s) \in Nat /\ Len(s) \in Int /\ 1 \in Int
    OBVIOUS
  <2>2. /\ IsFiniteSet(1..Len(s))
        /\ Cardinality(1..Len(s)) = IF 1 > Len(s) THEN 0 ELSE Len(s) - 1 + 1
    BY <2>1, FS_Interval
  <2>3. QED
    BY <2>1, <2>2
<1>2. Places(s, x) \in SUBSET (1..Len(s))
  BY DEF Places
<1>3. QED
  BY <1>1, <1>2, FS_Subset DEF Copies

LEMMA CopiesAppended ==
  ASSUME NEW S, NEW s \in Seq(S), NEW e \in S, NEW x
  PROVE  Copies(Append(s, e), x) = Copies(s, x) + (IF e = x THEN 1 ELSE 0)
<1> DEFINE n == Len(s)
           t == Append(s, e)
<1>1. /\ n \in Nat /\ Len(t) = n + 1 /\ t[n + 1] = e
      /\ \A k \in 1..n : t[k] = s[k]
  OBVIOUS
<1> HIDE DEF t
<1>2. IsFiniteSet(Places(s, x)) /\ Copies(s, x) \in Nat
  BY PlacesFinite
<1>3. n + 1 \notin Places(s, x)
  BY <1>1 DEF Places
<1>4. \A k : k \in 1..(n + 1) <=> k \in 1..n \/ k = n + 1
  BY <1>1
<1>5. CASE e = x
  <2>1. Places(t, x) = Places(s, x) \cup {n + 1}
    BY <1>1, <1>4, <1>5 DEF Places
  <2>2. QED
    BY <1>2, <1>3, <1>5, <2>1, FS_AddElement DEF Copies, t
<1>6. CASE e # x
  <2>1. Places(t, x) = Places(s, x)
    BY <1>1, <1>4, <1>6 DEF Places
  <2>2. QED
    BY <1>2, <1>6, <2>1 DEF Copies, t
<1>7. QED
  BY <1>5, <1>6

LEMMA CopiesOfTail ==
  ASSUME NEW S, NEW s \in Seq(S), s # <<>>, NEW x
  PROVE  Copies(s, x) = Copies(Tail(s), x) + (IF Head(s) = x THEN 1 ELSE 0)
<1> DEFINE n == Len(s)
           t == Tail(s)
           later == Places(s, x) \ {1}
<1>1. /\ n \in Nat \ {0} /\ Len(t) = n - 1 /\ t \in Seq(S) /\ Head(s) = s[1]
      /\ \A k \in 1..(n - 1) : t[k] = s[k + 1]
  OBVIOUS
<1> HIDE DEF t
<1>2. IsFiniteSet(Places(t, x)) /\ IsFiniteSet(Places(s, x))
  BY <1>1, PlacesFinite
<1>3. later = {k \in 2..n : s[k] = x}
  BY <1>1 DEF Places
<1> HIDE DEF later
<1>4. Cardinality(later) = Copies(t, x)
  <2> DEFINE g == [k \in Places(t, x) |-> k + 1]
  <2>1. \A k \in Places(t, x) : k \in 1..(n - 1) /\ s[k + 1] = x
    BY <1>1 DEF Places
  <2>2. g \in [Places(t, x) -> later]
    BY <1>1, <1>3, <2>1
  <2>3. \A a, b \in Places(t, x) : g[a] = g[b] => a = b
    BY <1>1, <2>1
  <2>4. \A b \in later : \E a \in Places(t, x) : g[a] = b
    <3>1. TAKE b \in later
    <3>2. b - 1 \in 1..(n - 1) /\ t[b - 1] = s[b] /\ s[b] = x /\ (b - 1) + 1 = b
      <4>1. b \in 2..n /\ s[b] = x
        BY <1>3
      <4>2. b - 1 \in 1..(n - 1) /\ (b - 1) + 1 = b
        BY <1>1, <4>1
      <4>3. QED
        BY <1>1, <4>1, <4>2
    <3>3. b - 1 \in Places(t, x)
      BY <1>1, <3>2 DEF Places
    <3>4. QED
      BY <3>2, <3>3
  <2>5. g \in Bijection(Places(t, x), later)
    <3> HIDE DEF g
    <3>1. QED
      BY <2>2, <2>3, <2>4, Fun_IsBij
  <2>6. ExistsBijection(Places(t, x), later)
    BY <2>5, Fun_ExistsBij
  <2>7. QED
    BY <1>2, <2>6, FS_Bijection DEF Copies
<1>5. Cardinality(later) = IF 1 \in Places(s, x) THEN Copies(s, x) - 1 ELSE Copies(s, x)
  BY <1>2, FS_RemoveElement DEF later, Copies
<1>6. 1 \in Places(s, x) <=> Head(s) = x
  BY <1>1 DEF Places
<1>7. Copies(s, x) \in Nat /\ Copies(t, x) \in Nat
  BY <1>1, PlacesFinite
<1>8. QED
  BY <1>4, <1>5, <1>6, <1>7 DEF t
=============================================================================
