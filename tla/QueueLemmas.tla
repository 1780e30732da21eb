----------------------------- MODULE QueueLemmas -----------------------------
(***************************************************************************)
(* What the operations on queues return, for sequences of any length: the   *)
(* filter of Queues, concatenation, FlattenSeq and the halves of a batch.   *)
(* Recursive functions are reasoned about by induction over sets of         *)
(* naturals, which the well-foundedness of < gives (Induction).             *)
(***************************************************************************)
EXTENDS Queues, SequencesExt, SequenceTheorems, WellFoundedInduction, TLAPS

\* A set of naturals that holds 0 and, below a bound, with n also n + 1, holds
\* every natural up to the bound.
LEMMA Induction ==
    ASSUME NEW N \in Nat, NEW T, 0 \in T, \A n \in 0..(N - 1) : n \in T => n + 1 \in T
    PROVE  0..N \subseteq T
<1>. DEFINE Missing == (0..N) \ T
<1>1. SUFFICES ASSUME Missing # {} PROVE FALSE
    OBVIOUS
<1>2. Missing \subseteq Nat
    OBVIOUS
<1>3. IsWellFoundedOn(OpToRel(<, Nat), Nat)
    BY NatLessThanWellFounded
<1>4. PICK n \in Missing : \A m \in Missing : ~(<<m, n>> \in OpToRel(<, Nat))
    BY <1>1, <1>2, <1>3, WFMin, Zenon
<1>5. n \in Nat /\ n # 0 /\ n <= N
    <2>1. n \in 0..N /\ n \notin T
        OBVIOUS
    <2>. QED BY <2>1
<1>6. n - 1 \in 0..(N - 1) /\ n - 1 < n
    BY <1>5
<1>7. n - 1 \notin Missing
    <2>1. ASSUME n - 1 \in Missing PROVE <<n - 1, n>> \in OpToRel(<, Nat)
        BY <1>5, <1>6 DEF OpToRel
    <2>. QED BY <2>1, <1>4
<1>8. n - 1 \in T
    BY <1>6, <1>7
<1>9. n \in T
    BY <1>6, <1>8, <1>5
<1>. QED BY <1>9, <1>4

-----------------------------------------------------------------------------
(* Kept.                                                                    *)

\* G is the function Kept(s, S) recurses over, up to n.
Keeps(G, n, s, S) ==
    G = [i \in 0..n |-> IF i = 0 THEN <<>>
                         ELSE IF s[i] \in S THEN Append(G[i - 1], s[i]) ELSE G[i - 1]]

LEMMA KeepsExists ==
    ASSUME NEW s, NEW S, NEW N \in Nat
    PROVE  \E G : Keeps(G, N, s, S)
<1>. DEFINE T == {k \in 0..N : \E G : Keeps(G, k, s, S)}
<1>1. 0 \in T
    <2>1. Keeps([i \in 0..0 |-> <<>>], 0, s, S)
        BY DEF Keeps
    <2>. QED BY <2>1
<1>2. ASSUME NEW n \in 0..(N - 1), n \in T PROVE n + 1 \in T
    <2>1. PICK G : Keeps(G, n, s, S)
        BY <1>2
    <2>. DEFINE last == IF s[n + 1] \in S THEN Append(G[n], s[n + 1]) ELSE G[n]
                H == [i \in 0..(n + 1) |-> IF i = n + 1 THEN last ELSE G[i]]
    <2>2. \A i \in 0..n : G[i] = IF i = 0 THEN <<>>
                                 ELSE IF s[i] \in S THEN Append(G[i - 1], s[i]) ELSE G[i - 1]
        BY <2>1 DEF Keeps
    <2>3. \A i \in 0..n : H[i] = G[i]
        OBVIOUS
    <2>4. H[n + 1] = last
        OBVIOUS
    <2>5. \A i \in 0..(n + 1) : H[i] = IF i = 0 THEN <<>>
                                 ELSE IF s[i] \in S THEN Append(H[i - 1], s[i]) ELSE H[i - 1]
        BY <2>2, <2>3, <2>4
    <2>6. Keeps(H, n + 1, s, S)
        BY <2>5, Zenon DEF Keeps
    <2>. QED BY <2>6
<1>3. 0..N \subseteq T
    <2>. HIDE DEF T
    <2>. QED BY <1>1, <1>2, Induction
<1>. QED BY <1>3

\* e places the elements of the sequence t among the first n of s, in their order.
Embeds(e, t, n, s) ==
    /\ e \in [1..Len(t) -> 1..n]
    /\ \A i \in 1..Len(t) : t[i] = s[e[i]]
    /\ \A i, j \in 1..Len(t) : i < j => e[i] < e[j]

\* t holds the first n elements of s that are in S.
Filtered(t, n, s, S) ==
    /\ \A i \in 1..Len(t) : t[i] \in S
    /\ \A i \in 1..n : s[i] \in S => \E j \in 1..Len(t) : t[j] = s[i]
    /\ \E e : Embeds(e, t, n, s)

LEMMA FilteredStep ==
    ASSUME NEW U, NEW s \in Seq(U), NEW S, NEW n \in Nat, n + 1 \in 1..Len(s),
           NEW t \in Seq(U), Filtered(t, n, s, S)
    PROVE  LET next == IF s[n + 1] \in S THEN Append(t, s[n + 1]) ELSE t
           IN  next \in Seq(U) /\ Filtered(next, n + 1, s, S)
<1>1. PICK e : Embeds(e, t, n, s)
    BY DEF Filtered
<1>2. CASE s[n + 1] \notin S
    <2>1. Embeds(e, t, n + 1, s)
        BY <1>1 DEF Embeds
    <2>2. \A i \in 1..(n + 1) : s[i] \in S => i \in 1..n
        BY <1>2
    <2>. QED BY <1>2, <2>1, <2>2 DEF Filtered
<1>3. CASE s[n + 1] \in S
    <2>. DEFINE L == Len(t)
                a == Append(t, s[n + 1])
                d == [i \in 1..(L + 1) |-> IF i = L + 1 THEN n + 1 ELSE e[i]]
    <2>1. s[n + 1] \in U
        OBVIOUS
    <2>2. /\ a \in Seq(U) /\ Len(a) = L + 1 /\ L \in Nat
          /\ \A i \in 1..L : a[i] = t[i]
          /\ a[L + 1] = s[n + 1]
        BY <2>1, AppendProperties
    <2>3. /\ e \in [1..L -> 1..n]
          /\ \A i \in 1..L : t[i] = s[e[i]]
          /\ \A i, j \in 1..L : i < j => e[i] < e[j]
        BY <1>1 DEF Embeds
    <2>. HIDE DEF a, L
    <2>4. d \in [1..(L + 1) -> 1..(n + 1)]
        BY <2>2, <2>3
    <2>5. \A i \in 1..L : d[i] = e[i] /\ e[i] \in 1..n
        BY <2>2, <2>3
    <2>6. d[L + 1] = n + 1
        BY <2>2
    <2>. HIDE DEF d
    <2>7. ASSUME NEW i \in 1..(L + 1), i # L + 1 PROVE i \in 1..L
        BY <2>2, <2>7
    <2>8. \A i \in 1..(L + 1) : a[i] = s[d[i]]
        BY <2>2, <2>3, <2>5, <2>6, <2>7
    <2>9. ASSUME NEW i \in 1..(L + 1), NEW j \in 1..(L + 1), i < j PROVE d[i] < d[j]
        <3>1. i \in 1..L
            BY <2>9, <2>2
        <3>2. CASE j = L + 1
            BY <3>1, <3>2, <2>5, <2>6
        <3>3. CASE j # L + 1
            BY <3>1, <3>3, <2>7, <2>3, <2>5, <2>9
        <3>. QED BY <3>2, <3>3
    <2>10. Embeds(d, a, n + 1, s)
        BY <2>2, <2>4, <2>8, <2>9 DEF Embeds
    <2>11. \A i \in 1..Len(a) : a[i] \in S
        BY <2>2, <2>7, <1>3 DEF Filtered, L
    <2>12. ASSUME NEW i \in 1..(n + 1), s[i] \in S PROVE \E j \in 1..Len(a) : a[j] = s[i]
        <3>1. CASE i = n + 1
            BY <3>1, <2>2
        <3>2. CASE i # n + 1
            <4>1. i \in 1..n
                BY <3>2
            <4>2. PICK j \in 1..L : t[j] = s[i]
                BY <4>1, <2>12 DEF Filtered, L
            <4>. QED BY <4>2, <2>2
        <3>. QED BY <3>1, <3>2
    <2>. QED BY <1>3, <2>2, <2>10, <2>11, <2>12 DEF Filtered, a
<1>. QED BY <1>2, <1>3

\* The filter returns the elements that are in S, in the order of s.
LEMMA KeptProperties ==
    ASSUME NEW U, NEW s \in Seq(U), NEW S
    PROVE  /\ Kept(s, S) \in Seq(U)
           /\ ToSet(Kept(s, S)) = ToSet(s) \cap S
           /\ \E e : Embeds(e, Kept(s, S), Len(s), s)
<1>. DEFINE N == Len(s)
            F == CHOOSE G : Keeps(G, N, s, S)
<1>1. N \in Nat
    OBVIOUS
<1>2. Keeps(F, N, s, S)
    BY <1>1, KeepsExists
<1>3. Kept(s, S) = F[N]
    BY DEF Kept, Keeps
<1>. HIDE DEF F, N
<1>4. F[0] = <<>>
    BY <1>1, <1>2 DEF Keeps
<1>5. \A n \in 0..(N - 1) : F[n + 1] = IF s[n + 1] \in S THEN Append(F[n], s[n + 1]) ELSE F[n]
    <2>1. \A i \in 0..N : F[i] = IF i = 0 THEN <<>>
                                ELSE IF s[i] \in S THEN Append(F[i - 1], s[i]) ELSE F[i - 1]
        BY <1>2 DEF Keeps
    <2>2. ASSUME NEW n \in 0..(N - 1) PROVE n + 1 \in 0..N /\ n + 1 # 0 /\ (n + 1) - 1 = n
        BY <1>1
    <2>. QED BY <2>1, <2>2
<1>. USE DEF N
<1>. DEFINE T == {n \in 0..N : F[n] \in Seq(U) /\ Filtered(F[n], n, s, S)}
<1>6. 0 \in T
    <2>1. F[0] \in Seq(U) /\ Len(F[0]) = 0
        BY <1>4
    <2>2. [i \in {} |-> 0] \in [1..Len(F[0]) -> 1..0]
        BY <2>1
    <2>3. Embeds([i \in {} |-> 0], F[0], 0, s)
        BY <2>1, <2>2 DEF Embeds
    <2>. QED BY <2>1, <2>3, <1>1 DEF Filtered
<1>7. ASSUME NEW n \in 0..(N - 1), n \in T PROVE n + 1 \in T
    <2>1. n \in Nat /\ n + 1 \in 1..Len(s) /\ n + 1 \in 0..N
        BY <1>1
    <2>2. F[n] \in Seq(U) /\ Filtered(F[n], n, s, S)
        BY <1>7
    <2>3. F[n + 1] = IF s[n + 1] \in S THEN Append(F[n], s[n + 1]) ELSE F[n]
        BY <1>5
    <2>4. F[n + 1] \in Seq(U) /\ Filtered(F[n + 1], n + 1, s, S)
        BY <2>1, <2>2, <2>3, FilteredStep
    <2>. QED BY <2>1, <2>4
<1>8. 0..N \subseteq T
    <2>. HIDE DEF T, N
    <2>. QED BY <1>1, <1>6, <1>7, Induction
<1>9. F[N] \in Seq(U) /\ Filtered(F[N], N, s, S)
    BY <1>8, <1>1
<1>10. PICK e : Embeds(e, F[N], N, s)
    BY <1>9 DEF Filtered
<1>11. ASSUME NEW i \in 1..Len(F[N]) PROVE F[N][i] \in ToSet(s) \cap S
    <2>1. F[N][i] = s[e[i]] /\ e[i] \in 1..N
        BY <1>10 DEF Embeds
    <2>2. F[N][i] \in S
        BY <1>9 DEF Filtered
    <2>. QED BY <2>1, <2>2 DEF ToSet
<1>12. ToSet(s) \cap S \subseteq ToSet(F[N])
    BY <1>9 DEF Filtered, ToSet
<1>13. ToSet(F[N]) = ToSet(s) \cap S
    BY <1>9, <1>11, <1>12 DEF ToSet
<1>. QED BY <1>3, <1>9, <1>10, <1>13

\* All pairs of elements of s, the earlier one first, are related by R; with R the
\* relation Differ, no element is repeated.
Ordered(s, R) == \A i, j \in 1..Len(s) : i < j => <<s[i], s[j]>> \in R
Differ(U) == {d \in U \X U : d[1] # d[2]}

LEMMA KeptOrdered ==
    ASSUME NEW U, NEW s \in Seq(U), NEW S, NEW R, Ordered(s, R)
    PROVE  Ordered(Kept(s, S), R)
<1>1. Kept(s, S) \in Seq(U)
    BY KeptProperties
<1>2. PICK e : Embeds(e, Kept(s, S), Len(s), s)
    BY KeptProperties
<1>. DEFINE k == Kept(s, S)
<1>. HIDE DEF k
<1>3. /\ k \in Seq(U) /\ e \in [1..Len(k) -> 1..Len(s)]
      /\ \A i \in 1..Len(k) : k[i] = s[e[i]]
      /\ \A i, j \in 1..Len(k) : i < j => e[i] < e[j]
    BY <1>1, <1>2 DEF Embeds, k
<1>4. ASSUME NEW i \in 1..Len(k), NEW j \in 1..Len(k), i < j PROVE <<k[i], k[j]>> \in R
    <2>1. e[i] < e[j] /\ e[i] \in 1..Len(s) /\ e[j] \in 1..Len(s)
        BY <1>4, <1>3
    <2>. QED BY <2>1, <1>3 DEF Ordered
<1>. QED BY <1>3, <1>4 DEF Ordered, k
-----------------------------------------------------------------------------
(* Elements of other operations.                                            *)

\* Concatenation.
LEMMA ConcatSet ==
    ASSUME NEW U, NEW s \in Seq(U), NEW t \in Seq(U)
    PROVE  /\ s \o t \in Seq(U)
           /\ ToSet(s \o t) = ToSet(s) \cup ToSet(t)
<1>. DEFINE c == s \o t
<1>1. /\ c \in Seq(U) /\ Len(c) = Len(s) + Len(t) /\ Len(s) \in Nat /\ Len(t) \in Nat
      /\ \A i \in 1..Len(s) + Len(t) : c[i] = IF i <= Len(s) THEN s[i] ELSE t[i - Len(s)]
    BY ConcatProperties
<1>. HIDE DEF c
<1>2. \A i \in 1..Len(s) : i \in 1..Len(c) /\ c[i] = s[i]
    BY <1>1
<1>3. ASSUME NEW i \in 1..Len(t) PROVE i + Len(s) \in 1..Len(c) /\ c[i + Len(s)] = t[i]
    <2>1. i + Len(s) \in 1..Len(c) /\ ~(i + Len(s) <= Len(s)) /\ (i + Len(s)) - Len(s) = i
        BY <1>1
    <2>. QED BY <2>1, <1>1
<1>4. ASSUME NEW i \in 1..Len(c) PROVE c[i] \in ToSet(s) \cup ToSet(t)
    <2>1. CASE i <= Len(s)
        BY <2>1, <1>1 DEF ToSet
    <2>2. CASE ~(i <= Len(s))
        <3>1. i - Len(s) \in 1..Len(t) /\ c[i] = t[i - Len(s)]
            BY <2>2, <1>1
        <3>. QED BY <3>1 DEF ToSet
    <2>. QED BY <2>1, <2>2
<1>5. ToSet(c) \subseteq ToSet(s) \cup ToSet(t)
    BY <1>1, <1>4 DEF ToSet
<1>6. ToSet(s) \subseteq ToSet(c)
    BY <1>1, <1>2 DEF ToSet
<1>7. ToSet(t) \subseteq ToSet(c)
    <2>1. \A i \in 1..Len(t) : t[i] \in ToSet(c)
        BY <1>1, <1>3 DEF ToSet
    <2>. QED BY <2>1 DEF ToSet
<1>. QED BY <1>1, <1>5, <1>6, <1>7 DEF c

LEMMA ConcatOrdered ==
    ASSUME NEW U, NEW s \in Seq(U), NEW t \in Seq(U), NEW R,
           Ordered(s, R), Ordered(t, R), ToSet(s) \X ToSet(t) \subseteq R
    PROVE  Ordered(s \o t, R)
<1>. DEFINE c == s \o t
<1>1. /\ c \in Seq(U) /\ Len(c) = Len(s) + Len(t) /\ Len(s) \in Nat /\ Len(t) \in Nat
      /\ \A i \in 1..Len(s) + Len(t) : c[i] = IF i <= Len(s) THEN s[i] ELSE t[i - Len(s)]
    BY ConcatProperties
<1>. HIDE DEF c
<1>2. ASSUME NEW i \in 1..Len(c), NEW j \in 1..Len(c), i < j PROVE <<c[i], c[j]>> \in R
    <2>1. CASE j <= Len(s)
        <3>1. i \in 1..Len(s) /\ j \in 1..Len(s) /\ c[i] = s[i] /\ c[j] = s[j]
            BY <2>1, <1>1, <1>2
        <3>. QED BY <3>1, <1>2 DEF Ordered
    <2>2. CASE ~(i <= Len(s))
        <3>1. /\ i - Len(s) \in 1..Len(t) /\ j - Len(s) \in 1..Len(t) /\ i - Len(s) < j - Len(s)
              /\ c[i] = t[i - Len(s)] /\ c[j] = t[j - Len(s)]
            BY <2>2, <1>1, <1>2
        <3>. QED BY <3>1 DEF Ordered
    <2>3. CASE i <= Len(s) /\ ~(j <= Len(s))
        <3>1. i \in 1..Len(s) /\ c[i] = s[i] /\ j - Len(s) \in 1..Len(t) /\ c[j] = t[j - Len(s)]
            BY <2>3, <1>1
        <3>2. c[i] \in ToSet(s) /\ c[j] \in ToSet(t)
            BY <3>1 DEF ToSet
        <3>. QED BY <3>2
    <2>. QED BY <2>1, <2>2, <2>3
<1>. QED BY <1>1, <1>2 DEF Ordered, c

\* Append.
LEMMA AppendSet ==
    ASSUME NEW U, NEW s \in Seq(U), NEW x \in U
    PROVE  Append(s, x) \in Seq(U) /\ ToSet(Append(s, x)) = ToSet(s) \cup {x}
<1>. DEFINE a == Append(s, x)
<1>1. /\ a \in Seq(U) /\ Len(a) = Len(s) + 1 /\ Len(s) \in Nat
      /\ \A i \in 1..Len(s) : a[i] = s[i]
      /\ a[Len(s) + 1] = x
    BY AppendProperties
<1>. HIDE DEF a
<1>2. \A i \in 1..Len(s) : s[i] \in ToSet(a)
    BY <1>1 DEF ToSet
<1>3. x \in ToSet(a)
    BY <1>1 DEF ToSet
<1>4. \A i \in 1..Len(a) : a[i] \in ToSet(s) \cup {x}
    <2>1. \A i \in 1..Len(a) : i \in 1..Len(s) \/ i = Len(s) + 1
        BY <1>1
    <2>. QED BY <2>1, <1>1 DEF ToSet
<1>5. ToSet(a) \subseteq ToSet(s) \cup {x}
    BY <1>1, <1>4 DEF ToSet
<1>6. ToSet(s) \subseteq ToSet(a)
    BY <1>2 DEF ToSet
<1>. QED BY <1>1, <1>3, <1>5, <1>6 DEF a

LEMMA AppendOrdered ==
    ASSUME NEW U, NEW s \in Seq(U), NEW x \in U, NEW R, Ordered(s, R),
           \A y \in ToSet(s) : <<y, x>> \in R
    PROVE  Ordered(Append(s, x), R)
<1>. DEFINE a == Append(s, x)
<1>1. /\ a \in Seq(U) /\ Len(a) = Len(s) + 1 /\ Len(s) \in Nat
      /\ \A i \in 1..Len(s) : a[i] = s[i]
      /\ a[Len(s) + 1] = x
    BY AppendProperties
<1>. HIDE DEF a
<1>2. ASSUME NEW i \in 1..Len(a), NEW j \in 1..Len(a), i < j PROVE <<a[i], a[j]>> \in R
    <2>1. i \in 1..Len(s) /\ a[i] = s[i]
        BY <1>1, <1>2
    <2>2. CASE j = Len(s) + 1
        BY <2>1, <2>2, <1>1 DEF ToSet
    <2>3. CASE j # Len(s) + 1
        <3>1. j \in 1..Len(s) /\ a[j] = s[j]
            BY <2>3, <1>1
        <3>. QED BY <2>1, <3>1, <1>2 DEF Ordered
    <2>. QED BY <2>2, <2>3
<1>. QED BY <1>1, <1>2 DEF Ordered, a

\* The two halves of a sequence.
LEMMA Halves ==
    ASSUME NEW U, NEW s \in Seq(U), NEW n \in 0..Len(s), NEW R, Ordered(s, R)
    PROVE  LET a == SubSeq(s, 1, n)
               b == SubSeq(s, n + 1, Len(s))
           IN  /\ a \in Seq(U) /\ b \in Seq(U) /\ Len(a) = n /\ Len(b) = Len(s) - n
               /\ ToSet(s) = ToSet(a) \cup ToSet(b)
               /\ Ordered(a, R) /\ Ordered(b, R)
               /\ \A x \in ToSet(a), y \in ToSet(b) : <<x, y>> \in R
<1>. DEFINE L == Len(s)
            a == SubSeq(s, 1, n)
            b == SubSeq(s, n + 1, L)
<1>1. L \in Nat /\ n \in Nat /\ n <= L
    OBVIOUS
<1>2. \A i \in 1..L : s[i] \in U
    OBVIOUS
<1>3. /\ a \in Seq(U) /\ Len(a) = n
      /\ \A i \in 1..n : a[i] = s[i]
    <2>1. \A i \in 1..n : s[i] \in U
        BY <1>1, <1>2
    <2>2. /\ a \in Seq(U)
          /\ Len(a) = IF 1 <= n THEN n - 1 + 1 ELSE 0
          /\ \A i \in 1..(n - 1 + 1) : a[i] = s[1 + i - 1]
        BY <1>1, <2>1, SubSeqProperties
    <2>. HIDE DEF a
    <2>3. n - 1 + 1 = n /\ \A i \in 1..n : 1 + i - 1 = i
        BY <1>1
    <2>4. Len(a) = n
        BY <2>2, <1>1
    <2>. QED BY <2>2, <2>3, <2>4
<1>4. /\ b \in Seq(U) /\ Len(b) = L - n
      /\ \A i \in 1..(L - n) : b[i] = s[n + i]
    <2>1. \A i \in (n + 1)..L : s[i] \in U
        BY <1>1, <1>2
    <2>2. n + 1 \in Int /\ L \in Int
        BY <1>1
    <2>3. /\ b \in Seq(U)
          /\ Len(b) = IF n + 1 <= L THEN L - (n + 1) + 1 ELSE 0
          /\ \A i \in 1..(L - (n + 1) + 1) : b[i] = s[(n + 1) + i - 1]
        <3>. HIDE DEF L
        <3>. QED BY <2>1, <2>2, SubSeqProperties
    <2>. HIDE DEF b, L
    <2>4. L - (n + 1) + 1 = L - n /\ \A i \in 1..(L - n) : (n + 1) + i - 1 = n + i
        BY <1>1
    <2>5. Len(b) = L - n
        BY <2>3, <1>1
    <2>. QED BY <2>3, <2>4, <2>5
<1>. HIDE DEF a, b
<1>5. \A i \in 1..n : i \in 1..L
    BY <1>1
<1>6. \A i \in 1..(L - n) : n + i \in 1..L
    BY <1>1
<1>7. \A i, j \in 1..L : i < j => <<s[i], s[j]>> \in R
    BY DEF Ordered
<1>8. Ordered(a, R)
    BY <1>3, <1>5, <1>7 DEF Ordered
<1>9. Ordered(b, R)
    <2>1. ASSUME NEW i \in 1..(L - n), NEW j \in 1..(L - n), i < j PROVE <<b[i], b[j]>> \in R
        <3>1. n + i \in 1..L /\ n + j \in 1..L /\ n + i < n + j
            BY <1>1, <1>6, <2>1
        <3>. QED BY <3>1, <1>4, <1>7
    <2>. QED BY <2>1, <1>4 DEF Ordered
<1>10. \A x \in ToSet(a), y \in ToSet(b) : <<x, y>> \in R
    <2>1. ASSUME NEW i \in 1..n, NEW j \in 1..(L - n) PROVE <<a[i], b[j]>> \in R
        <3>1. i \in 1..L /\ n + j \in 1..L /\ i < n + j
            BY <1>1, <1>5, <1>6
        <3>. QED BY <3>1, <1>3, <1>4, <1>7
    <2>. QED BY <2>1, <1>3, <1>4 DEF ToSet
<1>11. ToSet(a) \subseteq ToSet(s)
    BY <1>3, <1>5 DEF ToSet
<1>12. ToSet(b) \subseteq ToSet(s)
    <2>1. \A i \in 1..(L - n) : b[i] \in ToSet(s)
        BY <1>4, <1>6 DEF ToSet
    <2>. QED BY <2>1, <1>4 DEF ToSet
<1>13. ASSUME NEW i \in 1..L PROVE s[i] \in ToSet(a) \cup ToSet(b)
    <2>1. CASE i <= n
        BY <2>1, <1>1, <1>3 DEF ToSet
    <2>2. CASE ~(i <= n)
        <3>1. i - n \in 1..(L - n) /\ n + (i - n) = i
            BY <2>2, <1>1
        <3>2. b[i - n] = s[i]
            BY <3>1, <1>4
        <3>. QED BY <3>1, <3>2, <1>4 DEF ToSet
    <2>. QED BY <2>1, <2>2
<1>14. ToSet(s) = ToSet(a) \cup ToSet(b)
    <2>1. ToSet(s) \subseteq ToSet(a) \cup ToSet(b)
        BY <1>13 DEF ToSet
    <2>. QED BY <1>11, <1>12, <2>1
<1>. QED BY <1>3, <1>4, <1>8, <1>9, <1>10, <1>14 DEF a, b

\* The empty sequence, the head, a single element.
LEMMA SmallSets ==
    ASSUME NEW U, NEW s \in Seq(U)
    PROVE  /\ ToSet(s) \subseteq U
           /\ ToSet(<<>>) = {} /\ \A R : Ordered(<<>>, R)
           /\ s = <<>> <=> ToSet(s) = {}
           /\ s # <<>> => Head(s) \in ToSet(s)
           /\ Len(s) = 1 => s = <<Head(s)>> /\ ToSet(s) = {Head(s)}
           /\ \A u \in U : <<u>> \in Seq(U) /\ ToSet(<<u>>) = {u} /\ Len(<<u>>) = 1 /\ Head(<<u>>) = u
           /\ \A u \in U : \A R : Ordered(<<u>>, R)
<1>1. ToSet(s) \subseteq U
    BY DEF ToSet
<1>2. ToSet(<<>>) = {} /\ \A R : Ordered(<<>>, R)
    BY DEF ToSet, Ordered
<1>3. s # <<>> => Head(s) \in ToSet(s)
    <2>1. ASSUME s # <<>> PROVE Len(s) \in Nat \ {0} /\ Head(s) = s[1]
        BY <2>1, EmptySeq
    <2>. QED BY <2>1 DEF ToSet
<1>4. Len(s) = 1 => s = <<Head(s)>> /\ ToSet(s) = {Head(s)}
    <2>. SUFFICES ASSUME Len(s) = 1 PROVE s = <<Head(s)>> /\ ToSet(s) = {Head(s)}
        OBVIOUS
    <2>1. Head(s) = s[1] /\ 1..Len(s) = {1} /\ DOMAIN s = {1}
        OBVIOUS
    <2>2. ToSet(s) = {Head(s)}
        BY <2>1 DEF ToSet
    <2>3. <<Head(s)>> \in Seq(U) /\ Len(<<Head(s)>>) = 1 /\ <<Head(s)>>[1] = s[1]
        BY <2>1
    <2>4. \A i \in 1..Len(s) : s[i] = <<Head(s)>>[i]
        BY <2>1, <2>3
    <2>5. s = <<Head(s)>>
        BY <2>3, <2>4, SeqEqual
    <2>. QED BY <2>2, <2>5
<1>5. \A u \in U : <<u>> \in Seq(U) /\ ToSet(<<u>>) = {u} /\ Len(<<u>>) = 1 /\ Head(<<u>>) = u
    BY DEF ToSet
<1>6. \A u \in U : \A R : Ordered(<<u>>, R)
    BY DEF Ordered
<1>. QED BY <1>1, <1>2, <1>3, <1>4, <1>5, <1>6
-----------------------------------------------------------------------------
(* FlattenSeq.                                                              *)

\* G is the function FlattenSeq(s) recurses over, up to n.
Flattens(G, n, s) == G = [i \in 1..n |-> IF i = 1 THEN s[i] ELSE G[i - 1] \o s[i]]

LEMMA FlattensExists ==
    ASSUME NEW s, NEW N \in Nat
    PROVE  \E G : Flattens(G, N, s)
<1>. DEFINE T == {k \in 0..N : \E G : Flattens(G, k, s)}
<1>1. 0 \in T
    <2>1. Flattens([i \in 1..0 |-> <<>>], 0, s)
        BY DEF Flattens
    <2>. QED BY <2>1
<1>2. ASSUME NEW n \in 0..(N - 1), n \in T PROVE n + 1 \in T
    <2>1. PICK G : Flattens(G, n, s)
        BY <1>2
    <2>. DEFINE last == IF n + 1 = 1 THEN s[n + 1] ELSE G[n] \o s[n + 1]
                H == [i \in 1..(n + 1) |-> IF i = n + 1 THEN last ELSE G[i]]
    <2>2. \A i \in 1..n : G[i] = IF i = 1 THEN s[i] ELSE G[i - 1] \o s[i]
        BY <2>1 DEF Flattens
    <2>3. \A i \in 1..n : H[i] = G[i]
        OBVIOUS
    <2>4. H[n + 1] = last
        OBVIOUS
    <2>5. \A i \in 1..(n + 1) : H[i] = IF i = 1 THEN s[i] ELSE H[i - 1] \o s[i]
        BY <2>2, <2>3, <2>4
    <2>6. Flattens(H, n + 1, s)
        BY <2>5, Zenon DEF Flattens
    <2>. QED BY <2>6
<1>3. 0..N \subseteq T
    <2>. HIDE DEF T
    <2>. QED BY <1>1, <1>2, Induction
<1>. QED BY <1>3

\* The flattened sequence has the elements of all its parts.
LEMMA FlattenProperties ==
    ASSUME NEW U, NEW s \in Seq(Seq(U)), s # <<>>
    PROVE  /\ FlattenSeq(s) \in Seq(U)
           /\ ToSet(FlattenSeq(s)) = UNION {ToSet(s[i]) : i \in 1..Len(s)}
<1>. DEFINE N == Len(s)
            F == CHOOSE G : Flattens(G, N, s)
<1>1. N \in Nat /\ N # 0
    BY EmptySeq
<1>2. Flattens(F, N, s)
    BY <1>1, FlattensExists
<1>3. FlattenSeq(s) = F[N]
    BY <1>1 DEF FlattenSeq, Flattens
<1>. HIDE DEF F
<1>4. \A n \in 1..N : F[n] = IF n = 1 THEN s[n] ELSE F[n - 1] \o s[n]
    BY <1>2 DEF Flattens
<1>. DEFINE Elements(n) == UNION {ToSet(s[i]) : i \in 1..n}
            T == {n \in 0..N : n # 0 => F[n] \in Seq(U) /\ ToSet(F[n]) = Elements(n)}
<1>5. ASSUME NEW n \in 0..(N - 1), n \in T PROVE n + 1 \in T
    <2>1. n + 1 \in 1..N /\ n + 1 \in 0..N /\ (n + 1) - 1 = n
        BY <1>1
    <2>2. s[n + 1] \in Seq(U)
        BY <2>1
    <2>3. Elements(n + 1) = Elements(n) \cup ToSet(s[n + 1])
        <3>1. \A i \in 1..(n + 1) : i \in 1..n \/ i = n + 1
            BY <2>1
        <3>2. \A i \in 1..n : i \in 1..(n + 1)
            BY <2>1
        <3>3. n + 1 \in 1..(n + 1)
            BY <2>1
        <3>. QED BY <3>1, <3>2, <3>3
    <2>4. CASE n = 0
        <3>1. F[n + 1] = s[n + 1]
            BY <2>1, <2>4, <1>4
        <3>2. Elements(n) = {}
            BY <2>4
        <3>. QED BY <2>1, <2>2, <2>3, <3>1, <3>2
    <2>5. CASE n # 0
        <3>1. F[n + 1] = F[n] \o s[n + 1]
            <4>1. n + 1 # 1
                BY <2>1, <2>5
            <4>2. F[n + 1] = IF n + 1 = 1 THEN s[n + 1] ELSE F[(n + 1) - 1] \o s[n + 1]
                BY <2>1, <1>4
            <4>. QED BY <4>1, <4>2, <2>1
        <3>2. F[n] \in Seq(U) /\ ToSet(F[n]) = Elements(n)
            BY <1>5, <2>5
        <3>3. F[n + 1] \in Seq(U) /\ ToSet(F[n + 1]) = Elements(n + 1)
            <4>1. /\ F[n] \o s[n + 1] \in Seq(U)
                  /\ ToSet(F[n] \o s[n + 1]) = ToSet(F[n]) \cup ToSet(s[n + 1])
                BY <3>2, <2>2, ConcatSet
            <4>. HIDE DEF Elements
            <4>. QED BY <3>1, <3>2, <4>1, <2>3
        <3>. QED BY <2>1, <3>3
    <2>. QED BY <2>4, <2>5
<1>6. 0 \in T
    BY <1>1
<1>7. 0..N \subseteq T
    <2>. HIDE DEF T, N
    <2>. QED BY <1>1, <1>5, <1>6, Induction
<1>8. N \in T
    <2>. HIDE DEF T, N
    <2>. QED BY <1>1, <1>7
<1>. QED BY <1>1, <1>3, <1>8
=============================================================================
