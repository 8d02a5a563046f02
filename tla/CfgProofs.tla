------------------------------- MODULE CfgProofs ------------------------------
(***************************************************************************)
(* Facts that several proofs rest on, about sequences, and about what the *)
(* definitions of Cfg amount to on every finite graph: the reachable nodes *)
(* are the least set that holds the sources and is closed under edges.     *)
(* Facts about recursive functions on numbers are proved by taking the     *)
(* least counterexample, which exists by the well-foundedness of the       *)
(* strict subset order on finite sets.                                     *)
(***************************************************************************)
EXTENDS Cfg, Integers, SequencesExt, TLAPS, FiniteSetTheorems, SequenceTheorems

-------------------------------------------------------------------------------
(* Sequences *)

\* A sequence and its first elements.
LEMMA FrontFacts ==
  ASSUME NEW S, NEW s \in Seq(S), s # << >>
  PROVE  /\ Len(s) \in Nat \ {0} /\ DOMAIN s = 1 .. Len(s)
         /\ Front(s) \in Seq(S) /\ Len(Front(s)) = Len(s) - 1
         /\ DOMAIN Front(s) = 1 .. Len(s) - 1
         /\ \A i \in 1 .. Len(s) - 1 : Front(s)[i] = s[i]
         /\ Last(s) = s[Len(s)] /\ Last(s) \in S
<1>1. Len(s) \in Nat \ {0} /\ DOMAIN s = 1 .. Len(s) /\ \A i \in 1 .. Len(s) : s[i] \in S
  BY EmptySeq, LenProperties, ElementOfSeq
<1> DEFINE n == Len(s) - 1
<1>2. n \in Int /\ 1 \in Int /\ \A i \in 1 .. n : s[i] \in S
  BY <1>1
<1>3. /\ SubSeq(s, 1, n) \in Seq(S)
      /\ Len(SubSeq(s, 1, n)) = IF 1 <= n THEN n - 1 + 1 ELSE 0
      /\ \A i \in 1 .. n - 1 + 1 : SubSeq(s, 1, n)[i] = s[1 + i - 1]
  BY <1>2, SubSeqProperties
<1>4. n \in Nat /\ n - 1 + 1 = n /\ (IF 1 <= n THEN n - 1 + 1 ELSE 0) = n
  BY <1>1
<1>5. ASSUME NEW i \in 1 .. n PROVE SubSeq(s, 1, n)[i] = s[i]
  <2>1. 1 + i - 1 = i /\ i \in 1 .. n - 1 + 1
    BY <1>4
  <2> QED BY <1>3, <2>1
<1>6. Front(s) \in Seq(S) /\ Len(Front(s)) = Len(s) - 1
      /\ \A i \in 1 .. Len(s) - 1 : Front(s)[i] = s[i]
  BY <1>3, <1>4, <1>5 DEF Front
<1>7. DOMAIN Front(s) = 1 .. Len(s) - 1
  BY <1>6, LenProperties
<1> QED BY <1>1, <1>6, <1>7 DEF Last

\* A sequence, and one element more.
LEMMA AppendFacts ==
  ASSUME NEW S, NEW s \in Seq(S), NEW e \in S
  PROVE  /\ Append(s, e) \in Seq(S) /\ Append(s, e) # << >>
         /\ Len(s) \in Nat /\ Len(Append(s, e)) = Len(s) + 1
         /\ DOMAIN s = 1 .. Len(s) /\ DOMAIN Append(s, e) = 1 .. Len(s) + 1
         /\ \A i \in 1 .. Len(s) : Append(s, e)[i] = s[i]
         /\ Append(s, e)[Len(s) + 1] = e /\ Last(Append(s, e)) = e
         /\ ToSet(Append(s, e)) = ToSet(s) \cup {e}
<1>1. Len(s) \in Nat /\ DOMAIN s = 1 .. Len(s)
  BY LenProperties
<1>2. /\ Append(s, e) \in Seq(S) /\ Len(Append(s, e)) = Len(s) + 1
      /\ \A i \in 1 .. Len(s) : Append(s, e)[i] = s[i]
      /\ Append(s, e)[Len(s) + 1] = e
  BY AppendProperties
<1>3. DOMAIN Append(s, e) = 1 .. Len(s) + 1
  BY <1>2, LenProperties
<1>4. ToSet(Append(s, e)) = ToSet(s) \cup {e}
  BY <1>1, <1>2, <1>3 DEF ToSet
<1>5. Append(s, e) # << >>
  BY <1>1, <1>2, EmptySeq
<1>6. Last(Append(s, e)) = e
  BY <1>2 DEF Last
<1> QED BY <1>1, <1>2, <1>3, <1>4, <1>5, <1>6

-------------------------------------------------------------------------------
(* Numbers *)

\* A set of numbers that is not empty has a least member.
LEMMA LeastNat ==
  ASSUME NEW T, T \subseteq Nat, T # {}
  PROVE  \E m \in T : \A k \in T : m <= k
<1> DEFINE Below(n) == 0 .. n - 1
           F == {Below(n) : n \in T}
<1>1. \A n \in Nat : Below(n) \in SUBSET Nat /\ IsFiniteSet(Below(n))
  <2> TAKE n \in Nat
  <2>1. 0 \in Int /\ n - 1 \in Int
    OBVIOUS
  <2> QED BY <2>1, FS_Interval
<1>2. F \subseteq FiniteSubsetsOf(Nat) /\ F # {}
  BY <1>1 DEF FiniteSubsetsOf
<1>3. IsWellFoundedOn(StrictSubsetOrdering(Nat), FiniteSubsetsOf(Nat))
  BY FS_StrictSubsetOrderingWellFounded
<1> HIDE DEF F
<1>4. PICK X \in F : \A Y \in F : ~ (<<Y, X>> \in StrictSubsetOrdering(Nat))
  BY <1>2, <1>3, WFMin
<1>5. PICK m \in T : X = Below(m)
  BY DEF F
<1>6. ASSUME NEW k \in T, k < m PROVE FALSE
  <2>1. Below(k) \in F
    BY DEF F
  <2>2. Below(k) \subseteq Below(m) /\ k \in Below(m) /\ k \notin Below(k)
    BY <1>6
  <2>3. <<Below(k), Below(m)>> \in StrictSubsetOrdering(Nat)
    BY <2>2, <1>1 DEF StrictSubsetOrdering
  <2> QED BY <1>4, <1>5, <2>1, <2>3
<1> QED BY <1>6

\* Induction up to a bound, over a set of numbers.
LEMMA UpTo ==
  ASSUME NEW G, NEW c \in Nat, 0 \in G, \A k \in 0 .. c - 1 : k \in G => k + 1 \in G
  PROVE  \A k \in 0 .. c : k \in G
<1> DEFINE T == (0 .. c) \ G
<1>1. SUFFICES ASSUME T # {} PROVE FALSE
  OBVIOUS
<1>2. T \subseteq Nat
  OBVIOUS
<1>3. PICK m \in T : \A k \in T : m <= k
  <2> HIDE DEF T
  <2> QED BY <1>1, <1>2, LeastNat
<1>4. m \in Nat /\ m # 0 /\ m - 1 \in G /\ m - 1 \in 0 .. c - 1
  BY <1>3
<1>5. (m - 1) + 1 \in G
  BY <1>4
<1> QED BY <1>4, <1>5

\* A strict subset of a finite set has fewer members.
LEMMA StrictSubset ==
  ASSUME NEW B, IsFiniteSet(B), NEW A \in SUBSET B, A # B
  PROVE  Cardinality(A) < Cardinality(B)
<1>1. /\ IsFiniteSet(A)
      /\ Cardinality(A) <= Cardinality(B)
      /\ Cardinality(B) # Cardinality(A)
  BY FS_Subset
<1>2. Cardinality(A) \in Nat /\ Cardinality(B) \in Nat
  BY <1>1, FS_CardinalityType
<1> QED BY <1>1, <1>2

\* One round of ReachableFrom: the nodes that an edge from V leads to join V.
Onward(V, N, E) == V \cup {n \in N : \E m \in V : <<m, n>> \in E}

\* What its rounds collect, up to round c.
Rounds(S, N, E, c, W) ==
  W = [k \in 0 .. c |-> IF k = 0 THEN S ELSE Onward(W[k - 1], N, E)]

-------------------------------------------------------------------------------
(* Selecting elements of a sequence *)

\* What is collected up to position m, if the positions of T are taken.
Choice(s, T, m, F) ==
  F = [i \in 0 .. m |-> IF i = 0 THEN << >>
                        ELSE IF i \in T THEN Append(F[i - 1], s[i]) ELSE F[i - 1]]

\* Its recursive definition has a solution.
LEMMA ChoiceExists ==
  ASSUME NEW s, NEW T, NEW m \in Nat
  PROVE  \E F : Choice(s, T, m, F)
<1> DEFINE Bad == {n \in Nat : ~ \E F : Choice(s, T, n, F)}
<1>1. SUFFICES ASSUME Bad # {} PROVE FALSE
  OBVIOUS
<1>2. PICK n \in Bad : \A k \in Bad : n <= k
  <2>1. Bad \subseteq Nat
    OBVIOUS
  <2> HIDE DEF Bad
  <2> QED BY <1>1, <2>1, LeastNat
<1>3. n # 0
  <2>1. Choice(s, T, 0, [k \in 0 .. 0 |-> << >>])
    BY DEF Choice
  <2> QED BY <2>1
<1>4. PICK G : Choice(s, T, n - 1, G)
  BY <1>2, <1>3
<1> DEFINE next == IF n \in T THEN Append(G[n - 1], s[n]) ELSE G[n - 1]
           F == [k \in 0 .. n |-> IF k = n THEN next ELSE G[k]]
           Of(H, k) == IF k = 0 THEN << >> ELSE IF k \in T THEN Append(H[k - 1], s[k]) ELSE H[k - 1]
<1>5. \A k \in 0 .. n - 1 : G[k] = Of(G, k)
  BY <1>4 DEF Choice
<1>6. \A k \in 0 .. n : F[k] = Of(F, k)
  <2> TAKE k \in 0 .. n
  <2>1. CASE k = n
    <3>1. F[k] = next /\ k # 0 /\ F[k - 1] = G[k - 1]
      BY <2>1, <1>3
    <3> HIDE DEF F
    <3> QED BY <3>1, <2>1
  <2>2. CASE k # n
    <3>1. F[k] = G[k] /\ (k # 0 => F[k - 1] = G[k - 1]) /\ k \in 0 .. n - 1
      BY <2>2
    <3> HIDE DEF F
    <3> QED BY <3>1, <1>5
  <2> QED BY <2>1, <2>2
<1>7. F = [k \in 0 .. n |-> F[k]]
  OBVIOUS
<1>8. Choice(s, T, n, F)
  <2> HIDE DEF F
  <2> QED BY <1>6, <1>7 DEF Choice
<1> QED BY <1>8

\* It ends with a sequence of the elements at those positions.
LEMMA ChoiceFacts ==
  ASSUME NEW S, NEW s \in Seq(S), NEW T, NEW F, Choice(s, T, Len(s), F)
  PROVE  F[Len(s)] \in Seq(S) /\ ToSet(F[Len(s)]) = {s[i] : i \in T \cap DOMAIN s}
<1> DEFINE n == Len(s)
           To(m) == {s[i] : i \in T \cap (1 .. m)}
           Good(m) == F[m] \in Seq(S) /\ ToSet(F[m]) = To(m)
           G == {m \in 0 .. n : Good(m)}
<1>1. n \in Nat /\ DOMAIN s = 1 .. n /\ \A i \in 1 .. n : s[i] \in S
  BY LenProperties, ElementOfSeq
<1>2. \A k \in 0 .. n : F[k] = IF k = 0 THEN << >>
                               ELSE IF k \in T THEN Append(F[k - 1], s[k]) ELSE F[k - 1]
  BY DEF Choice
<1>3. 0 \in G
  <2>1. F[0] = << >> /\ << >> \in Seq(S) /\ DOMAIN << >> = {} /\ 0 \in 0 .. n
    BY <1>1, <1>2
  <2>2. ToSet(<< >>) = {} /\ To(0) = {}
    BY <2>1 DEF ToSet
  <2> QED BY <2>1, <2>2
<1>4. ASSUME NEW k \in 0 .. n - 1, k \in G PROVE k + 1 \in G
  <2>1. k + 1 \in 1 .. n /\ k + 1 - 1 = k /\ k + 1 # 0
    BY <1>1
  <2>2. F[k] \in Seq(S) /\ ToSet(F[k]) = To(k) /\ s[k + 1] \in S
    BY <1>1, <1>4, <2>1
  <2>3. CASE k + 1 \in T
    <3>1. F[k + 1] = Append(F[k], s[k + 1])
      <4>0. k + 1 \in 0 .. n
        BY <2>1, <1>1
      <4> DEFINE j == k + 1
      <4> HIDE DEF n, j
      <4>1. F[j] = Append(F[j - 1], s[j])
        BY <1>2, <4>0, <2>1, <2>3 DEF j
      <4> USE DEF j
      <4> QED BY <4>1, <2>1
    <3>2. F[k + 1] \in Seq(S) /\ ToSet(F[k + 1]) = To(k) \cup {s[k + 1]}
      BY <3>1, <2>2, AppendFacts
    <3>3. To(k + 1) = To(k) \cup {s[k + 1]}
      <4>1. T \cap (1 .. k + 1) = (T \cap (1 .. k)) \cup {k + 1}
        BY <2>3, <2>1
      <4> QED BY <4>1
    <3>4. k + 1 \in 0 .. n
      BY <2>1, <1>1
    <3> HIDE DEF To, n
    <3> QED BY <3>2, <3>3, <3>4
  <2>4. CASE k + 1 \notin T
    <3>1. F[k + 1] = F[k]
      BY <1>2, <2>1, <2>4
    <3>2. T \cap (1 .. k + 1) = T \cap (1 .. k)
      BY <2>4, <2>1
    <3>3. To(k + 1) = To(k)
      BY <3>2
    <3>4. k + 1 \in 0 .. n
      BY <2>1, <1>1
    <3> HIDE DEF To, n
    <3> QED BY <3>1, <3>3, <3>4, <2>2
  <2> QED BY <2>3, <2>4
<1>5. n \in G
  <2> HIDE DEF G
  <2>1. \A k \in 0 .. n : k \in G
    <3> HIDE DEF n
    <3> QED BY <1>1, <1>3, <1>4, UpTo
  <2> QED BY <2>1, <1>1
<1> QED BY <1>1, <1>5

\* Each of them is taken once.
LEMMA ChoiceApart ==
  ASSUME NEW S, NEW s \in Seq(S), NEW T, NEW F, Choice(s, T, Len(s), F),
         NEW i \in DOMAIN F[Len(s)], NEW j \in DOMAIN F[Len(s)], i # j
  PROVE  \E p, q \in T \cap DOMAIN s : p # q /\ F[Len(s)][i] = s[p] /\ F[Len(s)][j] = s[q]
<1> DEFINE n == Len(s)
           In(m) == T \cap (1 .. m)
           Good(m) == /\ F[m] \in Seq(S)
                      /\ \A a \in DOMAIN F[m] : \E p \in In(m) : F[m][a] = s[p]
                      /\ \A a, b \in DOMAIN F[m] :
                           a # b => \E p, q \in In(m) : p # q /\ F[m][a] = s[p] /\ F[m][b] = s[q]
           G == {m \in 0 .. n : Good(m)}
<1>1. n \in Nat /\ DOMAIN s = 1 .. n /\ \A k \in 1 .. n : s[k] \in S
  BY LenProperties, ElementOfSeq
<1>2. \A k \in 0 .. n : F[k] = IF k = 0 THEN << >>
                               ELSE IF k \in T THEN Append(F[k - 1], s[k]) ELSE F[k - 1]
  BY DEF Choice
<1>3. 0 \in G
  <2>1. F[0] = << >> /\ << >> \in Seq(S) /\ DOMAIN << >> = {} /\ 0 \in 0 .. n
    BY <1>1, <1>2
  <2> QED BY <2>1
<1>4. ASSUME NEW k \in 0 .. n - 1, k \in G PROVE k + 1 \in G
  <2>1. k + 1 \in 1 .. n /\ k + 1 \in 0 .. n /\ k + 1 - 1 = k /\ k + 1 # 0 /\ k \in Nat
    BY <1>1
  <2>2. Good(k) /\ s[k + 1] \in S
    BY <1>1, <1>4, <2>1
  <2>3. In(k) \subseteq In(k + 1) /\ k + 1 \notin In(k)
    BY <2>1
  <2>4. CASE k + 1 \in T
    <3> DEFINE f == F[k]
               g == F[k + 1]
               e == s[k + 1]
    <3>1. g = Append(f, e)
      <4> DEFINE l == k + 1
      <4> HIDE DEF n, l
      <4>1. F[l] = Append(F[l - 1], s[l])
        BY <1>2, <2>1, <2>4 DEF l
      <4> USE DEF l
      <4> QED BY <2>1, <4>1
    <3>2. f \in Seq(S) /\ e \in S
      BY <2>2
    <3> HIDE DEF f, g, e
    <3>3. /\ g \in Seq(S) /\ Len(f) \in Nat
          /\ DOMAIN f = 1 .. Len(f) /\ DOMAIN g = 1 .. Len(f) + 1
          /\ \A a \in 1 .. Len(f) : g[a] = f[a]
          /\ g[Len(f) + 1] = e
      BY <3>1, <3>2, AppendFacts
    <3>4. k + 1 \in In(k + 1)
      BY <2>1, <2>4
    <3>5. /\ \A a \in DOMAIN f : \E p \in In(k) : f[a] = s[p]
          /\ \A a, b \in DOMAIN f : a # b => \E p, q \in In(k) : p # q /\ f[a] = s[p] /\ f[b] = s[q]
      BY <2>2 DEF f
    <3> HIDE DEF In
    <3>6. \A a \in DOMAIN g : a \in DOMAIN f \/ a = Len(f) + 1
      BY <3>3
    <3>7. ASSUME NEW a \in DOMAIN g PROVE \E p \in In(k + 1) : g[a] = s[p]
      BY <2>3, <3>3, <3>4, <3>5, <3>6 DEF e
    <3>8. ASSUME NEW a \in DOMAIN g, NEW b \in DOMAIN g, a # b
          PROVE  \E p, q \in In(k + 1) : p # q /\ g[a] = s[p] /\ g[b] = s[q]
      <4>1. CASE a \in DOMAIN f /\ b \in DOMAIN f
        <5>1. PICK p \in In(k), q \in In(k) : p # q /\ f[a] = s[p] /\ f[b] = s[q]
          BY <3>5, <3>8, <4>1
        <5>2. g[a] = f[a] /\ g[b] = f[b]
          BY <3>3, <4>1
        <5> QED BY <2>3, <5>1, <5>2
      <4>2. CASE a \in DOMAIN f /\ b = Len(f) + 1
        <5>1. PICK p \in In(k) : f[a] = s[p]
          BY <3>5, <4>2
        <5>2. g[a] = f[a] /\ g[b] = s[k + 1]
          BY <3>3, <4>2 DEF e
        <5> QED BY <2>3, <3>4, <5>1, <5>2
      <4>3. CASE b \in DOMAIN f /\ a = Len(f) + 1
        <5>1. PICK p \in In(k) : f[b] = s[p]
          BY <3>5, <4>3
        <5>2. g[b] = f[b] /\ g[a] = s[k + 1]
          BY <3>3, <4>3 DEF e
        <5> QED BY <2>3, <3>4, <5>1, <5>2
      <4> QED BY <3>6, <3>8, <4>1, <4>2, <4>3
    <3> QED BY <2>1, <3>3, <3>7, <3>8 DEF g
  <2>5. CASE k + 1 \notin T
    <3>1. F[k + 1] = F[k]
      BY <1>2, <2>1, <2>5
    <3>2. In(k + 1) = In(k)
      BY <2>1, <2>5
    <3> HIDE DEF In
    <3> QED BY <2>1, <2>2, <3>1, <3>2
  <2> QED BY <2>4, <2>5
<1>5. n \in G
  <2> HIDE DEF G
  <2>1. \A k \in 0 .. n : k \in G
    <3> HIDE DEF n
    <3> QED BY <1>1, <1>3, <1>4, UpTo
  <2> QED BY <2>1, <1>1
<1>6. Good(n) /\ In(n) = T \cap DOMAIN s
  BY <1>1, <1>5
<1> HIDE DEF In
<1> QED BY <1>6

-------------------------------------------------------------------------------
(* Reachability *)

\* The recursive definition of ReachableFrom has a solution.
LEMMA RoundsExist ==
  ASSUME NEW S, NEW N, NEW E, NEW c \in Nat
  PROVE  \E W : Rounds(S, N, E, c, W)
<1> DEFINE T == {n \in Nat : ~ \E W : Rounds(S, N, E, n, W)}
<1>1. SUFFICES ASSUME T # {} PROVE FALSE
  OBVIOUS
<1>2. PICK m \in T : \A k \in T : m <= k
  <2>1. T \subseteq Nat
    OBVIOUS
  <2> HIDE DEF T
  <2> QED BY <1>1, <2>1, LeastNat
<1>3. m # 0
  <2>1. Rounds(S, N, E, 0, [k \in 0 .. 0 |-> S])
    BY DEF Rounds
  <2> QED BY <2>1
<1>4. PICK V : Rounds(S, N, E, m - 1, V)
  BY <1>2, <1>3
<1> DEFINE W == [k \in 0 .. m |-> IF k = m THEN Onward(V[m - 1], N, E) ELSE V[k]]
<1>5. Rounds(S, N, E, m, W)
  <2>1. \A k \in 0 .. m - 1 : V[k] = IF k = 0 THEN S ELSE Onward(V[k - 1], N, E)
    BY <1>4 DEF Rounds
  <2>2. m \in Nat
    OBVIOUS
  <2>3. \A k \in 0 .. m : W[k] = IF k = 0 THEN S ELSE Onward(W[k - 1], N, E)
    <3> TAKE k \in 0 .. m
    <3>1. CASE k = m
      <4>1. W[k] = Onward(V[k - 1], N, E) /\ k # 0 /\ W[k - 1] = V[k - 1]
        BY <3>1, <1>3, <2>2
      <4> HIDE DEF W
      <4> QED BY <4>1
    <3>2. CASE k # m
      <4>1. W[k] = V[k] /\ (k # 0 => W[k - 1] = V[k - 1]) /\ k \in 0 .. m - 1
        BY <3>2, <2>2
      <4> HIDE DEF W
      <4> QED BY <4>1, <2>1
    <3> QED BY <3>1, <3>2
  <2>4. W = [k \in 0 .. m |-> W[k]]
    OBVIOUS
  <2> HIDE DEF W
  <2> QED BY <2>3, <2>4 DEF Rounds
<1> QED BY <1>5

\* ReachableFrom is the last of as many rounds as there are nodes.
LEMMA ReachableRounds ==
  ASSUME NEW S, NEW N, NEW E, IsFiniteSet(N)
  PROVE  /\ Cardinality(N) \in Nat
         /\ \E W : /\ ReachableFrom(S, N, E) = W[Cardinality(N)]
                   /\ W[0] = S
                   /\ \A k \in 1 .. Cardinality(N) : W[k] = Onward(W[k - 1], N, E)
<1>1. Cardinality(N) \in Nat
  BY FS_CardinalityType
<1> DEFINE c == Cardinality(N)
           W == CHOOSE W : Rounds(S, N, E, c, W)
<1>2. Rounds(S, N, E, c, W)
  <2>1. \E V : Rounds(S, N, E, c, V)
    BY <1>1, RoundsExist
  <2> QED BY <2>1
<1>4. ReachableFrom(S, N, E) = W[Cardinality(N)]
  BY DEF ReachableFrom, Rounds, Onward
<1> HIDE DEF W
<1>5. W[0] = S /\ \A k \in 1 .. c : W[k] = Onward(W[k - 1], N, E)
  <2> HIDE DEF c
  <2>1. \A k \in 0 .. c : W[k] = IF k = 0 THEN S ELSE Onward(W[k - 1], N, E)
    BY <1>2 DEF Rounds
  <2>2. c \in Nat
    BY <1>1 DEF c
  <2> QED BY <2>1, <2>2
<1> QED BY <1>1, <1>4, <1>5

\* A set of reachable nodes holds its sources, is closed under edges, and has no
\* other nodes than sources and those of N.
LEMMA ReachableClosed ==
  ASSUME NEW S, NEW N, NEW E, IsFiniteSet(N)
  PROVE  /\ S \subseteq ReachableFrom(S, N, E)
         /\ ReachableFrom(S, N, E) \subseteq S \cup N
         /\ \A m \in ReachableFrom(S, N, E), n \in N :
              <<m, n>> \in E => n \in ReachableFrom(S, N, E)
<1> DEFINE c == Cardinality(N)
<1>1. c \in Nat
  BY ReachableRounds
<1>2. PICK W : /\ ReachableFrom(S, N, E) = W[c]
               /\ W[0] = S
               /\ \A k \in 1 .. c : W[k] = Onward(W[k - 1], N, E)
  BY ReachableRounds
<1>3. \A k \in 0 .. c - 1 : W[k + 1] = Onward(W[k], N, E)
  <2> HIDE DEF c
  <2> TAKE k \in 0 .. c - 1
  <2>1. k + 1 \in 1 .. c /\ (k + 1) - 1 = k
    BY <1>1
  <2> QED BY <1>2, <2>1
<1> DEFINE Closed(V) == Onward(V, N, E) = V
           Grown(k) == /\ S \subseteq W[k] /\ W[k] \subseteq S \cup N
                       /\ Closed(W[k]) \/ Cardinality(W[k] \cap N) >= k
           G == {k \in 0 .. c : Grown(k)}
<1>4. \A V : IsFiniteSet(V \cap N) /\ Cardinality(V \cap N) \in Nat
  BY FS_Intersection, FS_CardinalityType
<1>5. 0 \in G
  <2>1. Grown(0)
    BY <1>2, <1>4
  <2> QED BY <2>1, <1>1
<1>6. ASSUME NEW k \in 0 .. c - 1, k \in G PROVE k + 1 \in G
  <2>1. k + 1 \in 0 .. c /\ k \in Nat
    <3> HIDE DEF c
    <3> QED BY <1>1
  <2>2. Grown(k) /\ W[k + 1] = Onward(W[k], N, E)
    BY <1>6, <1>3
  <2>3. S \subseteq W[k + 1] /\ W[k + 1] \subseteq S \cup N
    BY <2>2 DEF Onward
  <2>4. CASE Closed(W[k])
    BY <2>1, <2>2, <2>3, <2>4
  <2>5. CASE ~ Closed(W[k])
    <3>1. W[k] \subseteq W[k + 1] /\ \E n \in N : n \in W[k + 1] /\ n \notin W[k]
      BY <2>2, <2>5 DEF Onward
    <3>2. W[k] \cap N \subseteq W[k + 1] \cap N /\ W[k] \cap N # W[k + 1] \cap N
      BY <3>1
    <3>3. Cardinality(W[k] \cap N) < Cardinality(W[k + 1] \cap N)
      BY <3>2, <1>4, StrictSubset
    <3>4. Cardinality(W[k] \cap N) >= k
      BY <2>2, <2>5
    <3>5. Cardinality(W[k + 1] \cap N) >= k + 1
      <4> DEFINE x == Cardinality(W[k] \cap N)
                 y == Cardinality(W[k + 1] \cap N)
      <4>1. x \in Nat /\ y \in Nat /\ x < y /\ x >= k
        BY <3>3, <3>4, <1>4
      <4> HIDE DEF x, y
      <4>2. y >= k + 1
        BY <4>1, <2>1
      <4> QED BY <4>2 DEF y
    <3> QED BY <3>5, <2>1, <2>3
  <2> QED BY <2>4, <2>5
<1>7. c \in G
  <2> HIDE DEF c, G
  <2>1. \A k \in 0 .. c : k \in G
    BY <1>1, <1>5, <1>6, UpTo
  <2> QED BY <2>1, <1>1
<1>8. S \subseteq W[c] /\ W[c] \subseteq S \cup N /\ Closed(W[c])
  <2>1. Grown(c)
    BY <1>7
  <2>2. CASE Cardinality(W[c] \cap N) >= c
    <3>1. W[c] \cap N \subseteq N
      OBVIOUS
    <3>2. W[c] \cap N = N
      <4>1. W[c] \cap N # N => Cardinality(W[c] \cap N) < Cardinality(N)
        BY <3>1, StrictSubset
      <4> DEFINE x == Cardinality(W[c] \cap N)
      <4>2. x \in Nat /\ x >= c /\ c \in Nat
        BY <2>2, <1>4, <1>1
      <4> HIDE DEF x
      <4>3. ~ x < Cardinality(N)
        BY <4>2
      <4> QED BY <4>1, <4>3 DEF x
    <3>3. Closed(W[c])
      BY <3>2 DEF Onward
    <3> QED BY <3>3, <2>1
  <2> QED BY <2>1, <2>2
<1>9. \A m \in W[c], n \in N : <<m, n>> \in E => n \in W[c]
  BY <1>8 DEF Onward
<1> QED BY <1>2, <1>8, <1>9

\* It is within every set that has these properties.
LEMMA ReachableLeast ==
  ASSUME NEW S, NEW N, NEW E, IsFiniteSet(N),
         NEW Q, S \subseteq Q, \A m \in Q, n \in N : <<m, n>> \in E => n \in Q
  PROVE  ReachableFrom(S, N, E) \subseteq Q
<1> DEFINE c == Cardinality(N)
<1>1. c \in Nat
  BY ReachableRounds
<1>2. PICK W : /\ ReachableFrom(S, N, E) = W[c]
               /\ W[0] = S
               /\ \A k \in 1 .. c : W[k] = Onward(W[k - 1], N, E)
  BY ReachableRounds
<1> DEFINE G == {k \in 0 .. c : W[k] \subseteq Q}
<1>3. 0 \in G
  BY <1>1, <1>2
<1>4. ASSUME NEW k \in 0 .. c - 1, k \in G PROVE k + 1 \in G
  <2>1. k + 1 \in 1 .. c /\ k + 1 \in 0 .. c /\ (k + 1) - 1 = k
    <3> HIDE DEF c
    <3> QED BY <1>1
  <2>2. W[k + 1] = Onward(W[k], N, E) /\ W[k] \subseteq Q
    BY <1>2, <2>1, <1>4
  <2> QED BY <2>1, <2>2 DEF Onward
<1>5. c \in G
  <2> HIDE DEF c, G
  <2>1. \A k \in 0 .. c : k \in G
    BY <1>1, <1>3, <1>4, UpTo
  <2> QED BY <2>1, <1>1
<1> QED BY <1>2, <1>5
-------------------------------------------------------------------------------
(* Regions with one entrance *)

\* B is a region that is entered through d only.
EnteredAt(B, d, entry, E) ==
  /\ d \in B
  /\ entry \notin B \/ entry = d
  /\ \A a, b : <<a, b>> \in E /\ b \in B \ {d} => a \in B

\* The one entrance of a region dominates every reachable node in it.
LEMMA EntranceDominates ==
  ASSUME NEW N, IsFiniteSet(N), NEW E, NEW entry, NEW d, NEW B, EnteredAt(B, d, entry, E)
  PROVE  B \cap ReachableFrom({entry}, N, E) \subseteq DominatedBy(d, entry, N, E)
<1> DEFINE R == ReachableFrom({entry}, N, E)
           Past == {e \in E : e[1] # d}
           Q == {n \in R : n \notin B}
<1>1. IsFiniteSet(R \ {d})
  <2>1. R \subseteq {entry} \cup N
    BY ReachableClosed
  <2>2. IsFiniteSet({entry} \cup N)
    BY FS_Singleton, FS_Union
  <2> QED BY <2>1, <2>2, FS_Subset
<1>2. {entry} \ {d} \subseteq Q
  <2>1. entry \in R
    BY ReachableClosed
  <2> QED BY <2>1 DEF EnteredAt
<1>3. \A m \in Q, n \in R \ {d} : <<m, n>> \in Past => n \in Q
  BY DEF EnteredAt
<1>4. ReachableFrom({entry} \ {d}, R \ {d}, Past) \subseteq Q
  <2> HIDE DEF R, Past, Q
  <2> QED BY <1>1, <1>2, <1>3, ReachableLeast
<1> QED BY <1>4 DEF DominatedBy

\* A graph is reducible when each edge goes up in rank, or back to the one entrance
\* of a region that it comes from.
LEMMA ReducibleByRank ==
  ASSUME NEW N, IsFiniteSet(N), NEW E, NEW entry, NEW rank,
         \A n \in ReachableFrom({entry}, N, E) : rank[n] \in Nat,
         \A u, v \in ReachableFrom({entry}, N, E) :
           <<u, v>> \in E => \/ rank[u] < rank[v]
                             \/ \E B : u \in B /\ EnteredAt(B, v, entry, E)
  PROVE  Reducible(entry, N, E)
<1> DEFINE R == ReachableFrom({entry}, N, E)
           D == Dominance(entry, N, E)
           forward == {e \in E : e[1] \in R /\ <<e[2], e[1]>> \notin D}
<1>1. IsFiniteSet(R)
  <2>1. R \subseteq {entry} \cup N
    BY ReachableClosed
  <2>2. IsFiniteSet({entry} \cup N)
    BY FS_Singleton, FS_Union
  <2> QED BY <2>1, <2>2, FS_Subset
<1>2. ASSUME NEW u \in R, NEW v \in R, <<u, v>> \in forward
      PROVE  rank[u] < rank[v]
  <2>1. <<u, v>> \in E /\ <<v, u>> \notin D
    BY <1>2
  <2>2. ASSUME NEW B, u \in B, EnteredAt(B, v, entry, E) PROVE FALSE
    <3>1. u \in DominatedBy(v, entry, N, E)
      BY <2>2, EntranceDominates
    <3>2. <<v, u>> \in D
      BY <3>1 DEF Dominance
    <3> QED BY <3>2, <2>1
  <2> QED BY <2>1, <2>2
<1> HIDE DEF R, forward
<1>3. ASSUME NEW n \in R PROVE n \notin Beyond(n, R, forward)
  <2> DEFINE Q == {m \in R : rank[n] < rank[m]}
  <2>1. {m \in R : <<n, m>> \in forward} \subseteq Q
    BY <1>2
  <2>2. \A k \in R : rank[k] \in Nat
    BY DEF R
  <2>3. \A a \in Q, b \in R : <<a, b>> \in forward => b \in Q
    <3> TAKE a \in Q, b \in R
    <3> HAVE <<a, b>> \in forward
    <3>1. rank[a] < rank[b]
      BY <1>2
    <3>2. rank[n] < rank[a] /\ rank[n] \in Nat /\ rank[a] \in Nat /\ rank[b] \in Nat
      BY <2>2
    <3>3. rank[n] < rank[b]
      BY <3>1, <3>2
    <3> QED BY <3>3
  <2>4. Beyond(n, R, forward) \subseteq Q
    <3> HIDE DEF Q
    <3>1. ReachableFrom({m \in R : <<n, m>> \in forward}, R, forward) \subseteq Q
      BY <1>1, <2>1, <2>3, ReachableLeast
    <3> QED BY <3>1 DEF Beyond
  <2>5. n \notin Q
    BY <2>2
  <2> QED BY <2>4, <2>5
<1> QED BY <1>3 DEF Reducible, R, forward
-------------------------------------------------------------------------------
(* Chains: f leads from each node of D to another one, up to the top *)

\* x is y, or f leads from y to x.
Over(f, D, x, y) ==
  y \in D /\ \A Q \in SUBSET D : y \in Q /\ (\A q \in Q : f[q] \in Q) => x \in Q

\* f leads up in rank, and the top has the highest one.
Climbing(f, D, rank, top) ==
  /\ top \in D /\ f[top] = top
  /\ \A x \in D : f[x] \in D /\ rank[x] \in Nat /\ rank[x] <= rank[top]
  /\ \A x \in D \ {top} : rank[x] < rank[f[x]]

\* The start of a chain, and its next node.
LEMMA OverSelf ==
  ASSUME NEW f, NEW D, NEW x \in D
  PROVE  Over(f, D, x, x) /\ Over(f, D, f[x], x)
BY DEF Over

\* To be over another node along a chain is transitive.
LEMMA OverTrans ==
  ASSUME NEW f, NEW D, NEW x, NEW y, NEW z, Over(f, D, x, y), Over(f, D, y, z)
  PROVE  Over(f, D, x, z)
BY DEF Over

\* A chain that does not end where it starts goes through the next node.
LEMMA OverNext ==
  ASSUME NEW f, NEW D, NEW x, NEW y, Over(f, D, x, y), x # y, f[y] \in D
  PROVE  Over(f, D, x, f[y])
<1> SUFFICES ASSUME NEW Q \in SUBSET D, f[y] \in Q, \A q \in Q : f[q] \in Q
             PROVE  x \in Q
  BY DEF Over
<1> DEFINE P == Q \cup {y}
<1>1. P \in SUBSET D /\ y \in P /\ \A q \in P : f[q] \in P
  BY DEF Over
<1>2. x \in P
  <2> HIDE DEF P
  <2> QED BY <1>1 DEF Over
<1> QED BY <1>2

\* Chains go up in rank.
LEMMA OverRank ==
  ASSUME NEW f, NEW D, NEW rank, NEW top, Climbing(f, D, rank, top),
         NEW x, NEW y, Over(f, D, x, y)
  PROVE  /\ x \in D /\ y \in D /\ rank[x] \in Nat /\ rank[y] \in Nat
         /\ x = y \/ rank[y] < rank[x]
<1> DEFINE Q == {q \in D : q = y \/ rank[y] < rank[q]}
<1>1. Q \in SUBSET D /\ y \in Q
  BY DEF Over
<1>2. ASSUME NEW q \in Q PROVE f[q] \in Q
  <2>1. /\ f[q] \in D /\ rank[q] \in Nat /\ rank[f[q]] \in Nat /\ rank[y] \in Nat
        /\ q = top \/ rank[q] < rank[f[q]]
    BY <1>1 DEF Climbing
  <2>2. CASE q = top
    <3>1. f[q] = q
      BY <2>2 DEF Climbing
    <3> QED BY <3>1
  <2>3. CASE rank[q] < rank[f[q]]
    <3>1. rank[y] < rank[f[q]]
      BY <2>1, <2>3
    <3> QED BY <2>1, <3>1
  <2> QED BY <2>1, <2>2, <2>3
<1>3. x \in Q
  <2> HIDE DEF Q
  <2> QED BY <1>1, <1>2 DEF Over
<1> QED BY <1>1, <1>3 DEF Climbing

\* A set that each of its nodes but d leads on from, and never to the top, leads to d.
LEMMA OverWithin ==
  ASSUME NEW f, NEW D, NEW rank, NEW top, Climbing(f, D, rank, top),
         NEW A \in SUBSET D, NEW y \in A, NEW d,
         \A q \in A : q = d \/ (q # top /\ f[q] \in A)
  PROVE  Over(f, D, d, y)
<1> SUFFICES ASSUME NEW Q \in SUBSET D, y \in Q, \A q \in Q : f[q] \in Q, d \notin Q
             PROVE  FALSE
  BY DEF Over
<1> DEFINE P == Q \cap A
           T == {rank[top] - rank[q] : q \in P}
<1>1. \A q \in P : /\ q # top /\ f[q] \in P
                   /\ rank[q] \in Nat /\ rank[f[q]] \in Nat /\ rank[top] \in Nat
                   /\ rank[q] <= rank[top] /\ rank[f[q]] <= rank[top] /\ rank[q] < rank[f[q]]
  BY DEF Climbing
<1>2. T \subseteq Nat /\ T # {}
  <2>1. \A q \in P : rank[top] - rank[q] \in Nat
    <3> HIDE DEF P
    <3> QED BY <1>1
  <2> QED BY <2>1
<1>3. PICK m \in T : \A k \in T : m <= k
  <2> HIDE DEF T
  <2> QED BY <1>2, LeastNat
<1>4. PICK q \in P : m = rank[top] - rank[q]
  OBVIOUS
<1>5. rank[top] - rank[f[q]] \in T
  <2> HIDE DEF P
  <2> QED BY <1>1
<1>6. m <= rank[top] - rank[f[q]]
  BY <1>3, <1>5
<1> HIDE DEF P, T
<1> QED BY <1>1, <1>4, <1>6

\* Two nodes of a chain: the higher one is over the other.
LEMMA OverChain ==
  ASSUME NEW f, NEW D, NEW rank, NEW top, Climbing(f, D, rank, top),
         NEW x, NEW y, NEW z, Over(f, D, x, z), Over(f, D, y, z), rank[y] <= rank[x]
  PROVE  Over(f, D, x, y)
<1> DEFINE Q == {q \in D : Over(f, D, x, q) \/ Over(f, D, q, x)}
<1>1. x \in D /\ y \in D /\ z \in D /\ \A q \in D : f[q] \in D
  BY OverRank DEF Climbing
<1>2. z \in Q
  BY <1>1
<1>3. ASSUME NEW q \in Q PROVE f[q] \in Q
  <2>1. CASE Over(f, D, q, x)
    BY <1>1, <2>1, OverSelf, OverTrans
  <2>2. CASE x = q
    BY <1>1, <2>2, OverSelf
  <2>3. CASE Over(f, D, x, q) /\ x # q
    BY <1>1, <2>3, OverNext
  <2> QED BY <2>1, <2>2, <2>3
<1>4. y \in Q
  <2>1. Q \in SUBSET D
    OBVIOUS
  <2> HIDE DEF Q
  <2> QED BY <1>2, <1>3, <2>1 DEF Over
<1>5. CASE Over(f, D, y, x)
  <2>1. /\ rank[x] \in Nat /\ rank[y] \in Nat
        /\ y = x \/ rank[x] < rank[y]
    BY <1>5, OverRank
  <2>2. x = y
    BY <2>1
  <2> QED BY <1>1, <2>2, OverSelf
<1> QED BY <1>4, <1>5

\* Chains of nodes that lead higher than before have no new nodes.
LEMMA OverMoved ==
  ASSUME NEW f, NEW D, NEW g, NEW C, D \subseteq C,
         \A q \in D : Over(f, D, g[q], q),
         NEW x, NEW y \in D, Over(g, C, x, y)
  PROVE  Over(f, D, x, y)
<1> SUFFICES ASSUME NEW Q \in SUBSET D, y \in Q, \A q \in Q : f[q] \in Q
             PROVE  x \in Q
  BY DEF Over
<1>1. \A q \in Q : g[q] \in Q
  BY DEF Over
<1>2. Q \in SUBSET C
  OBVIOUS
<1> QED BY <1>1, <1>2 DEF Over

\* Chains within a part where nothing moves stay as they are.
LEMMA OverKept ==
  ASSUME NEW f, NEW D, NEW g, NEW C, NEW A, A \subseteq D, A \subseteq C,
         \A q \in A : f[q] \in A /\ g[q] = f[q],
         NEW x, NEW y \in A
  PROVE  Over(f, D, x, y) <=> Over(g, C, x, y)
<1>1. ASSUME NEW h, NEW k, NEW X, NEW Y, A \subseteq X, A \subseteq Y,
             \A q \in A : h[q] \in A /\ k[q] = h[q], Over(h, X, x, y)
      PROVE  Over(k, Y, x, y)
  <2> SUFFICES ASSUME NEW Q \in SUBSET Y, y \in Q, \A q \in Q : k[q] \in Q
               PROVE  x \in Q
    BY <1>1 DEF Over
  <2> DEFINE P == Q \cap A
  <2>1. P \in SUBSET X /\ y \in P /\ \A q \in P : h[q] \in P
    BY <1>1
  <2>2. x \in P
    <3> HIDE DEF P
    <3> QED BY <1>1, <2>1 DEF Over
  <2> QED BY <2>2
<1>2. \A q \in A : g[q] \in A /\ f[q] = g[q]
  OBVIOUS
<1> QED BY <1>1, <1>2
-------------------------------------------------------------------------------
(* Dominators, along chains *)

\* The nodes reachable without going through d.
Avoiding(d, entry, N, E) ==
  LET R == ReachableFrom({entry}, N, E)
  IN  ReachableFrom({entry} \ {d}, R \ {d}, {e \in E : e[1] # d})

\* The nodes reachable without d are reachable, and closed under edges but to d.
LEMMA AvoidingClosed ==
  ASSUME NEW N, IsFiniteSet(N), NEW E, NEW entry, NEW d
  PROVE  LET R == ReachableFrom({entry}, N, E)
             V == Avoiding(d, entry, N, E)
         IN  /\ IsFiniteSet(R) /\ entry \in R
             /\ V \subseteq R /\ d \notin V
             /\ entry # d => entry \in V
             /\ \A m \in V, n \in R : <<m, n>> \in E /\ n # d => n \in V
<1> DEFINE R == ReachableFrom({entry}, N, E)
           V == Avoiding(d, entry, N, E)
           past == {e \in E : e[1] # d}
<1>1. IsFiniteSet(R) /\ entry \in R
  <2>1. R \subseteq {entry} \cup N /\ entry \in R
    BY ReachableClosed
  <2>2. IsFiniteSet({entry} \cup N)
    BY FS_Singleton, FS_Union
  <2> QED BY <2>1, <2>2, FS_Subset
<1>2. IsFiniteSet(R \ {d})
  BY <1>1, FS_Subset
<1> DEFINE S == {entry} \ {d}
           M == R \ {d}
<1>3. V = ReachableFrom(S, M, past)
  BY DEF Avoiding
<1>4. /\ S \subseteq V /\ V \subseteq S \cup M
      /\ \A m \in V, n \in M : <<m, n>> \in past => n \in V
  <2>1. IsFiniteSet(M)
    BY <1>2
  <2> HIDE DEF S, M, past, V
  <2> QED BY <2>1, <1>3, ReachableClosed
<1>5. \A m \in V, n \in R : <<m, n>> \in E /\ n # d => n \in V
  <2> TAKE m \in V, n \in R
  <2> HAVE <<m, n>> \in E /\ n # d
  <2>1. m # d
    BY <1>4
  <2>2. <<m, n>> \in past
    BY <2>1
  <2> QED BY <1>4, <2>2
<1> HIDE DEF V, past
<1> QED BY <1>1, <1>4, <1>5 DEF V

\* What a node dominates are the reachable nodes that are not reached without it.
LEMMA DominatedDef ==
  ASSUME NEW N, NEW E, NEW entry, NEW d
  PROVE  DominatedBy(d, entry, N, E)
           = ReachableFrom({entry}, N, E) \ Avoiding(d, entry, N, E)
BY DEF DominatedBy, Avoiding

\* A reachable node dominates itself; what dominates a node, itself apart, dominates
\* its reachable predecessors.
LEMMA DominatedBack ==
  ASSUME NEW N, IsFiniteSet(N), NEW E, NEW entry, NEW d
  PROVE  LET R == ReachableFrom({entry}, N, E)
             B == DominatedBy(d, entry, N, E)
         IN  /\ d \in R => d \in B
             /\ entry \in B => entry = d
             /\ \A q \in R, n \in B : <<q, n>> \in E /\ n # d => q \in B
BY AvoidingClosed, DominatedDef

\* Avoiding(d) is the least set that holds the entry and is closed under edges but to d.
LEMMA AvoidingLeast ==
  ASSUME NEW N, IsFiniteSet(N), NEW E, NEW entry, NEW d, NEW Q, entry # d => entry \in Q,
         \A m \in Q, n \in ReachableFrom({entry}, N, E) : <<m, n>> \in E /\ n # d => n \in Q
  PROVE  Avoiding(d, entry, N, E) \subseteq Q
<1> DEFINE R == ReachableFrom({entry}, N, E)
           S == {entry} \ {d}
           M == R \ {d}
           past == {e \in E : e[1] # d}
<1>1. IsFiniteSet(R) /\ IsFiniteSet(M)
  BY AvoidingClosed, FS_Subset
<1>2. S \subseteq Q /\ \A m \in Q, n \in M : <<m, n>> \in past => n \in Q
  OBVIOUS
<1>3. ReachableFrom(S, M, past) \subseteq Q
  <2> HIDE DEF S, M, past
  <2> QED BY <1>1, <1>2, ReachableLeast
<1> QED BY <1>3 DEF Avoiding

-------------------------------------------------------------------------------
(* Dominance is an order, and the dominators of a node are a chain *)

\* What dominates a dominator of a node dominates the node.
LEMMA DominanceTrans ==
  ASSUME NEW N, IsFiniteSet(N), NEW E, NEW entry, NEW a, NEW b, NEW c,
         b \in DominatedBy(a, entry, N, E), c \in DominatedBy(b, entry, N, E)
  PROVE  c \in DominatedBy(a, entry, N, E)
<1> DEFINE R == ReachableFrom({entry}, N, E)
           A == Avoiding(a, entry, N, E)
           B == Avoiding(b, entry, N, E)
<1>1. b \in R /\ b \notin A /\ c \in R /\ c \notin B
  BY DominatedDef
<1>2. entry # a => entry \in A \cap B
  BY <1>1, AvoidingClosed
<1>3. \A m \in A \cap B, n \in R : <<m, n>> \in E /\ n # a => n \in A \cap B
  BY <1>1, AvoidingClosed
<1>4. A \subseteq A \cap B
  <2> DEFINE Q == A \cap B
  <2>1. (entry # a => entry \in Q) /\ \A m \in Q, n \in R : <<m, n>> \in E /\ n # a => n \in Q
    BY <1>2, <1>3
  <2> HIDE DEF Q, A
  <2>2. Avoiding(a, entry, N, E) \subseteq Q
    BY <2>1, AvoidingLeast
  <2> QED BY <2>2 DEF A, Q
<1> QED BY <1>1, <1>4, DominatedDef

\* Two nodes do not dominate each other.
LEMMA DominanceAntisym ==
  ASSUME NEW N, IsFiniteSet(N), NEW E, NEW entry, NEW a, NEW b,
         b \in DominatedBy(a, entry, N, E), a \in DominatedBy(b, entry, N, E)
  PROVE  a = b
<1> DEFINE R == ReachableFrom({entry}, N, E)
           A == Avoiding(a, entry, N, E)
           B == Avoiding(b, entry, N, E)
<1>1. SUFFICES ASSUME a # b PROVE FALSE
  OBVIOUS
<1>2. b \in R /\ b \notin A /\ a \in R /\ a \notin B
  BY DominatedDef
<1> DEFINE Q == A \cap B
<1>3. entry \in Q
  BY <1>1, <1>2, AvoidingClosed
<1>4. \A m \in Q, n \in N : <<m, n>> \in E => n \in Q
  <2> TAKE m \in Q, n \in N
  <2> HAVE <<m, n>> \in E
  <2>1. m \in R /\ n \in R
    BY AvoidingClosed, ReachableClosed
  <2> QED BY <2>1, <1>1, <1>2, AvoidingClosed
<1>5. R \subseteq Q
  <2> HIDE DEF Q
  <2> QED BY <1>3, <1>4, ReachableLeast
<1> QED BY <1>2, <1>5

\* Of two dominators of a node, one dominates the other.
LEMMA DominatorsAreChain ==
  ASSUME NEW N, IsFiniteSet(N), NEW E, NEW entry, NEW n,
         NEW a \in ReachableFrom({entry}, N, E), NEW b \in ReachableFrom({entry}, N, E),
         n \in DominatedBy(a, entry, N, E), n \in DominatedBy(b, entry, N, E)
  PROVE  b \in DominatedBy(a, entry, N, E) \/ a \in DominatedBy(b, entry, N, E)
<1> DEFINE R == ReachableFrom({entry}, N, E)
           A == Avoiding(a, entry, N, E)
           B == Avoiding(b, entry, N, E)
           Q == A \cup B
<1>1. n \in R /\ n \notin Q
  BY DominatedDef
<1>2. SUFFICES ASSUME b \in A, a \in B PROVE FALSE
  BY DominatedDef
<1>3. entry \in Q
  BY <1>2, AvoidingClosed
<1>4. \A m \in Q, k \in N : <<m, k>> \in E => k \in Q
  <2> TAKE m \in Q, k \in N
  <2> HAVE <<m, k>> \in E
  <2>1. m \in R /\ k \in R
    BY AvoidingClosed, ReachableClosed
  <2> QED BY <2>1, <1>2, AvoidingClosed
<1>5. R \subseteq Q
  <2> HIDE DEF Q
  <2> QED BY <1>3, <1>4, ReachableLeast
<1> QED BY <1>1, <1>5

\* The entry dominates every reachable node.
LEMMA EntryDominates ==
  ASSUME NEW N, IsFiniteSet(N), NEW E, NEW entry
  PROVE  DominatedBy(entry, entry, N, E) = ReachableFrom({entry}, N, E)
<1>1. Avoiding(entry, entry, N, E) \subseteq {}
  <2> DEFINE Q == {}
  <2>1. (entry # entry => entry \in Q)
        /\ \A m \in Q, n \in ReachableFrom({entry}, N, E) : <<m, n>> \in E /\ n # entry => n \in Q
    OBVIOUS
  <2> HIDE DEF Q
  <2>2. Avoiding(entry, entry, N, E) \subseteq Q
    BY <2>1, AvoidingLeast
  <2> QED BY <2>2 DEF Q
<1> QED BY <1>1, DominatedDef

\* The closest strict dominators of nodes, and dominance, as pairs.
LEMMA DominanceDef ==
  ASSUME NEW N, NEW E, NEW entry, NEW d, NEW n
  PROVE  <<d, n>> \in Dominance(entry, N, E)
           <=> d \in ReachableFrom({entry}, N, E) /\ n \in DominatedBy(d, entry, N, E)
BY DEF Dominance

\* Immediate dominance, spelled out.
LEMMA IdomDef ==
  ASSUME NEW N, NEW E, NEW entry, NEW e
  PROVE  e \in IdomPairs(entry, N, E)
           <=> \E d, n : /\ e = <<d, n>> /\ d # n
                         /\ d \in ReachableFrom({entry}, N, E) /\ n \in DominatedBy(d, entry, N, E)
                         /\ \A c \in N \ {n} :
                              /\ c \in ReachableFrom({entry}, N, E)
                              /\ n \in DominatedBy(c, entry, N, E)
                              => d \in DominatedBy(c, entry, N, E)
<1> DEFINE D == Dominance(entry, N, E)
<1>1. \A d, n : <<d, n>> \in D <=> d \in ReachableFrom({entry}, N, E)
                                   /\ n \in DominatedBy(d, entry, N, E)
  BY DominanceDef
<1>2. \A x \in D : \E d, n : x = <<d, n>>
  BY DEF Dominance
<1>3. e \in IdomPairs(entry, N, E)
        <=> /\ e \in D /\ e[1] # e[2]
            /\ \A c \in N \ {e[2]} : <<c, e[2]>> \in D => <<c, e[1]>> \in D
  BY DEF IdomPairs
<1> HIDE DEF D
<1> DEFINE R == ReachableFrom({entry}, N, E)
           Doms(d, n) == n \in DominatedBy(d, entry, N, E)
<1>4. e \in IdomPairs(entry, N, E)
        <=> \E d, n : /\ e = <<d, n>> /\ e \in D /\ d # n
                      /\ \A c \in N \ {n} : <<c, n>> \in D => <<c, d>> \in D
  BY <1>2, <1>3
<1>5. \A d, n : <<d, n>> \in D <=> d \in R /\ Doms(d, n)
  BY <1>1
<1>6. e \in IdomPairs(entry, N, E)
        <=> \E d, n : /\ e = <<d, n>> /\ d # n /\ d \in R /\ Doms(d, n)
                      /\ \A c \in N \ {n} : c \in R /\ Doms(c, n) => Doms(c, d)
  <2> HIDE DEF R, Doms
  <2>1. \A d, n : e = <<d, n>> => (e \in D <=> d \in R /\ Doms(d, n))
    BY <1>5
  <2>2. \A d, n : (\A c \in N \ {n} : <<c, n>> \in D => <<c, d>> \in D)
                    <=> \A c \in N \ {n} : c \in R /\ Doms(c, n) => Doms(c, d)
    BY <1>5
  <2> QED BY <1>4, <2>1, <2>2
<1> QED BY <1>6

\* Every reachable node but the entry has a closest strict dominator.
LEMMA IdomExists ==
  ASSUME NEW N, IsFiniteSet(N), NEW E, NEW entry,
         NEW n \in ReachableFrom({entry}, N, E), n # entry
  PROVE  \E d : <<d, n>> \in IdomPairs(entry, N, E)
<1> DEFINE R == ReachableFrom({entry}, N, E)
           Dom(d) == DominatedBy(d, entry, N, E)
           strict == {d \in R : n \in Dom(d) /\ d # n}
           size(d) == Cardinality(Dom(d))
           T == {size(d) : d \in strict}
<1>1. IsFiniteSet(R) /\ entry \in R
  BY AvoidingClosed
<1>2. \A d : Dom(d) \subseteq R /\ IsFiniteSet(Dom(d)) /\ size(d) \in Nat
  BY <1>1, DominatedDef, FS_Subset, FS_CardinalityType
<1>3. entry \in strict
  BY <1>1, EntryDominates
<1>4. PICK k \in T : \A j \in T : k <= j
  <2>1. T \subseteq Nat /\ T # {}
    <3> HIDE DEF size, strict
    <3> QED BY <1>2, <1>3
  <2> HIDE DEF T
  <2> QED BY <2>1, LeastNat
<1>5. PICK d \in strict : k = size(d)
  BY <1>4
<1>6. ASSUME NEW c \in R, n \in Dom(c), c # n PROVE d \in Dom(c)
  <2>1. SUFFICES ASSUME d \notin Dom(c) PROVE FALSE
    OBVIOUS
  <2>2. c \in Dom(d)
    BY <2>1, <1>6, DominatorsAreChain
  <2>3. Dom(c) \subseteq Dom(d) /\ Dom(c) # Dom(d)
    BY <2>1, <2>2, DominanceTrans, DominatedBack
  <2>4. size(c) < size(d)
    <3> HIDE DEF Dom
    <3> QED BY <1>2, <2>3, StrictSubset
  <2>5. size(d) <= size(c)
    <3>1. size(c) \in T
      BY <1>6
    <3> HIDE DEF size, T
    <3> QED BY <3>1, <1>4, <1>5
  <2> QED BY <2>4, <2>5, <1>2
<1>7. <<d, n>> \in IdomPairs(entry, N, E)
  <2>1. d # n /\ d \in R /\ n \in Dom(d)
    OBVIOUS
  <2>2. \A c \in N \ {n} : c \in R /\ n \in Dom(c) => d \in Dom(c)
    BY <1>6
  <2> QED BY <2>1, <2>2, IdomDef
<1> QED BY <1>7

\* It is unique, it dominates the node, and the strict dominators of the node are that one
\* and its own.
LEMMA IdomFacts ==
  ASSUME NEW N, IsFiniteSet(N), NEW E, NEW entry \in N,
         NEW d, NEW n, <<d, n>> \in IdomPairs(entry, N, E)
  PROVE  LET R == ReachableFrom({entry}, N, E)
             Dom(a) == DominatedBy(a, entry, N, E)
         IN  /\ d \in R /\ n \in R /\ d # n /\ n # entry /\ n \in Dom(d)
             /\ \A e : <<e, n>> \in IdomPairs(entry, N, E) => e = d
             /\ \A c \in R : n \in Dom(c) => c = n \/ d \in Dom(c)
<1> DEFINE R == ReachableFrom({entry}, N, E)
           Dom(a) == DominatedBy(a, entry, N, E)
           Idom(a, b) == /\ a # b /\ a \in R /\ b \in Dom(a)
                         /\ \A c \in N \ {b} : c \in R /\ b \in Dom(c) => a \in Dom(c)
<1>1. \A a, b : <<a, b>> \in IdomPairs(entry, N, E) => Idom(a, b)
  <2> TAKE a, b
  <2> HAVE <<a, b>> \in IdomPairs(entry, N, E)
  <2>1. PICK x, y : /\ <<a, b>> = <<x, y>> /\ x # y /\ x \in R /\ y \in Dom(x)
                    /\ \A c \in N \ {y} : c \in R /\ y \in Dom(c) => x \in Dom(c)
    BY IdomDef
  <2>2. a = x /\ b = y
    BY <2>1
  <2> QED BY <2>1, <2>2
<1>2. R \subseteq N
  BY ReachableClosed
<1>3. d \in R /\ d # n /\ n \in Dom(d) /\ n \in R
  BY <1>1, DominatedDef
<1>4. \A c \in R : n \in Dom(c) => c = n \/ d \in Dom(c)
  BY <1>1, <1>2
<1>5. \A e : <<e, n>> \in IdomPairs(entry, N, E) => e = d
  <2> TAKE e
  <2> HAVE <<e, n>> \in IdomPairs(entry, N, E)
  <2>1. Idom(e, n) /\ Idom(d, n)
    BY <1>1
  <2>2. d \in Dom(e) /\ e \in Dom(d)
    BY <2>1, <1>2
  <2> QED BY <2>2, DominanceAntisym
<1>6. n # entry
  BY <1>3, DominatedBack
<1> QED BY <1>3, <1>4, <1>5, <1>6

\* The closest dominators make a tree: what holds the entry and, with a node, those it is
\* the closest strict dominator of, holds every reachable node.
LEMMA IdomTree ==
  ASSUME NEW N, IsFiniteSet(N), NEW E, NEW entry \in N, NEW Q, entry \in Q,
         \A d, n : <<d, n>> \in IdomPairs(entry, N, E) /\ d \in Q => n \in Q
  PROVE  ReachableFrom({entry}, N, E) \subseteq Q
<1> DEFINE R == ReachableFrom({entry}, N, E)
           Dom(d) == DominatedBy(d, entry, N, E)
           size(d) == Cardinality(R) - Cardinality(Dom(d))
           T == {size(n) : n \in R \ Q}
<1>1. IsFiniteSet(R) /\ Cardinality(R) \in Nat
  BY AvoidingClosed, FS_CardinalityType
<1>2. \A d : Dom(d) \subseteq R /\ IsFiniteSet(Dom(d)) /\ Cardinality(Dom(d)) \in Nat
  BY <1>1, DominatedDef, FS_Subset, FS_CardinalityType
<1>3. \A d : size(d) \in Nat
  <2> TAKE d
  <2> HIDE DEF R, Dom
  <2>1. Cardinality(Dom(d)) <= Cardinality(R)
    BY <1>1, <1>2, FS_Subset
  <2> QED BY <2>1, <1>1, <1>2
<1>4. SUFFICES ASSUME R \ Q # {} PROVE FALSE
  OBVIOUS
<1>5. PICK k \in T : \A j \in T : k <= j
  <2>1. T \subseteq Nat /\ T # {}
    <3> HIDE DEF size
    <3> QED BY <1>3, <1>4
  <2> HIDE DEF T
  <2> QED BY <2>1, LeastNat
<1>6. PICK n \in R \ Q : k = size(n)
  BY <1>5
<1>7. PICK d : <<d, n>> \in IdomPairs(entry, N, E)
  BY <1>6, IdomExists
<1>8. d \in R /\ d # n /\ n \in Dom(d) /\ d \notin Q
  BY <1>6, <1>7, IdomFacts
<1>9. Dom(n) \subseteq Dom(d) /\ Dom(n) # Dom(d)
  <2>1. d \in Dom(d) /\ d \notin Dom(n)
    BY <1>8, DominatedBack, DominanceAntisym
  <2> QED BY <2>1, <1>8, DominanceTrans
<1>10. size(d) < size(n)
  <2> HIDE DEF R, Dom
  <2>1. Cardinality(Dom(n)) < Cardinality(Dom(d))
    BY <1>2, <1>9, StrictSubset
  <2> QED BY <2>1, <1>1, <1>2
<1>11. size(n) <= size(d)
  <2>1. size(d) \in T
    BY <1>8
  <2> HIDE DEF size, T
  <2> QED BY <2>1, <1>5, <1>6
<1>12. size(d) \in Nat /\ size(n) \in Nat
  BY <1>3
<1> HIDE DEF size
<1> QED BY <1>10, <1>11, <1>12

\* Where the entry is the top of chains that go backwards along edges, the dominators of a
\* node are in its chain.
LEMMA DominatorsOver ==
  ASSUME NEW N, IsFiniteSet(N), NEW E, NEW entry, NEW par, NEW rank,
         Climbing(par, ReachableFrom({entry}, N, E), rank, entry),
         \A b \in ReachableFrom({entry}, N, E) \ {entry} : <<par[b], b>> \in E,
         NEW d, NEW n \in DominatedBy(d, entry, N, E)
  PROVE  Over(par, ReachableFrom({entry}, N, E), d, n)
<1> DEFINE R == ReachableFrom({entry}, N, E)
           A == DominatedBy(d, entry, N, E)
<1>1. A \in SUBSET R
  BY DominatedDef
<1>2. ASSUME NEW q \in A, q # d PROVE q # entry /\ par[q] \in A
  <2>1. q # entry
    BY <1>2, DominatedBack
  <2>2. q \in R /\ par[q] \in R /\ <<par[q], q>> \in E
    BY <1>1, <2>1 DEF Climbing
  <2> QED BY <1>2, <2>1, <2>2, DominatedBack
<1> HIDE DEF R, A
<1>3. Over(par, R, d, n)
  BY <1>1, <1>2, OverWithin DEF R, A
<1> QED BY <1>3 DEF R

\* Chains of idom are the dominators, if idom is over all predecessors of a node and
\* dominated by whatever strictly dominates it.
LEMMA ChainsDominate ==
  ASSUME NEW N, IsFiniteSet(N), NEW E, \A a, b : <<a, b>> \in E => a \in N /\ b \in N,
         NEW entry, NEW idom, NEW rank,
         Climbing(idom, ReachableFrom({entry}, N, E), rank, entry),
         \A a, b \in ReachableFrom({entry}, N, E) :
           <<a, b>> \in E /\ b # entry => Over(idom, ReachableFrom({entry}, N, E), idom[b], a),
         \A d, b \in ReachableFrom({entry}, N, E) :
           /\ b # entry /\ d # b /\ b \in DominatedBy(d, entry, N, E)
           => idom[b] \in DominatedBy(d, entry, N, E),
         NEW d \in ReachableFrom({entry}, N, E), NEW n \in ReachableFrom({entry}, N, E)
  PROVE  n \in DominatedBy(d, entry, N, E) <=> Over(idom, ReachableFrom({entry}, N, E), d, n)
<1> DEFINE R == ReachableFrom({entry}, N, E)
           A == DominatedBy(d, entry, N, E)
           B == (N \ R) \cup {b \in R : Over(idom, R, d, b)}
<1>0. \A q \in R : idom[q] \in R
  BY DEF Climbing
<1>1. ASSUME n \in A PROVE Over(idom, R, d, n)
  <2>1. A \in SUBSET R
    BY DominatedDef
  <2>2. ASSUME NEW q \in A, q # d PROVE q # entry /\ idom[q] \in A
    <3>1. q # entry
      BY <2>2, DominatedBack
    <3>2. q \in R
      BY <2>1
    <3> QED BY <2>2, <3>1, <3>2
  <2> HIDE DEF R, A
  <2> QED BY <1>1, <2>1, <2>2, OverWithin DEF R, A
<1>2. ASSUME Over(idom, R, d, n) PROVE n \in A
  <2>1. EnteredAt(B, d, entry, E)
    <3>1. d \in B
      BY OverSelf
    <3>2. entry \in B => entry = d
      <4>1. SUFFICES ASSUME Over(idom, R, d, entry) PROVE entry = d
        <5>1. entry \in R
          BY DEF Climbing
        <5> QED BY <4>1, <5>1
      <4>2. {entry} \in SUBSET R /\ \A q \in {entry} : idom[q] \in {entry}
        BY DEF Climbing
      <4> HIDE DEF R
      <4> QED BY <4>1, <4>2 DEF Over
    <3>3. ASSUME NEW a, NEW b, <<a, b>> \in E, b \in B \ {d} PROVE a \in B
      <4>1. CASE a \notin R
        BY <3>3, <4>1
      <4>2. CASE a \in R /\ b \notin R
        <5>1. b \in R
          BY <3>3, <4>2, ReachableClosed
        <5> QED BY <4>2, <5>1
      <4>3. CASE a \in R /\ b \in R
        <5>1. Over(idom, R, d, b) /\ b # d
          BY <3>3, <4>3
        <5>2. b # entry
          BY <3>2, <3>3
        <5>3. Over(idom, R, d, idom[b])
          <6> HIDE DEF R
          <6> QED BY <1>0, <4>3, <5>1, OverNext
        <5>4. Over(idom, R, idom[b], a)
          BY <3>3, <4>3, <5>2
        <5>5. Over(idom, R, d, a)
          BY <5>3, <5>4, OverTrans
        <5> QED BY <4>3, <5>5
      <4> QED BY <4>1, <4>2, <4>3
    <3> QED BY <3>1, <3>2, <3>3 DEF EnteredAt
  <2>2. n \in B
    BY <1>2
  <2>3. B \cap R \subseteq A
    <3> HIDE DEF B
    <3> QED BY <2>1, EntranceDominates
  <2> QED BY <2>2, <2>3
<1> QED BY <1>1, <1>2
===============================================================================
