---------------------------- MODULE FoldTheorems ----------------------------
(***************************************************************************)
(* Lemmas for proofs about FoldLeft: induction over the natural numbers    *)
(* and over the length of a sequence, as statements about sets, which need *)
(* no operator as a parameter.                                             *)
(*                                                                         *)
(* FoldLeft(op, r, q) is f[DOMAIN q], where f is chosen with               *)
(* f[s] = IF s = {} THEN r ELSE op(f[s \ {Max(s)}], q[Max(s)]).            *)
(* FoldExists says that there is such an f, and UpTo and FoldIn what it    *)
(* makes of one more member of q, and of all of them.                      *)
(***************************************************************************)
EXTENDS Integers, SequencesExt, WellFoundedInduction, TLAPS

\* A set of natural numbers has a least member.
LEMMA LeastNatural ==
    ASSUME NEW T, T \subseteq Nat, T # {}
    PROVE  \E x \in T : \A y \in T : ~(y < x)
  <1> DEFINE R == OpToRel(<, Nat)
  <1>1. IsWellFoundedOn(R, Nat)
    BY NatLessThanWellFounded
  <1>2. \A x, y \in Nat : <<y, x>> \in R <=> y < x
    BY DEF OpToRel
  <1> HIDE DEF R
  <1>3. \E x \in T : \A y \in T : ~(<<y, x>> \in R)
    BY <1>1, WFMin
  <1>4. QED
    BY <1>2, <1>3

\* Induction over the natural numbers, for a set.
LEMMA SetInduction ==
    ASSUME NEW S, 0 \in S, \A n \in Nat : n \in S => n + 1 \in S
    PROVE  \A n \in Nat : n \in S
  <1> SUFFICES ASSUME Nat \ S # {} PROVE FALSE
    OBVIOUS
  <1> DEFINE T == Nat \ S
  <1>1. T \subseteq Nat /\ T # {}
    OBVIOUS
  <1> HIDE DEF T
  <1>2. PICK m \in T : \A y \in T : ~(y < m)
    BY <1>1, LeastNatural
  <1>3. m \in Nat /\ m # 0 /\ m - 1 \in Nat /\ m - 1 < m
    BY <1>2 DEF T
  <1>4. m - 1 \in S
    BY <1>2, <1>3 DEF T
  <1>5. m - 1 + 1 \in S /\ m - 1 + 1 = m
    BY <1>3, <1>4
  <1>6. QED
    BY <1>2, <1>5 DEF T

\* The greatest of some numbers up to n + 1 that include it.
LEMMA MaxOfUpTo ==
    ASSUME NEW n \in Nat, NEW s \in SUBSET (1..(n + 1)), n + 1 \in s
    PROVE  Max(s) = n + 1
  <1>1. \A y \in s : n + 1 >= y
    OBVIOUS
  <1>2. \A x \in s : (\A y \in s : x >= y) => x = n + 1
    OBVIOUS
  <1>3. QED
    BY <1>1, <1>2 DEF Max

\* A fold of g over the numbers up to n, from r on, as FoldLeft defines it.
IsFold(it, n, r, g) ==
    \A s \in SUBSET (1..n) : it[s] = IF s = {} THEN r ELSE g[<<it[s \ {Max(s)}], Max(s)>>]

HasFold(S, n, r, g) == \E it \in [SUBSET (1..n) -> S] : IsFold(it, n, r, g)

\* There is such a function for every length.
LEMMA FoldExists ==
    ASSUME NEW S, NEW r \in S, NEW n \in Nat, NEW g, \A x \in S : \A i \in 1..n : g[<<x, i>>] \in S
    PROVE  HasFold(S, n, r, g)
  <1> DEFINE K == {k \in Nat : k <= n => HasFold(S, k, r, g)}
  <1>1. 0 \in K
    <2> DEFINE it == [s \in SUBSET (1..0) |-> r]
    <2>1. \A s \in SUBSET (1..0) : s = {}
      OBVIOUS
    <2>2. IsFold(it, 0, r, g) /\ it \in [SUBSET (1..0) -> S]
      BY <2>1 DEF IsFold
    <2>3. QED
      BY <2>2 DEF HasFold
  <1>2. ASSUME NEW k \in Nat, k \in K PROVE k + 1 \in K
    <2> SUFFICES ASSUME k + 1 <= n PROVE HasFold(S, k + 1, r, g)
      OBVIOUS
    <2>1. HasFold(S, k, r, g)
      BY <1>2
    <2>2. PICK f \in [SUBSET (1..k) -> S] : IsFold(f, k, r, g)
      BY <2>1 DEF HasFold
    <2> DEFINE it == [s \in SUBSET (1..(k + 1)) |->
                        IF k + 1 \in s THEN g[<<f[s \ {k + 1}], k + 1>>] ELSE f[s]]
    <2>3. ASSUME NEW s \in SUBSET (1..(k + 1))
          PROVE  /\ it[s] = IF s = {} THEN r ELSE g[<<it[s \ {Max(s)}], Max(s)>>]
                 /\ it[s] \in S
      <3>1. CASE k + 1 \in s
        <4>1. Max(s) = k + 1 /\ s # {}
          BY <3>1, MaxOfUpTo
        <4>2. s \ {k + 1} \in SUBSET (1..k) /\ s \ {k + 1} \in SUBSET (1..(k + 1)) /\ k + 1 \notin s \ {k + 1}
          OBVIOUS
        <4>3. it[s \ {k + 1}] = f[s \ {k + 1}] /\ f[s \ {k + 1}] \in S
          BY <2>2, <4>2
        <4>4. it[s] = g[<<f[s \ {k + 1}], k + 1>>]
          BY <3>1
        <4>5. it[s] \in S
          BY <4>3, <4>4
        <4>6. QED
          BY <4>1, <4>3, <4>4, <4>5
      <3>2. CASE k + 1 \notin s
        <4>1. s \in SUBSET (1..k)
          BY <3>2
        <4>2. it[s] = f[s] /\ f[s] \in S
          BY <2>2, <3>2, <4>1
        <4>3. f[s] = IF s = {} THEN r ELSE g[<<f[s \ {Max(s)}], Max(s)>>]
          BY <2>2, <4>1, Zenon DEF IsFold
        <4>4. s \ {Max(s)} \in SUBSET (1..(k + 1)) /\ k + 1 \notin s \ {Max(s)}
          BY <3>2
        <4>5. it[s \ {Max(s)}] = f[s \ {Max(s)}]
          BY <4>4
        <4>6. QED
          BY <4>2, <4>3, <4>5
      <3>3. QED
        BY <3>1, <3>2
    <2>4. it = [s \in SUBSET (1..(k + 1)) |-> it[s]]
      OBVIOUS
    <2> HIDE DEF it
    <2>5. it \in [SUBSET (1..(k + 1)) -> S]
      BY <2>3, <2>4
    <2>6. IsFold(it, k + 1, r, g)
      BY <2>3 DEF IsFold
    <2>7. QED
      BY <2>5, <2>6 DEF HasFold
  <1>3. K = {k \in Nat : k <= n => HasFold(S, k, r, g)}
    OBVIOUS
  <1> HIDE DEF K
  <1>4. n \in K
    BY <1>1, <1>2, SetInduction
  <1>5. QED
    BY <1>3, <1>4

\* What a fold has at the start and keeps at every step it has at the end.
LEMMA FoldIn ==
    ASSUME NEW it, NEW n \in Nat, NEW S, it[{}] \in S,
           \A k \in Nat : k < n /\ it[1..k] \in S => it[1..(k + 1)] \in S
    PROVE  it[1..n] \in S
  <1> DEFINE K == {k \in Nat : k <= n => it[1..k] \in S}
  <1>1. 0 \in K
    <2>1. 1..0 = {}
      OBVIOUS
    <2>2. QED
      BY <2>1
  <1>2. ASSUME NEW k \in Nat, k \in K PROVE k + 1 \in K
    BY <1>2
  <1>3. K = {k \in Nat : k <= n => it[1..k] \in S}
    OBVIOUS
  <1> HIDE DEF K
  <1>4. n \in K
    BY <1>1, <1>2, SetInduction
  <1>5. QED
    BY <1>3, <1>4

\* The last of the numbers up to k + 1, and those before it.
LEMMA UpTo ==
    ASSUME NEW k \in Nat, NEW n \in Nat, k < n
    PROVE  /\ 1..(k + 1) \in SUBSET (1..n) /\ 1..(k + 1) # {} /\ k + 1 \in 1..n
           /\ Max(1..(k + 1)) = k + 1 /\ (1..(k + 1)) \ {k + 1} = 1..k
  <1>1. 1..(k + 1) \in SUBSET (1..n) /\ 1..(k + 1) # {} /\ k + 1 \in 1..n /\ (1..(k + 1)) \ {k + 1} = 1..k
    OBVIOUS
  <1>2. 1..(k + 1) \in SUBSET (1..(k + 1)) /\ k + 1 \in 1..(k + 1)
    OBVIOUS
  <1>3. Max(1..(k + 1)) = k + 1
    BY <1>2, MaxOfUpTo
  <1>4. QED
    BY <1>1, <1>3

\* The greatest member of a set of numbers is one of them.
LEMMA MaxInside ==
    ASSUME NEW n \in Nat, NEW s \in SUBSET (1..n), s # {}
    PROVE  Max(s) \in s /\ Max(s) \in 1..n
  <1> DEFINE T == {n - x : x \in s}
  <1>1. T \subseteq Nat /\ T # {}
    <2>1. \A x \in s : n - x \in Nat
      OBVIOUS
    <2>2. PICK x \in s : TRUE
      OBVIOUS
    <2>3. n - x \in T
      OBVIOUS
    <2>4. QED
      BY <2>1, <2>3
  <1>2. PICK t \in T : \A y \in T : ~(y < t)
    BY <1>1, LeastNatural
  <1>3. PICK x \in s : t = n - x
    BY <1>2
  <1>4. \A y \in s : x >= y
    <2>1. ASSUME NEW y \in s PROVE ~(n - y < n - x)
      BY <1>2, <1>3
    <2>2. QED
      BY <2>1
  <1>5. QED
    BY <1>4 DEF Max
=============================================================================
