------------------------------- MODULE Numbers -------------------------------
(***************************************************************************)
(* What the proofs keep needing of numbers: that a set of them has a first *)
(* and a last, what is left when they are divided, and that a finite list  *)
(* of them is bounded, as what comes of a finite set is finite.            *)
(***************************************************************************)
EXTENDS Integers, FiniteSetsExt, FiniteSetTheorems, WellFoundedInduction, TLAPS

(* A set of natural numbers has a smallest member.                         *)
LEMMA Smallest ==
  ASSUME NEW S \in SUBSET Nat, S # {}
  PROVE  Min(S) \in S /\ \A x \in S : Min(S) <= x
<1>1. IsWellFoundedOn(OpToRel(<, Nat), Nat)
  BY NatLessThanWellFounded
<1>2. PICK m \in S : \A x \in S : ~(<<x, m>> \in OpToRel(<, Nat))
  BY <1>1, WFMin
<1>3. \A x \in S : <<x, m>> \in OpToRel(<, Nat) <=> x < m
  BY Zenon DEF OpToRel
<1>4. \A x \in S : ~(x < m)
  BY <1>2, <1>3, Zenon
<1>5. \A x \in S : m <= x
  BY <1>4
<1> QED
  BY <1>5 DEF Min

(* One that is bounded has a largest.                                      *)
LEMMA Largest ==
  ASSUME NEW S \in SUBSET Nat, S # {}, NEW bound \in Nat, \A x \in S : x <= bound
  PROVE  Max(S) \in S /\ \A x \in S : x <= Max(S)
<1> DEFINE above == {n \in Nat : \A x \in S : x <= n}
           top == Min(above)
<1>1. top \in above /\ \A n \in above : top <= n
  BY Smallest
<1> HIDE DEF top
<1>2. top \in S
  <2> SUFFICES ASSUME top \notin S PROVE FALSE
    OBVIOUS
  <2>3. \A x \in S : x \in Nat /\ x <= top /\ x # top
    BY <1>1
  <2>4. \A x \in S : x <= top - 1
    BY <1>1, <2>3
  <2>5. PICK x \in S : TRUE
    OBVIOUS
  <2>1. top # 0 /\ \A y \in S : y <= top - 1
    BY <1>1, <2>3, <2>4, <2>5
  <2>2. top - 1 \in above
    BY <1>1, <2>1
  <2> QED
    BY <1>1, <2>2
<1>3. \A x \in S : x <= top
  BY <1>1
<1> QED
  BY <1>2, <1>3 DEF Max

(* Multiplied alike, numbers keep their order.                             *)
LEMMA TimesGrows ==
  ASSUME NEW i \in Int, NEW j \in Int, i <= j, NEW k \in Nat
  PROVE  i * k <= j * k
  OBVIOUS

(* Division by a positive number, and what it leaves.                      *)
LEMMA Quotients ==
  ASSUME NEW n \in Int, NEW each \in Nat \ {0}
  PROVE  /\ n \div each \in Int
         /\ each * (n \div each) <= n /\ n < each * (n \div each) + each
         /\ n \in Nat => n \div each \in Nat
  OBVIOUS

(* A multiple of a number leaves nothing.                                  *)
LEMMA Multiples ==
  ASSUME NEW n \in Nat, NEW each \in Nat \ {0}
  PROVE  (each * n) % each = 0
  OBVIOUS

(* Of so many groups and a few more, the groups and the rest.              *)
LEMMA Remainders ==
  ASSUME NEW h \in Nat, NEW each \in Nat \ {0}, NEW p \in 0..each - 1
  PROVE  (h * each + p) \div each = h /\ (h * each + p) % each = p
<1> DEFINE n == h * each + p
<1>1. PICK q, r : q = n \div each /\ r = n % each
  OBVIOUS
<1>2. n \in Nat
  OBVIOUS
<1>3. q \in Nat /\ r \in 0..each - 1 /\ n = each * q + r
  BY <1>1, <1>2
<1>4. h * each + p = q * each + r
  BY <1>3
<1> HIDE DEF n
<1>5. ASSUME q < h PROVE FALSE
  <2>1. (q + 1) * each <= h * each
    BY <1>3, <1>5, TimesGrows
  <2>2. (q + 1) * each = q * each + each /\ q * each \in Int /\ h * each \in Int
    BY <1>3
  <2> QED
    BY <1>3, <1>4, <2>1, <2>2
<1>6. ASSUME h < q PROVE FALSE
  <2>1. (h + 1) * each <= q * each
    BY <1>3, <1>6, TimesGrows
  <2>2. (h + 1) * each = h * each + each /\ q * each \in Int /\ h * each \in Int
    BY <1>3
  <2> QED
    BY <1>3, <1>4, <2>1, <2>2
<1>7. q = h
  BY <1>3, <1>5, <1>6
<1>8. r = p
  <2>1. h * each \in Int
    OBVIOUS
  <2> QED
    BY <1>3, <1>4, <1>7, <2>1
<1> QED
  BY <1>1, <1>7, <1>8 DEF n

(* A finite set of numbers has a lowest and a highest one.                 *)
LEMMA Extremes ==
  ASSUME NEW S \in SUBSET Int, IsFiniteSet(S), S # {}
  PROVE  /\ Min(S) \in S /\ \A x \in S : Min(S) <= x
         /\ Max(S) \in S /\ \A x \in S : x <= Max(S)
<1> DEFINE spans(T) == \E a, b \in T : \A x \in T : a <= x /\ x <= b
           odd(n) == \E T \in SUBSET Int : IsFiniteSet(T) /\ Cardinality(T) = n /\ T # {} /\ ~spans(T)
           bad == {n \in Nat : odd(n)}
<1>1. bad = {}
  <2> SUFFICES ASSUME bad # {} PROVE FALSE
    OBVIOUS
  <2>1. PICK n \in bad : \A m \in bad : n <= m
    <3>1. bad \in SUBSET Nat
      OBVIOUS
    <3> HIDE DEF bad
    <3> QED
      BY <3>1, Smallest
  <2>2. n \in Nat /\ odd(n)
    BY <2>1
  <2>3. PICK T \in SUBSET Int : IsFiniteSet(T) /\ Cardinality(T) = n /\ T # {} /\ ~spans(T)
    BY <2>2
  <2>4. PICK e \in T : TRUE
    BY <2>3
  <2>5. IsFiniteSet(T \ {e}) /\ Cardinality(T \ {e}) = n - 1 /\ n - 1 \in Nat
    <3>1. IsFiniteSet(T \ {e}) /\ Cardinality(T \ {e}) = n - 1
      BY <2>3, <2>4, FS_RemoveElement
    <3>2. Cardinality(T \ {e}) \in Nat
      BY <3>1, FS_CardinalityType
    <3> QED
      BY <3>1, <3>2
  <2>6. T \ {e} = {} \/ spans(T \ {e})
    <3> SUFFICES ASSUME T \ {e} # {}, ~spans(T \ {e}) PROVE FALSE
      OBVIOUS
    <3>1. T \ {e} \in SUBSET Int
      OBVIOUS
    <3> HIDE DEF spans
    <3>2. odd(n - 1)
      BY <2>5, <3>1
    <3> HIDE DEF odd
    <3>3. n - 1 \in bad
      BY <2>5, <3>2
    <3>4. ~(n <= n - 1)
      BY <2>2
    <3> QED
      BY <2>1, <3>3, <3>4
  <2>7. CASE T \ {e} = {}
    <3>1. \A x \in T : e <= x /\ x <= e
      BY <2>4, <2>7
    <3> QED
      BY <2>3, <2>4, <3>1
  <2>8. CASE spans(T \ {e})
    <3>1. PICK a, b \in T \ {e} : \A x \in T \ {e} : a <= x /\ x <= b
      BY <2>8
    <3>2. e \in Int /\ a \in Int /\ b \in Int
      BY <2>4
    <3>3. PICK c \in {a, e} : c <= a /\ c <= e
      <4>1. a <= e \/ e <= a
        BY <3>2
      <4> QED
        BY <3>2, <4>1
    <3>4. PICK d \in {b, e} : b <= d /\ e <= d
      <4>1. b <= e \/ e <= b
        BY <3>2
      <4> QED
        BY <3>2, <4>1
    <3>5. \A x \in T : c <= x /\ x <= d
      <4> TAKE x \in T
      <4>1. x = e \/ (a <= x /\ x <= b)
        BY <3>1
      <4>2. x \in Int /\ c \in Int /\ d \in Int
        BY <3>2, <3>3, <3>4
      <4> QED
        BY <3>2, <3>3, <3>4, <4>1, <4>2
    <3>6. c \in T /\ d \in T
      BY <2>4, <3>1, <3>3, <3>4
    <3>7. spans(T)
      BY <3>5, <3>6
    <3> HIDE DEF spans
    <3> QED
      BY <2>3, <3>7
  <2> QED
    BY <2>6, <2>7, <2>8
<1>2. spans(S)
  <2> SUFFICES ASSUME ~spans(S) PROVE FALSE
    OBVIOUS
  <2> HIDE DEF spans
  <2>1. PICK n \in Nat : n = Cardinality(S)
    BY FS_CardinalityType
  <2>2. odd(n)
    BY <2>1
  <2> HIDE DEF odd
  <2>3. n \in bad
    BY <2>2
  <2> QED
    BY <1>1, <2>3
<1> QED
  BY <1>2 DEF Min, Max

(* What comes of each member of a finite set are finitely many things.     *)
LEMMA ImageIsFinite ==
  ASSUME NEW S, IsFiniteSet(S), NEW f, NEW T, DOMAIN f = S, f = [e \in S |-> f[e]],
         T = {f[e] : e \in S}
  PROVE  IsFiniteSet(T)
<1>1. f \in [S -> T]
  OBVIOUS
<1>2. f \in Surjection(S, T)
  BY <1>1 DEF Surjection
<1> QED
  BY <1>2, FS_Surjection

(* Of so many numbers there is one that none of them passes.               *)
LEMMA SomeBound ==
  ASSUME NEW a \in Nat, NEW b \in Int, NEW f \in [a..b -> Nat]
  PROVE  \E n \in Nat : \A h \in a..b : f[h] <= n
<1>1. PICK T : T = {f[h] : h \in a..b}
  OBVIOUS
<1>2. T \in SUBSET Nat /\ T \in SUBSET Int /\ \A h \in a..b : f[h] \in T
  BY <1>1
<1>3. IsFiniteSet(T)
  <2>1. PICK S : S = a..b
    OBVIOUS
  <2>2. IsFiniteSet(S)
    BY <2>1, FS_Interval
  <2>3. DOMAIN f = S /\ f = [e \in S |-> f[e]] /\ T = {f[e] : e \in S}
    BY <1>1, <2>1
  <2> QED
    BY <2>2, <2>3, ImageIsFinite
<1>4. CASE T = {}
  <2>1. 0 \in Nat /\ \A h \in a..b : FALSE
    BY <1>2, <1>4
  <2> QED
    BY <2>1
<1>5. CASE T # {}
  <2>1. Max(T) \in T /\ \A x \in T : x <= Max(T)
    BY <1>2, <1>3, <1>5, Extremes
  <2> QED
    BY <1>2, <2>1
<1> QED
  BY <1>4, <1>5
=============================================================================
