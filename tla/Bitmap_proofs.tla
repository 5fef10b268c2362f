---------------------------- MODULE Bitmap_proofs ----------------------------
(***************************************************************************)
(* Facts about sets of numbers, quotients and runs of clear bits that the  *)
(* proofs of the search loop, of the allocators, of the address space and  *)
(* of the disk driver rest on.  They name no constant: the allocators have *)
(* two bitmaps, each with a size of its own.                               *)
(***************************************************************************)
EXTENDS Integers, FiniteSetsExt, TLAPS, WellFoundedInduction

(* An element of a set that no element is below is the set's minimum. *)
LEMMA MinIs ==
    ASSUME NEW S \in SUBSET Int, NEW m \in S, \A x \in S : m =< x
    PROVE  Min(S) = m
  <1>1. \A x, y \in S : (\A z \in S : x =< z) /\ (\A z \in S : y =< z) => x = y
    OBVIOUS
  <1> QED
    BY <1>1 DEF Min

(* A nonempty set of naturals has a minimum, and Min is it: < is well-     *)
(* founded on Nat.                                                         *)
LEMMA MinOfNaturals ==
    ASSUME NEW S \in SUBSET Nat, S # {}
    PROVE  /\ Min(S) \in S
           /\ \A x \in S : Min(S) =< x
  <1> DEFINE Less == {ss \in Nat \X Nat : ss[1] < ss[2]}
  <1>1. OpToRel(<, Nat) = Less
    BY Zenon DEF OpToRel
  <1>2. IsWellFoundedOn(Less, Nat)
    BY <1>1, NatLessThanWellFounded, Zenon
  <1>3. \E m \in S : \A y \in S : ~ (<<y, m>> \in Less)
    <2> HIDE DEF Less
    <2> QED
      BY <1>2, WFMin, Zenon
  <1>4. \E m \in S : \A x \in S : m =< x
    <2>1. PICK m \in S : \A y \in S : ~ (<<y, m>> \in Less)
      BY <1>3
    <2>2. ASSUME NEW y \in S
          PROVE  m =< y
      <3>1. ~ (<<y, m>> \in Less) /\ y \in Nat /\ m \in Nat
        BY <2>1
      <3> QED
        BY <3>1
    <2> QED
      BY <2>2
  <1> QED
    BY <1>4 DEF Min

(* A set of numbers up to n that holds 0 has a maximum, and Max is it. *)
LEMMA MaxOfBounded ==
    ASSUME NEW n \in Nat, NEW S \in SUBSET (0 .. n), 0 \in S
    PROVE  /\ Max(S) \in S
           /\ \A x \in S : x =< Max(S)
  <1> DEFINE Below == {n - x : x \in S}
  <1>1. Below \in SUBSET Nat /\ n \in Below
    OBVIOUS
  <1>2. Min(Below) \in Below /\ \A y \in Below : Min(Below) =< y
    <2> HIDE DEF Below
    <2> QED
      BY <1>1, MinOfNaturals
  <1>3. PICK m \in S : Min(Below) = n - m
    BY <1>2
  <1>4. \A x \in S : x =< m
    <2>1. \A x \in S : n - m =< n - x
      BY <1>2, <1>3
    <2> QED
      BY <2>1
  <1> QED
    BY <1>4 DEF Max

(* Induction: a set that holds 0 and the successor of each of its elements *)
(* is that of all naturals.                                                *)
LEMMA Induction ==
    ASSUME NEW T \in SUBSET Nat, 0 \in T, \A k \in T : k + 1 \in T
    PROVE  T = Nat
  <1>1. SUFFICES ASSUME Nat \ T # {} PROVE FALSE
    OBVIOUS
  <1>2. PICK m : m = Min(Nat \ T)
    OBVIOUS
  <1>3. m \in Nat \ T /\ \A x \in Nat \ T : m =< x
    BY <1>1, <1>2, MinOfNaturals
  <1>4. m # 0
    BY <1>3
  <1>5. m - 1 \in Nat /\ m - 1 < m
    BY <1>3, <1>4
  <1>6. m - 1 \in T
    BY <1>3, <1>5
  <1>7. (m - 1) + 1 \in T
    BY <1>6
  <1> QED
    BY <1>3, <1>7

(* Quotient and remainder are the only ones of their kind. *)
LEMMA DivMod ==
    ASSUME NEW m \in Nat \ {0}, NEW a \in Int,
           NEW q \in Int, NEW r \in 0 .. (m - 1), a = m * q + r
    PROVE  a \div m = q /\ a % m = r
  OBVIOUS

LEMMA QuotientRemainder ==
    ASSUME NEW m \in Nat \ {0}, NEW a \in Int
    PROVE  \E q \in Int, r \in 0 .. (m - 1) : a = m * q + r /\ a \div m = q /\ a % m = r
  OBVIOUS

(* Dividing twice is dividing by the product. *)
LEMMA DivDiv ==
    ASSUME NEW b \in Nat \ {0}, NEW w \in Nat \ {0}, NEW x \in Nat
    PROVE  x \div (b * w) = (x \div b) \div w
  <1>1. PICK q \in Int, r \in 0 .. (b - 1) : x = b * q + r /\ x \div b = q
    BY QuotientRemainder
  <1>2. PICK p \in Int, s \in 0 .. (w - 1) : q = w * p + s /\ q \div w = p
    BY QuotientRemainder
  <1>3. PICK m, t : m = b * w /\ t = b * s + r
    OBVIOUS
  <1>4. m \in Nat \ {0} /\ t \in 0 .. (m - 1)
    <2>1. b * s \in Nat /\ b * s =< b * (w - 1) /\ b * (w - 1) = b * w - b
      OBVIOUS
    <2>2. b * w \in Nat \ {0}
      OBVIOUS
    <2> QED
      BY <1>3, <2>1, <2>2
  <1>5. x = m * p + t
    <2>1. x = b * (w * p + s) + r
      BY <1>1, <1>2
    <2>2. b * (w * p + s) = (b * w) * p + b * s
      OBVIOUS
    <2>3. b * s \in Int /\ (b * w) * p \in Int
      OBVIOUS
    <2> QED
      BY <1>3, <2>1, <2>2, <2>3
  <1>6. x \div m = p
    BY <1>4, <1>5, DivMod
  <1> QED
    BY <1>1, <1>2, <1>3, <1>6

LEMMA SmallMod ==
    ASSUME NEW m \in Nat \ {0}, NEW a \in 0 .. (m - 1)
    PROVE  a % m = a
  OBVIOUS

(* A summand may be reduced before the sum is, or subtracted again after.  *)
LEMMA ModOfSum ==
    ASSUME NEW m \in Nat \ {0}, NEW a \in Int, NEW b \in Int
    PROVE  /\ (a + (b % m)) % m = (a + b) % m
           /\ (((a + b) % m) - a) % m = b % m
  <1>1. PICK q \in Int, r \in 0 .. (m - 1) : b = m * q + r /\ b % m = r
    OBVIOUS
  <1>2. PICK p \in Int, s \in 0 .. (m - 1) : a + b = m * p + s /\ (a + b) % m = s
    OBVIOUS
  <1>3. a + r = m * (p - q) + s /\ a + r \in Int /\ p - q \in Int
    BY <1>1, <1>2
  <1>4. (a + r) % m = s
    BY <1>3, DivMod
  <1>5. s - a = m * (q - p) + r /\ s - a \in Int /\ q - p \in Int
    BY <1>1, <1>2
  <1>6. (s - a) % m = r
    BY <1>5, DivMod
  <1> QED
    BY <1>1, <1>2, <1>4, <1>6

(* Fits, Tails and FindUnsetBits of module Bitmap for a map of any size T. *)
FitsIn(T, bits, n) ==
    {s \in 0 .. (T - 1) : s + n =< T /\ (s .. (s + n - 1)) \cap bits = {}}

TailsIn(T, bits) == {s \in 0 .. (T - 1) : (s .. (T - 1)) \cap bits = {}}

SearchIn(T, bits, n) ==
    IF FitsIn(T, bits, n) # {} THEN Min(FitsIn(T, bits, n))
    ELSE IF TailsIn(T, bits) # {} THEN Min(TailsIn(T, bits))
    ELSE -1

(***************************************************************************)
(* What FindUnsetBits promises a caller: -1, or the start of a run that    *)
(* meets no set bit; a run that leaves the map is returned only when none  *)
(* fits (Bitmap.h:58-84).                                                  *)
(***************************************************************************)
LEMMA SearchResult ==
    ASSUME NEW T \in Nat \ {0}, NEW bits \in SUBSET (0 .. (T - 1)), NEW n \in Nat \ {0},
           NEW f, f = SearchIn(T, bits, n), f # -1
    PROVE  /\ f \in 0 .. (T - 1)
           /\ (f .. (f + n - 1)) \cap bits = {}
           /\ f + n =< T \/ FitsIn(T, bits, n) = {}
  <1>1. CASE FitsIn(T, bits, n) # {}
    <2>1. FitsIn(T, bits, n) \in SUBSET Nat
      BY DEF FitsIn
    <2>2. f \in FitsIn(T, bits, n)
      BY <2>1, <1>1, MinOfNaturals DEF SearchIn
    <2> QED
      BY <2>2 DEF FitsIn
  <1>2. CASE FitsIn(T, bits, n) = {} /\ TailsIn(T, bits) # {}
    <2>1. TailsIn(T, bits) \in SUBSET Nat
      BY DEF TailsIn
    <2>2. f \in TailsIn(T, bits)
      BY <2>1, <1>2, MinOfNaturals DEF SearchIn
    <2>3. (f .. (f + n - 1)) \cap bits = {}
      BY <2>2 DEF TailsIn
    <2> QED
      BY <1>2, <2>2, <2>3 DEF TailsIn
  <1> QED
    BY <1>1, <1>2 DEF SearchIn
=============================================================================
