--------------------------- MODULE AdmissionProofs ---------------------------
(***************************************************************************)
(* What holds of the node's offers for every host, request, VRAM report and *)
(* word size: the widths are the largest that fit, nothing accepted needs   *)
(* more memory than there is, and a bid is honoured.  And of the circuits   *)
(* it admits, whatever values they hold: what it hands on is as sound as    *)
(* what it checked, and a signature is never lost to another spelling.      *)
(***************************************************************************)
EXTENDS Admission, FiniteSetTheorems, SequenceTheorems, WellFoundedInduction, TLAPS

-----------------------------------------------------------------------------
(* Arithmetic                                                              *)

\* Every set of naturals that is not empty has a least element.
LEMMA Least ==
  ASSUME NEW T, T \subseteq Nat, T # {}
  PROVE  \E x \in T : \A y \in T : x <= y
<1>1. \A x \in Nat, y \in Nat : x < y => <<x, y>> \in OpToRel(<, Nat)
  BY Zenon DEF OpToRel
<1>2. PICK R : /\ IsWellFoundedOn(R, Nat)
               /\ \A x \in Nat, y \in Nat : x < y => <<x, y>> \in R
  BY <1>1, NatLessThanWellFounded, Zenon
<1>3. IsWellFoundedOn(R, Nat)
  BY <1>2
<1>4. PICK x \in T : \A y \in T : ~(<<y, x>> \in R)
  BY <1>3, WFMin
<1>5. \A y \in T : ~(y < x)
  BY <1>2, <1>4, Zenon
<1> QED BY <1>5

\* Powers of two count subsets, so that they are positive and double.
LEMMA PowerPositive ==
  ASSUME NEW n \in Nat
  PROVE  2^n \in Nat \ {0}
<1>1. IsFiniteSet(1..n) /\ Cardinality(1..n) = n
  BY FS_Interval
<1>2. IsFiniteSet(SUBSET (1..n)) /\ Cardinality(SUBSET (1..n)) = 2^n
  BY <1>1, FS_SUBSET
<1>3. Cardinality(SUBSET (1..n)) \in Nat
  BY <1>2, FS_CardinalityType
<1>4. Cardinality(SUBSET (1..n)) # 0
  BY <1>2, FS_EmptySet
<1> QED BY <1>2, <1>3, <1>4

LEMMA PowerDoubles ==
  ASSUME NEW n \in Nat
  PROVE  2^(n + 1) = 2 * 2^n
<1> DEFINE S == 1..n
           A == SUBSET S
           B == {X \cup {n + 1} : X \in A}
           f == [X \in A |-> X \cup {n + 1}]
<1>1. IsFiniteSet(S) /\ Cardinality(S) = n /\ IsFiniteSet(1..(n + 1)) /\ Cardinality(1..(n + 1)) = n + 1
  BY FS_Interval
<1>2. IsFiniteSet(A) /\ Cardinality(A) = 2^n
  BY <1>1, FS_SUBSET
<1>3. Cardinality(SUBSET (1..(n + 1))) = 2^(n + 1)
  BY <1>1, FS_SUBSET
<1>4. f \in Bijection(A, B)
  <2>1. f \in [A -> B]
    OBVIOUS
  <2>2. ASSUME NEW X \in A, NEW Y \in A, f[X] = f[Y] PROVE X = Y
    <3>1. n + 1 \notin X /\ n + 1 \notin Y
      OBVIOUS
    <3>2. X \cup {n + 1} = Y \cup {n + 1}
      BY <2>2
    <3> QED BY <3>1, <3>2
  <2>3. \A b \in B : \E X \in A : f[X] = b
    OBVIOUS
  <2> HIDE DEF f, A, B
  <2> QED BY <2>1, <2>2, <2>3 DEF Bijection, Injection, Surjection, IsInjective
<1>5. IsFiniteSet(B) /\ Cardinality(B) = Cardinality(A)
  BY <1>2, <1>4, FS_Bijection DEF ExistsBijection
<1>6. A \cap B = {}
  OBVIOUS
<1>7. SUBSET (1..(n + 1)) = A \cup B
  <2>1. ASSUME NEW Z \in SUBSET (1..(n + 1)) PROVE Z \in A \cup B
    <3>1. CASE n + 1 \in Z
      <4>1. Z \ {n + 1} \in A
        OBVIOUS
      <4>2. Z = (Z \ {n + 1}) \cup {n + 1}
        BY <3>1
      <4> QED BY <4>1, <4>2
    <3>2. CASE n + 1 \notin Z
      BY <3>2
    <3> QED BY <3>1, <3>2
  <2>2. ASSUME NEW Z \in A \cup B PROVE Z \in SUBSET (1..(n + 1))
    OBVIOUS
  <2> QED BY <2>1, <2>2
<1> HIDE DEF A, B
<1>8. Cardinality(A \cup B) = Cardinality(A) + Cardinality(B)
  <2>1. Cardinality(A \cap B) = 0
    BY <1>6, FS_EmptySet
  <2>2. Cardinality(A \cup B) = Cardinality(A) + Cardinality(B) - Cardinality(A \cap B)
    BY <1>2, <1>5, FS_Union
  <2> QED BY <1>2, <1>5, <2>1, <2>2, FS_CardinalityType
<1>9. 2^(n + 1) = 2^n + 2^n
  BY <1>2, <1>3, <1>5, <1>7, <1>8
<1>10. 2^n \in Nat
  BY PowerPositive
<1> HIDE DEF S, f
<1> QED BY <1>9, <1>10

LEMMA Words ==
  /\ WordMax \in Nat /\ 2^WordBits = WordMax + 1 /\ WordBits \in Nat /\ WordBits >= 2
  /\ GiB \in Nat \ {0} /\ GiB < WordMax
  /\ AmpBytes \in Nat /\ AmpBytes >= 2 /\ AmpBytes < SiteBytes
  /\ SiteBytes \in Nat \ {0} /\ SiteBytes <= WordMax
<1>1. 2^WordBits \in Nat \ {0} /\ WordBits \in Nat
  BY PowerPositive, BudgetConstants
<1>2. WordMax \in Nat /\ 2^WordBits = WordMax + 1
  BY <1>1 DEF WordMax
<1>3. /\ GiB \in Nat \ {0} /\ GiB < WordMax
      /\ AmpBytes \in Nat /\ AmpBytes >= 2 /\ AmpBytes < SiteBytes
      /\ SiteBytes \in Nat \ {0} /\ SiteBytes <= WordMax
  BY <1>2, BudgetConstants
<1>4. ASSUME WordBits = 1 PROVE FALSE
  <2>1. 2^1 = 2
    OBVIOUS
  <2>2. 2^WordBits = 2
    BY <1>4, <2>1
  <2>3. WordMax = 1
    BY <1>2, <2>2
  <2> QED BY <1>3, <2>3
<1> QED BY <1>1, <1>2, <1>3, <1>4, BudgetConstants

\* What division of naturals gives.
LEMMA Division ==
  ASSUME NEW a \in Nat, NEW b \in Nat \ {0}
  PROVE  /\ a \div b \in Nat
         /\ (a \div b) * b <= a
         /\ a < (a \div b + 1) * b
OBVIOUS

\* Products of naturals grow with their factors.
LEMMA Products ==
  ASSUME NEW a \in Nat, NEW b \in Nat, NEW c \in Nat, a <= b
  PROVE  a * c <= b * c /\ a * c \in Nat /\ b * c \in Nat
OBVIOUS

-----------------------------------------------------------------------------
(* Widths                                                                  *)

\* The loop of max_qubits_from_dense_memory_budget ends, and one less than where
\* it ends is the width it returns.
LEMMA DenseLoop ==
  ASSUME NEW budget \in Nat, budget >= AmpBytes
  PROVE  /\ DenseQubits(budget) \in 0..WordBits - 2
         /\ \A m \in 0..DenseQubits(budget) : LoopGoesOn(m, budget)
         /\ ~ LoopGoesOn(DenseQubits(budget) + 1, budget)
<1> DEFINE Exit(n) == ~ LoopGoesOn(n, budget) /\ \A m \in 0..n - 1 : LoopGoesOn(m, budget)
           T == {n \in 0..WordBits - 1 : ~ LoopGoesOn(n, budget)}
<1>1. WordBits - 1 \in T
  BY Words DEF LoopGoesOn
<1>2. T \subseteq Nat
  BY Words
<1>3. PICK n \in T : \A m \in T : n <= m
  BY <1>1, <1>2, Least
<1>4. \A m \in 0..n - 1 : LoopGoesOn(m, budget)
  BY <1>3, Words
<1>5. \E x \in 0..WordBits - 1 : Exit(x)
  BY <1>3, <1>4
<1> DEFINE exit == CHOOSE x \in 0..WordBits - 1 : Exit(x)
<1>6. exit \in 0..WordBits - 1 /\ Exit(exit)
  BY <1>5
<1>7. LoopGoesOn(0, budget)
  <2>1. 2^0 = 1
    OBVIOUS
  <2>2. AmpBytes * 2^0 = AmpBytes
    BY <2>1, Words
  <2> QED BY <2>2, Words DEF LoopGoesOn, SaturatingMul, Lesser
<1>8. DenseQubits(budget) = SaturatingSub(exit, 1)
  BY Words DEF DenseQubits
<1> HIDE DEF exit
<1>9. exit # 0
  BY <1>6, <1>7
<1>10. DenseQubits(budget) = exit - 1
  BY <1>6, <1>8, <1>9, Words DEF SaturatingSub, Greater
<1> QED BY <1>6, <1>9, <1>10, Words

\* For every budget below the largest word the dense width is exact, saturation or
\* not: each width up to it fits, the next does not.
LEMMA DenseExact ==
  ASSUME NEW budget \in Nat, budget < WordMax
  PROVE  /\ DenseQubits(budget) \in 0..WordBits - 2
         /\ \A m \in 1..DenseQubits(budget) : AmpBytes * 2^m <= budget
         /\ budget < AmpBytes * 2^(DenseQubits(budget) + 1)
<1>1. CASE budget < AmpBytes
  <2>1. DenseQubits(budget) = 0
    BY <1>1 DEF DenseQubits
  <2>2. 2^(0 + 1) = 2
    OBVIOUS
  <2> QED BY <1>1, <2>1, <2>2, Words
<1>2. CASE budget >= AmpBytes
  <2> DEFINE q == DenseQubits(budget)
  <2>1. q \in 0..WordBits - 2 /\ (\A m \in 0..q : LoopGoesOn(m, budget)) /\ ~ LoopGoesOn(q + 1, budget)
    BY <1>2, DenseLoop
  <2> HIDE DEF q
  <2>2. ASSUME NEW m \in 1..q PROVE AmpBytes * 2^m <= budget
    <3>1. AmpBytes * 2^m \in Nat
      BY <2>1, PowerPositive, Words
    <3>2. SaturatingMul(AmpBytes, 2^m) <= budget
      BY <2>1, Words DEF LoopGoesOn
    <3> QED BY <3>1, <3>2, Words DEF SaturatingMul, Lesser
  <2>3. budget < AmpBytes * 2^(q + 1)
    <3>1. q + 1 \in Nat /\ 2^(q + 1) \in Nat
      BY <2>1, PowerPositive, Words
    <3>2. CASE q + 1 = WordBits - 1
      <4>1. 2^WordBits = 2 * 2^(q + 1)
        <5>1. WordBits = (q + 1) + 1
          BY <3>1, <3>2, Words
        <5> QED BY <3>1, <5>1, PowerDoubles
      <4>2. 2 * 2^(q + 1) <= AmpBytes * 2^(q + 1)
        BY <3>1, Words, Products
      <4> QED BY <3>1, <4>1, <4>2, Words
    <3>3. CASE q + 1 # WordBits - 1
      <4>1. AmpBytes * 2^(q + 1) \in Nat
        BY <3>1, Words
      <4>2. ~ (SaturatingMul(AmpBytes, 2^(q + 1)) <= budget)
        BY <2>1, <3>3, Words DEF LoopGoesOn
      <4> QED BY <4>1, <4>2, Words DEF SaturatingMul, Lesser
    <3> QED BY <3>2, <3>3
  <2> QED BY <2>1, <2>2, <2>3 DEF q
<1> QED BY <1>1, <1>2, Words

\* The MPS width is exact, or the most that a bid can carry.
LEMMA MpsExact ==
  ASSUME NEW budget \in Nat
  PROVE  /\ MpsQubits(budget) \in 0..BidMax
         /\ MpsQubits(budget) * SiteBytes <= budget
         /\ budget < (MpsQubits(budget) + 1) * SiteBytes \/ MpsQubits(budget) = BidMax
         /\ MpsQubits(budget) = 0 <=> budget < SiteBytes
<1> DEFINE d == budget \div SiteBytes
<1>1. d \in Nat /\ d * SiteBytes <= budget /\ budget < (d + 1) * SiteBytes
  BY Words, Division
<1> HIDE DEF d
<1>2. CASE budget < SiteBytes
  BY <1>2, Words, BudgetConstants DEF MpsQubits
<1>3. CASE budget >= SiteBytes
  <2>1. MpsQubits(budget) = Lesser(d, BidMax)
    BY <1>3, Words DEF MpsQubits, d
  <2>2. d # 0
    BY <1>1, <1>3, Words
  <2>3. CASE d < BidMax
    BY <1>1, <1>3, <2>1, <2>2, <2>3, BudgetConstants DEF Lesser
  <2>4. CASE d >= BidMax
    <3>1. MpsQubits(budget) = BidMax
      BY <1>1, <2>1, <2>4, BudgetConstants DEF Lesser
    <3>2. BidMax * SiteBytes <= d * SiteBytes /\ BidMax * SiteBytes \in Nat /\ d * SiteBytes \in Nat
      BY <1>1, <2>4, Words, BudgetConstants, Products
    <3> QED BY <1>1, <1>3, <3>1, <3>2, BudgetConstants
  <2> QED BY <1>1, <2>3, <2>4, BudgetConstants
<1> QED BY <1>2, <1>3, Words

-----------------------------------------------------------------------------
(* Budgets                                                                 *)

\* What the host can spare beside its reserve.
HostFits(bytes, total) ==
  LET whole == (total \div GiB) * GiB
      reserve == IF total >= LargeHostGiB * GiB THEN 2 * GiB ELSE GiB
  IN  bytes + reserve <= whole \/ bytes <= GiB

\* max_wqc_memory_bytes_from_total is exactly that, and never saturates.
LEMMA HostExact ==
  ASSUME NEW total \in 0..WordMax
  PROVE  /\ MaxBytesFromTotal(total) \in Nat /\ MaxBytesFromTotal(total) < WordMax
         /\ \A bytes \in Nat : HostFits(bytes, total) <=> bytes <= MaxBytesFromTotal(total)
<1> DEFINE q == total \div GiB
           r == HostReserveGiB(q)
<1>0. total \in Nat /\ total <= WordMax
  BY Words
<1>1. q \in Nat /\ q * GiB <= total /\ total < (q + 1) * GiB
  BY <1>0, Words, Division
<1>2. total >= LargeHostGiB * GiB <=> q >= LargeHostGiB
  <2>1. LargeHostGiB \in Nat /\ LargeHostGiB * GiB \in Nat /\ q * GiB \in Nat /\ (q + 1) * GiB \in Nat
    BY <1>1, Words, BudgetConstants
  <2>2. q >= LargeHostGiB => LargeHostGiB * GiB <= q * GiB
    BY <1>1, <2>1, Words, Products
  <2>3. q + 1 <= LargeHostGiB => (q + 1) * GiB <= LargeHostGiB * GiB
    <3>1. q + 1 \in Nat
      BY <1>1
    <3> QED BY <3>1, <2>1, Words, Products
  <2> HIDE DEF q
  <2> QED BY <1>0, <1>1, <2>1, <2>2, <2>3
<1>3. r \in {1, 2} /\ r * GiB = IF total >= LargeHostGiB * GiB THEN 2 * GiB ELSE GiB
  BY <1>2, Words DEF HostReserveGiB
<1>4. MaxBytesFromTotal(total) = SaturatingMul(MaxGiBFromTotal(q), GiB)
  BY DEF MaxBytesFromTotal
<1>5. \A bytes \in Nat : HostFits(bytes, total) <=> (bytes + r * GiB <= q * GiB \/ bytes <= GiB)
  BY <1>3 DEF HostFits
<1>6. MaxGiBFromTotal(q) = IF q - r >= 1 THEN q - r ELSE 1
  BY <1>1, <1>3 DEF MaxGiBFromTotal, Greater, SaturatingSub
<1> HIDE DEF q, r
<1>7. CASE q - r >= 1
  <2>1. q - r \in Nat /\ (q - r) * GiB = q * GiB - r * GiB /\ q * GiB \in Nat /\ r * GiB \in Nat
    BY <1>1, <1>3, <1>7, Words
  <2>2. (q - r) * GiB \in Nat /\ (q - r) * GiB < WordMax
    BY <1>0, <1>1, <1>3, <2>1, Words
  <2>3. MaxBytesFromTotal(total) = (q - r) * GiB
    BY <1>4, <1>6, <1>7, <2>2, Words DEF SaturatingMul, Lesser
  <2>4. GiB <= (q - r) * GiB
    <3>1. 1 * GiB <= (q - r) * GiB
      BY <1>7, <2>1, Words, Products
    <3> QED BY <3>1, Words
  <2> QED BY <1>5, <2>1, <2>2, <2>3, <2>4, Words
<1>8. CASE ~ (q - r >= 1)
  <2>1. q <= r /\ r \in Nat
    BY <1>1, <1>3, <1>8
  <2>2. q * GiB <= r * GiB /\ q * GiB \in Nat /\ r * GiB \in Nat
    BY <1>1, <2>1, Words, Products
  <2>3. MaxBytesFromTotal(total) = GiB
    BY <1>4, <1>6, <1>8, Words DEF SaturatingMul, Lesser
  <2> QED BY <1>5, <2>2, <2>3, Words
<1> QED BY <1>7, <1>8

\* effective_memory_bytes: the host's share, or the request when that is less.
LEMMA EffectiveExact ==
  ASSUME NEW total \in 0..WordMax, NEW request \in Int
  PROVE  /\ EffectiveBytes(request, total) \in Nat /\ EffectiveBytes(request, total) < WordMax
         /\ \A bytes \in Nat :
              bytes <= EffectiveBytes(request, total) <=>
                /\ request # Unset => bytes <= Greater(request, 0)
                /\ HostFits(bytes, total)
<1> DEFINE m == MaxBytesFromTotal(total)
<1>1. m \in Nat /\ m < WordMax /\ \A bytes \in Nat : HostFits(bytes, total) <=> bytes <= m
  BY HostExact
<1> HIDE DEF m
<1>2. EffectiveBytes(request, total) = IF request = Unset THEN m ELSE Lesser(Greater(request, 0), m)
  BY DEF EffectiveBytes, m
<1> QED BY <1>1, <1>2, Words DEF Lesser, Greater

\* What host, operator and adapter can spare, as Fits says of the state.
Spared(bytes, request, total, vram) ==
  /\ request # Unset => bytes <= Greater(request, 0)
  /\ HostFits(bytes, total)
  /\ vram # Unset => bytes + GiB <= vram

\* The budget of apply_core_sysinfo: nothing above it can be spared, and all of it
\* can but one amplitude, which an adapter smaller than its reserve is granted.
LEMMA BudgetExact ==
  ASSUME NEW total \in 0..WordMax, NEW request \in Int, NEW vram \in {Unset} \cup 1..WordMax,
         NEW budget, budget = WithVram(EffectiveBytes(request, total), vram).bytes
  PROVE  /\ budget \in Nat /\ budget < WordMax
         /\ \A bytes \in Nat :
              /\ bytes > budget => ~ Spared(bytes, request, total, vram)
              /\ bytes <= budget /\ bytes > AmpBytes => Spared(bytes, request, total, vram)
<1> DEFINE e == EffectiveBytes(request, total)
<1>1. /\ e \in Nat /\ e < WordMax
      /\ \A bytes \in Nat : bytes <= e <=>
           /\ request # Unset => bytes <= Greater(request, 0)
           /\ HostFits(bytes, total)
  BY EffectiveExact
<1> HIDE DEF e
<1>2. \A bytes \in Nat : Spared(bytes, request, total, vram)
        <=> bytes <= e /\ (vram # Unset => bytes + GiB <= vram)
  BY <1>1 DEF Spared
<1>3. CASE vram = Unset
  <2>1. budget = e
    BY <1>3 DEF WithVram, Unset, e
  <2> QED BY <1>1, <1>2, <1>3, <2>1
<1>4. CASE vram \in 1..WordMax
  <2>0. vram \in Nat /\ vram > 0 /\ vram # Unset /\ vram <= WordMax
    BY <1>4, Words DEF Unset
  <2> DEFINE usable == Greater(SaturatingSub(vram, GiB), AmpBytes)
  <2>1. usable \in Nat /\ usable >= AmpBytes /\ usable >= vram - GiB
        /\ (usable = AmpBytes \/ usable = vram - GiB)
    BY <2>0, Words DEF Greater, SaturatingSub
  <2>2. budget = IF usable < e THEN usable ELSE e
    BY <2>0 DEF WithVram, e
  <2> HIDE DEF usable
  <2> QED BY <1>1, <1>2, <2>0, <2>1, <2>2, Words
<1> QED BY <1>3, <1>4

-----------------------------------------------------------------------------
(* Numbers, as go_json_float and encoding/json write them                  *)

\* Digits without zeros at either end.
Significant == {d \in Seq(0..9) : Len(d) # 0 /\ d[1] # 0 /\ d[Len(d)] # 0}

\* all is d between a and b zeros.
Padded(all, a, d, b) ==
  /\ all \in Seq(0..9) /\ Len(all) = a + Len(d) + b
  /\ \A i \in 1..Len(d) : all[a + i] = d[i]
  /\ \A i \in 1..Len(all) : i <= a \/ i > a + Len(d) => all[i] = 0

\* A float that is not zero begins and ends with a digit that is not zero.
LEMMA FloatFields ==
  ASSUME NEW f \in Float, f.digits # <<>>
  PROVE  /\ f = Number(f.neg, f.digits, f.exp)
         /\ f.neg \in BOOLEAN /\ f.digits \in Significant /\ f.exp \in Int
<1>1. f \in [neg : BOOLEAN, digits : Seq(0..9), exp : Int]
  BY DEF Float
<1>2. f.digits[1] # 0 /\ f.digits[Len(f.digits)] # 0
  BY DEF Float
<1>3. f = Number(f.neg, f.digits, f.exp) /\ f.neg \in BOOLEAN /\ f.digits \in Seq(0..9) /\ f.exp \in Int
  BY <1>1 DEF Number
<1>4. Len(f.digits) # 0
  BY <1>3
<1> QED BY <1>2, <1>3, <1>4 DEF Significant

\* The digits of a number with zeros on either side are found again.
LEMMA TrimmedDigits ==
  ASSUME NEW d \in Significant, NEW a \in Nat, NEW b \in Nat, NEW all, Padded(all, a, d, b)
  PROVE  SelectInSeq(all, NonZero) = a + 1 /\ Trimmed(all) = d
<1> d \in Seq(0..9) /\ Len(d) # 0 /\ d[1] # 0 /\ d[Len(d)] # 0
  BY DEF Significant
<1> /\ all \in Seq(0..9) /\ Len(all) = a + Len(d) + b
    /\ \A i \in 1..Len(d) : all[a + i] = d[i]
    /\ \A i \in 1..Len(all) : i <= a \/ i > a + Len(d) => all[i] = 0
  BY DEF Padded
<1> DEFINE n == Len(d)
           I == {i \in 1..Len(all) : all[i] # 0}
<1>1. n \in Nat \ {0} /\ Len(all) \in Nat
  OBVIOUS
<1>2. a + 1 \in I
  <2>1. 1 \in 1..n /\ a + 1 \in 1..Len(all)
    BY <1>1
  <2> QED BY <2>1
<1>3. a + n \in I
  <2>1. n \in 1..n /\ a + n \in 1..Len(all)
    BY <1>1
  <2> QED BY <2>1
<1>4. \A i \in I : i \in Nat /\ a + 1 <= i /\ i <= a + n
  <2> SUFFICES ASSUME NEW i \in I PROVE i \in Nat /\ a + 1 <= i /\ i <= a + n
    OBVIOUS
  <2>1. i \in 1..Len(all) /\ ~(i <= a \/ i > a + n)
    OBVIOUS
  <2> HIDE DEF I, n
  <2> QED BY <1>1, <2>1
<1>5. Min(I) = a + 1
  <2>1. \A y \in I : a + 1 <= y
    BY <1>4
  <2>2. \A x \in I : (\A y \in I : x <= y) => x = a + 1
    <3> HIDE DEF I, n
    <3> QED BY <1>2, <1>4, <2>1
  <2> HIDE DEF I, n
  <2> QED BY <1>2, <2>1, <2>2 DEF Min
<1>6. Max(I) = a + n
  <2>1. \A y \in I : a + n >= y
    <3> HIDE DEF I, n
    <3> QED BY <1>1, <1>4
  <2>2. \A x \in I : (\A y \in I : x >= y) => x = a + n
    <3> HIDE DEF I, n
    <3> QED BY <1>1, <1>3, <1>4, <2>1
  <2> HIDE DEF I, n
  <2> QED BY <1>3, <2>1, <2>2 DEF Max
<1>7. SelectInSeq(all, NonZero) = a + 1 /\ SelectLastInSeq(all, NonZero) = a + n
  <2>1. /\ SelectInSeq(all, NonZero) = IF I # {} THEN Min(I) ELSE 0
        /\ SelectLastInSeq(all, NonZero) = IF I # {} THEN Max(I) ELSE 0
    BY DEF SelectInSeq, SelectLastInSeq, NonZero
  <2>2. I # {}
    BY <1>2
  <2> HIDE DEF I, n
  <2> QED BY <1>5, <1>6, <2>1, <2>2
<1>8. Trimmed(all) = d
  <2>1. Trimmed(all) = SubSeq(all, a + 1, a + n)
    BY <1>7 DEF Trimmed
  <2>2. /\ a + 1 \in Int /\ a + n \in Int /\ a + n <= Len(all) /\ a + 1 >= 1
        /\ (a + n) - (a + 1) + 1 = n
    BY <1>1
  <2>3. SubSeq(all, a + 1, a + n) \in Seq(0..9) /\ Len(SubSeq(all, a + 1, a + n)) = n
    BY <1>1, <2>2
  <2>4. \A i \in 1..n : SubSeq(all, a + 1, a + n)[i] = all[a + i]
    <3> SUFFICES ASSUME NEW i \in 1..n PROVE SubSeq(all, a + 1, a + n)[i] = all[a + i]
      OBVIOUS
    <3>1. (a + 1) + i - 1 = a + i
      BY <1>1
    <3> QED BY <1>1, <2>2, <3>1
  <2>5. \A i \in 1..n : SubSeq(all, a + 1, a + n)[i] = d[i]
    BY <2>4
  <2> QED BY <2>1, <2>3, <2>5
<1> QED BY <1>7, <1>8

\* A run of zeros.
LEMMA ZerosAt ==
  ASSUME NEW k \in Nat
  PROVE  Zeros(k) \in Seq(0..9) /\ Len(Zeros(k)) = k /\ \A i \in 1..k : Zeros(k)[i] = 0
<1>1. Zeros(k) \in [1..k -> 0..9]
  BY DEF Zeros
<1>2. Zeros(k) \in Seq(0..9)
  BY <1>1
<1>3. DOMAIN Zeros(k) = 1..k /\ \A i \in 1..k : Zeros(k)[i] = 0
  BY DEF Zeros
<1> QED BY <1>2, <1>3

\* Digits without zeros around them.
LEMMA Unpadded ==
  ASSUME NEW d \in Significant
  PROVE  Padded(d, 0, d, 0)
<1>1. d \in Seq(0..9) /\ Len(d) \in Nat
  BY LenProperties DEF Significant
<1>2. Len(d) = 0 + Len(d) + 0 /\ \A i \in 1..Len(d) : 0 + i = i /\ ~(i <= 0 \/ i > 0 + Len(d))
  BY <1>1
<1> QED BY <1>1, <1>2 DEF Padded

\* Zeros behind.
LEMMA PadRight ==
  ASSUME NEW d \in Significant, NEW a \in Nat, NEW b \in Nat, NEW all, Padded(all, a, d, b), NEW k \in Nat
  PROVE  Padded(all \o Zeros(k), a, d, b + k)
<1>1. PICK n \in Nat : n = Len(d)
  BY LenProperties DEF Significant
<1>2. /\ all \in Seq(0..9) /\ Len(all) = a + n + b
      /\ \A i \in 1..n : all[a + i] = d[i]
      /\ \A i \in 1..Len(all) : i <= a \/ i > a + n => all[i] = 0
  BY <1>1 DEF Padded
<1>3. PICK z \in Seq(0..9) : z = Zeros(k) /\ Len(z) = k /\ \A i \in 1..k : z[i] = 0
  BY ZerosAt
<1>4. PICK w : w = all \o z
  OBVIOUS
<1>5. /\ w \in Seq(0..9) /\ Len(w) = Len(all) + k
      /\ \A i \in 1..Len(all) + k : w[i] = IF i <= Len(all) THEN all[i] ELSE z[i - Len(all)]
  <2>1. /\ all \o z \in Seq(0..9) /\ Len(all \o z) = Len(all) + Len(z)
        /\ \A i \in 1..Len(all) + Len(z) : (all \o z)[i] = IF i <= Len(all) THEN all[i] ELSE z[i - Len(all)]
    BY <1>2, ConcatProperties
  <2> QED BY <1>3, <1>4, <2>1
<1>6. Len(w) = a + n + (b + k)
  BY <1>2, <1>5
<1>7. ASSUME NEW i \in 1..n PROVE w[a + i] = d[i]
  <2>1. a + i \in 1..Len(all) + k /\ a + i <= Len(all)
    BY <1>2
  <2> QED BY <1>2, <1>5, <2>1
<1>8. ASSUME NEW i \in 1..Len(w), i <= a \/ i > a + n PROVE w[i] = 0
  <2>1. i \in 1..Len(all) + k
    BY <1>5
  <2>2. CASE i <= Len(all)
    <3>1. i \in 1..Len(all)
      BY <1>2, <2>1, <2>2
    <3> QED BY <1>2, <1>5, <1>8, <2>1, <2>2, <3>1
  <2>3. CASE ~ (i <= Len(all))
    <3>1. i - Len(all) \in 1..k
      BY <1>2, <2>1, <2>3
    <3> QED BY <1>3, <1>5, <2>1, <2>3, <3>1
  <2> QED BY <2>2, <2>3
<1> QED BY <1>1, <1>3, <1>4, <1>5, <1>6, <1>7, <1>8 DEF Padded

\* Zeros before.
LEMMA PadLeft ==
  ASSUME NEW d \in Significant, NEW a \in Nat, NEW b \in Nat, NEW all, Padded(all, a, d, b), NEW k \in Nat
  PROVE  Padded(Zeros(k) \o all, k + a, d, b)
<1>1. PICK n \in Nat : n = Len(d)
  BY LenProperties DEF Significant
<1>2. /\ all \in Seq(0..9) /\ Len(all) = a + n + b
      /\ \A i \in 1..n : all[a + i] = d[i]
      /\ \A i \in 1..Len(all) : i <= a \/ i > a + n => all[i] = 0
  BY <1>1 DEF Padded
<1>3. PICK z \in Seq(0..9) : z = Zeros(k) /\ Len(z) = k /\ \A i \in 1..k : z[i] = 0
  BY ZerosAt
<1>4. PICK w : w = z \o all
  OBVIOUS
<1>5. /\ w \in Seq(0..9) /\ Len(w) = k + Len(all)
      /\ \A i \in 1..k + Len(all) : w[i] = IF i <= k THEN z[i] ELSE all[i - k]
  <2>1. /\ z \o all \in Seq(0..9) /\ Len(z \o all) = Len(z) + Len(all)
        /\ \A i \in 1..Len(z) + Len(all) : (z \o all)[i] = IF i <= Len(z) THEN z[i] ELSE all[i - Len(z)]
    BY <1>2, ConcatProperties
  <2> QED BY <1>3, <1>4, <2>1
<1>6. Len(w) = (k + a) + n + b
  BY <1>2, <1>5
<1>7. ASSUME NEW i \in 1..n PROVE w[(k + a) + i] = d[i]
  <2>1. (k + a) + i \in 1..k + Len(all) /\ ~ ((k + a) + i <= k) /\ ((k + a) + i) - k = a + i
    BY <1>2
  <2> QED BY <1>2, <1>5, <2>1
<1>8. ASSUME NEW i \in 1..Len(w), i <= k + a \/ i > (k + a) + n PROVE w[i] = 0
  <2>1. i \in 1..k + Len(all)
    BY <1>5
  <2>2. CASE i <= k
    BY <1>3, <1>5, <2>1, <2>2
  <2>3. CASE ~ (i <= k)
    <3>1. i - k \in 1..Len(all) /\ (i - k <= a \/ i - k > a + n)
      BY <1>2, <1>8, <2>1, <2>3
    <3> QED BY <1>2, <1>5, <2>1, <2>3, <3>1
  <2> QED BY <2>2, <2>3
<1> QED BY <1>1, <1>3, <1>4, <1>5, <1>6, <1>7, <1>8 DEF Padded

\* Digits parted by the point are the same digits.
LEMMA PartsJoined ==
  ASSUME NEW d \in Seq(0..9), NEW k \in 1..Len(d)
  PROVE  Len(First(d, k)) = k /\ First(d, k) \o From(d, k) = d
<1>1. PICK n \in Nat : n = Len(d)
  BY LenProperties
<1>2. 1 \in 1..Len(d) + 1 /\ k \in 1 - 1..Len(d) /\ n \in k..Len(d)
  BY <1>1
<1>3. SubSeq(d, 1, k) \o SubSeq(d, k + 1, n) = SubSeq(d, 1, n)
  BY <1>2, ConcatAdjacentSubSeq, Zenon
<1>4. SubSeq(d, 1, Len(d)) = d
  BY SubSeqFull, Zenon
<1>5. Len(First(d, k)) = k
  BY <1>1 DEF First
<1>6. First(d, k) \o From(d, k) = d
  BY <1>1, <1>3, <1>4, Zenon DEF First, From
<1> QED BY <1>5, <1>6

\* What decimal_digits reads from a text whose digits are d between a and b zeros.
LEMMA Reading ==
  ASSUME NEW d \in Significant, NEW a \in Nat, NEW b \in Nat,
         NEW text, Padded(text.whole \o text.frac, a, d, b), Len(text.whole) \in Nat, text.e \in Int
  PROVE  DecimalDigits(text) = Number(text.neg, d, Len(text.whole) - 1 - a + text.e)
<1>1. PICK all : all = text.whole \o text.frac
  OBVIOUS
<1>2. SelectInSeq(all, NonZero) = a + 1 /\ Trimmed(all) = d
  BY <1>1, TrimmedDigits
<1>3. DecimalDigits(text) =
        Number(text.neg, Trimmed(all), Len(text.whole) - 1 - (SelectInSeq(all, NonZero) - 1) + text.e)
  BY <1>1 DEF DecimalDigits
<1>4. (a + 1) - 1 = a
  OBVIOUS
<1> QED BY <1>2, <1>3, <1>4

\* The zero that ryu writes before or behind the point.
LEMMA OneZero == <<0>> = Zeros(1) /\ Len(<<0>>) = 1
BY DEF Zeros

\* decimal_digits reads from ryu's text the number that ryu wrote.
LEMMA Reread ==
  ASSUME NEW f \in Float, f.digits # <<>>
  PROVE  DecimalDigits(Ryu(f)) = f
<1>1. PICK d \in Significant, exp \in Int, neg \in BOOLEAN :
        d = f.digits /\ exp = f.exp /\ neg = f.neg /\ f = Number(neg, d, exp)
  BY FloatFields
<1>2. PICK n \in Nat : n = Len(d) /\ n # 0 /\ d \in Seq(0..9)
  BY LenProperties DEF Significant
<1>3. PICK point \in Int : point = exp + 1
  OBVIOUS
<1>4. PICK zero \in Nat : zero = 0 /\ Padded(d, zero, d, zero)
  BY Unpadded
<1>5. PICK text : text = Ryu(f)
  OBVIOUS
<1>6. text =
        CASE point \in n..16         -> Text(neg, d \o Zeros(point - n), <<0>>, 0)
          [] point \in 1..16 \ n..16 -> Text(neg, First(d, point), From(d, point), 0)
          [] point \in -4..0         -> Text(neg, <<0>>, Zeros(-point) \o d, 0)
          [] OTHER                   -> Text(neg, First(d, 1), From(d, 1), exp)
  BY <1>1, <1>2, <1>3, <1>5, Zenon DEF Ryu
<1>7. SUFFICES \E a, b \in Nat : /\ text.neg = neg /\ Padded(text.whole \o text.frac, a, d, b)
                                 /\ Len(text.whole) \in Nat /\ text.e \in Int
                                 /\ Len(text.whole) - 1 - a + text.e = exp
  <2>1. PICK a, b \in Nat : /\ text.neg = neg /\ Padded(text.whole \o text.frac, a, d, b)
                            /\ Len(text.whole) \in Nat /\ text.e \in Int
                            /\ Len(text.whole) - 1 - a + text.e = exp
    BY <1>7
  <2>2. DecimalDigits(text) = Number(text.neg, d, Len(text.whole) - 1 - a + text.e)
    BY <2>1, Reading
  <2> QED BY <1>1, <1>5, <2>1, <2>2
<1>8. CASE point \in n..16
  <2>1. text = Text(neg, d \o Zeros(point - n), <<0>>, 0)
    BY <1>2, <1>6, <1>8
  <2>2. PICK b \in Nat : b = point - n
    BY <1>8
  <2>3. PICK w : w = d \o Zeros(b)
    OBVIOUS
  <2>4. text.neg = neg /\ text.whole = w /\ text.frac = <<0>> /\ text.e = 0
    <3>1. text = Text(neg, w, <<0>>, 0)
      BY <2>1, <2>2, <2>3
    <3> QED BY <3>1 DEF Text
  <2>5. Padded(w, zero, d, zero + b)
    BY <1>4, <2>3, PadRight
  <2>6. PICK c \in Nat, one \in Nat : c = zero + b /\ one = 1
    OBVIOUS
  <2>7. Padded(w \o Zeros(one), zero, d, c + one)
    BY <2>5, <2>6, PadRight
  <2>8. Padded(text.whole \o text.frac, zero, d, c + one) /\ c + one \in Nat
    BY <2>4, <2>6, <2>7, OneZero
  <2>9. Len(w) = n + b
    BY <1>2, <1>4, <2>5 DEF Padded
  <2>10. Len(text.whole) \in Nat /\ Len(text.whole) - 1 - zero + text.e = exp /\ text.e \in Int
    BY <1>3, <1>4, <2>2, <2>4, <2>9
  <2> QED BY <2>4, <2>8, <2>10
<1>9. ASSUME NEW k \in 1..n, NEW e \in Int, exp = k - 1 - zero + e,
             text = Text(neg, First(d, k), From(d, k), e)
      PROVE  \E a, b \in Nat : /\ text.neg = neg /\ Padded(text.whole \o text.frac, a, d, b)
                               /\ Len(text.whole) \in Nat /\ text.e \in Int
                               /\ Len(text.whole) - 1 - a + text.e = exp
  <2>1. Len(First(d, k)) = k /\ First(d, k) \o From(d, k) = d
    BY <1>2, PartsJoined
  <2>2. text.neg = neg /\ text.whole = First(d, k) /\ text.frac = From(d, k) /\ text.e = e
    BY <1>9 DEF Text
  <2>3. Padded(text.whole \o text.frac, zero, d, zero)
    BY <1>4, <2>1, <2>2
  <2>4. Len(text.whole) \in Nat /\ text.e \in Int /\ Len(text.whole) - 1 - zero + text.e = exp
    BY <1>9, <2>1, <2>2
  <2> QED BY <2>2, <2>3, <2>4
<1>10. CASE point \in 1..16 \ n..16
  <2>1. text = Text(neg, First(d, point), From(d, point), 0)
    BY <1>2, <1>6, <1>10
  <2>2. point \in 1..n /\ exp = point - 1 - zero + 0
    BY <1>3, <1>4, <1>10
  <2> QED BY <1>9, <2>1, <2>2
<1>11. CASE point \notin n..16 /\ point \notin 1..16 /\ point \notin -4..0
  <2>1. text = Text(neg, First(d, 1), From(d, 1), exp)
    BY <1>2, <1>6, <1>11
  <2>2. 1 \in 1..n /\ exp = 1 - 1 - zero + exp
    BY <1>2, <1>4
  <2> QED BY <1>9, <2>1, <2>2
<1>12. CASE point \in -4..0
  <2>1. text = Text(neg, <<0>>, Zeros(-point) \o d, 0)
    BY <1>2, <1>6, <1>12
  <2>2. PICK k \in Nat : k = -point
    BY <1>12
  <2>3. PICK w : w = Zeros(k) \o d
    OBVIOUS
  <2>4. text.neg = neg /\ text.whole = <<0>> /\ text.frac = w /\ text.e = 0
    <3>1. text = Text(neg, <<0>>, w, 0)
      BY <2>1, <2>2, <2>3
    <3> QED BY <3>1 DEF Text
  <2>5. Padded(w, k + zero, d, zero)
    BY <1>4, <2>3, PadLeft
  <2>6. PICK c \in Nat, one \in Nat : c = k + zero /\ one = 1
    OBVIOUS
  <2>7. Padded(Zeros(one) \o w, one + c, d, zero)
    BY <2>5, <2>6, PadLeft
  <2>8. PICK a \in Nat : a = one + c /\ Padded(text.whole \o text.frac, a, d, zero)
    BY <2>4, <2>6, <2>7, OneZero
  <2>9. Len(text.whole) \in Nat /\ Len(text.whole) - 1 - a + text.e = exp /\ text.e \in Int
    BY <1>3, <1>4, <2>2, <2>4, <2>6, <2>8, OneZero
  <2> QED BY <2>4, <2>8, <2>9
<1> QED BY <1>8, <1>10, <1>11, <1>12

\* A sequence is spelled digit by digit.
LEMMA Spelled ==
  ASSUME NEW u \in Seq(0..9), NEW n \in Nat, n = Len(u), NEW g, g = [i \in 1..n |-> u[i]]
  PROVE  g = u
<1>1. u \in [1..n -> 0..9]
  BY LenProperties
<1> QED BY <1>1

\* Digits before and behind the point.
LEMMA Parted ==
  ASSUME NEW d \in Seq(0..9), NEW k \in 1..Len(d)
  PROVE  /\ First(d, k) \in Seq(0..9) /\ Len(First(d, k)) = k /\ \A i \in 1..k : First(d, k)[i] = d[i]
         /\ From(d, k) \in Seq(0..9) /\ Len(From(d, k)) = Len(d) - k
         /\ \A i \in 1..(Len(d) - k) : From(d, k)[i] = d[k + i]
<1>1. PICK m \in Int, n \in Nat : m = k + 1 /\ n = Len(d)
  BY LenProperties
<1>2. First(d, k) \in Seq(0..9) /\ Len(First(d, k)) = k /\ \A i \in 1..k : First(d, k)[i] = d[i]
  BY <1>1 DEF First
<1>3. n \in Int /\ \A i \in m..n : d[i] \in 0..9
  BY <1>1
<1>4. /\ SubSeq(d, m, n) \in Seq(0..9)
      /\ Len(SubSeq(d, m, n)) = IF m <= n THEN n - m + 1 ELSE 0
      /\ \A i \in 1..n - m + 1 : SubSeq(d, m, n)[i] = d[m + i - 1]
  BY <1>3, SubSeqProperties
<1>5. From(d, k) = SubSeq(d, m, n)
  BY <1>1 DEF From
<1>6. Len(From(d, k)) = Len(d) - k
  BY <1>1, <1>4, <1>5
<1>7. ASSUME NEW i \in 1..(Len(d) - k) PROVE From(d, k)[i] = d[k + i]
  <2>1. i \in 1..n - m + 1 /\ m + i - 1 = k + i
    BY <1>1
  <2> QED BY <1>4, <1>5, <2>1
<1> QED BY <1>2, <1>4, <1>5, <1>6, <1>7

\* go_json_float lays a number out as encoding/json does, at every magnitude.
LEMMA NumberAlike ==
  ASSUME NEW f \in Float
  PROVE  GoJsonFloat(f) = GoNumber(f)
<1>1. CASE f.digits = <<>>
  <2>1. f.exp = 0
    BY <1>1 DEF Float
  <2>2. GoJsonFloat(f) = Text(f.neg, <<0>>, <<>>, 0)
    BY <1>1 DEF GoJsonFloat
  <2>3. PICK d : d = f.digits /\ Len(d) = 0 /\ DOMAIN d = {}
    BY <1>1
  <2>4. GoNumber(f) = Text(f.neg, [i \in 1..0 + 1 |-> 0], [i \in 1..0 |-> 0], 0)
    <3>1. 0 \in -6..20 /\ ~ (0 < 0) /\ ~ (0 + 1 - 0 < 0)
      OBVIOUS
    <3>2. GoNumber(f) = Text(f.neg, [i \in 1..0 + 1 |-> IF 0 - (0 + 1 - i) + 1 \in DOMAIN d THEN d[0 - (0 + 1 - i) + 1] ELSE 0],
                                    [i \in 1..0 |-> IF 0 - (-i) + 1 \in DOMAIN d THEN d[0 - (-i) + 1] ELSE 0], 0)
      BY <2>1, <2>3, <3>1 DEF GoNumber
    <3> QED BY <2>3, <3>2
  <2>5. [i \in 1..0 + 1 |-> 0] = <<0>> /\ [i \in 1..0 |-> 0] = <<>>
    OBVIOUS
  <2> QED BY <2>2, <2>4, <2>5
<1>2. CASE f.digits # <<>>
  <2>1. PICK d \in Significant, exp \in Int, neg \in BOOLEAN :
          d = f.digits /\ exp = f.exp /\ neg = f.neg /\ f = Number(neg, d, exp)
    BY <1>2, FloatFields
  <2>2. PICK n \in Nat : n = Len(d) /\ n # 0 /\ d \in Seq(0..9) /\ DOMAIN d = 1..n
    BY LenProperties DEF Significant
  <2> DEFINE top == IF exp < 0 THEN 0 ELSE exp
             behind == IF exp + 1 - n < 0 THEN -(exp + 1 - n) ELSE 0
             At(p) == IF exp - p + 1 \in 1..n THEN d[exp - p + 1] ELSE 0
             Whole == [i \in 1..top + 1 |-> At(top + 1 - i)]
             Frac == [i \in 1..behind |-> At(-i)]
  <2>3. GoJsonFloat(f) = IF exp \in -6..20 THEN PlainDecimal(f)
                         ELSE Text(neg, First(d, 1), From(d, 1), exp)
    BY <1>2, <2>1, Reread DEF GoJsonFloat
  <2>4. GoNumber(f) = IF exp \in -6..20 THEN Text(neg, Whole, Frac, 0)
                      ELSE Text(neg, <<Head(d)>>, Tail(d), exp)
    BY <2>1, <2>2, Zenon DEF GoNumber
  <2>5. PlainDecimal(f) =
          IF exp < 0 THEN Text(neg, <<0>>, Zeros(-exp - 1) \o d, 0)
          ELSE IF n <= exp + 1 THEN Text(neg, d \o Zeros(exp + 1 - n), <<>>, 0)
          ELSE Text(neg, First(d, exp + 1), From(d, exp + 1), 0)
    BY <2>1, <2>2, Zenon DEF PlainDecimal
  <2>6. CASE exp \notin -6..20
    <3>1. From(d, 1) = Tail(d)
      <4>1. Tail(d) = SubSeq(d, 2, Len(d))
        BY <2>2, TailIsSubSeq
      <4> QED BY <4>1 DEF From
    <3>2. First(d, 1) = <<Head(d)>>
      <4>1. PICK k \in 1..Len(d) : k = 1
        BY <2>2
      <4>2. First(d, k) \in Seq(0..9) /\ Len(First(d, k)) = k /\ \A i \in 1..k : First(d, k)[i] = d[i]
        BY <2>2, Parted
      <4>3. <<Head(d)>> \in Seq(0..9) /\ Len(<<Head(d)>>) = 1 /\ <<Head(d)>>[1] = d[1]
        BY <2>2
      <4> QED BY <4>1, <4>2, <4>3, SeqEqual
    <3> QED BY <2>3, <2>4, <2>6, <3>1, <3>2
  <2>7. CASE exp \in -6..20
    <3> SUFFICES PlainDecimal(f) = Text(neg, Whole, Frac, 0)
      BY <2>3, <2>4, <2>7
    <3>1. CASE exp < 0
      <4>1. Whole = <<0>>
        <5>1. Whole = [i \in 1..1 |-> 0]
          BY <2>2, <3>1
        <5> QED BY <5>1
      <4>2. PICK k \in Nat : k = -exp - 1
        BY <3>1
      <4>3. PICK z \in Seq(0..9) : z = Zeros(k) /\ Len(z) = k /\ \A i \in 1..k : z[i] = 0
        BY ZerosAt
      <4>4. PICK w \in Seq(0..9) : /\ w = z \o d /\ Len(w) = k + n
                                   /\ \A i \in 1..k + n : w[i] = IF i <= k THEN z[i] ELSE d[i - k]
        <5>1. /\ z \o d \in Seq(0..9) /\ Len(z \o d) = Len(z) + Len(d)
              /\ \A i \in 1..Len(z) + Len(d) :
                   (z \o d)[i] = IF i <= Len(z) THEN z[i] ELSE d[i - Len(z)]
          BY <2>2, <4>3, ConcatProperties
        <5>2. PICK w \in Seq(0..9) : w = z \o d
          BY <5>1
        <5>3. Len(w) = k + n /\ \A i \in 1..k + n : w[i] = IF i <= k THEN z[i] ELSE d[i - k]
          BY <2>2, <4>3, <5>1, <5>2
        <5> QED BY <5>2, <5>3
      <4>5. behind = k + n
        BY <2>2, <3>1, <4>2
      <4>6. ASSUME NEW i \in 1..k + n PROVE At(-i) = w[i]
        <5>1. exp - (-i) + 1 = i - k /\ (i <= k => i \in 1..k) /\ (i <= k <=> ~ (i - k \in 1..n))
          BY <2>2, <4>2
        <5>2. At(-i) = IF i - k \in 1..n THEN d[i - k] ELSE 0
          BY <5>1
        <5> HIDE DEF At
        <5> QED BY <4>3, <4>4, <5>1, <5>2
      <4>7. Frac = [i \in 1..k + n |-> w[i]]
        <5> HIDE DEF At, behind
        <5> QED BY <4>5, <4>6
      <4>8. Frac = w
        <5> HIDE DEF Frac
        <5>1. PICK m \in Nat : m = k + n
          BY <2>2
        <5> QED BY <4>4, <4>7, <5>1, Spelled
      <4> HIDE DEF Frac, Whole
      <4> QED BY <2>5, <3>1, <4>1, <4>2, <4>3, <4>4, <4>8
    <3>2. CASE ~ (exp < 0) /\ n <= exp + 1
      <4>1. behind = 0
        BY <2>2, <3>2
      <4>2. Frac = <<>>
        <5> HIDE DEF At, behind
        <5> QED BY <4>1
      <4>3. PICK k \in Nat : k = exp + 1 - n
        <5>1. exp + 1 - n \in Nat
          BY <2>2, <3>2
        <5> QED BY <5>1
      <4>4. PICK z \in Seq(0..9) : z = Zeros(k) /\ Len(z) = k /\ \A i \in 1..k : z[i] = 0
        BY ZerosAt
      <4>5. PICK w \in Seq(0..9) : /\ w = d \o z /\ Len(w) = n + k
                                   /\ \A i \in 1..n + k : w[i] = IF i <= n THEN d[i] ELSE z[i - n]
        <5>1. /\ d \o z \in Seq(0..9) /\ Len(d \o z) = Len(d) + Len(z)
              /\ \A i \in 1..Len(d) + Len(z) :
                   (d \o z)[i] = IF i <= Len(d) THEN d[i] ELSE z[i - Len(d)]
          BY <2>2, <4>4, ConcatProperties
        <5> QED BY <2>2, <4>4, <5>1
      <4>6. top + 1 = n + k
        BY <2>2, <3>2, <4>3
      <4>7. ASSUME NEW i \in 1..n + k PROVE At(top + 1 - i) = w[i]
        <5>1. /\ exp - (top + 1 - i) + 1 = i /\ (i <= n <=> i \in 1..n)
              /\ (~ (i <= n) => i - n \in 1..k)
          BY <2>2, <3>2, <4>3
        <5>2. At(top + 1 - i) = IF i \in 1..n THEN d[i] ELSE 0
          BY <5>1
        <5> HIDE DEF At, top
        <5> QED BY <4>4, <4>5, <5>1, <5>2
      <4>8. Whole = [i \in 1..n + k |-> w[i]]
        <5> HIDE DEF At, top
        <5> QED BY <4>6, <4>7
      <4>9. Whole = w
        <5> HIDE DEF Whole
        <5>1. PICK m \in Nat : m = n + k
          BY <2>2
        <5> QED BY <4>5, <4>8, <5>1, Spelled
      <4> HIDE DEF Frac, Whole
      <4> QED BY <2>5, <3>2, <4>2, <4>3, <4>4, <4>5, <4>9
    <3>3. CASE ~ (exp < 0) /\ ~ (n <= exp + 1)
      <4>1. PICK k \in 1..Len(d) : k = exp + 1
        BY <2>2, <3>3
      <4>2. /\ First(d, k) \in Seq(0..9) /\ Len(First(d, k)) = k /\ \A i \in 1..k : First(d, k)[i] = d[i]
            /\ From(d, k) \in Seq(0..9) /\ Len(From(d, k)) = n - k
            /\ \A i \in 1..(n - k) : From(d, k)[i] = d[k + i]
        BY <2>2, Parted
      <4>3. PICK u \in Seq(0..9), w \in Seq(0..9) :
              /\ u = First(d, k) /\ Len(u) = k /\ \A i \in 1..k : u[i] = d[i]
              /\ w = From(d, k) /\ Len(w) = n - k /\ \A i \in 1..(n - k) : w[i] = d[k + i]
        BY <4>2
      <4>4. top + 1 = k /\ behind = n - k /\ k \in Nat /\ n - k \in Nat
        BY <2>2, <3>3, <4>1
      <4>5. ASSUME NEW i \in 1..k PROVE At(top + 1 - i) = u[i]
        <5>1. exp - (top + 1 - i) + 1 = i /\ i \in 1..n
          BY <2>2, <3>3, <4>1
        <5> QED BY <4>3, <5>1
      <4>6. ASSUME NEW i \in 1..(n - k) PROVE At(-i) = w[i]
        <5>1. exp - (-i) + 1 = k + i /\ k + i \in 1..n
          BY <2>2, <3>3, <4>1
        <5> QED BY <4>3, <5>1
      <4>7. Whole = [i \in 1..k |-> u[i]] /\ Frac = [i \in 1..(n - k) |-> w[i]]
        <5> HIDE DEF At, top, behind
        <5> QED BY <4>4, <4>5, <4>6
      <4>8. Whole = u /\ Frac = w
        <5> HIDE DEF Whole, Frac
        <5>1. Whole = u
          BY <4>3, <4>4, <4>7, Spelled
        <5>2. PICK m \in Nat : m = n - k
          BY <4>4
        <5>3. Frac = w
          BY <4>3, <4>7, <5>2, Spelled
        <5> QED BY <5>1, <5>3
      <4> HIDE DEF Frac, Whole
      <4> QED BY <2>5, <3>3, <4>1, <4>3, <4>8
    <3> QED BY <3>1, <3>2, <3>3
  <2> QED BY <2>6, <2>7
<1> QED BY <1>1, <1>2

-----------------------------------------------------------------------------
(* Circuits                                                                *)

\* A set of values has one that contains no other of them.
LEMMA Innermost ==
  ASSUME NEW T, T \subseteq Value, T # {}
  PROVE  \E v \in T : \A u \in Members(v) : u \notin T
<1> DEFINE D == {Depth(v) : v \in T}
<1>1. D \subseteq Nat /\ D # {}
  BY Values
<1>2. PICK n \in D : \A m \in D : n <= m
  <2> HIDE DEF D
  <2> QED BY <1>1, Least
<1>3. PICK v \in T : Depth(v) = n
  OBVIOUS
<1>4. ASSUME NEW u \in Members(v) PROVE u \notin T
  <2>1. Depth(u) < Depth(v) /\ Depth(v) \in Nat
    BY Values
  <2>2. u \in T => Depth(v) <= Depth(u) /\ Depth(u) \in Nat
    BY <1>1, <1>2, <1>3
  <2> QED BY <2>1, <2>2
<1> QED BY <1>4

\* What a value of each kind carries.
LEMMA Kinds ==
  ASSUME NEW v \in Value
  PROVE  /\ v.kind \in {"int", "frac", "text", "arr", "obj"}
         /\ v.kind = "int" => v.v \in Int
         /\ v.kind \in {"int", "frac"} => v.num \in Float
         /\ v.kind = "text" => v.chars \in Seq(Char)
         /\ v.kind = "arr" => v.items \in Seq(Value)
         /\ v.kind = "obj" => /\ v \in [kind : {"obj"}, qubit : Seq(Value), gate : Seq(Gate)]
                              /\ v.qubit \in Seq(Value) /\ v.gate \in Seq(Gate) /\ Len(v.gate) <= 1
<1>1. \/ v \in [kind : {"int"}, v : Int, num : Float]
      \/ v \in [kind : {"frac"}, num : Float]
      \/ v \in [kind : {"text"}, chars : Seq(Char)]
      \/ v \in [kind : {"arr"}, items : Seq(Value)]
      \/ v \in [kind : {"obj"}, qubit : Seq(Value), gate : Seq(Gate)] /\ Len(v.gate) <= 1
  BY Values
<1> QED BY <1>1

\* Items and members are values, and a nested gate is a gate.
LEMMA Contained ==
  ASSUME NEW v \in Value
  PROVE  /\ v.kind = "arr" => \A i \in DOMAIN v.items : v.items[i] \in Members(v) /\ v.items[i] \in Value
         /\ v.kind = "obj" => \A i \in DOMAIN v.qubit : v.qubit[i] \in Members(v) /\ v.qubit[i] \in Value
         /\ v.kind = "obj" => \A i \in DOMAIN v.gate :
                                /\ v.gate[i] \in Gate /\ v.gate[i].params \in Members(v)
                                /\ v.gate[i].params \in Value
<1>1. ASSUME v.kind = "arr", NEW i \in DOMAIN v.items
      PROVE  v.items[i] \in Members(v) /\ v.items[i] \in Value
  <2>1. v.items[i] \in Value
    BY <1>1, Kinds
  <2>2. Members(v) = ToSet(v.items)
    BY <1>1 DEF Members
  <2> QED BY <2>1, <2>2 DEF ToSet
<1>2. ASSUME v.kind = "obj"
      PROVE  Members(v) = ToSet(v.qubit) \cup {g.params : g \in ToSet(v.gate)}
  BY <1>2 DEF Members
<1>3. ASSUME v.kind = "obj", NEW i \in DOMAIN v.qubit
      PROVE  v.qubit[i] \in Members(v) /\ v.qubit[i] \in Value
  <2>1. v.qubit[i] \in Value
    BY <1>3, Kinds
  <2> QED BY <1>2, <1>3, <2>1 DEF ToSet
<1>4. ASSUME v.kind = "obj", NEW i \in DOMAIN v.gate
      PROVE  v.gate[i] \in Gate /\ v.gate[i].params \in Members(v) /\ v.gate[i].params \in Value
  <2>1. v.gate[i] \in Gate
    BY <1>4, Kinds
  <2>2. v.gate[i].params \in Value
    BY <2>1 DEF Gate
  <2> QED BY <1>2, <1>4, <2>1, <2>2 DEF ToSet
<1> QED BY <1>1, <1>3, <1>4

\* write_go_json_string escapes each character as Go does.
LEMMA EscapedAlike ==
  ASSUME NEW ch \in Char
  PROVE  Escape(ch) = GoEscape(ch)
BY DEF Char, Escape, GoEscape, Short, Html, Separators, Controls, Others

\* write_go_json_value writes every value as Go does.
LEMMA AllAlike ==
  ASSUME NEW value \in Value
  PROVE  Alike[value]
<1> DEFINE T == {v \in Value : ~ Alike[v]}
<1> SUFFICES ASSUME T # {} PROVE FALSE
  OBVIOUS
<1>1. PICK v \in T : \A u \in Members(v) : u \notin T
  <2> HIDE DEF T
  <2>1. T \subseteq Value
    BY DEF T
  <2> QED BY <2>1, Innermost
<1>2. \A u \in Members(v) : u \in Value => Alike[u]
  BY <1>1
<1>3. v \in Value /\ ~ WrittenAlike(Alike, v)
  BY RecursiveCalls
<1> HIDE DEF T
<1>4. CASE v.kind = "arr"
  BY <1>2, <1>3, <1>4, Contained DEF WrittenAlike
<1>5. CASE v.kind = "obj"
  BY <1>2, <1>3, <1>5, Contained DEF WrittenAlike
<1>6. CASE v.kind = "text"
  <2>1. \A ch \in ToSet(v.chars) : ch \in Char
    BY <1>3, <1>6, Kinds DEF ToSet
  <2> QED BY <1>3, <1>6, <2>1, EscapedAlike DEF WrittenAlike
<1>7. CASE v.kind \in {"int", "frac"}
  <2>1. GoJsonFloat(v.num) = GoNumber(v.num)
    BY <1>3, <1>7, Kinds, NumberAlike
  <2> QED BY <1>3, <1>7, <2>1 DEF WrittenAlike
<1> QED BY <1>3, <1>4, <1>5, <1>6, <1>7, Kinds

\* circuit_signing_json writes every circuit as it was signed.
LEMMA TextsKept ==
  ASSUME NEW circuit \in Seq(Gate)
  PROVE  TextKept(circuit)
<1>1. \A i \in DOMAIN circuit : circuit[i] \in Gate
  OBVIOUS
<1>2. \A g \in Gate : g.params \in Value
  BY DEF Gate
<1> QED BY <1>1, <1>2, AllAlike DEF TextKept

\* check_qubit_values leaves no number out of range where operands are read.
LEMMA LeavesInRange ==
  ASSUME NEW value \in Value, NEW width \in Widths, QubitValuesOk[width][value]
  PROVE  Leaves[value] \subseteq 0..width - 1
<1> DEFINE Good(v) == QubitValuesOk[width][v] => Leaves[v] \subseteq 0..width - 1
           T == {v \in Value : ~ Good(v)}
<1> SUFFICES ASSUME T # {} PROVE FALSE
  OBVIOUS
<1>1. PICK v \in T : \A u \in Members(v) : u \notin T
  <2> HIDE DEF T
  <2>1. T \subseteq Value
    BY DEF T
  <2> QED BY <2>1, Innermost
<1>2. v \in Value /\ QubitValuesOk[width][v] /\ ~ (Leaves[v] \subseteq 0..width - 1)
  OBVIOUS
<1>3. \A u \in Members(v) : u \in Value /\ QubitValuesOk[width][u] => Leaves[u] \subseteq 0..width - 1
  BY <1>1
<1> HIDE DEF T, Good
<1>4. CheckQubitValues(QubitValuesOk[width], v, width) /\ Leaves[v] = LeavesWithin(Leaves, v)
  BY <1>2, RecursiveCalls
<1>5. CASE v.kind = "arr"
  <2>1. \A i \in DOMAIN v.items : QubitValuesOk[width][v.items[i]]
    BY <1>4, <1>5 DEF CheckQubitValues
  <2>2. \A i \in DOMAIN v.items : v.items[i] \in Members(v) /\ v.items[i] \in Value
    BY <1>2, <1>5, Contained
  <2>3. \A u \in ToSet(v.items) : Leaves[u] \subseteq 0..width - 1
    BY <1>3, <2>1, <2>2 DEF ToSet
  <2>4. Leaves[v] = UNION {Leaves[u] : u \in ToSet(v.items)}
    BY <1>4, <1>5 DEF LeavesWithin
  <2> QED BY <1>2, <2>3, <2>4
<1>6. CASE v.kind = "obj"
  <2>1. \A i \in DOMAIN v.qubit : RequireQubit(v.qubit[i], width)
    BY <1>4, <1>6 DEF CheckQubitValues
  <2>2. \A u \in ToSet(v.qubit) : Index(u) \in 0..width - 1
    BY <2>1 DEF ToSet, RequireQubit, Index
  <2>3. Leaves[v] = {Index(u) : u \in ToSet(v.qubit)}
    BY <1>4, <1>6 DEF LeavesWithin
  <2> QED BY <1>2, <2>2, <2>3
<1>7. CASE v.kind = "text"
  BY <1>2, <1>4, <1>7 DEF LeavesWithin
<1>8. CASE v.kind \in {"int", "frac"}
  <2>1. RequireQubit(v, width) /\ Leaves[v] = {Index(v)}
    BY <1>4, <1>8 DEF CheckQubitValues, LeavesWithin
  <2> QED BY <1>2, <2>1 DEF RequireQubit, Index
<1> QED BY <1>2, <1>5, <1>6, <1>7, <1>8, Kinds

\* The gate inside an IF gate that passed the check.
LEMMA Inner ==
  ASSUME NEW g \in Gate, g.type = "IF", g.params.kind = "obj", g.params.gate # <<>>
  PROVE  /\ g.params \in Value /\ g.params.gate = <<g.params.gate[1]>>
         /\ g.params.gate[1] \in Gate /\ g.params.gate[1].params \in Members(g.params)
         /\ g.params.gate[1].params \in Value
         /\ Nested(g) = {g.params.gate[1]}
<1>1. PICK p \in Value : p = g.params
  BY DEF Gate
<1>2. p.gate \in Seq(Gate) /\ Len(p.gate) = 1
  <2>1. p.gate \in Seq(Gate) /\ Len(p.gate) <= 1 /\ p.gate # <<>>
    BY <1>1, Kinds
  <2>2. Len(p.gate) \in Nat /\ Len(p.gate) # 0
    BY <2>1
  <2>3. \A m \in Nat : m # 0 /\ m <= 1 => m = 1
    OBVIOUS
  <2> QED BY <2>1, <2>2, <2>3, Zenon
<1>3. 1 \in DOMAIN p.gate /\ p.gate = <<p.gate[1]>>
  BY <1>2
<1>4. p.gate[1] \in Gate /\ p.gate[1].params \in Members(p) /\ p.gate[1].params \in Value
  BY <1>1, <1>3, Contained
<1>5. ToSet(p.gate) = {p.gate[1]}
  BY <1>2, <1>3 DEF ToSet
<1>6. Nested(g) = ToSet(p.gate)
  BY <1>1 DEF Nested
<1> QED BY <1>1, <1>3, <1>4, <1>5, <1>6

\* A gate that passes validate_gate names supported gates only, and its operands
\* are in range.
LEMMA GateSound ==
  ASSUME NEW gate \in Gate, NEW width \in Widths, NEW supported \in GateSets,
         GateOk[width][supported][gate]
  PROVE  TypesOf[gate] \subseteq supported /\ Operands[gate] \subseteq 0..width - 1
<1> DEFINE Good(g) == GateOk[width][supported][g] =>
                        TypesOf[g] \subseteq supported /\ Operands[g] \subseteq 0..width - 1
           T == {v \in Value : \E g \in Gate : g.params = v /\ ~ Good(g)}
<1> SUFFICES ASSUME T # {} PROVE FALSE
  BY DEF Gate
<1>1. PICK v \in T : \A u \in Members(v) : u \notin T
  <2> HIDE DEF T
  <2>1. T \subseteq Value
    BY DEF T
  <2> QED BY <2>1, Innermost
<1>2. PICK g \in Gate : g.params = v /\ ~ Good(g)
  OBVIOUS
<1>3. \A h \in Gate : h.params \in Members(v) /\ h.params \in Value => Good(h)
  BY <1>1
<1> HIDE DEF T
<1>4. /\ GateOk[width][supported][g]
      /\ ~ (TypesOf[g] \subseteq supported /\ Operands[g] \subseteq 0..width - 1)
  BY <1>2
<1>5. \A h \in Gate : h.params \in Members(v) /\ h.params \in Value /\ GateOk[width][supported][h] =>
                        TypesOf[h] \subseteq supported /\ Operands[h] \subseteq 0..width - 1
  BY <1>3
<1> HIDE DEF Good
<1>6. /\ ValidateGate(GateOk[width][supported], g, width, supported)
      /\ TypesOf[g] = TypesWithin(TypesOf, g) /\ Operands[g] = OperandsWithin(Operands, g)
  BY <1>4, RecursiveCalls
<1>7. g.params \in Value
  BY DEF Gate
<1>8. CASE g.type = "IF"
  <2>1. PICK h : h = g.params.gate[1]
    OBVIOUS
  <2>2. g.params.kind = "obj" /\ g.params.gate # <<>> /\ GateOk[width][supported][h] /\ g.type \in supported
    BY <1>6, <1>8, <2>1 DEF ValidateGate
  <2>3. h \in Gate /\ h.params \in Members(v) /\ h.params \in Value /\ Nested(g) = {h}
    BY <1>2, <1>8, <2>1, <2>2, Inner
  <2>4. TypesOf[h] \subseteq supported /\ Operands[h] \subseteq 0..width - 1
    BY <1>5, <2>2, <2>3
  <2>5. TypesOf[g] = {g.type} \cup TypesOf[h]
    BY <1>6, <2>3 DEF TypesWithin
  <2>6. Operands[g] = Operands[h]
    <3>1. Operands[g] = UNION {Operands[x] : x \in Nested(g)}
      BY <1>6, <1>8 DEF OperandsWithin, Rotations
    <3> QED BY <2>3, <3>1
  <2> QED BY <1>4, <2>2, <2>4, <2>5, <2>6
<1>9. CASE g.type # "IF"
  <2>1. g.type \in supported /\ QubitParamsOk(g, width)
    BY <1>6, <1>9 DEF ValidateGate
  <2>2. TypesOf[g] \subseteq supported
    <3>1. Nested(g) = {}
      BY <1>9 DEF Nested
    <3> QED BY <1>6, <2>1, <3>1 DEF TypesWithin
  <2>3. CASE g.type \in Rotations
    <3>1. RotationQubitOk(g.params, width)
      BY <2>1, <2>3 DEF QubitParamsOk
    <3>2. CASE g.params.kind = "arr"
      <4>1. RequireQubit(Head(g.params.items), width) /\ g.params.items \in Seq(Value) /\ g.params.items # <<>>
        BY <1>7, <3>1, <3>2, Kinds DEF RotationQubitOk
      <4>2. Head(g.params.items) = g.params.items[1]
        BY <4>1
      <4>3. Index(g.params.items[1]) \in 0..width - 1
        BY <4>1, <4>2 DEF RequireQubit, Index
      <4>4. Operands[g] = {Index(g.params.items[i]) : i \in DOMAIN g.params.items \cap {1}}
        BY <1>6, <1>9, <2>3, <3>2 DEF OperandsWithin
      <4> QED BY <1>4, <2>2, <4>3, <4>4
    <3>3. CASE g.params.kind # "arr"
      <4>1. RequireQubit(g.params, width)
        BY <3>1, <3>3 DEF RotationQubitOk
      <4>2. Operands[g] = {Index(g.params)}
        BY <1>6, <1>9, <2>3, <3>3 DEF OperandsWithin
      <4> QED BY <1>4, <2>2, <4>1, <4>2 DEF RequireQubit, Index
    <3> QED BY <3>2, <3>3
  <2>4. CASE g.type \notin Rotations
    <3>1. QubitValuesOk[width][g.params]
      BY <2>1, <2>4 DEF QubitParamsOk
    <3>2. Operands[g] = Leaves[g.params]
      BY <1>6, <1>9, <2>4 DEF OperandsWithin
    <3> QED BY <1>4, <1>7, <2>2, <3>1, <3>2, LeavesInRange
  <2> QED BY <2>3, <2>4
<1> QED BY <1>8, <1>9
\* normalize_gate_params changes neither the gates that a checked gate names nor
\* its operands.
LEMMA NormalSame ==
  ASSUME NEW gate \in Gate, NEW width \in Widths, NEW supported \in GateSets,
         GateOk[width][supported][gate], NormalGate(gate) \in Gate
  PROVE  TypesOf[NormalGate(gate)] = TypesOf[gate] /\ Operands[NormalGate(gate)] = Operands[gate]
<1> DEFINE Same(g) == GateOk[width][supported][g] /\ NormalGate(g) \in Gate =>
                        /\ TypesOf[NormalGate(g)] = TypesOf[g]
                        /\ Operands[NormalGate(g)] = Operands[g]
           T == {v \in Value : \E g \in Gate : g.params = v /\ ~ Same(g)}
<1> SUFFICES ASSUME T # {} PROVE FALSE
  BY DEF Gate
<1>1. PICK v \in T : \A u \in Members(v) : u \notin T
  <2> HIDE DEF T
  <2>1. T \subseteq Value
    BY DEF T
  <2> QED BY <2>1, Innermost
<1>2. PICK g \in Gate : g.params = v /\ ~ Same(g)
  OBVIOUS
<1>3. \A h \in Gate : h.params \in Members(v) /\ h.params \in Value => Same(h)
  BY <1>1
<1> HIDE DEF T
<1>4. PICK n \in Gate :
        /\ n = NormalGate(g) /\ GateOk[width][supported][g]
        /\ ~ (TypesOf[n] = TypesOf[g] /\ Operands[n] = Operands[g])
  BY <1>2
<1>5. ASSUME NEW h \in Gate, h.params \in Members(v), h.params \in Value,
             GateOk[width][supported][h], NormalGate(h) \in Gate
      PROVE  TypesOf[NormalGate(h)] = TypesOf[h] /\ Operands[NormalGate(h)] = Operands[h]
  BY <1>3, <1>5
<1> HIDE DEF Same
<1>6. /\ ValidateGate(GateOk[width][supported], g, width, supported)
      /\ TypesOf[g] = TypesWithin(TypesOf, g) /\ Operands[g] = OperandsWithin(Operands, g)
      /\ TypesOf[n] = TypesWithin(TypesOf, n) /\ Operands[n] = OperandsWithin(Operands, n)
  BY <1>4, RecursiveCalls
<1>7. g.params \in Value /\ n.params \in Value
  BY DEF Gate
<1>8. n.type = g.type /\ n.params = NormalizeGateValue(NormalValue, g.params)
  <2>1. n.type = g.type /\ n.params = NormalValue[g.params]
    BY <1>4 DEF NormalGate, WithParams, Gate
  <2> QED BY <1>7, <2>1, RecursiveCalls
<1>9. CASE g.type = "IF"
  <2>1. PICK h : h = g.params.gate[1]
    OBVIOUS
  <2>2. g.params.kind = "obj" /\ g.params.gate # <<>> /\ GateOk[width][supported][h]
    BY <1>6, <1>9, <2>1 DEF ValidateGate
  <2>3. h \in Gate /\ h.params \in Members(v) /\ h.params \in Value /\ Nested(g) = {h}
    BY <1>2, <1>9, <2>1, <2>2, Inner
  <2>4. n.params = [g.params EXCEPT !.gate = <<NormalGate(h)>>]
    BY <1>8, <2>1, <2>2 DEF NormalizeGateValue, NormalGate
  <2>5. n.params.kind = "obj" /\ n.params.gate = <<NormalGate(h)>>
    <3>1. g.params \in [kind : {"obj"}, qubit : Seq(Value), gate : Seq(Gate)]
      BY <1>7, <2>2, Kinds
    <3> QED BY <2>4, <3>1
  <2>6. n.params.gate # <<>> /\ n.params.gate[1] = NormalGate(h)
    BY <2>5
  <2>7. NormalGate(h) \in Gate /\ Nested(n) = {NormalGate(h)}
    BY <1>8, <1>9, <2>5, <2>6, Inner
  <2>8. TypesOf[NormalGate(h)] = TypesOf[h] /\ Operands[NormalGate(h)] = Operands[h]
    BY <1>5, <2>2, <2>3, <2>7
  <2>9. TypesOf[g] = {g.type} \cup TypesOf[h] /\ TypesOf[n] = {g.type} \cup TypesOf[NormalGate(h)]
    BY <1>6, <1>8, <2>3, <2>7 DEF TypesWithin
  <2>10. Operands[g] = UNION {Operands[x] : x \in Nested(g)}
    BY <1>6, <1>9 DEF OperandsWithin, Rotations
  <2>11. Operands[n] = UNION {Operands[x] : x \in Nested(n)}
    BY <1>6, <1>8, <1>9 DEF OperandsWithin, Rotations
  <2>12. Operands[g] = Operands[h] /\ Operands[n] = Operands[NormalGate(h)]
    BY <2>3, <2>7, <2>10, <2>11
  <2> QED BY <1>4, <2>8, <2>9, <2>12
<1>10. CASE g.type # "IF"
  <2>1. QubitParamsOk(g, width)
    BY <1>6, <1>10 DEF ValidateGate
  <2>2. TypesOf[n] = TypesOf[g]
    <3>1. Nested(g) = {} /\ Nested(n) = {}
      BY <1>8, <1>10 DEF Nested
    <3> QED BY <1>6, <1>8, <3>1 DEF TypesWithin
  <2>3. SUFFICES Operands[n] = Operands[g]
    BY <1>4, <2>2
  <2>4. CASE n.params = g.params
    <3>1. OperandsWithin(Operands, n) = OperandsWithin(Operands, g)
      BY <1>8, <1>10, <2>4 DEF OperandsWithin
    <3> QED BY <1>6, <3>1
  <2>5. CASE g.params.kind = "arr" /\ Len(g.params.items) = 1 /\ n.params = g.params.items[1]
    <3>1. PICK p : p = g.params.items[1]
      OBVIOUS
    <3>2. g.params.items = <<p>>
      <4>1. g.params.items \in Seq(Value)
        BY <1>7, <2>5, Kinds
      <4> QED BY <2>5, <3>1, <4>1
    <3>3. CASE g.type \in Rotations
      <4>1. RequireQubit(Head(g.params.items), width)
        BY <2>1, <2>5, <3>3 DEF QubitParamsOk, RotationQubitOk
      <4>2. p.kind = "int"
        BY <3>2, <4>1 DEF RequireQubit
      <4>3. Operands[n] = {Index(p)}
        BY <1>6, <1>8, <1>10, <2>5, <3>1, <3>3, <4>2 DEF OperandsWithin
      <4>4. Operands[g] = {Index(g.params.items[i]) : i \in DOMAIN g.params.items \cap {1}}
        BY <1>6, <1>10, <2>5, <3>3 DEF OperandsWithin
      <4>5. DOMAIN g.params.items \cap {1} = {1}
        BY <3>2
      <4> QED BY <3>1, <4>3, <4>4, <4>5
    <3>4. CASE g.type \notin Rotations
      <4>1. Operands[g] = Leaves[g.params] /\ Operands[n] = Leaves[p]
        BY <1>6, <1>8, <1>10, <2>5, <3>1, <3>4 DEF OperandsWithin
      <4>2. Leaves[g.params] = UNION {Leaves[x] : x \in ToSet(g.params.items)}
        BY <1>7, <2>5, RecursiveCalls DEF LeavesWithin
      <4>3. ToSet(g.params.items) = {p}
        BY <3>2 DEF ToSet
      <4> QED BY <4>1, <4>2, <4>3
    <3> QED BY <3>3, <3>4
  <2>6. CASE /\ g.params.kind = "obj" /\ g.params.gate # <<>>
             /\ n.params = [g.params EXCEPT !.gate = <<NormalGate(g.params.gate[1])>>]
    <3>1. n.params.kind = "obj" /\ n.params.qubit = g.params.qubit
      <4>1. g.params \in [kind : {"obj"}, qubit : Seq(Value), gate : Seq(Gate)]
        BY <1>7, <2>6, Kinds
      <4> QED BY <2>6, <4>1
    <3>2. g.type \notin Rotations
      BY <2>1, <2>6 DEF QubitParamsOk, RotationQubitOk, RequireQubit
    <3>3. Operands[g] = Leaves[g.params] /\ Operands[n] = Leaves[n.params]
      BY <1>6, <1>8, <1>10, <3>2 DEF OperandsWithin
    <3>4. /\ Leaves[g.params] = {Index(x) : x \in ToSet(g.params.qubit)}
          /\ Leaves[n.params] = {Index(x) : x \in ToSet(n.params.qubit)}
      BY <1>7, <2>6, <3>1, RecursiveCalls DEF LeavesWithin
    <3> QED BY <3>1, <3>3, <3>4
  <2>7. \/ n.params = g.params
        \/ g.params.kind = "arr" /\ Len(g.params.items) = 1 /\ n.params = g.params.items[1]
        \/ /\ g.params.kind = "obj" /\ g.params.gate # <<>>
           /\ n.params = [g.params EXCEPT !.gate = <<NormalGate(g.params.gate[1])>>]
    BY <1>8 DEF NormalizeGateValue, NormalGate
  <2> QED BY <2>4, <2>5, <2>6, <2>7
<1> QED BY <1>9, <1>10

-----------------------------------------------------------------------------
(* The invariant                                                           *)

Budget == WithVram(EffectiveBytes(host.request, host.total), config.vram).bytes

ConfigSet == [maxQubits : 0..WordBits - 2, maxMps : 0..BidMax,
              vram : {Unset} \cup 1..WordMax, source : {"ram", "vram"}, rates : BOOLEAN]

\* The widths are those of the budget that host and config stand for.
Resolved ==
  /\ host \in [total : Totals, request : Requests, operator : BOOLEAN]
  /\ config \in ConfigSet
  /\ config.maxQubits = DenseQubits(Budget) /\ config.maxMps = MpsQubits(Budget)

\* Nothing is bid or handled before the configuration is final.
Started ==
  /\ phase \in {"gates", "sysinfo", "up"}
  /\ gates \in GateSets \cup {{}} /\ (phase # "gates" => gates \in GateSets)
  /\ phase # "up" => bid = {} /\ last = {}

\* A bid carries the widths of the configuration, and is budgeted as announced.
BidsTrue ==
  /\ bid = {} \/ \E b : bid = {b}
  /\ \A b \in bid : /\ b.width = config.maxQubits /\ b.mps = config.maxMps
                    /\ b.work \in BOOLEAN /\ b.budgeted = b.work

\* An accepted circuit passed the check, and what is handed on is its normal form.
AcceptedAsChecked(d) ==
  /\ d.circuit \in Circuits /\ d.width \in Widths
  /\ ValidCircuit(d.circuit, d.width, gates) /\ d.forwarded = NormalCircuit(d.circuit)

\* A verdict about a width follows the limit of the configuration, one about a
\* circuit the check, and none comes from a signature that cannot be read again.
VerdictsTrue ==
  /\ last = {} \/ \E d : last = {d}
  /\ \A d \in last :
       /\ d.mode \in Modes /\ d.width \in Widths \cup {0} /\ d.circuit \in Circuits \cup {<<>>}
       /\ d.verdict \in {"unsigned", "too wide", "invalid", "accepted"}
       /\ d.verdict = "too wide" => d.width > CompactLimit(d.mode)
       /\ d.verdict = "accepted" => d.width <= CompactLimit(d.mode) /\ AcceptedAsChecked(d)

AdmissionInv == Resolved /\ Started /\ BidsTrue /\ VerdictsTrue

\* The sizes of a host are words, and a request is an integer.
LEMMA HostTypes ==
  ASSUME host \in [total : Totals, request : Requests, operator : BOOLEAN]
  PROVE  host.total \in 0..WordMax /\ host.request \in Int
BY AdmissionConstants

\* A configuration that is worked out from a budget is typed and exact.
LEMMA WidenedExact ==
  ASSUME NEW total \in 0..WordMax, NEW request \in Int, NEW vram \in {Unset} \cup 1..WordMax,
         NEW rates \in BOOLEAN, NEW c,
         c = Widened(WithVram(EffectiveBytes(request, total), vram), vram, rates)
  PROVE  /\ c \in ConfigSet /\ c.vram = vram /\ c.rates = rates
         /\ c.maxQubits = DenseQubits(WithVram(EffectiveBytes(request, total), vram).bytes)
         /\ c.maxMps = MpsQubits(WithVram(EffectiveBytes(request, total), vram).bytes)
<1> DEFINE w == WithVram(EffectiveBytes(request, total), vram)
<1>1. w.bytes \in Nat /\ w.bytes < WordMax
  BY BudgetExact
<1>2. w.source \in {"ram", "vram"}
  BY DEF WithVram
<1>3. DenseQubits(w.bytes) \in 0..WordBits - 2 /\ MpsQubits(w.bytes) \in 0..BidMax
  BY <1>1, DenseExact, MpsExact
<1> HIDE DEF w
<1>4. c = [maxQubits |-> DenseQubits(w.bytes), maxMps |-> MpsQubits(w.bytes),
           vram |-> vram, source |-> w.source, rates |-> rates]
  BY DEF Widened, w
<1> QED BY <1>2, <1>3, <1>4 DEF ConfigSet, w

\* The node writes the text of every circuit as it was signed.
LEMMA NothingMisprinted == Misprinted = {}
BY AdmissionConstants, TextsKept DEF Misprinted

LEMMA AdmissionStart == Init => AdmissionInv
<1> SUFFICES ASSUME Init PROVE AdmissionInv
  OBVIOUS
<1>1. host.total \in 0..WordMax /\ host.request \in Int
  BY HostTypes DEF Init
<1> DEFINE e == EffectiveBytes(host.request, host.total)
<1>2. WithVram(e, Unset) = [bytes |-> e, source |-> "ram"]
  BY DEF WithVram, Unset
<1>3. config = Widened(WithVram(e, Unset), Unset, FALSE)
  BY <1>2 DEF Init
<1>4. config.vram = Unset
  BY <1>3 DEF Widened
<1>5. /\ config \in ConfigSet
      /\ config.maxQubits = DenseQubits(WithVram(e, Unset).bytes)
      /\ config.maxMps = MpsQubits(WithVram(e, Unset).bytes)
  <2>1. PICK rates \in BOOLEAN : config = Widened(WithVram(e, Unset), Unset, rates)
    BY <1>3
  <2>2. Unset \in {Unset} \cup 1..WordMax
    OBVIOUS
  <2> QED BY <1>1, <2>1, <2>2, WidenedExact
<1>6. Resolved
  BY <1>4, <1>5 DEF Init, Resolved, Budget
<1> QED BY <1>6 DEF Init, AdmissionInv, Started, BidsTrue, VerdictsTrue

\* Work is among a node's features only when core has reported rates.
LEMMA WorkNeedsRates ==
  ASSUME "work" \in NodeFeatures
  PROVE  config.rates
<1>1. \A g : "work" \notin FeatureOf(g)
  BY DEF FeatureOf
<1>2. "work" \notin UNION {FeatureOf(g) : g \in gates}
  BY <1>1
<1> QED BY <1>2 DEF NodeFeatures

\* An announcement that is answered is budgeted exactly when work was announced.
LEMMA BudgetedAsAnnounced ==
  ASSUME NEW required \in SUBSET Features, NEW msg \in Arrivals(Announced(required)),
         AnnouncementVerified(msg), ShouldBidOn(msg.required)
  PROVE  Budgeted(msg) = Announced(required).work /\ Announced(required).work \in BOOLEAN
<1> DEFINE ann == Announced(required)
<1>1. ann.required = required /\ ann.work = ("work" \in required)
  BY DEF Announced
<1>2. msg.required = required /\ msg.v2 \in {ann.work, FALSE}
  <2>1. PICK w \in {"none"} \cup (IF ann.work THEN {"announced", "altered"} ELSE {"altered"}),
              d \in BOOLEAN, v \in {ann.work, FALSE} :
          msg = [required |-> ann.required, work |-> w, deadline |-> d, v2 |-> v]
    BY DEF Arrivals
  <2> QED BY <1>1, <2>1
<1>3. CASE "work" \in required
  <2>1. msg.work # "none"
    BY <1>2, <1>3 DEF AnnouncementVerified
  <2>2. config.rates
    BY <1>2, <1>3, WorkNeedsRates DEF ShouldBidOn
  <2> QED BY <1>1, <1>3, <2>1, <2>2 DEF Budgeted
<1>4. CASE "work" \notin required
  <2>1. ~ msg.v2
    BY <1>1, <1>2, <1>4
  <2>2. msg.work = "none"
    BY <2>1 DEF AnnouncementVerified
  <2> QED BY <1>1, <1>4, <2>2 DEF Budgeted
<1> QED BY <1>3, <1>4

LEMMA AdmissionStep == AdmissionInv /\ [Next]_vars => AdmissionInv'
<1> SUFFICES ASSUME AdmissionInv, [Next]_vars PROVE AdmissionInv'
  OBVIOUS
<1> USE DEF AdmissionInv
<1>0. host.total \in 0..WordMax /\ host.request \in Int
  BY HostTypes DEF Resolved
<1>1. ASSUME UNCHANGED <<host, config>> PROVE Resolved' /\ (\A m : CompactLimit(m)' = CompactLimit(m))
  BY <1>1 DEF Resolved, Budget, CompactLimit
<1>2. CASE SyncGates
  <2>1. bid = {} /\ last = {} /\ UNCHANGED <<host, config, bid, last>> /\ phase' = "sysinfo"
    BY <1>2 DEF SyncGates, Started
  <2>2. gates' \in GateSets
    BY <1>2, AdmissionConstants DEF SyncGates
  <2> QED BY <1>1, <2>1, <2>2 DEF Started, BidsTrue, VerdictsTrue
<1>3. ASSUME NEW webgpu \in BOOLEAN, NEW rates \in BOOLEAN, NEW v \in Vrams,
             ApplySysinfo(webgpu, v, rates)
      PROVE  AdmissionInv'
  <2> DEFINE vram == IF webgpu /\ v > 0 THEN v ELSE Unset
  <2>1. vram \in {Unset} \cup 1..WordMax
    BY AdmissionConstants, Words DEF Unset
  <2>2. config' = Widened(WithVram(EffectiveBytes(host.request, host.total), vram), vram, rates)
    BY <1>3 DEF ApplySysinfo
  <2> HIDE DEF vram
  <2>3. Resolved'
    BY <1>0, <1>3, <2>1, <2>2, WidenedExact DEF ApplySysinfo, Resolved, Budget
  <2>4. /\ bid = {} /\ last = {} /\ UNCHANGED <<gates, bid, last>> /\ phase' = "up"
        /\ gates \in GateSets
    BY <1>3 DEF ApplySysinfo, Started
  <2> QED BY <2>3, <2>4 DEF Started, BidsTrue, VerdictsTrue
<1>4. CASE NoSysinfo
  BY <1>1, <1>4 DEF NoSysinfo, Started, BidsTrue, VerdictsTrue
<1>5. ASSUME NEW required \in SUBSET Features, NEW msg \in Arrivals(Announced(required)),
             Announce(Announced(required), msg)
      PROVE  AdmissionInv'
  <2>1. Budgeted(msg) = Announced(required).work /\ Announced(required).work \in BOOLEAN
    BY <1>5, BudgetedAsAnnounced DEF Announce
  <2>2. Lesser(config.maxMps, BidMax) = config.maxMps
    BY BudgetConstants DEF Resolved, ConfigSet, Lesser
  <2>3. bid' = {[width |-> config.maxQubits, mps |-> config.maxMps,
                 work |-> Announced(required).work, budgeted |-> Announced(required).work]}
    BY <1>5, <2>1, <2>2 DEF Announce
  <2>4. UNCHANGED <<phase, host, config, gates, last>> /\ phase = "up"
    BY <1>5 DEF Announce
  <2>5. BidsTrue'
    BY <2>1, <2>3, <2>4 DEF BidsTrue
  <2>6. VerdictsTrue'
    BY <1>1, <2>4 DEF VerdictsTrue, AcceptedAsChecked
  <2> QED BY <1>1, <2>4, <2>5, <2>6 DEF Started
<1>6. ASSUME NEW d, last' = {d}, Handling,
             /\ d.mode \in Modes /\ d.width \in Widths \cup {0} /\ d.circuit \in Circuits \cup {<<>>}
             /\ d.verdict \in {"unsigned", "too wide", "invalid", "accepted"}
             /\ d.verdict = "too wide" => d.width > CompactLimit(d.mode)
             /\ d.verdict = "accepted" => d.width <= CompactLimit(d.mode) /\ AcceptedAsChecked(d)
      PROVE  AdmissionInv'
  <2>1. UNCHANGED <<phase, host, config, gates, bid>> /\ phase = "up"
    BY <1>6 DEF Handling
  <2>2. VerdictsTrue'
    BY <1>1, <1>6, <2>1 DEF VerdictsTrue, AcceptedAsChecked
  <2> QED BY <1>1, <2>1, <2>2 DEF Started, BidsTrue
<1>7. ASSUME NEW c \in Circuits, NEW signed \in BOOLEAN, Refuse(c, signed) PROVE AdmissionInv'
  <2>1. ~ signed
    BY <1>7, NothingMisprinted DEF Refuse, SignatureOk
  <2> QED BY <1>6, <1>7, <2>1 DEF Refuse, Handled, Modes
<1>8. ASSUME NEW m \in Modes, NEW w \in Widths, NEW c \in Circuits, Dispatch(m, w, c)
      PROVE  AdmissionInv'
  <2>1. Handling
    BY <1>8 DEF Dispatch
  <2>2. CASE w > CompactLimit(m) /\ last' = {Handled(m, w, "too wide", <<>>, <<>>)}
    BY <1>6, <2>1, <2>2 DEF Handled
  <2>3. CASE last' = {Handled(m, w, "invalid", <<>>, <<>>)}
    BY <1>6, <2>1, <2>3 DEF Handled
  <2>4. CASE /\ w <= CompactLimit(m) /\ ValidCircuit(c, w, gates)
             /\ last' = {Handled(m, w, "accepted", c, NormalCircuit(c))}
    <3>1. PICK d : d = Handled(m, w, "accepted", c, NormalCircuit(c))
      OBVIOUS
    <3>2. /\ d.mode = m /\ d.width = w /\ d.verdict = "accepted" /\ d.circuit = c
          /\ d.forwarded = NormalCircuit(c)
      BY <3>1 DEF Handled
    <3>3. AcceptedAsChecked(d)
      BY <2>4, <3>2 DEF AcceptedAsChecked
    <3> QED BY <1>6, <2>1, <2>4, <3>1, <3>2, <3>3
  <2> QED BY <1>8, <2>2, <2>3, <2>4 DEF Dispatch
<1>9. CASE UNCHANGED vars
  <2>1. UNCHANGED <<phase, host, config, gates, bid, last>>
    BY <1>9 DEF vars
  <2>2. VerdictsTrue'
    BY <1>1, <2>1 DEF VerdictsTrue, AcceptedAsChecked
  <2> QED BY <1>1, <2>1, <2>2 DEF Started, BidsTrue
<1> QED BY <1>2, <1>3, <1>4, <1>5, <1>7, <1>8, <1>9 DEF Next

LEMMA AdmissionKept == Spec => []AdmissionInv
BY AdmissionStart, AdmissionStep, PTL DEF Spec

-----------------------------------------------------------------------------
(* What follows                                                            *)

\* Fits, of the state, is Spared, of the host, the request and the VRAM.
LEMMA FitsSpared ==
  ASSUME Resolved, NEW bytes \in Nat
  PROVE  /\ Budget \in Nat /\ Budget < WordMax
         /\ bytes > Budget => ~ Fits(bytes)
         /\ bytes <= Budget /\ bytes > AmpBytes => Fits(bytes)
<1>1. Fits(bytes) <=> Spared(bytes, host.request, host.total, config.vram)
  BY DEF Fits, Spared, HostFits
<1>2. /\ host.total \in 0..WordMax /\ host.request \in Int
      /\ config.vram \in {Unset} \cup 1..WordMax
  BY HostTypes DEF Resolved, ConfigSet
<1>3. Budget = WithVram(EffectiveBytes(host.request, host.total), config.vram).bytes
  BY DEF Budget
<1> QED BY <1>1, <1>2, <1>3, BudgetExact

\* The host's state, the configuration, bids and verdicts keep their types: in
\* particular no width passes what the word or a bid can carry.
THEOREM AdmissionTypes == Spec => []TypeOK
<1>1. AdmissionInv => TypeOK
  <2> SUFFICES ASSUME AdmissionInv PROVE TypeOK
    OBVIOUS
  <2>1. \A b \in bid : b.width \in 0..WordBits - 2 /\ b.mps \in 0..BidMax
                       /\ b.work \in BOOLEAN /\ b.budgeted \in BOOLEAN
    BY DEF AdmissionInv, BidsTrue, Resolved, ConfigSet
  <2>2. Cardinality(bid) <= 1 /\ Cardinality(last) <= 1
    <3>1. Cardinality({}) = 0 /\ \A x : Cardinality({x}) = 1
      BY FS_EmptySet, FS_Singleton
    <3>2. Cardinality(bid) \in {0, 1}
      BY <3>1 DEF AdmissionInv, BidsTrue
    <3>3. Cardinality(last) \in {0, 1}
      BY <3>1 DEF AdmissionInv, VerdictsTrue
    <3> QED BY <3>2, <3>3
  <2> QED BY <2>1, <2>2
        DEF AdmissionInv, Resolved, Started, VerdictsTrue, ConfigSet, TypeOK
<1> QED BY <1>1, AdmissionKept, PTL

\* No accepted sub-task needs more memory than the host, the operator and the
\* adapter can spare, for every size of each and every word.
THEOREM NoOvercommit == Spec => []AcceptedFits
<1>1. AdmissionInv => AcceptedFits
  <2> SUFFICES ASSUME AdmissionInv, NEW d \in last, d.verdict = "accepted", d.width > 0
               PROVE  Fits(Need(d.mode, d.width))
    BY DEF AcceptedFits
  <2> USE DEF AdmissionInv
  <2>1. d.width \in Nat /\ d.width <= CompactLimit(d.mode)
    <3>1. d.width \in Widths \cup {0}
      BY DEF VerdictsTrue
    <3>2. d.width <= CompactLimit(d.mode)
      BY DEF VerdictsTrue
    <3>3. d.width \in Nat
      <4>1. Widths \subseteq Nat
        BY AdmissionConstants
      <4>2. \A x \in Widths \cup {0} : x \in Nat
        BY <4>1
      <4> QED BY <3>1, <4>2, Zenon
    <3> QED BY <3>2, <3>3, Zenon
  <2>2. /\ Budget \in Nat /\ Budget < WordMax
        /\ \A bytes \in Nat : /\ bytes > Budget => ~ Fits(bytes)
                              /\ bytes <= Budget /\ bytes > AmpBytes => Fits(bytes)
    <3>1. Budget \in Nat /\ Budget < WordMax
      <4>1. 0 \in Nat
        OBVIOUS
      <4> QED BY <4>1, FitsSpared
    <3> QED BY <3>1, FitsSpared
  <2>3. ASSUME d.width <= config.maxQubits PROVE Fits(AmpBytes * 2^d.width)
    <3>1. d.width \in 1..DenseQubits(Budget)
      BY <2>1, <2>2, <2>3, DenseExact DEF Resolved
    <3>2. AmpBytes * 2^d.width <= Budget
      BY <2>2, <3>1, DenseExact
    <3>3. AmpBytes * 2^d.width \in Nat /\ AmpBytes * 2^d.width > AmpBytes
      <4>1. d.width - 1 \in Nat /\ d.width = (d.width - 1) + 1
        BY <2>1
      <4>2. 2^d.width = 2 * 2^(d.width - 1)
        BY <4>1, PowerDoubles
      <4>3. 2^(d.width - 1) \in Nat /\ 2^(d.width - 1) # 0
        BY <4>1, PowerPositive
      <4>4. 2^d.width \in Nat /\ 2 <= 2^d.width
        BY <4>2, <4>3
      <4>5. 2 * AmpBytes <= 2^d.width * AmpBytes
        BY <4>4, Words, Products
      <4> QED BY <4>4, <4>5, Words
    <3> QED BY <2>2, <3>2, <3>3
  <2>4. ASSUME d.width <= config.maxMps PROVE Fits(d.width * SiteBytes)
    <3>1. config.maxMps \in Nat /\ config.maxMps * SiteBytes <= Budget
      BY <2>2, MpsExact, BudgetConstants DEF Resolved
    <3>2. d.width * SiteBytes <= config.maxMps * SiteBytes /\ d.width * SiteBytes \in Nat
          /\ config.maxMps * SiteBytes \in Nat
      BY <2>1, <2>4, <3>1, Words, Products
    <3>3. SiteBytes <= d.width * SiteBytes
      <4>1. 1 * SiteBytes <= d.width * SiteBytes
        BY <2>1, Words, Products
      <4> QED BY <4>1, Words
    <3> QED BY <2>2, <3>1, <3>2, <3>3, Words
  <2>5. config.maxMps = 0 <=> ~ Fits(SiteBytes)
    <3>1. config.maxMps = 0 <=> Budget < SiteBytes
      BY <2>2, MpsExact DEF Resolved
    <3> QED BY <2>2, <3>1, Words
  <2>6. CASE d.mode = "scalar" /\ config.maxMps > 0
    BY <2>1, <2>4, <2>5, <2>6 DEF CompactLimit, Need
  <2>7. CASE ~ (d.mode = "scalar" /\ config.maxMps > 0)
    <3>1. config.maxMps \in Nat
      BY BudgetConstants DEF Resolved, ConfigSet
    <3>2. ~ (d.mode = "scalar" /\ Fits(SiteBytes))
      BY <2>5, <2>7, <3>1
    <3> QED BY <2>1, <2>3, <2>7, <3>2 DEF CompactLimit, Need
  <2> QED BY <2>6, <2>7
<1> QED BY <1>1, AdmissionKept, PTL

\* The widths the node offers are the largest that fit, whatever the host, the
\* request and the adapter: the saturating loop gives none away.
THEOREM WidthsExact == Spec => []WidthLargest
<1>1. AdmissionInv => WidthLargest
  <2> SUFFICES ASSUME AdmissionInv PROVE WidthLargest
    OBVIOUS
  <2> USE DEF AdmissionInv
  <2>1. /\ Budget \in Nat /\ Budget < WordMax
        /\ \A bytes \in Nat : bytes > Budget => ~ Fits(bytes)
    <3>1. 0 \in Nat
      OBVIOUS
    <3> QED BY <3>1, FitsSpared
  <2>2. config.maxQubits \in Nat /\ config.maxMps \in Nat
    BY Words, BudgetConstants DEF Resolved, ConfigSet
  <2>3. ~ Fits(Need("other", config.maxQubits + 1))
    <3>1. Budget < AmpBytes * 2^(config.maxQubits + 1)
      BY <2>1, DenseExact DEF Resolved
    <3>2. config.maxQubits + 1 \in Nat
      BY <2>2
    <3>3. 2^(config.maxQubits + 1) \in Nat
      BY <3>2, PowerPositive
    <3>4. AmpBytes * 2^(config.maxQubits + 1) \in Nat
      BY <3>3, Words
    <3> QED BY <2>1, <3>1, <3>4 DEF Need
  <2>4. ~ Fits((config.maxMps + 1) * SiteBytes) \/ config.maxMps = BidMax
    <3>1. Budget < (config.maxMps + 1) * SiteBytes \/ config.maxMps = BidMax
      BY <2>1, MpsExact DEF Resolved
    <3>2. (config.maxMps + 1) * SiteBytes \in Nat
      BY <2>2, Words
    <3> QED BY <2>1, <3>1, <3>2
  <2> QED BY <2>3, <2>4 DEF WidthLargest
<1> QED BY <1>1, AdmissionKept, PTL

\* A sub-task as wide as the bid offered is not turned away for its width.
THEOREM BidsHonoured == Spec => []BidHonoured
<1>1. AdmissionInv => BidHonoured
  BY DEF AdmissionInv, BidsTrue, VerdictsTrue, BidHonoured, CompactLimit
<1> QED BY <1>1, AdmissionKept, PTL

\* Announced work is weighed by the ledger before the node bids on it, whatever a
\* relay left of the announcement.
THEOREM WorkAlwaysWeighed == Spec => []WorkHonoured
<1>1. AdmissionInv => WorkHonoured
  BY DEF AdmissionInv, BidsTrue, WorkHonoured
<1> QED BY <1>1, AdmissionKept, PTL

\* What reaches the queue is sound, whatever the circuit holds and however deep
\* its gates are nested: normalising after the check adds no gate and no operand
\* that the check did not see.
THEOREM NormalisedSound == Spec => []ForwardedSound
<1>1. AdmissionInv => ForwardedSound
  <2> SUFFICES ASSUME AdmissionInv, NEW d \in last, d.verdict = "accepted", NEW i \in DOMAIN d.forwarded
               PROVE  /\ TypesOf[d.forwarded[i]] \subseteq gates
                      /\ Operands[d.forwarded[i]] \subseteq 0..d.width - 1
                      /\ Operands[d.forwarded[i]] = Operands[d.circuit[i]]
    BY DEF ForwardedSound
  <2>1. gates \in GateSets /\ AcceptedAsChecked(d)
    BY DEF AdmissionInv, Started, VerdictsTrue
  <2>2. i \in DOMAIN d.circuit /\ d.forwarded[i] = NormalGate(d.circuit[i])
    BY <2>1 DEF AcceptedAsChecked, NormalCircuit
  <2>3. PICK g \in Gate : g = d.circuit[i] /\ NormalGate(g) \in Gate
    BY <2>1, <2>2, AdmissionConstants DEF AcceptedAsChecked
  <2>4. GateOk[d.width][gates][g] /\ d.width \in Widths
    BY <2>1, <2>2, <2>3 DEF AcceptedAsChecked, ValidCircuit
  <2> QED BY <2>1, <2>2, <2>3, <2>4, GateSound, NormalSame
<1> QED BY <1>1, AdmissionKept, PTL

\* No dispatch the orchestrator has signed is turned away for its signature,
\* whatever numbers and strings its circuit holds: decimal_digits reads every text
\* of ryu back, and go_json_float lays each number out as Go does.
THEOREM SignaturesKept == Spec => []SignedAccepted
<1>1. AdmissionInv => SignedAccepted
  BY DEF AdmissionInv, VerdictsTrue, SignedAccepted
<1> QED BY <1>1, AdmissionKept, PTL

=============================================================================
