-------------------------- MODULE SidlHeaderProofs --------------------------
(***************************************************************************)
(* Proofs about SidlHeader: headers of revisions of any length, bitfields   *)
(* of any number of members over a word of any size.                        *)
(***************************************************************************)
EXTENDS SidlHeader, SifTheorems, FiniteSetTheorems

(***************************************************************************)
(* Folds over a sequence from the left, step by step.                       *)
(***************************************************************************)
(* A function that folds any set of places up to the n-th, the last first.  *)
FoldsUp(f, T, base, n, step) ==
  /\ f \in [SUBSET (1 .. n) -> T]
  /\ \A s \in SUBSET (1 .. n) :
       f[s] = IF s = {} THEN base ELSE step[<<Max(s), f[s \ {Max(s)}]>>]

(* There is one.                                                            *)
LEMMA FoldExists ==
  ASSUME NEW T, NEW base \in T, NEW n \in Nat, NEW step \in [(1 .. n) \X T -> T]
  PROVE  \E f : FoldsUp(f, T, base, n, step)
<1> DEFINE Folds(f, k) ==
             /\ f \in [SUBSET (1 .. k) -> T]
             /\ \A s \in SUBSET (1 .. k) :
                  f[s] = IF s = {} THEN base ELSE step[<<Max(s), f[s \ {Max(s)}]>>]
           S == {k \in 0 .. n : ~\E f : Folds(f, k)}
<1>0. n \in 0 .. n /\ (n \notin S => \E f : Folds(f, n))
  <2> HIDE DEF Folds
  <2> QED OBVIOUS
<1>1. SUFFICES ASSUME S # {} PROVE FALSE
  <2> HIDE DEF S
  <2>1. ASSUME S = {} PROVE \E f : FoldsUp(f, T, base, n, step)
    <3>1. PICK f : Folds(f, n)
      <4> HIDE DEF Folds
      <4> QED BY <1>0, <2>1
    <3> QED
      BY <3>1 DEF FoldsUp
  <2> QED
    BY <2>1, Zenon
<1>2. PICK k \in S : \A m \in S : k <= m
  <2> HIDE DEF S
  <2>1. S \in SUBSET Nat
    BY DEF S
  <2> QED
    BY <1>1, <2>1, LeastNat
<1>3. k \in 0 .. n /\ ~\E f : Folds(f, k)
  OBVIOUS
<1>4. k # 0
  <2> DEFINE e == [s \in SUBSET (1 .. 0) |-> base]
  <2>1. \A s \in SUBSET (1 .. 0) : s = {}
    OBVIOUS
  <2>2. Folds(e, 0)
    BY <2>1
  <2> HIDE DEF Folds, e
  <2> QED
    BY <1>3, <2>2
<1>5. PICK f : Folds(f, k - 1)
  <2>1. k - 1 \in 0 .. n /\ ~(k <= k - 1)
    BY <1>3, <1>4
  <2> HIDE DEF Folds
  <2> QED
    BY <1>2, <2>1
<1> DEFINE h == [s \in SUBSET (1 .. k) |-> IF k \in s THEN step[<<k, f[s \ {k}]>>] ELSE f[s]]
<1>6. k \in 1 .. n /\ k \in Nat /\ \A s \in SUBSET (1 .. k) : s \ {k} \in SUBSET (1 .. k - 1)
  BY <1>3, <1>4
<1>7. \A s \in SUBSET (1 .. k) : k \notin s => s \in SUBSET (1 .. k - 1)
  BY <1>6
<1>8. h \in [SUBSET (1 .. k) -> T]
  <2> SUFFICES ASSUME NEW s \in SUBSET (1 .. k)
               PROVE  (IF k \in s THEN step[<<k, f[s \ {k}]>>] ELSE f[s]) \in T
    OBVIOUS
  <2>1. CASE k \in s
    BY <2>1, <1>5, <1>6
  <2>2. CASE k \notin s
    BY <2>2, <1>5, <1>7
  <2> QED
    BY <2>1, <2>2
<1>9. ASSUME NEW s \in SUBSET (1 .. k)
      PROVE  h[s] = IF s = {} THEN base ELSE step[<<Max(s), h[s \ {Max(s)}]>>]
  <2>1. CASE k \in s
    <3>1. s \in SUBSET Int /\ \A x \in s : x <= k
      BY <1>6
    <3>2. Max(s) = k
      BY <2>1, <3>1, MaxIsLargest
    <3>3. s \ {k} \in SUBSET (1 .. k) /\ k \notin s \ {k}
      BY <1>6
    <3>4. h[s \ {k}] = f[s \ {k}]
      BY <3>3
    <3>5. h[s] = step[<<k, f[s \ {k}]>>]
      BY <2>1
    <3> QED
      BY <2>1, <3>2, <3>4, <3>5, Zenon
  <2>2. CASE k \notin s
    <3>1. h[s] = f[s] /\ s \in SUBSET (1 .. k - 1)
      BY <2>2, <1>7
    <3>2. CASE s = {}
      BY <3>1, <3>2, <1>5
    <3>3. CASE s # {}
      <4> DEFINE m == Max(s)
      <4>1. s \in SUBSET Nat /\ \A x \in s : x <= k
        BY <1>6
      <4>2. m \in s
        BY <3>3, <4>1, <1>6, BoundedMax
      <4> HIDE DEF m
      <4>3. s \ {m} \in SUBSET (1 .. k) /\ k \notin s \ {m} /\ s \ {m} \in SUBSET (1 .. k - 1)
        BY <3>1, <2>2
      <4>4. h[s \ {m}] = f[s \ {m}]
        BY <4>3
      <4>5. f[s] = step[<<m, f[s \ {m}]>>]
        BY <3>1, <3>3, <1>5 DEF m
      <4> QED
        BY <3>1, <3>3, <4>4, <4>5, Zenon DEF m
    <3> QED
      BY <3>2, <3>3
  <2> QED
    BY <2>1, <2>2
<1>10. Folds(h, k)
  <2> HIDE DEF h
  <2> QED BY <1>8, <1>9
<1> HIDE DEF Folds, h
<1> QED
  BY <1>3, <1>10

(* The first k places are folded one place after the other.                 *)
LEMMA FoldSteps ==
  ASSUME NEW n \in Nat, NEW k \in 1 .. n
  PROVE  /\ 1 .. k \in SUBSET (1 .. n) /\ 1 .. k # {}
         /\ Max(1 .. k) = k /\ (1 .. k) \ {k} = 1 .. k - 1
<1>1. 1 .. k \in SUBSET Int /\ k \in 1 .. k /\ \A x \in 1 .. k : x <= k
  OBVIOUS
<1>2. Max(1 .. k) = k
  BY <1>1, MaxIsLargest
<1> QED
  BY <1>1, <1>2

(* Widths added up from the first member on.                                *)
Sums(sum, widths) ==
  /\ sum \in [0 .. Len(widths) -> Nat] /\ sum[0] = 0
  /\ \A k \in 1 .. Len(widths) : sum[k] = sum[k - 1] + widths[k]

(* Total is the last of them.                                               *)
LEMMA TotalIs ==
  ASSUME NEW w \in Seq(Nat)
  PROVE  \E sum : Sums(sum, w) /\ Total(w) = sum[Len(w)]
<1> DEFINE n == Len(w)
           step == [x \in (1 .. n) \X Nat |-> x[2] + w[x[1]]]
           it == CHOOSE f : f = [s \in SUBSET (DOMAIN w) |->
                                   IF s = {} THEN 0 ELSE f[s \ {Max(s)}] + w[Max(s)]]
<1>1. Total(w) = it[DOMAIN w]
  BY Zenon DEF Total, FoldLeft, MapThenFoldSet
<1>2. n \in Nat /\ DOMAIN w = 1 .. n /\ \A i \in 1 .. n : w[i] \in Nat
  BY LenProperties, ElementOfSeq
<1>3. step \in [(1 .. n) \X Nat -> Nat]
  BY <1>2
<1>3a. PICK f : FoldsUp(f, Nat, 0, n, step)
  <2>1. 0 \in Nat
    OBVIOUS
  <2> HIDE DEF step, n
  <2>2. n \in Nat
    BY <1>2
  <2> QED BY <2>2, <1>3, <2>1, FoldExists, Zenon
<1>4. /\ f \in [SUBSET (1 .. n) -> Nat]
      /\ \A s \in SUBSET (1 .. n) :
           f[s] = IF s = {} THEN 0 ELSE step[<<Max(s), f[s \ {Max(s)}]>>]
  BY <1>3a DEF FoldsUp

<1>5. \A s \in SUBSET (1 .. n) : s # {} => Max(s) \in 1 .. n
  <2> SUFFICES ASSUME NEW s \in SUBSET (1 .. n), s # {} PROVE Max(s) \in 1 .. n
    OBVIOUS
  <2>1. s \in SUBSET Nat /\ \A x \in s : x <= n
    OBVIOUS
  <2> QED
    BY <2>1, <1>2, BoundedMax
<1>6. \A s \in SUBSET (1 .. n) :
        f[s] = IF s = {} THEN 0 ELSE f[s \ {Max(s)}] + w[Max(s)]
  <2> SUFFICES ASSUME NEW s \in SUBSET (1 .. n), s # {}
               PROVE  f[s] = f[s \ {Max(s)}] + w[Max(s)]
    BY <1>4
  <2>1. Max(s) \in 1 .. n /\ s \ {Max(s)} \in SUBSET (1 .. n)
    BY <1>5
  <2>2. f[s \ {Max(s)}] \in Nat
    BY <2>1, <1>4
  <2>3. step[<<Max(s), f[s \ {Max(s)}]>>] = f[s \ {Max(s)}] + w[Max(s)]
    BY <2>1, <2>2
  <2> HIDE DEF step
  <2> QED
    BY <1>4, <2>3
<1>7. f = [s \in SUBSET (DOMAIN w) |-> IF s = {} THEN 0 ELSE f[s \ {Max(s)}] + w[Max(s)]]
  <2> DEFINE g == [s \in SUBSET (DOMAIN w) |-> IF s = {} THEN 0 ELSE f[s \ {Max(s)}] + w[Max(s)]]
  <2>1. DOMAIN g = SUBSET (1 .. n) /\ DOMAIN f = SUBSET (1 .. n)
    BY <1>2, <1>4
  <2>2. \A s \in SUBSET (1 .. n) : g[s] = f[s]
    BY <1>2, <1>6, Zenon
  <2>3. g = [s \in DOMAIN g |-> g[s]] /\ f = [s \in DOMAIN f |-> f[s]]
    BY <1>4
  <2>4. f = g
    <3> HIDE DEF g, n
    <3> QED BY <2>1, <2>2, <2>3, Zenon
  <2> QED
    BY <2>4, Zenon

<1>8. it = [s \in SUBSET (DOMAIN w) |-> IF s = {} THEN 0 ELSE it[s \ {Max(s)}] + w[Max(s)]]
  <2> HIDE DEF n, step
  <2> QED BY <1>7, Zenon
<1> HIDE DEF step, it
<1> DEFINE sum == [k \in 0 .. n |-> it[1 .. k]]
<1>9. it[1 .. 0] = 0
  <2>1. 1 .. 0 = {} /\ {} \in SUBSET (DOMAIN w)
    OBVIOUS
  <2> QED
    BY <1>8, <2>1
<1>10. \A k \in 1 .. n : it[1 .. k] = it[1 .. k - 1] + w[k]
  <2> SUFFICES ASSUME NEW k \in 1 .. n PROVE it[1 .. k] = it[1 .. k - 1] + w[k]
    OBVIOUS
  <2> HIDE DEF n
  <2>1. /\ 1 .. k \in SUBSET (DOMAIN w) /\ 1 .. k # {}
        /\ Max(1 .. k) = k /\ (1 .. k) \ {k} = 1 .. k - 1
    BY <1>2, FoldSteps
  <2>2. it[1 .. k] = it[(1 .. k) \ {Max(1 .. k)}] + w[Max(1 .. k)]
    BY <1>8, <2>1, Zenon
  <2> QED
    BY <2>1, <2>2
<1>11. \A k \in 0 .. n : it[1 .. k] \in Nat
  <2> DEFINE S == {k \in 0 .. n : it[1 .. k] \notin Nat}
  <2> SUFFICES ASSUME S # {} PROVE FALSE
    OBVIOUS
  <2>1. PICK k \in S : \A m \in S : k <= m
    <3>1. S \in SUBSET Nat
      OBVIOUS
    <3> HIDE DEF S
    <3> QED BY <3>1, LeastNat
  <2>2. k \in 1 .. n /\ k - 1 \in 0 .. n /\ k - 1 \notin S
    BY <2>1, <1>9, <1>2
  <2> QED
    BY <2>2, <1>2, <1>10
<1>12. Sums(sum, w)
  <2>1. \A k \in 1 .. n : sum[k] = sum[k - 1] + w[k]
    BY <1>2, <1>10
  <2>2. sum \in [0 .. n -> Nat] /\ sum[0] = 0
    BY <1>2, <1>9, <1>11
  <2> HIDE DEF sum
  <2> QED
    BY <2>1, <2>2 DEF Sums
<1>13. Total(w) = sum[n]
  BY <1>1, <1>2
<1> QED
  BY <1>12, <1>13

(* The first members add up to the same in a list and in what it begins.    *)
LEMMA OffsetIs ==
  ASSUME NEW w \in Seq(Nat), NEW sum, Sums(sum, w), NEW i \in 1 .. Len(w)
  PROVE  Offset(w, i) = sum[i - 1]
<1> DEFINE v == SubSeq(w, 1, i - 1)
<1>1. Len(w) \in Nat /\ DOMAIN w = 1 .. Len(w)
  BY LenProperties
<1>2. i - 1 \in Nat /\ i - 1 <= Len(w) /\ \A k \in 1 .. i - 1 : k \in 1 .. Len(w)
  BY <1>1
<1>3. v \in Seq(Nat) /\ Len(v) = i - 1 /\ \A k \in 1 .. i - 1 : v[k] = w[k]
  BY <1>1, <1>2, SubSeqProperties
<1> HIDE DEF v
<1>4. PICK sv : Sums(sv, v) /\ Total(v) = sv[i - 1]
  BY <1>3, TotalIs
<1> DEFINE S == {k \in 0 .. i - 1 : sv[k] # sum[k]}
<1>5. S = {}
  <2> SUFFICES ASSUME S # {} PROVE FALSE
    OBVIOUS
  <2>1. PICK k \in S : \A m \in S : k <= m
    <3>1. S \in SUBSET Nat
      BY <1>2
    <3> HIDE DEF S
    <3> QED BY <3>1, LeastNat
  <2>2. sv[0] = 0 /\ sum[0] = 0
    BY <1>4 DEF Sums
  <2>3. k \in 1 .. i - 1 /\ k - 1 \in 0 .. i - 1 /\ k - 1 \notin S
    BY <2>1, <2>2, <1>2
  <2>4. sv[k - 1] = sum[k - 1]
    BY <2>3
  <2>5. sv[k] = sv[k - 1] + v[k] /\ sum[k] = sum[k - 1] + w[k]
    BY <2>3, <1>2, <1>3, <1>4 DEF Sums
  <2> QED
    BY <2>3, <2>4, <2>5, <1>3
<1>6. sv[i - 1] = sum[i - 1]
  BY <1>2, <1>5
<1>7. Offset(w, i) = Total(v)
  BY DEF Offset, v
<1> QED
  BY <1>4, <1>6, <1>7

(* Sums grow from member to member.                                         *)
LEMMA SumsGrow ==
  ASSUME NEW w \in Seq(Nat), NEW sum, Sums(sum, w),
         NEW i \in 0 .. Len(w), NEW j \in 0 .. Len(w), i <= j
  PROVE  sum[i] <= sum[j] /\ sum[i] \in Nat /\ sum[j] \in Nat
<1> DEFINE S == {k \in i .. Len(w) : ~(sum[i] <= sum[k])}
<1>1. /\ Len(w) \in Nat /\ i \in Nat
      /\ \A k \in 1 .. Len(w) : w[k] \in Nat
      /\ \A k \in 0 .. Len(w) : sum[k] \in Nat
  <2>1. Len(w) \in Nat /\ \A k \in 1 .. Len(w) : w[k] \in Nat
    BY LenProperties, ElementOfSeq
  <2>2. sum \in [0 .. Len(w) -> Nat]
    BY DEF Sums
  <2> QED
    BY <2>1, <2>2
<1>2. S = {}
  <2> SUFFICES ASSUME S # {} PROVE FALSE
    OBVIOUS
  <2>1. PICK k \in S : \A m \in S : k <= m
    <3>1. S \in SUBSET Nat
      BY <1>1
    <3> HIDE DEF S
    <3> QED BY <3>1, LeastNat
  <2>2. k # i
    BY <1>1
  <2>3. k - 1 \in i .. Len(w) /\ k \in 1 .. Len(w) /\ k - 1 \notin S
    BY <2>1, <2>2, <1>1
  <2>4. sum[i] <= sum[k - 1] /\ sum[k] = sum[k - 1] + w[k]
    BY <2>3 DEF Sums
  <2>5. sum[i] \in Nat /\ sum[k - 1] \in Nat /\ w[k] \in Nat /\ ~(sum[i] <= sum[k])
    BY <2>3, <1>1
  <2> QED
    BY <2>4, <2>5
<1>3. j \in i .. Len(w) /\ j \notin S
  BY <1>1, <1>2
<1>4. sum[i] <= sum[j]
  BY <1>3
<1> QED
  BY <1>1, <1>4

(* All bits
 below the one set: for a member narrower than the word, whatever*)
(* the machine does with wider shifts.                                      *)
LEMMA OnesIs ==
  ASSUME NEW bits \in Nat, bits < WordSize, NEW how
  PROVE  Ones(bits, how) = 0 .. bits - 1
<1>1. WordSize \in Nat /\ bits \in Word
  BY WordAssumption DEF Word
<1>2. ~(bits >= WordSize)
  BY <1>1
<1>3. Shifted({0}, bits, how) = {b \in Word : b >= bits /\ b - bits \in {0}}
  BY <1>2 DEF Shifted
<1>4. Shifted({0}, bits, how) = {bits}
  BY <1>1, <1>3 DEF Word
<1>5. Ones(bits, how) = {b \in Word : b < bits}
  BY <1>4 DEF Ones
<1> QED
  BY <1>1, <1>5 DEF Word

(* A member that ends within the word has the bits from its offset on.      *)
LEMMA MaskIs ==
  ASSUME NEW bits \in Nat, bits < WordSize, NEW by \in Nat, by + bits <= WordSize, NEW how
  PROVE  Shifted(Ones(bits, how), by, how) = by .. by + bits - 1
<1>1. WordSize \in Nat
  BY WordAssumption
<1>2. Ones(bits, how) = 0 .. bits - 1
  BY OnesIs
<1>3. CASE by < WordSize
  <2>1. ~(by >= WordSize)
    BY <1>1, <1>3
  <2>2. Shifted(Ones(bits, how), by, how) = {b \in Word : b >= by /\ b - by \in 0 .. bits - 1}
    BY <2>1, <1>2 DEF Shifted
  <2> QED
    BY <2>2, <1>1 DEF Word
<1>4. CASE ~(by < WordSize)
  <2>1. bits = 0 /\ by .. by + bits - 1 = {}
    BY <1>1, <1>4
  <2>2. Ones(bits, how) = {}
    BY <2>1, <1>2
  <2>3. \A n : {b \in Word : b >= n /\ b - n \in {}} = {}
    OBVIOUS
  <2>4. Shifted({}, by, how) = {}
    BY <2>3 DEF Shifted
  <2> QED
    BY <2>1, <2>2, <2>4
<1> QED
  BY <1>3, <1>4

(* Masks share no bit, leave none out, and are as wide as the members.      *)
Tiles(masks, widths) ==
  /\ \A j, k \in DOMAIN masks : j # k => masks[j] \cap masks[k] = {}
  /\ UNION Range(masks) = 0 .. Total(widths) - 1
  /\ \A j \in DOMAIN masks : Cardinality(masks[j]) = widths[j]

(* The members of a bitfield that fits in a word share it out.              *)
LEMMA MembersTile ==
  ASSUME NEW w \in Seq(Nat), \A k \in DOMAIN w : w[k] < WordSize,
         Total(w) <= WordSize, NEW how,
         NEW masks, masks = [i \in DOMAIN w |-> Shifted(Ones(w[i], how), Offset(w, i), how)]
  PROVE  Tiles(masks, w)
<1> DEFINE n == Len(w)
<1>1. n \in Nat /\ DOMAIN w = 1 .. n /\ \A i \in 1 .. n : w[i] \in Nat
  BY LenProperties, ElementOfSeq
<1>2. PICK sum : Sums(sum, w) /\ Total(w) = sum[n]
  BY TotalIs
<1>3. \A i \in 0 .. n : \A j \in 0 .. n : i <= j =>
        sum[i] <= sum[j] /\ sum[i] \in Nat /\ sum[j] \in Nat
  BY <1>2, SumsGrow
<1>4. \A i \in 1 .. n : sum[i] = sum[i - 1] + w[i]
  BY <1>2 DEF Sums
<1>5. \A i \in 1 .. n : masks[i] = sum[i - 1] .. sum[i] - 1
  <2> SUFFICES ASSUME NEW i \in 1 .. n PROVE masks[i] = sum[i - 1] .. sum[i] - 1
    OBVIOUS
  <2>1. i - 1 \in 0 .. n /\ i \in 0 .. n /\ n \in 0 .. n
    BY <1>1
  <2>2. /\ sum[i] <= sum[n] /\ sum[i - 1] \in Nat /\ w[i] \in Nat
        /\ sum[i] \in Nat /\ sum[n] \in Nat /\ WordSize \in Nat
    BY <2>1, <1>1, <1>3, WordAssumption
  <2>3. sum[i - 1] + w[i] <= WordSize
    BY <2>2, <1>2, <1>4
  <2>4. w[i] < WordSize
    BY <1>1
  <2>5. Shifted(Ones(w[i], how), sum[i - 1], how) = sum[i - 1] .. sum[i - 1] + w[i] - 1
    BY <2>2, <2>3, <2>4, MaskIs
  <2>6. Offset(w, i) = sum[i - 1]
    BY <1>2, OffsetIs
  <2>7. masks[i] = Shifted(Ones(w[i], how), Offset(w, i), how)
    BY <1>1
  <2>8. sum[i] = sum[i - 1] + w[i]
    BY <1>4
  <2>9. sum[i] - 1 = sum[i - 1] + w[i] - 1
    <3>1. \A x \in Nat, y \in Nat, z \in Nat : x = y + z => x - 1 = y + z - 1
      OBVIOUS
    <3> QED
      BY <2>2, <2>8, <3>1, Zenon

  <2> QED

    BY <2>5, <2>6, <2>7, <2>9, Zenon

<1>6. DOMAIN masks = 1 .. n
  BY <1>1
<1>7. ASSUME NEW j \in 1 .. n, NEW k \in 1 .. n, j < k
      PROVE  masks[j] \cap masks[k] = {}
  <2>1. j \in 0 .. n /\ k - 1 \in 0 .. n /\ j <= k - 1 /\ j - 1 \in 0 .. n /\ k \in 0 .. n
    BY <1>1, <1>7
  <2>2. sum[j] <= sum[k - 1] /\ sum[j] \in Nat /\ sum[k - 1] \in Nat
    BY <2>1, <1>3
  <2>3. sum[j - 1] \in Nat /\ sum[k] \in Nat
    BY <2>1, <1>3
  <2>4. masks[j] = sum[j - 1] .. sum[j] - 1 /\ masks[k] = sum[k - 1] .. sum[k] - 1
    BY <1>5
  <2> DEFINE start == sum[j - 1]
             end == sum[j]
             from == sum[k - 1]
             to == sum[k]
  <2>5. end <= from /\ start \in Nat /\ end \in Nat /\ from \in Nat /\ to \in Nat
    BY <2>2, <2>3
  <2>6. masks[j] = start .. end - 1 /\ masks[k] = from .. to - 1
    BY <2>4
  <2> HIDE DEF start, end, from, to, n
  <2>7. (start .. end - 1) \cap (from .. to - 1) = {}
    BY <2>5
  <2> QED
    BY <2>6, <2>7
<1>8. \A j, k \in DOMAIN masks : j # k => masks[j] \cap masks[k] = {}
  <2> SUFFICES ASSUME NEW j \in 1 .. n, NEW k \in 1 .. n, j # k
               PROVE  masks[j] \cap masks[k] = {}
    BY <1>6
  <2>1. j < k \/ k < j
    BY <1>1
  <2> QED
    BY <2>1, <1>7
<1>9. ASSUME NEW b \in 0 .. sum[n] - 1 PROVE \E i \in 1 .. n : b \in masks[i]
  <2> DEFINE S == {i \in 0 .. n : b < sum[i]}
  <2>0. n \in 0 .. n /\ sum[n] \in Nat
    BY <1>1, <1>3
  <2>1. PICK i \in S : \A m \in S : i <= m
    <3>1. n \in S /\ S \in SUBSET Nat
      BY <2>0
    <3> HIDE DEF S
    <3> QED BY <3>1, LeastNat
  <2>2. i # 0
    <3>1. sum[0] = 0
      BY <1>2 DEF Sums
    <3> QED
      BY <3>1, <2>0
  <2>3. i \in 1 .. n /\ i - 1 \in 0 .. n /\ i - 1 \notin S /\ i \in 0 .. n
    BY <2>1, <2>2, <1>1
  <2>4. b < sum[i] /\ ~(b < sum[i - 1])
    BY <2>3
  <2>5. sum[i] \in Nat /\ sum[i - 1] \in Nat
    BY <2>3, <1>3
  <2>6. b \in sum[i - 1] .. sum[i] - 1
    BY <2>4, <2>5
  <2> QED
    BY <2>3, <2>6, <1>5
<1>10. ASSUME NEW i \in 1 .. n, NEW b \in masks[i] PROVE b \in 0 .. sum[n] - 1
  <2>1. i - 1 \in 0 .. n /\ i \in 0 .. n /\ n \in 0 .. n /\ i <= n
    BY <1>1
  <2>2. sum[i] <= sum[n] /\ sum[i - 1] \in Nat /\ sum[i] \in Nat /\ sum[n] \in Nat
    BY <2>1, <1>3
  <2>3. b \in sum[i - 1] .. sum[i] - 1
    BY <1>5
  <2> QED
    BY <2>2, <2>3
<1>11. UNION Range(masks) = 0 .. sum[n] - 1
  <2>1. Range(masks) = {masks[i] : i \in 1 .. n}
    BY <1>6 DEF Range
  <2> QED
    BY <2>1, <1>9, <1>10
<1>12. ASSUME NEW j \in 1 .. n PROVE Cardinality(masks[j]) = w[j]
  <2>1. j - 1 \in 0 .. n /\ j \in 0 .. n /\ j - 1 <= j
    BY <1>1
  <2>2. sum[j - 1] \in Nat /\ sum[j] \in Nat /\ sum[j] = sum[j - 1] + w[j] /\ w[j] \in Nat
    BY <2>1, <1>1, <1>3, <1>4
  <2>3. sum[j - 1] \in Int /\ sum[j] - 1 \in Int
    BY <2>2
  <2>4. Cardinality(sum[j - 1] .. sum[j] - 1) =
          IF sum[j - 1] > sum[j] - 1 THEN 0 ELSE (sum[j] - 1) - sum[j - 1] + 1
    <3> HIDE DEF n
    <3> DEFINE a == sum[j - 1]
               b == sum[j] - 1
    <3>1. a \in Int /\ b \in Int
      BY <2>3
    <3> HIDE DEF a, b
    <3>2. Cardinality(a .. b) = IF a > b THEN 0 ELSE b - a + 1
      BY <3>1, FS_Interval
    <3> QED
      BY <3>2 DEF a, b
  <2>5. Cardinality(sum[j - 1] .. sum[j] - 1) = w[j]
    BY <2>2, <2>4
  <2>6. masks[j] = sum[j - 1] .. sum[j] - 1
    BY <1>5
  <2> QED
    BY <2>5, <2>6

<1> QED
  BY <1>2, <1>6, <1>8, <1>11, <1>12 DEF Tiles

(***************************************************************************)
(* The declarations of a kind.                                              *)
(***************************************************************************)
(* What has been picked from the first n declarations of a revision: those  *)
(* of the kind, in the order they were written in.                          *)
Picked(list, r, n, kind) ==
  /\ list \in Seq(Declarations)
  /\ \A q \in 1 .. Len(list) : \E p \in 1 .. n :
       /\ list[q] = r[p] /\ r[p].kind = kind
       /\ \A above \in 1 .. p - 1 :
            r[above].kind = kind => \E l \in 1 .. q - 1 : list[l] = r[above]
  /\ \A p \in 1 .. n : r[p].kind = kind => \E q \in 1 .. Len(list) : list[q] = r[p]

(* A declaration of another kind is passed over.                            *)
LEMMA PassedOver ==
  ASSUME NEW r \in Seq(Declarations), NEW n \in 1 .. Len(r), NEW kind, NEW list,
         Picked(list, r, n - 1, kind), r[n].kind # kind
  PROVE  Picked(list, r, n, kind)
<1>1. n \in Nat /\ Len(r) \in Nat /\ \A p \in 1 .. n : p \in 1 .. n - 1 \/ p = n
  BY LenProperties
<1>2. \A p \in 1 .. n - 1 : p \in 1 .. n
  BY <1>1
<1> QED
  BY <1>1, <1>2 DEF Picked

(* One of the kind is added behind those above it.                          *)
LEMMA PickedUp ==
  ASSUME NEW r \in Seq(Declarations), NEW n \in 1 .. Len(r), NEW kind, NEW list,
         Picked(list, r, n - 1, kind), r[n].kind = kind
  PROVE  Picked(Append(list, r[n]), r, n, kind)
<1> DEFINE a == Append(list, r[n])
           m == Len(list)
<1>1. n \in Nat /\ Len(r) \in Nat /\ r[n] \in Declarations
  BY LenProperties, ElementOfSeq
<1>2. \A p \in 1 .. n : p \in 1 .. n - 1 \/ p = n
  BY <1>1
<1>3. \A p \in 1 .. n - 1 : p \in 1 .. n
  BY <1>1
<1>4. list \in Seq(Declarations) /\ m \in Nat
  BY LenProperties DEF Picked
<1>5. a \in Seq(Declarations) /\ Len(a) = m + 1 /\ (\A q \in 1 .. m : a[q] = list[q]) /\ a[m + 1] = r[n]
  BY <1>1, <1>4, AppendProperties
<1>6. \A q \in 1 .. m + 1 : q \in 1 .. m \/ q = m + 1
  BY <1>4
<1>7. \A q \in 1 .. m : q \in 1 .. m + 1 /\ \A l \in 1 .. q - 1 : l \in 1 .. m
  BY <1>4
<1>8. m + 1 \in 1 .. m + 1 /\ (m + 1) - 1 = m
  BY <1>4
<1> HIDE DEF a, m
<1>9. \A p \in 1 .. n - 1 : r[p].kind = kind => \E q \in 1 .. m : a[q] = r[p]
  BY <1>5 DEF Picked, m
<1>10. \A p \in 1 .. n : r[p].kind = kind => \E q \in 1 .. m + 1 : a[q] = r[p]
  BY <1>2, <1>5, <1>7, <1>8, <1>9
<1>11. ASSUME NEW q \in 1 .. m + 1
       PROVE  \E p \in 1 .. n :
                /\ a[q] = r[p] /\ r[p].kind = kind
                /\ \A above \in 1 .. p - 1 :
                     r[above].kind = kind => \E l \in 1 .. q - 1 : a[l] = r[above]
  <2>1. CASE q \in 1 .. m
    <3>1. PICK p \in 1 .. n - 1 :
                 /\ list[q] = r[p] /\ r[p].kind = kind
                 /\ \A above \in 1 .. p - 1 :
                      r[above].kind = kind => \E l \in 1 .. q - 1 : list[l] = r[above]
      BY <2>1 DEF Picked, m
    <3>2. \A l \in 1 .. q - 1 : a[l] = list[l]
      BY <2>1, <1>5, <1>7
    <3>3. a[q] = list[q]
      BY <2>1, <1>5
    <3> QED
      BY <3>1, <3>2, <3>3, <1>3
  <2>2. CASE q = m + 1
    <3>1. n \in 1 .. n
      BY <1>1
    <3>2. \A above \in 1 .. n - 1 :
            r[above].kind = kind => \E l \in 1 .. q - 1 : a[l] = r[above]
      BY <2>2, <1>8, <1>9
    <3> QED
      BY <2>2, <3>1, <3>2, <1>5
  <2> QED
    BY <2>1, <2>2, <1>6
<1> QED
  BY <1>5, <1>10, <1>11 DEF Picked, a

(* OfKind picks from all of them.                                           *)
LEMMA OfKindIs ==
  ASSUME NEW r \in Seq(Declarations), NEW kind
  PROVE  Picked(OfKind(r, kind), r, Len(r), kind)
<1> DEFINE n == Len(r)
           T == Seq(Declarations)
           step == [x \in (1 .. n) \X T |->
                      IF r[x[1]].kind = kind THEN Append(x[2], r[x[1]]) ELSE x[2]]
           it == CHOOSE f : f = [s \in SUBSET (DOMAIN r) |->
                   IF s = {} THEN <<>>
                   ELSE IF r[Max(s)].kind = kind THEN Append(f[s \ {Max(s)}], r[Max(s)])
                        ELSE f[s \ {Max(s)}]]
<1>1. OfKind(r, kind) = it[DOMAIN r]
  BY Zenon DEF OfKind, FoldLeft, MapThenFoldSet
<1>2. n \in Nat /\ DOMAIN r = 1 .. n /\ \A i \in 1 .. n : r[i] \in Declarations
  BY LenProperties, ElementOfSeq
<1>3. step \in [(1 .. n) \X T -> T]
  <2> SUFFICES ASSUME NEW x \in (1 .. n) \X T
               PROVE  (IF r[x[1]].kind = kind THEN Append(x[2], r[x[1]]) ELSE x[2]) \in T
    OBVIOUS
  <2>1. x[1] \in 1 .. n /\ x[2] \in T
    OBVIOUS
  <2>2. Append(x[2], r[x[1]]) \in T
    BY <2>1, <1>2, AppendProperties
  <2> QED
    BY <2>1, <2>2
<1>4. PICK f : FoldsUp(f, T, <<>>, n, step)
  <2>1. <<>> \in T /\ n \in Nat
    BY <1>2, EmptySeq
  <2> HIDE DEF step, n, T
  <2> QED
    BY <2>1, <1>3, FoldExists, Zenon
<1>5. /\ f \in [SUBSET (1 .. n) -> T]
      /\ \A s \in SUBSET (1 .. n) :
           f[s] = IF s = {} THEN <<>> ELSE step[<<Max(s), f[s \ {Max(s)}]>>]
  BY <1>4 DEF FoldsUp
<1>6. \A s \in SUBSET (1 .. n) :
        f[s] = IF s = {} THEN <<>>
               ELSE IF r[Max(s)].kind = kind THEN Append(f[s \ {Max(s)}], r[Max(s)])
                    ELSE f[s \ {Max(s)}]
  <2> SUFFICES ASSUME NEW s \in SUBSET (1 .. n), s # {}
               PROVE  f[s] = IF r[Max(s)].kind = kind THEN Append(f[s \ {Max(s)}], r[Max(s)])
                             ELSE f[s \ {Max(s)}]
    BY <1>5
  <2>1. s \in SUBSET Nat /\ \A x \in s : x <= n
    OBVIOUS
  <2>2. Max(s) \in s
    BY <2>1, <1>2, BoundedMax
  <2>3. Max(s) \in 1 .. n /\ s \ {Max(s)} \in SUBSET (1 .. n)
    BY <2>2
  <2>4. f[s \ {Max(s)}] \in T
    <3> HIDE DEF T
    <3> QED BY <2>3, <1>5
  <2> DEFINE m == Max(s)
             rest == f[s \ {m}]
  <2>5. m \in 1 .. n /\ rest \in T /\ f[s] = step[<<m, rest>>]
    BY <2>3, <2>4, <1>5
  <2> HIDE DEF m, rest
  <2>6. step[<<m, rest>>] = IF r[m].kind = kind THEN Append(rest, r[m]) ELSE rest
    <3> HIDE DEF T
    <3> QED BY <2>5
  <2> HIDE DEF step
  <2> QED
    BY <2>5, <2>6, Zenon DEF m, rest
<1>7. f = [s \in SUBSET (DOMAIN r) |->
             IF s = {} THEN <<>>
             ELSE IF r[Max(s)].kind = kind THEN Append(f[s \ {Max(s)}], r[Max(s)])
                  ELSE f[s \ {Max(s)}]]
  <2> DEFINE g == [s \in SUBSET (DOMAIN r) |->
                     IF s = {} THEN <<>>
                     ELSE IF r[Max(s)].kind = kind THEN Append(f[s \ {Max(s)}], r[Max(s)])
                          ELSE f[s \ {Max(s)}]]
  <2>1. DOMAIN g = SUBSET (1 .. n) /\ DOMAIN f = SUBSET (1 .. n)
    BY <1>2, <1>5
  <2>2. \A s \in SUBSET (1 .. n) : g[s] = f[s]
    BY <1>2, <1>6, Zenon
  <2>3. g = [s \in DOMAIN g |-> g[s]] /\ f = [s \in DOMAIN f |-> f[s]]
    BY <1>5
  <2>4. f = g
    <3> HIDE DEF g, n
    <3> QED BY <2>1, <2>2, <2>3, Zenon
  <2> QED
    BY <2>4, Zenon
<1>8. it = [s \in SUBSET (DOMAIN r) |->
              IF s = {} THEN <<>>
              ELSE IF r[Max(s)].kind = kind THEN Append(it[s \ {Max(s)}], r[Max(s)])
                   ELSE it[s \ {Max(s)}]]
  <2> HIDE DEF n, step
  <2> QED BY <1>7, Zenon
<1> HIDE DEF step, it
<1>9. it[1 .. 0] = <<>>
  <2>1. 1 .. 0 = {} /\ {} \in SUBSET (DOMAIN r)
    OBVIOUS
  <2> QED
    BY <1>8, <2>1
<1>10. \A k \in 1 .. n :
         it[1 .. k] = IF r[k].kind = kind THEN Append(it[1 .. k - 1], r[k]) ELSE it[1 .. k - 1]
  <2> SUFFICES ASSUME NEW k \in 1 .. n
               PROVE  it[1 .. k] = IF r[k].kind = kind THEN Append(it[1 .. k - 1], r[k])
                                   ELSE it[1 .. k - 1]
    OBVIOUS
  <2> HIDE DEF n
  <2>1. /\ 1 .. k \in SUBSET (DOMAIN r) /\ 1 .. k # {}
        /\ Max(1 .. k) = k /\ (1 .. k) \ {k} = 1 .. k - 1
    BY <1>2, FoldSteps
  <2> QED
    BY <1>8, <2>1, Zenon
<1> DEFINE S == {k \in 0 .. n : ~Picked(it[1 .. k], r, k, kind)}
<1>11. S = {}
  <2> SUFFICES ASSUME S # {} PROVE FALSE
    OBVIOUS
  <2>1. PICK k \in S : \A m \in S : k <= m
    <3>1. S \in SUBSET Nat
      OBVIOUS
    <3> HIDE DEF S
    <3> QED BY <3>1, LeastNat
  <2>2. k # 0
    <3>1. <<>> \in Seq(Declarations) /\ Len(<<>>) = 0
      BY EmptySeq
    <3>2. Picked(<<>>, r, 0, kind)
      BY <3>1 DEF Picked
    <3> QED
      BY <3>2, <1>9
  <2>3. k \in 1 .. n /\ k - 1 \in 0 .. n /\ k - 1 \notin S
    BY <2>1, <2>2, <1>2
  <2>4. Picked(it[1 .. k - 1], r, k - 1, kind)
    BY <2>3
  <2>5. Picked(it[1 .. k], r, k, kind)
    <3>1. CASE r[k].kind = kind
      <4>1. it[1 .. k] = Append(it[1 .. k - 1], r[k])
        BY <3>1, <2>3, <1>10
      <4>2. Picked(Append(it[1 .. k - 1], r[k]), r, k, kind)
        <5> HIDE DEF S
        <5> QED BY <3>1, <2>3, <2>4, PickedUp, Zenon
      <4> QED
        BY <4>1, <4>2, Zenon

    <3>2. CASE r[k].kind # kind
      BY <3>2, <2>3, <2>4, <1>10, PassedOver
    <3> QED
      BY <3>1, <3>2
  <2> QED
    BY <2>5
<1>12. n \in 0 .. n
  BY <1>2
<1>13. Picked(it[1 .. n], r, n, kind)
  BY <1>11, <1>12
<1> QED
  BY <1>1, <1>2, <1>13

(***************************************************************************)
(* Lists one behind the other: what each finds declared above.              *)
(***************************************************************************)
NamesIn(list) == {list[i].name : i \in DOMAIN list}

(* A list behind others that declare some names.                            *)
Clear(list, before) == \A i \in DOMAIN list : list[i].uses \subseteq before \cup Above(list, i)

(* Two lists in a row declare what both do, and the second stands behind    *)
(* the first.                                                               *)
LEMMA ClearConcat ==
  ASSUME NEW s \in Seq(Declarations), NEW t \in Seq(Declarations), NEW before
  PROVE  /\ s \o t \in Seq(Declarations)
         /\ NamesIn(s \o t) = NamesIn(s) \cup NamesIn(t)
         /\ Clear(s \o t, before) <=> Clear(s, before) /\ Clear(t, before \cup NamesIn(s))
<1> DEFINE a == s \o t
           m == Len(s)
           n == Len(t)
<1>1. m \in Nat /\ n \in Nat /\ DOMAIN s = 1 .. m /\ DOMAIN t = 1 .. n
  BY LenProperties
<1>2. /\ a \in Seq(Declarations) /\ Len(a) = m + n
      /\ \A i \in 1 .. m + n : a[i] = IF i <= m THEN s[i] ELSE t[i - m]
  BY ConcatProperties
<1>3. DOMAIN a = 1 .. m + n
  <2> HIDE DEF a
  <2> QED BY <1>2, LenProperties
<1>4. \A i \in 1 .. m : i \in 1 .. m + n /\ a[i] = s[i]
  <2> HIDE DEF a
  <2> QED BY <1>1, <1>2
<1>5. \A j \in 1 .. n : m + j \in 1 .. m + n /\ a[m + j] = t[j]
  <2> SUFFICES ASSUME NEW j \in 1 .. n PROVE m + j \in 1 .. m + n /\ a[m + j] = t[j]
    OBVIOUS
  <2> HIDE DEF a, m, n
  <2>1. m + j \in 1 .. m + n /\ ~(m + j <= m) /\ (m + j) - m = j
    BY <1>1
  <2>2. a[m + j] = t[(m + j) - m]
    BY <1>2, <2>1
  <2> QED
    BY <2>1, <2>2
<1>6. \A i \in 1 .. m + n : i \in 1 .. m \/ \E j \in 1 .. n : i = m + j
  <2> SUFFICES ASSUME NEW i \in 1 .. m + n, i \notin 1 .. m PROVE \E j \in 1 .. n : i = m + j
    OBVIOUS
  <2> HIDE DEF m, n
  <2>1. i - m \in 1 .. n /\ i = m + (i - m)
    BY <1>1
  <2> QED
    BY <2>1
<1> HIDE DEF a, m, n
<1>7. NamesIn(a) = NamesIn(s) \cup NamesIn(t)
  <2>1. ASSUME NEW i \in 1 .. m + n PROVE a[i].name \in NamesIn(s) \cup NamesIn(t)
    <3>1. CASE i \in 1 .. m
      BY <3>1, <1>1, <1>4 DEF NamesIn
    <3>2. CASE i \notin 1 .. m
      <4>1. PICK j \in 1 .. n : i = m + j
        BY <3>2, <1>6
      <4> QED
        BY <4>1, <1>1, <1>5 DEF NamesIn
    <3> QED
      BY <3>1, <3>2
  <2>2. NamesIn(a) \subseteq NamesIn(s) \cup NamesIn(t)
    BY <2>1, <1>3 DEF NamesIn
  <2>3. NamesIn(s) \subseteq NamesIn(a)
    BY <1>1, <1>3, <1>4 DEF NamesIn
  <2>4. NamesIn(t) \subseteq NamesIn(a)
    BY <1>1, <1>3, <1>5 DEF NamesIn
  <2> QED
    BY <2>2, <2>3, <2>4
<1>8. ASSUME NEW i \in 1 .. m PROVE Above(a, i) = Above(s, i)
  <2>1. \A k \in 1 .. i - 1 : k \in 1 .. m
    BY <1>1
  <2>2. \A k \in 1 .. i - 1 : a[k] = s[k]
    BY <2>1, <1>4
  <2> QED
    BY <2>2 DEF Above
<1>9. ASSUME NEW j \in 1 .. n PROVE Above(a, m + j) = NamesIn(s) \cup Above(t, j)
  <2>1. \A k \in 1 .. (m + j) - 1 : k \in 1 .. m \/ \E l \in 1 .. j - 1 : k = m + l
    <3> SUFFICES ASSUME NEW k \in 1 .. (m + j) - 1, k \notin 1 .. m
                 PROVE  \E l \in 1 .. j - 1 : k = m + l
      OBVIOUS
    <3>1. k - m \in 1 .. j - 1 /\ k = m + (k - m)
      BY <1>1
    <3> QED
      BY <3>1
  <2>2. \A k \in 1 .. m : k \in 1 .. (m + j) - 1
    BY <1>1
  <2>3. \A l \in 1 .. j - 1 : m + l \in 1 .. (m + j) - 1 /\ l \in 1 .. n
    BY <1>1
  <2>4. Above(a, m + j) \subseteq NamesIn(s) \cup Above(t, j)
    <3>1. ASSUME NEW k \in 1 .. (m + j) - 1 PROVE a[k].name \in NamesIn(s) \cup Above(t, j)
      <4>1. CASE k \in 1 .. m
        BY <4>1, <1>1, <1>4 DEF NamesIn
      <4>2. CASE k \notin 1 .. m
        <5>1. PICK l \in 1 .. j - 1 : k = m + l
          BY <4>2, <2>1
        <5> QED
          BY <5>1, <2>3, <1>5 DEF Above
      <4> QED
        BY <4>1, <4>2
    <3> QED
      BY <3>1 DEF Above

  <2>5. NamesIn(s) \subseteq Above(a, m + j)
    BY <2>2, <1>1, <1>4 DEF Above, NamesIn
  <2>6. Above(t, j) \subseteq Above(a, m + j)
    BY <2>3, <1>5 DEF Above
  <2> QED
    BY <2>4, <2>5, <2>6
<1>10. Clear(a, before) => Clear(s, before) /\ Clear(t, before \cup NamesIn(s))
  <2> SUFFICES ASSUME Clear(a, before)
               PROVE  Clear(s, before) /\ Clear(t, before \cup NamesIn(s))
    OBVIOUS
  <2>1. ASSUME NEW i \in 1 .. m PROVE s[i].uses \subseteq before \cup Above(s, i)
    <3>1. a[i].uses \subseteq before \cup Above(a, i)
      BY <1>3, <1>4 DEF Clear
    <3> QED
      BY <3>1, <1>4, <1>8
  <2>2. ASSUME NEW j \in 1 .. n PROVE t[j].uses \subseteq (before \cup NamesIn(s)) \cup Above(t, j)
    <3>1. a[m + j].uses \subseteq before \cup Above(a, m + j)
      BY <1>3, <1>5 DEF Clear
    <3> QED
      BY <3>1, <1>5, <1>9
  <2> QED
    BY <2>1, <2>2, <1>1 DEF Clear
<1>11. Clear(s, before) /\ Clear(t, before \cup NamesIn(s)) => Clear(a, before)
  <2> SUFFICES ASSUME Clear(s, before), Clear(t, before \cup NamesIn(s)), NEW i \in 1 .. m + n
               PROVE  a[i].uses \subseteq before \cup Above(a, i)
    BY <1>3 DEF Clear
  <2>1. CASE i \in 1 .. m
    <3>1. s[i].uses \subseteq before \cup Above(s, i)
      BY <2>1, <1>1 DEF Clear
    <3> QED
      BY <2>1, <3>1, <1>4, <1>8
  <2>2. CASE i \notin 1 .. m
    <3>1. PICK j \in 1 .. n : i = m + j
      BY <2>2, <1>6
    <3>2. t[j].uses \subseteq (before \cup NamesIn(s)) \cup Above(t, j)
      BY <1>1 DEF Clear
    <3> QED
      BY <3>1, <3>2, <1>5, <1>9
  <2> QED
    BY <2>1, <2>2
<1> QED
  BY <1>2, <1>7, <1>10, <1>11 DEF a

(* What the first i lists declare.                                          *)
NamesUpTo(seqs, i) == UNION {NamesIn(seqs[j]) : j \in 1 .. i}

(* Any number of lists in a row.                                            *)
LEMMA ClearFlatten ==
  ASSUME NEW seqs, NEW n \in Nat, Len(seqs) = n, DOMAIN seqs = 1 .. n,
         n = 0 => seqs = <<>>,
         \A i \in 1 .. n : seqs[i] \in Seq(Declarations)
  PROVE  /\ FlattenSeq(seqs) \in Seq(Declarations)
         /\ NamesIn(FlattenSeq(seqs)) = NamesUpTo(seqs, n)
         /\ Clear(FlattenSeq(seqs), {}) <=> \A i \in 1 .. n : Clear(seqs[i], NamesUpTo(seqs, i - 1))
<1>1. CASE n = 0
  <2>1. FlattenSeq(seqs) = <<>>
    BY <1>1 DEF FlattenSeq
  <2>2. <<>> \in Seq(Declarations) /\ DOMAIN <<>> = {}
    BY EmptySeq
  <2>3. NamesIn(<<>>) = {} /\ Clear(<<>>, {})
    BY <2>2 DEF NamesIn, Clear
  <2>4. NamesUpTo(seqs, 0) = {}
    BY DEF NamesUpTo
  <2> QED
    BY <1>1, <2>1, <2>2, <2>3, <2>4
<1>2. CASE n # 0
  <2>1. PICK g : Flattening(seqs, n, g) /\ FlattenSeq(seqs) = g[n]
    BY <1>2, FlattenSeqIs
  <2>2. \A i \in 1 .. n : g[i] = IF i = 1 THEN seqs[i] ELSE g[i - 1] \o seqs[i]
    BY <2>1 DEF Flattening
  <2> DEFINE Flat(i) ==
               /\ g[i] \in Seq(Declarations)
               /\ NamesIn(g[i]) = NamesUpTo(seqs, i)
               /\ Clear(g[i], {}) <=> \A j \in 1 .. i : Clear(seqs[j], NamesUpTo(seqs, j - 1))
             S == {i \in 1 .. n : ~Flat(i)}
  <2>3. S = {}
    <3> SUFFICES ASSUME S # {} PROVE FALSE
      OBVIOUS
    <3>1. PICK k \in S : \A m \in S : k <= m
      <4>1. S \in SUBSET Nat
        OBVIOUS
      <4> HIDE DEF S
      <4> QED BY <4>1, LeastNat
    <3>2. k \in 1 .. n /\ ~Flat(k)
      OBVIOUS
    <3>3. CASE k = 1
      <4>1. g[1] = seqs[1] /\ seqs[1] \in Seq(Declarations)
        BY <3>2, <3>3, <2>2
      <4>2. 1 .. 1 = {1} /\ 1 .. 0 = {} /\ 1 - 1 = 0
        OBVIOUS
      <4>3. NamesUpTo(seqs, 1) = NamesIn(seqs[1]) /\ NamesUpTo(seqs, 0) = {}
        BY <4>2 DEF NamesUpTo
      <4>4. Flat(1)
        BY <4>1, <4>2, <4>3
      <4> HIDE DEF Flat
      <4> QED
        BY <3>2, <3>3, <4>4
    <3>4. CASE k # 1
      <4>1. k - 1 \in 1 .. n /\ ~(k <= k - 1)
        BY <3>2, <3>4
      <4>2. Flat(k - 1)
        <5> HIDE DEF Flat
        <5> QED BY <4>1, <3>1
      <4>3. g[k] = g[k - 1] \o seqs[k] /\ seqs[k] \in Seq(Declarations)
        BY <3>2, <3>4, <2>2
      <4>4. g[k - 1] \in Seq(Declarations) /\ NamesIn(g[k - 1]) = NamesUpTo(seqs, k - 1)
        BY <4>2
      <4>5. /\ g[k] \in Seq(Declarations)
            /\ NamesIn(g[k]) = NamesIn(g[k - 1]) \cup NamesIn(seqs[k])
            /\ Clear(g[k], {}) <=> Clear(g[k - 1], {}) /\ Clear(seqs[k], {} \cup NamesIn(g[k - 1]))
        <5> DEFINE s == g[k - 1]
                   t == seqs[k]
        <5>1. s \in Seq(Declarations) /\ t \in Seq(Declarations) /\ g[k] = s \o t
          BY <4>3, <4>4
        <5> HIDE DEF s, t
        <5>2. /\ s \o t \in Seq(Declarations)
              /\ NamesIn(s \o t) = NamesIn(s) \cup NamesIn(t)
              /\ Clear(s \o t, {}) <=> Clear(s, {}) /\ Clear(t, {} \cup NamesIn(s))
          BY <5>1, ClearConcat, Zenon
        <5>3. /\ g[k] \in Seq(Declarations)
              /\ NamesIn(g[k]) = NamesIn(s) \cup NamesIn(t)
              /\ Clear(g[k], {}) <=> Clear(s, {}) /\ Clear(t, {} \cup NamesIn(s))
          BY <5>1, <5>2, Zenon
        <5> QED
          BY <5>3 DEF s, t
      <4>6. {} \cup NamesIn(g[k - 1]) = NamesUpTo(seqs, k - 1)
        BY <4>4
      <4>7. 1 .. k = (1 .. k - 1) \cup {k}
        BY <3>2
      <4>8. NamesUpTo(seqs, k) = NamesUpTo(seqs, k - 1) \cup NamesIn(seqs[k])
        BY <4>7 DEF NamesUpTo
      <4>9. (\A j \in 1 .. k : Clear(seqs[j], NamesUpTo(seqs, j - 1))) <=>
              /\ \A j \in 1 .. k - 1 : Clear(seqs[j], NamesUpTo(seqs, j - 1))
              /\ Clear(seqs[k], NamesUpTo(seqs, k - 1))
        BY <4>7
      <4>10. NamesIn(g[k]) = NamesUpTo(seqs, k)
        BY <4>4, <4>5, <4>8
      <4>11. Clear(g[k], {}) <=> \A j \in 1 .. k : Clear(seqs[j], NamesUpTo(seqs, j - 1))
        BY <4>2, <4>5, <4>6, <4>9, Zenon
      <4>12. Flat(k)
        BY <4>5, <4>10, <4>11
      <4> HIDE DEF Flat
      <4> QED
        BY <3>2, <4>12
    <3> QED
      BY <3>3, <3>4
  <2>4. n \in 1 .. n
    BY <1>2
  <2>5. Flat(n)
    <3> HIDE DEF Flat
    <3> QED BY <2>3, <2>4
  <2> QED
    BY <2>1, <2>5
<1> QED
  BY <1>1, <1>2

(***************************************************************************)
(* A revision kind by kind.                                                 *)
(***************************************************************************)
(* The declarations of a kind keep their order, so those they use of their  *)
(* own kind are above them; the others must be in the lists before.         *)
LEMMA KindClear ==
  ASSUME NEW v \in Seq(Declarations), NEW kind, NEW before, NEW listed, Clear(v, before),
         \A i \in DOMAIN v : v[i].kind = kind => v[i].uses \cap before \subseteq listed,
         \A i, j \in DOMAIN v : v[i].kind = kind /\ v[j].name \in v[i].uses =>
           v[j].kind = kind \/ v[j].name \in listed
  PROVE  /\ OfKind(v, kind) \in Seq(Declarations)
         /\ Clear(OfKind(v, kind), listed)
<1> DEFINE F == OfKind(v, kind)
<1>1. Picked(F, v, Len(v), kind)
  BY OfKindIs
<1> HIDE DEF F
<1>2. F \in Seq(Declarations) /\ DOMAIN F = 1 .. Len(F) /\ DOMAIN v = 1 .. Len(v) /\ Len(v) \in Nat
  BY <1>1, LenProperties DEF Picked
<1>3. ASSUME NEW q \in 1 .. Len(F), NEW x \in F[q].uses
      PROVE  x \in listed \cup Above(F, q)
  <2>1. PICK p \in 1 .. Len(v) :
               /\ F[q] = v[p] /\ v[p].kind = kind
               /\ \A above \in 1 .. p - 1 :
                    v[above].kind = kind => \E l \in 1 .. q - 1 : F[l] = v[above]
    BY <1>1 DEF Picked
  <2>2. x \in v[p].uses /\ x \in before \cup Above(v, p)
    BY <2>1, <1>2, <1>3 DEF Clear
  <2>3. CASE x \in before
    BY <2>1, <2>2, <2>3, <1>2
  <2>4. CASE x \in Above(v, p)
    <3>1. PICK a \in 1 .. p - 1 : x = v[a].name
      BY <2>4 DEF Above
    <3>2. a \in 1 .. Len(v)
      BY <1>2
    <3>3. v[a].kind = kind \/ v[a].name \in listed
      BY <2>1, <2>2, <3>1, <3>2, <1>2
    <3>4. CASE v[a].kind = kind
      <4>1. PICK l \in 1 .. q - 1 : F[l] = v[a]
        BY <3>4, <2>1
      <4> QED
        BY <4>1, <3>1 DEF Above
    <3> QED
      BY <3>1, <3>3, <3>4
  <2> QED
    BY <2>2, <2>3, <2>4
<1>4. Clear(F, listed)
  BY <1>2, <1>3 DEF Clear
<1> QED
  BY <1>2, <1>4 DEF F

(* A declaration of the kind is among them.                                 *)
LEMMA KindNamed ==
  ASSUME NEW v \in Seq(Declarations), NEW j \in DOMAIN v
  PROVE  v[j].name \in NamesIn(OfKind(v, v[j].kind))
<1> DEFINE F == OfKind(v, v[j].kind)
<1>1. Picked(F, v, Len(v), v[j].kind)
  BY OfKindIs
<1> HIDE DEF F
<1>2. DOMAIN F = 1 .. Len(F) /\ DOMAIN v = 1 .. Len(v)
  BY <1>1, LenProperties DEF Picked
<1>3. PICK q \in 1 .. Len(F) : F[q] = v[j]
  BY <1>1, <1>2 DEF Picked
<1> QED
  BY <1>2, <1>3 DEF NamesIn, F

(* What the lists of the types hold: all of a revision but its functions.   *)
LEMMA KindOrderNames ==
  ASSUME NEW v \in Seq(Declarations)
  PROVE  /\ InKindOrder(v) \in Seq(Declarations)
         /\ NamesIn(InKindOrder(v)) = NamesIn(OfKind(v, "bitfield")) \cup
              NamesIn(OfKind(v, "enum")) \cup NamesIn(OfKind(v, "struct"))
         /\ \A j \in DOMAIN v : v[j].kind # "function" => v[j].name \in NamesIn(InKindOrder(v))
<1> DEFINE B == OfKind(v, "bitfield")
           E == OfKind(v, "enum")
           St == OfKind(v, "struct")
<1>1. B \in Seq(Declarations) /\ E \in Seq(Declarations) /\ St \in Seq(Declarations)
  BY OfKindIs DEF Picked
<1>2. \A j \in DOMAIN v : v[j].name \in NamesIn(OfKind(v, v[j].kind))
  BY KindNamed
<1>3. \A j \in DOMAIN v : v[j].kind \in Kinds
  <2> SUFFICES ASSUME NEW j \in DOMAIN v PROVE v[j].kind \in Kinds
    OBVIOUS
  <2>1. v[j] \in Declarations
    BY LenProperties
  <2> QED
    BY <2>1 DEF Declarations
<1>4. \A j \in DOMAIN v : v[j].kind # "function" =>
        v[j].name \in NamesIn(B) \cup NamesIn(E) \cup NamesIn(St)
  BY <1>2, <1>3 DEF Kinds
<1> HIDE DEF B, E, St
<1>5. B \o E \in Seq(Declarations) /\ NamesIn(B \o E) = NamesIn(B) \cup NamesIn(E)
  BY <1>1, ClearConcat
<1>6. /\ (B \o E) \o St \in Seq(Declarations)
      /\ NamesIn((B \o E) \o St) = NamesIn(B \o E) \cup NamesIn(St)
  BY <1>1, <1>5, ClearConcat
<1>7. InKindOrder(v) = (B \o E) \o St
  BY DEF InKindOrder, B, E, St
<1>8. NamesIn(InKindOrder(v)) = NamesIn(B) \cup NamesIn(E) \cup NamesIn(St)
  BY <1>5, <1>6, <1>7
<1> QED
  BY <1>4, <1>6, <1>7, <1>8 DEF B, E, St

(* Every kind is listed behind those its declarations may use.              *)
LEMMA RevisionClear ==
  ASSUME NEW v \in Seq(Declarations), NEW before, NEW listed, Clear(v, before),
         \A i \in DOMAIN v : v[i].uses \cap before \subseteq listed,
         \A i, j \in DOMAIN v :
           v[j].name \in v[i].uses => v[j].kind \in ListedFirst[v[i].kind]
  PROVE  /\ Clear(InKindOrder(v), listed)
         /\ \A i \in DOMAIN v : v[i].uses \subseteq listed \cup NamesIn(InKindOrder(v))
<1> DEFINE B == OfKind(v, "bitfield")
           E == OfKind(v, "enum")
           St == OfKind(v, "struct")
<1>1. \A j \in DOMAIN v : v[j].name \in NamesIn(OfKind(v, v[j].kind))
  BY KindNamed
<1>2. B \in Seq(Declarations) /\ Clear(B, listed)
  <2>1. \A i, j \in DOMAIN v : v[i].kind = "bitfield" /\ v[j].name \in v[i].uses =>
          v[j].kind = "bitfield" \/ v[j].name \in listed
    BY DEF ListedFirst
  <2> QED
    BY <2>1, KindClear
<1>3. E \in Seq(Declarations) /\ Clear(E, listed \cup NamesIn(B))
  <2>1. \A i, j \in DOMAIN v : v[i].kind = "enum" /\ v[j].name \in v[i].uses =>
          v[j].kind = "enum" \/ v[j].name \in listed \cup NamesIn(B)
    BY <1>1 DEF ListedFirst
  <2>2. \A i \in DOMAIN v : v[i].kind = "enum" =>
          v[i].uses \cap before \subseteq listed \cup NamesIn(B)
    <3> HIDE DEF B
    <3> QED OBVIOUS
  <2> HIDE DEF B
  <2> QED
    BY <2>1, <2>2, KindClear
<1>4. St \in Seq(Declarations) /\ Clear(St, listed \cup (NamesIn(B) \cup NamesIn(E)))
  <2>1. \A i, j \in DOMAIN v : v[i].kind = "struct" /\ v[j].name \in v[i].uses =>
          v[j].kind = "struct" \/ v[j].name \in listed \cup (NamesIn(B) \cup NamesIn(E))
    BY <1>1 DEF ListedFirst
  <2>2. \A i \in DOMAIN v : v[i].kind = "struct" =>
          v[i].uses \cap before \subseteq listed \cup (NamesIn(B) \cup NamesIn(E))
    <3> HIDE DEF B, E
    <3> QED OBVIOUS
  <2> HIDE DEF B, E
  <2> QED
    BY <2>1, <2>2, KindClear
<1>5. InKindOrder(v) = (B \o E) \o St
  BY DEF InKindOrder
<1> HIDE DEF B, E, St
<1>6. /\ B \o E \in Seq(Declarations) /\ NamesIn(B \o E) = NamesIn(B) \cup NamesIn(E)
      /\ Clear(B \o E, listed)
  BY <1>2, <1>3, ClearConcat
<1>7. Clear((B \o E) \o St, listed)
  <2> DEFINE BE == B \o E
  <2>1. Clear(St, listed \cup NamesIn(BE)) /\ BE \in Seq(Declarations) /\ Clear(BE, listed)
    BY <1>4, <1>6
  <2> HIDE DEF BE
  <2>2. Clear(BE \o St, listed)
    BY <2>1, <1>4, ClearConcat
  <2> QED
    BY <2>2 DEF BE
<1>8. ASSUME NEW i \in DOMAIN v, NEW x \in v[i].uses
      PROVE  x \in listed \cup NamesIn(InKindOrder(v))
  <2>1. x \in before \cup Above(v, i)
    BY <1>8 DEF Clear
  <2>2. CASE x \in before
    BY <2>2
  <2>3. CASE x \in Above(v, i)
    <3>1. PICK j \in 1 .. i - 1 : x = v[j].name
      BY <2>3 DEF Above
    <3>2. j \in DOMAIN v
      BY LenProperties
    <3>3. v[i] \in Declarations
      BY LenProperties
    <3>4. v[i].kind \in Kinds
      BY <3>3 DEF Declarations
    <3>5. v[j].kind # "function"
      BY <3>1, <3>2, <3>4 DEF ListedFirst, Kinds
    <3> QED
      BY <3>1, <3>2, <3>5, KindOrderNames
  <2> QED
    BY <2>1, <2>2, <2>3
<1> QED
  BY <1>5, <1>7, <1>8

(* Those of a kind have the type of the list they are picked from.          *)
LEMMA KindType ==
  ASSUME NEW v \in Seq(Declarations), NEW kind, NEW A, \A p \in DOMAIN v : v[p] \in A
  PROVE  OfKind(v, kind) \in Seq(A)
<1> DEFINE F == OfKind(v, kind)
<1>1. Picked(F, v, Len(v), kind)
  BY OfKindIs
<1> HIDE DEF F
<1>2. F \in Seq(Declarations) /\ Len(F) \in Nat /\ DOMAIN F = 1 .. Len(F) /\ DOMAIN v = 1 .. Len(v)
  BY <1>1, LenProperties DEF Picked
<1>3. \A q \in 1 .. Len(F) : F[q] \in A
  BY <1>1, <1>2 DEF Picked
<1>4. F \in [1 .. Len(F) -> A]
  BY <1>2, <1>3, LenProperties
<1> QED
  BY <1>2, <1>4, SeqDef DEF F

(* Lists of one type make a list of it.                                     *)
LEMMA FlattenType ==
  ASSUME NEW T, NEW seqs, NEW n \in Nat, Len(seqs) = n, n = 0 => seqs = <<>>,
         \A i \in 1 .. n : seqs[i] \in Seq(T)
  PROVE  FlattenSeq(seqs) \in Seq(T)
<1>1. CASE n = 0
  <2>1. FlattenSeq(seqs) = <<>>
    BY <1>1 DEF FlattenSeq
  <2> QED
    BY <2>1, EmptySeq
<1>2. CASE n # 0
  <2>1. PICK g : Flattening(seqs, n, g) /\ FlattenSeq(seqs) = g[n]
    BY <1>2, FlattenSeqIs
  <2>2. \A i \in 1 .. n : g[i] = IF i = 1 THEN seqs[i] ELSE g[i - 1] \o seqs[i]
    BY <2>1 DEF Flattening
  <2> DEFINE S == {i \in 1 .. n : g[i] \notin Seq(T)}
  <2>3. S = {}
    <3> SUFFICES ASSUME S # {} PROVE FALSE
      OBVIOUS
    <3>1. PICK k \in S : \A m \in S : k <= m
      <4>1. S \in SUBSET Nat
        OBVIOUS
      <4> HIDE DEF S
      <4> QED BY <4>1, LeastNat
    <3>2. k # 1
      BY <2>2
    <3>3. k - 1 \in 1 .. n /\ k - 1 \notin S /\ k \in 1 .. n
      BY <3>1, <3>2
    <3>4. g[k - 1] \in Seq(T) /\ g[k] = g[k - 1] \o seqs[k] /\ seqs[k] \in Seq(T)
      BY <3>2, <3>3, <2>2
    <3>5. g[k] \in Seq(T)
      BY <3>4, ConcatProperties
    <3> QED
      BY <3>5
  <2>4. n \in 1 .. n
    BY <1>2
  <2> QED
    BY <2>1, <2>3, <2>4
<1> QED
  BY <1>1, <1>2

(* As many lists as revisions.                                              *)
LEMMA ListsOf ==
  ASSUME NEW h \in Seq(Seq(Declarations)), NEW lists, NEW T,
         DOMAIN lists = DOMAIN h, lists \in [DOMAIN h -> Seq(T)]
  PROVE  /\ Len(lists) = Len(h) /\ DOMAIN lists = 1 .. Len(h)
         /\ Len(h) = 0 => lists = <<>>
<1>1. Len(h) \in Nat /\ DOMAIN h = 1 .. Len(h)
  BY LenProperties
<1>2. lists \in Seq(Seq(T))
  <2> DEFINE n == Len(h)
             U == Seq(T)
  <2>1. n \in Nat /\ lists \in [1 .. n -> U]
    BY <1>1
  <2> HIDE DEF n, U
  <2>2. lists \in Seq(U)
    BY <2>1, SeqDef
  <2> QED
    BY <2>2 DEF U
<1>3. Len(lists) \in Nat /\ DOMAIN lists = 1 .. Len(lists)
  BY <1>2, LenProperties
<1>4. Len(lists) = Len(h)
  BY <1>1, <1>3, SameInterval
<1> QED
  BY <1>1, <1>2, <1>4, EmptySeq

(* A history whose source declares every type above its use has headers     *)
(* that do.                                                                 *)
LEMMA TypesDeclared ==
  ASSUME KindsNest, NEW h \in Histories, DeclaredAbove(FlattenSeq(h))
  PROVE  /\ DeclaredAbove(TypesOf(h))
         /\ \A i \in DOMAIN FunctionsOf(h) :
              FunctionsOf(h)[i].uses \subseteq Above(TypesOf(h), Len(TypesOf(h)) + 1)
<1> DEFINE n == Len(h)
           types == [i \in DOMAIN h |-> InKindOrder(h[i])]
           functions == [i \in DOMAIN h |-> OfKind(h[i], "function")]
           all == NamesUpTo(types, n)
           A == {d \in Declarations : d.uses \subseteq all}
<1>1. h \in Seq(Seq(Declarations))
  BY HistoryAssumption
<1>2. n \in Nat /\ DOMAIN h = 1 .. n /\ \A r \in 1 .. n : h[r] \in Seq(Declarations)
  BY <1>1, LenProperties, ElementOfSeq
<1>3. \A r \in 1 .. n : types[r] = InKindOrder(h[r]) /\ functions[r] = OfKind(h[r], "function")
  BY <1>2
<1>4. types \in [DOMAIN h -> Seq(Declarations)] /\ DOMAIN types = DOMAIN h /\ DOMAIN functions = DOMAIN h
  BY <1>2, KindOrderNames
<1> HIDE DEF types, functions
<1>5. Len(types) = n /\ DOMAIN types = 1 .. n /\ (n = 0 => types = <<>>)
  BY <1>1, <1>4, ListsOf
<1>6. n = 0 => h = <<>>
  BY <1>1, EmptySeq
<1> HIDE DEF n
<1>7. \A list : DeclaredAbove(list) <=> Clear(list, {})
  BY DEF DeclaredAbove, Clear
(* The source, revision by revision.                                        *)
<1>8. \A r \in 1 .. n : Clear(h[r], NamesUpTo(h, r - 1))
  <2>1. Clear(FlattenSeq(h), {})
    BY <1>7
  <2>2. Len(h) = n
    BY DEF n
  <2> QED
    BY <2>1, <2>2, <1>2, <1>6, ClearFlatten
<1>9. ASSUME NEW r \in 1 .. n, NEW i \in DOMAIN h[r]
      PROVE  h[r][i].uses \cap NamesUpTo(h, r - 1) \subseteq NamesUpTo(types, r - 1)
  <2> SUFFICES ASSUME NEW x \in h[r][i].uses, x \in NamesUpTo(h, r - 1)
               PROVE  x \in NamesUpTo(types, r - 1)
    OBVIOUS
  <2>1. PICK q \in 1 .. r - 1 : x \in NamesIn(h[q])
    BY DEF NamesUpTo
  <2>2. PICK j \in DOMAIN h[q] : x = h[q][j].name
    BY <2>1 DEF NamesIn
  <2>3. q \in 1 .. n /\ r \in DOMAIN h /\ q \in DOMAIN h
    BY <1>2
  <2>4. h[q][j].kind # "function"
    BY <2>2, <2>3 DEF KindsNest
  <2>5. x \in NamesIn(types[q])
    BY <2>2, <2>3, <2>4, <1>2, <1>3, KindOrderNames
  <2> QED
    BY <2>5 DEF NamesUpTo
<1>10. ASSUME NEW r \in 1 .. n
       PROVE  /\ Clear(types[r], NamesUpTo(types, r - 1))
              /\ \A i \in DOMAIN h[r] : h[r][i].uses \subseteq NamesUpTo(types, r - 1) \cup NamesIn(types[r])
  <2>1. \A i, j \in DOMAIN h[r] :
          h[r][j].name \in h[r][i].uses => h[r][j].kind \in ListedFirst[h[r][i].kind]
    BY <1>2 DEF KindsNest
  <2>2. h[r] \in Seq(Declarations) /\ Clear(h[r], NamesUpTo(h, r - 1)) /\ types[r] = InKindOrder(h[r])
    BY <1>2, <1>3, <1>8
  <2> QED
    BY <2>1, <2>2, <1>9, RevisionClear
<1>11. /\ NamesIn(FlattenSeq(types)) = all
       /\ FlattenSeq(types) \in Seq(Declarations)
       /\ Clear(FlattenSeq(types), {})
  <2>1. \A r \in 1 .. n : types[r] \in Seq(Declarations)
    BY <1>2, <1>4
  <2>2. n \in Nat
    BY <1>2
  <2>3. /\ FlattenSeq(types) \in Seq(Declarations)
        /\ NamesIn(FlattenSeq(types)) = NamesUpTo(types, n)
        /\ Clear(FlattenSeq(types), {}) <=> \A i \in 1 .. n : Clear(types[i], NamesUpTo(types, i - 1))
    BY <2>1, <2>2, <1>5, ClearFlatten
  <2> QED
    BY <2>3, <1>10
<1>12. TypesOf(h) = FlattenSeq(types) /\ FunctionsOf(h) = FlattenSeq(functions)
  BY DEF TypesOf, FunctionsOf, types, functions
<1>13. \A x : x \in all => x \in Above(TypesOf(h), Len(TypesOf(h)) + 1)
  <2> DEFINE t == FlattenSeq(types)
  <2>1. Len(t) \in Nat /\ DOMAIN t = 1 .. Len(t)
    BY <1>11, LenProperties
  <2>2. NamesIn(t) = all
    BY <1>11
  <2> HIDE DEF t, all
  <2>3. 1 .. (Len(t) + 1) - 1 = DOMAIN t
    BY <2>1
  <2>4. Above(t, Len(t) + 1) = NamesIn(t)
    BY <2>3 DEF Above, NamesIn
  <2> QED
    BY <2>2, <2>4, <1>12 DEF t
<1>14. \A r \in 1 .. n : functions[r] \in Seq(A)
  <2> SUFFICES ASSUME NEW r \in 1 .. n PROVE functions[r] \in Seq(A)
    OBVIOUS
  <2>1. ASSUME NEW p \in DOMAIN h[r] PROVE h[r][p] \in A
    <3>1. h[r][p].uses \subseteq NamesUpTo(types, r - 1) \cup NamesIn(types[r])
      BY <1>10
    <3>2. \A j \in 1 .. r - 1 : j \in 1 .. n
      BY <1>2
    <3>3. NamesUpTo(types, r - 1) \cup NamesIn(types[r]) \subseteq all
      BY <3>2 DEF NamesUpTo
    <3>4. h[r][p] \in Declarations
      BY <1>2, LenProperties
    <3> QED
      BY <3>1, <3>3, <3>4
  <2> HIDE DEF A
  <2>2. OfKind(h[r], "function") \in Seq(A)
    BY <2>1, <1>2, KindType
  <2> QED
    BY <2>2, <1>3

<1>15. FlattenSeq(functions) \in Seq(A)
  <2> HIDE DEF A
  <2>1. functions \in [DOMAIN h -> Seq(A)]
    <3>1. functions = [i \in DOMAIN h |-> functions[i]]
      BY DEF functions
    <3> QED
      BY <3>1, <1>2, <1>14
  <2>2. Len(functions) = Len(h) /\ (Len(h) = 0 => functions = <<>>)
    BY <2>1, <1>1, <1>4, ListsOf
  <2> QED
    BY <2>2, <1>2, <1>14, FlattenType DEF n
<1>16. \A i \in DOMAIN FunctionsOf(h) : FunctionsOf(h)[i].uses \subseteq all
  <2> DEFINE F == FlattenSeq(functions)
  <2>1. \A i \in DOMAIN F : F[i] \in A
    <3> HIDE DEF F, A
    <3>1. F \in Seq(A)
      BY <1>15 DEF F
    <3> QED
      BY <3>1, LenProperties
  <2> QED
    BY <2>1, <1>12
<1> HIDE DEF all
<1> QED
  BY <1>7, <1>11, <1>12, <1>13, <1>16

(* What the types header lists is in the history.                           *)
LEMMA NarrowTypes ==
  ASSUME Narrow, NEW h \in Histories
  PROVE  TypesOf(h) \in Seq({d \in Declarations : \A k \in DOMAIN d.widths : d.widths[k] < WordSize})
<1> DEFINE A == {d \in Declarations : \A k \in DOMAIN d.widths : d.widths[k] < WordSize}
           types == [i \in DOMAIN h |-> InKindOrder(h[i])]
<1>1. h \in Seq(Seq(Declarations))
  BY HistoryAssumption
<1>2. Len(h) \in Nat /\ DOMAIN h = 1 .. Len(h) /\ \A r \in DOMAIN h : h[r] \in Seq(Declarations)
  BY <1>1, LenProperties, ElementOfSeq
<1>3. ASSUME NEW r \in DOMAIN h PROVE InKindOrder(h[r]) \in Seq(A)
  <2>1. \A p \in DOMAIN h[r] : h[r][p] \in A
    <3>1. \A p \in DOMAIN h[r] : h[r][p] \in Declarations
      BY <1>2, LenProperties
    <3>2. \A p \in DOMAIN h[r] : \A k \in DOMAIN h[r][p].widths : h[r][p].widths[k] < WordSize
      BY DEF Narrow
    <3> QED
      BY <3>1, <3>2
  <2> HIDE DEF A
  <2>2. \A kind : OfKind(h[r], kind) \in Seq(A)
    BY <2>1, <1>2, KindType
  <2> DEFINE B == OfKind(h[r], "bitfield")
             E == OfKind(h[r], "enum")
             St == OfKind(h[r], "struct")
  <2>3. B \in Seq(A) /\ E \in Seq(A) /\ St \in Seq(A)
    BY <2>2
  <2> HIDE DEF B, E, St
  <2>4. B \o E \in Seq(A)
    BY <2>3, ConcatProperties
  <2>5. (B \o E) \o St \in Seq(A)
    BY <2>3, <2>4, ConcatProperties
  <2> QED
    BY <2>5 DEF InKindOrder, B, E, St
<1> HIDE DEF A
<1>4. types \in [DOMAIN h -> Seq(A)] /\ DOMAIN types = DOMAIN h /\ \A r \in DOMAIN h : types[r] \in Seq(A)
  BY <1>3
<1> HIDE DEF types
<1>5. Len(types) = Len(h) /\ (Len(h) = 0 => types = <<>>)
  BY <1>1, <1>4, ListsOf
<1>6. FlattenSeq(types) \in Seq(A)
  BY <1>2, <1>4, <1>5, FlattenType
<1> QED
  BY <1>6 DEF TypesOf, types, A

(***************************************************************************)
(* The steps of the generator.                                              *)
(***************************************************************************)
(* The invariant, and the history is one of those there are.                *)
Reached == IInv /\ history \in Histories

(* A header is written whole, and the types header first.                   *)
LEMMA InitInv == Init => Reached
<1> SUFFICES ASSUME Init PROVE IInv /\ history \in Histories
  BY DEF Reached
<1>1. history \in Histories /\ history \in Seq(Seq(Declarations)) /\ wide \in {"modulo", "out"}
  BY HistoryAssumption DEF Init
<1>2. headers = [m \in Modes |-> NotWritten]
  BY DEF Init
<1>3. \A m \in Modes : ~headers[m].written
  BY <1>2 DEF NotWritten
<1> QED
  BY <1>1, <1>2, <1>3 DEF IInv

(* Writing a header keeps that.                                             *)
LEMMA NextInv == Reached /\ [Next]_vars => Reached'
<1> SUFFICES ASSUME IInv, history \in Histories, [Next]_vars PROVE IInv' /\ history' \in Histories
  BY DEF Reached
<1>1. ASSUME UNCHANGED vars PROVE IInv' /\ history' \in Histories
  BY <1>1 DEF IInv, vars, TypesHeader, FunctionsHeader, Modes
<1>2. ASSUME NEW mode \in Modes, Generate(mode) PROVE IInv' /\ history' \in Histories
  <2> DEFINE header == IF mode = "types" THEN TypesHeader ELSE FunctionsHeader
  <2>1. /\ UNCHANGED <<history, wide>> /\ headers' = [headers EXCEPT ![mode] = header]
        /\ ~headers[mode].written /\ (mode # "types" => headers["types"].written)
    BY <1>2 DEF Generate
  <2>2. TypesHeader' = TypesHeader /\ FunctionsHeader' = FunctionsHeader
    BY <2>1 DEF TypesHeader, FunctionsHeader
  <2>3. /\ headers \in [Modes -> {NotWritten, TypesHeader, FunctionsHeader}] /\ "types" \in Modes
        /\ \A m \in Modes : headers[m].written =>
             headers["types"] = TypesHeader /\ (m # "types" => headers[m] = FunctionsHeader)
    BY DEF IInv, Modes
  <2>4. header \in {NotWritten, TypesHeader, FunctionsHeader}
    OBVIOUS
  <2>5. headers' \in [Modes -> {NotWritten, TypesHeader, FunctionsHeader}]
    <3> HIDE DEF header
    <3> QED BY <2>1, <2>3, <2>4
  <2>6. \A m \in Modes : headers'[m] = IF m = mode THEN header ELSE headers[m]
    <3> HIDE DEF header
    <3> QED BY <2>1, <2>3
  <2>7. ASSUME NEW m \in Modes, headers'[m].written
        PROVE  headers'["types"] = TypesHeader /\ (m # "types" => headers'[m] = FunctionsHeader)
    BY <2>1, <2>3, <2>6, <2>7
  <2>8. history' \in Seq(Seq(Declarations)) /\ wide' \in {"modulo", "out"} /\ history' \in Histories
    BY <2>1 DEF IInv
  <2> QED
    BY <2>2, <2>5, <2>7, <2>8 DEF IInv
<1> QED
  BY <1>1, <1>2 DEF Next, Finished

(* The invariant of every reachable state.                                  *)
LEMMA Reachable == Spec => []Reached
  BY InitInv, NextInv, PTL DEF Spec

(* What every behaviour of the generator keeps: a header is written whole,  *)
(* the types header before those that include it.                           *)
THEOREM WrittenWhole == Spec => []IInv
<1>1. Reached => IInv
  BY DEF Reached
<1> QED
  BY <1>1, Reachable, PTL

(* If the declarations use what their kind may, the headers declare every   *)
(* type above its use whenever the source does.                             *)
THEOREM HeadersDeclare ==
  ASSUME KindsNest
  PROVE  Spec => []UsesDeclared
<1>1. Reached => UsesDeclared
  <2> SUFFICES ASSUME IInv, history \in Histories, DeclaredAbove(FlattenSeq(history))
               PROVE  /\ DeclaredAbove(headers["types"].declares)
                      /\ \A m \in Modes \ {"types"} : \A i \in DOMAIN headers[m].declares :
                           headers[m].declares[i].uses \subseteq
                             Above(headers["types"].declares, Len(headers["types"].declares) + 1)
    BY DEF UsesDeclared, Reached
  <2>1. /\ DeclaredAbove(TypesOf(history))
        /\ \A i \in DOMAIN FunctionsOf(history) :
             FunctionsOf(history)[i].uses \subseteq
               Above(TypesOf(history), Len(TypesOf(history)) + 1)
    BY TypesDeclared
  <2>2. TypesHeader.declares = TypesOf(history) /\ FunctionsHeader.declares = FunctionsOf(history)
    BY DEF TypesHeader, FunctionsHeader
  <2>3. NotWritten.declares = <<>> /\ ~NotWritten.written /\ TypesHeader.written /\ FunctionsHeader.written
    BY DEF NotWritten, TypesHeader, FunctionsHeader
  <2>4. DOMAIN <<>> = {}
    OBVIOUS
  <2>5. ASSUME NEW m \in Modes
        PROVE  headers[m] = NotWritten \/
                 (headers["types"] = TypesHeader /\ (m # "types" => headers[m] = FunctionsHeader))
    BY <2>3 DEF IInv
  <2>6. DeclaredAbove(headers["types"].declares)
    <3>1. "types" \in Modes
      BY DEF Modes
    <3>2. DeclaredAbove(<<>>)
      BY <2>4 DEF DeclaredAbove
    <3> QED
      BY <3>1, <3>2, <2>1, <2>2, <2>3, <2>5
  <2>7. ASSUME NEW m \in Modes \ {"types"}, NEW i \in DOMAIN headers[m].declares
        PROVE  headers[m].declares[i].uses \subseteq
                 Above(headers["types"].declares, Len(headers["types"].declares) + 1)
    <3>1. headers[m] # NotWritten
      BY <2>3, <2>4, <2>7
    <3> QED
      BY <3>1, <2>1, <2>2, <2>5
  <2> QED
    BY <2>6, <2>7
<1> QED
  BY <1>1, Reachable, PTL

(* If no member is as wide as a word, the masks of a bitfield that fits in  *)
(* a word share no bit and leave none out, whatever the machine makes of    *)
(* wider shifts.                                                            *)
THEOREM MasksShareOut ==
  ASSUME Narrow
  PROVE  Spec => []MasksTile
<1>1. Reached => MasksTile
  <2> DEFINE types == TypesOf(history)
             header == headers["types"]
  <2> SUFFICES ASSUME IInv, history \in Histories, NEW i \in DOMAIN header.masks,
                      Total(header.declares[i].widths) <= WordSize
               PROVE  LET w == header.declares[i].widths
                          masks == header.masks[i]
                      IN /\ \A j, k \in DOMAIN masks : j # k => masks[j] \cap masks[k] = {}
                         /\ UNION Range(masks) = 0 .. Total(w) - 1
                         /\ \A j \in DOMAIN masks : Cardinality(masks[j]) = w[j]
    BY DEF MasksTile, Reached
  <2>1. header = TypesHeader
    <3>1. "types" \in Modes /\ headers["types"] \in {NotWritten, TypesHeader, FunctionsHeader}
      BY DEF IInv, Modes
    <3>2. DOMAIN NotWritten.masks = {} /\ DOMAIN FunctionsHeader.masks = {}
      BY DEF NotWritten, FunctionsHeader
    <3> QED
      BY <3>1, <3>2
  <2>2. header.declares = types /\ header.masks = [k \in DOMAIN types |-> Masks(types[k], wide)]
    BY <2>1 DEF TypesHeader
  <2>3. types \in Seq({d \in Declarations : \A k \in DOMAIN d.widths : d.widths[k] < WordSize})
    BY NarrowTypes
  <2> HIDE DEF types, header
  <2> DEFINE w == header.declares[i].widths
             masks == header.masks[i]
  <2>4. i \in DOMAIN types
    BY <2>2
  <2>5. types[i] \in Declarations /\ \A k \in DOMAIN types[i].widths : types[i].widths[k] < WordSize
    BY <2>3, <2>4, LenProperties
  <2>6. w = types[i].widths /\ w \in Seq(Nat)
    BY <2>2, <2>5 DEF Declarations
  <2>7. masks = Masks(types[i], wide)
    BY <2>2, <2>4
  <2>8. masks = [k \in DOMAIN w |-> Shifted(Ones(w[k], wide), Offset(w, k), wide)]
    BY <2>6, <2>7, Zenon DEF Masks
  <2>9. (\A k \in DOMAIN w : w[k] < WordSize) /\ Total(w) <= WordSize
    BY <2>5, <2>6
  <2> HIDE DEF w, masks
  <2>10. /\ \A j, k \in DOMAIN masks : j # k => masks[j] \cap masks[k] = {}
         /\ UNION Range(masks) = 0 .. Total(w) - 1
         /\ \A j \in DOMAIN masks : Cardinality(masks[j]) = w[j]
    <3>1. w \in Seq(Nat)
      BY <2>6
    <3>2. Total(w) <= WordSize /\ \A k \in DOMAIN w : w[k] < WordSize
      BY <2>9
    <3>3. Tiles(masks, w)
      BY <3>1, <3>2, <2>8, MembersTile, Zenon
    <3> QED
      BY <3>3 DEF Tiles

  <2> QED
    BY <2>10 DEF w, masks
<1> QED
  BY <1>1, Reachable, PTL
=============================================================================
