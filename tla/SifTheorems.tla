---------------------------- MODULE SifTheorems -----------------------------
(***************************************************************************)
(* What the operators of Sif do to function ids and hash chains, for        *)
(* histories of any length with any number of functions.                    *)
(***************************************************************************)
EXTENDS Sif, SequencesExt, TLAPS, SequenceTheorems, WellFoundedInduction

(* A history: each revision holds a sequence of functions with natural ids. *)
History(nodes) ==
  /\ Len(nodes) \in Nat /\ DOMAIN nodes = 1 .. Len(nodes)
  /\ \A i \in DOMAIN nodes :
       /\ Len(nodes[i].funcs) \in Nat
       /\ DOMAIN nodes[i].funcs = 1 .. Len(nodes[i].funcs)
       /\ \A j \in DOMAIN nodes[i].funcs : nodes[i].funcs[j].id \in Nat

(* The largest element of a set is its Max.                                 *)
LEMMA MaxIsLargest ==
  ASSUME NEW S \in SUBSET Int, NEW m \in S, \A x \in S : x <= m
  PROVE  Max(S) = m
<1>1. \A y \in S : m >= y
  OBVIOUS
<1>2. \E x \in S : \A y \in S : x >= y
  BY <1>1
<1>3. Max(S) \in S /\ \A y \in S : Max(S) >= y
  BY <1>2 DEF Max
<1>4. Max(S) \in Int /\ m \in Int
  BY <1>3
<1>5. Max(S) >= m /\ Max(S) <= m
  BY <1>3
<1> QED
  BY <1>4, <1>5

(* No function has been numbered in an empty history.                       *)
LEMMA DenseEmpty == DenseIds(<<>>, 0)
  BY DEF DenseIds, IdsBelow, IdsUsed, IdsIncrease

(* A generator that takes the last id plus one reserves n slots.            *)
LEMMA DenseSpan ==
  ASSUME NEW nodes, NEW n \in Nat, History(nodes), DenseIds(nodes, n)
  PROVE  Span(nodes) = n
<1> DEFINE S == {0} \cup {d + 1 : d \in FuncIds(nodes)}
<1>1. \A d \in FuncIds(nodes) : d \in 0 .. n - 1
  BY DEF DenseIds, IdsBelow, FuncIds
<1>2. S \in SUBSET Int /\ \A x \in S : x <= n
  BY <1>1
<1>3. n \in S
  <2>1. CASE n = 0
    BY <2>1
  <2>2. CASE n # 0
    <3>1. n - 1 \in 0 .. n - 1
      BY <2>2
    <3>2. PICK i \in DOMAIN nodes : \E j \in DOMAIN nodes[i].funcs :
                 nodes[i].funcs[j].id = n - 1
      BY <3>1 DEF DenseIds, IdsUsed
    <3>3. n - 1 \in FuncIds(nodes)
      BY <3>2 DEF FuncIds
    <3>4. (n - 1) + 1 \in S
      BY <3>3
    <3> QED
      BY <3>4
  <2> QED
    BY <2>1, <2>2
<1>4. Max(S) = n
  <2> HIDE DEF S
  <2> QED BY <1>2, <1>3, MaxIsLargest
<1> QED
  BY <1>4 DEF Span

(* Two histories are the same up to the last revision of the second.        *)
ExtendsByOne(longer, nodes, node) ==
  /\ Len(longer) = Len(nodes) + 1
  /\ \A i \in DOMAIN nodes : longer[i] = nodes[i]
  /\ longer[Len(nodes) + 1] = node

(* A revision numbered from the counter keeps a history dense.              *)
LEMMA DenseAppend ==
  ASSUME NEW nodes, NEW longer, NEW node, NEW names, NEW n \in Nat,
         History(nodes), History(longer), ExtendsByOne(longer, nodes, node),
         Len(names) \in Nat, DOMAIN names = 1 .. Len(names),
         node.funcs = Numbered(names, n), DenseIds(nodes, n)
  PROVE  DenseIds(longer, n + Len(names))
<1> DEFINE m == Len(nodes)
           k == Len(names)
<1>1. m \in Nat /\ DOMAIN nodes = 1 .. m /\ DOMAIN longer = 1 .. m + 1
  BY DEF History, ExtendsByOne
<1>2. DOMAIN node.funcs = 1 .. k /\ \A j \in 1 .. k : node.funcs[j].id = n + j - 1
  BY DEF Numbered
<1>3. \A i \in 1 .. m : longer[i] = nodes[i]
  BY <1>1 DEF ExtendsByOne
<1>4. longer[m + 1] = node
  BY DEF ExtendsByOne
<1>5. \A i \in 1 .. m + 1 : i \in 1 .. m \/ i = m + 1
  BY <1>1
<1>6. \A i \in 1 .. m : \A j \in DOMAIN nodes[i].funcs :
        nodes[i].funcs[j].id \in 0 .. n - 1
  BY <1>1 DEF DenseIds, IdsBelow
<1>7. IdsBelow(longer, n + k)
  <2> SUFFICES ASSUME NEW i \in 1 .. m + 1, NEW j \in DOMAIN longer[i].funcs
               PROVE  longer[i].funcs[j].id \in 0 .. n + k - 1
    BY <1>1 DEF IdsBelow
  <2>1. CASE i \in 1 .. m
    BY <2>1, <1>3, <1>6
  <2>2. CASE i = m + 1
    BY <2>2, <1>2, <1>4
  <2> QED
    BY <2>1, <2>2, <1>5
<1>8. IdsUsed(longer, n + k)
  <2> SUFFICES ASSUME NEW d \in 0 .. n + k - 1
               PROVE  \E i \in DOMAIN longer : \E j \in DOMAIN longer[i].funcs :
                        longer[i].funcs[j].id = d
    BY DEF IdsUsed
  <2>1. CASE d < n
    <3>1. PICK i \in 1 .. m : \E j \in DOMAIN nodes[i].funcs : nodes[i].funcs[j].id = d
      BY SMTT(30), <2>1, <1>1 DEF DenseIds, IdsUsed
    <3> QED
      BY <3>1, <1>1, <1>3
  <2>2. CASE d >= n
    <3> DEFINE j == d - n + 1
    <3>1. j \in 1 .. k
      BY <2>2
    <3>2. node.funcs[j].id = d
      BY <1>2, <3>1
    <3>3. m + 1 \in 1 .. m + 1
      BY <1>1
    <3> HIDE DEF j
    <3>4. j \in DOMAIN longer[m + 1].funcs /\ longer[m + 1].funcs[j].id = d
      BY <3>1, <3>2, <1>2, <1>4
    <3> QED
      BY <3>3, <3>4, <1>1
  <2> QED
    BY <2>1, <2>2
<1>9. IdsIncrease(longer)
  <2> SUFFICES ASSUME NEW i \in 1 .. m + 1, NEW l \in 1 .. m + 1,
                      NEW j \in DOMAIN longer[i].funcs, NEW h \in DOMAIN longer[l].funcs,
                      i < l \/ (i = l /\ j < h)
               PROVE  longer[i].funcs[j].id < longer[l].funcs[h].id
    BY <1>1 DEF IdsIncrease
  <2>1. CASE i \in 1 .. m /\ l \in 1 .. m
    BY <2>1, <1>1, <1>3 DEF DenseIds, IdsIncrease
  <2>2. CASE i \in 1 .. m /\ l = m + 1
    <3>1. longer[i].funcs[j].id \in 0 .. n - 1
      BY <2>2, <1>3, <1>6
    <3>2. longer[l].funcs[h].id = n + h - 1 /\ h \in 1 .. k
      BY <2>2, <1>2, <1>4
    <3> QED
      BY <3>1, <3>2
  <2>3. CASE i = m + 1
    <3>1. l = m + 1 /\ j < h
      BY <2>3, <1>1
    <3> QED
      BY <2>3, <3>1, <1>2, <1>4
  <2> QED
    BY <2>1, <2>2, <2>3, <1>5
<1> QED
  BY <1>7, <1>8, <1>9 DEF DenseIds

(* Reading the next revision of a dense history leaves the counter at the   *)
(* first id the revisions read so far do not use: read_function's running   *)
(* maximum is the count.                                                    *)
LEMMA DenseNext ==
  ASSUME NEW nodes, NEW longer, NEW whole, NEW n \in Nat, NEW t \in Nat,
         History(nodes), History(longer), History(whole),
         DenseIds(whole, t), DenseIds(nodes, n),
         Len(longer) <= Len(whole),
         \A i \in DOMAIN longer : longer[i] = whole[i],
         ExtendsByOne(longer, nodes, whole[Len(nodes) + 1])
  PROVE  /\ NextFuncid(n, whole[Len(nodes) + 1]) \in Nat
         /\ DenseIds(longer, NextFuncid(n, whole[Len(nodes) + 1]))
<1> DEFINE m == Len(nodes)
           node == whole[m + 1]
           k == Len(node.funcs)
           S == {n} \cup {node.funcs[j].id + 1 : j \in DOMAIN node.funcs}
           next == NextFuncid(n, node)
<1>1. /\ m \in Nat /\ DOMAIN nodes = 1 .. m
      /\ Len(longer) = m + 1 /\ DOMAIN longer = 1 .. m + 1
      /\ Len(whole) \in Nat /\ Len(whole) >= m + 1 /\ DOMAIN whole = 1 .. Len(whole)
  BY DEF History, ExtendsByOne
<1>2. /\ k \in Nat /\ DOMAIN node.funcs = 1 .. k
      /\ \A j \in 1 .. k : node.funcs[j].id \in Nat
  BY <1>1 DEF History
<1>3. \A i \in 1 .. m : nodes[i] = whole[i] /\ longer[i] = whole[i]
  BY <1>1 DEF ExtendsByOne
<1>4. longer[m + 1] = node
  BY <1>1
<1>5. \A i \in 1 .. m : \A j \in DOMAIN whole[i].funcs : whole[i].funcs[j].id \in 0 .. n - 1
  BY <1>1, <1>3 DEF DenseIds, IdsBelow
(* Every id of the revision read is beyond those of its predecessors.       *)
<1>6. \A j \in 1 .. k : node.funcs[j].id >= n
  <2> SUFFICES ASSUME NEW j \in 1 .. k, n # 0
               PROVE  node.funcs[j].id >= n
    BY <1>2
  <2>1. n - 1 \in 0 .. n - 1
    OBVIOUS
  <2>2. PICK i \in DOMAIN nodes : \E l \in DOMAIN nodes[i].funcs : nodes[i].funcs[l].id = n - 1
    BY <2>1 DEF DenseIds, IdsUsed
  <2>3. PICK l \in DOMAIN whole[i].funcs : whole[i].funcs[l].id = n - 1
    BY <2>2, <1>1, <1>3
  <2>4. i \in DOMAIN whole /\ m + 1 \in DOMAIN whole /\ i < m + 1
    BY <1>1
  <2>5. IdsIncrease(whole)
    BY DEF DenseIds
  <2>6. whole[i].funcs[l].id < node.funcs[j].id
    BY <2>4, <2>5, <1>2 DEF IdsIncrease
  <2> QED
    BY <2>3, <2>6, <1>2
<1>7. IdsIncrease(longer)
  <2>1. \A i \in DOMAIN longer : i \in DOMAIN whole /\ longer[i] = whole[i]
    BY <1>1
  <2> QED
    BY <2>1 DEF DenseIds, IdsIncrease
<1>8. S \in SUBSET Int
  BY <1>2
<1>9. CASE k = 0
  <2>1. S = {n}
    BY <1>2, <1>9
  <2>2. next = n
    <3>1. n \in S /\ \A x \in S : x <= n
      BY <2>1
    <3> HIDE DEF S
    <3>2. Max(S) = n
      BY <3>1, <1>8, MaxIsLargest
    <3> QED
      BY <3>2 DEF NextFuncid, S
  <2>3. IdsBelow(longer, n)
    BY <1>1, <1>2, <1>3, <1>4, <1>5, <1>9 DEF IdsBelow
  <2>4. IdsUsed(longer, n)
    <3> SUFFICES ASSUME NEW d \in 0 .. n - 1
                 PROVE  \E i \in DOMAIN longer : \E j \in DOMAIN longer[i].funcs :
                          longer[i].funcs[j].id = d
      BY DEF IdsUsed
    <3>1. PICK i \in 1 .. m : \E j \in DOMAIN nodes[i].funcs : nodes[i].funcs[j].id = d
      BY <1>1 DEF DenseIds, IdsUsed
    <3> QED
      BY <3>1, <1>1, <1>3
  <2> QED
    BY <2>2, <2>3, <2>4, <1>7 DEF DenseIds
<1>10. CASE k # 0
  <2> DEFINE top == node.funcs[k].id
  <2>1. top \in Nat /\ top >= n /\ k \in 1 .. k
    BY <1>2, <1>6, <1>10
  <2>2. \A j \in 1 .. k : node.funcs[j].id <= top
    <3>1. m + 1 \in DOMAIN whole
      BY <1>1
    <3>2. IdsIncrease(whole)
      BY DEF DenseIds
    <3>3. \A j \in 1 .. k : j < k => node.funcs[j].id < top
      BY <3>1, <3>2, <2>1, <1>2 DEF IdsIncrease
    <3>4. \A j \in 1 .. k : j < k \/ j = k
      BY <1>2
    <3> QED
      BY SMTT(30), <3>3, <3>4, <2>1, <1>2
  <2>3. next = top + 1
    <3>1. top + 1 \in S
      BY <2>1, <1>2
    <3>2. ASSUME NEW x \in S PROVE x <= top + 1
      <4>1. CASE x = n
        BY <4>1, <2>1
      <4>2. CASE x # n
        <5>1. PICK j \in 1 .. k : x = node.funcs[j].id + 1
          BY <4>2, <1>2
        <5>2. node.funcs[j].id \in Nat /\ node.funcs[j].id <= top
          BY <1>2, <2>2
        <5>3. top \in Nat
          BY <2>1
        <5> HIDE DEF top, node
        <5> QED
          BY SMTT(30), <5>1, <5>2, <5>3
      <4> QED
        BY <4>1, <4>2
    <3> HIDE DEF S
    <3>3. Max(S) = top + 1
      BY <3>1, <3>2, <1>8, MaxIsLargest
    <3> QED
      BY <3>3 DEF NextFuncid, S
  <2>4. IdsBelow(longer, top + 1)
    <3> SUFFICES ASSUME NEW i \in 1 .. m + 1, NEW j \in DOMAIN longer[i].funcs
                 PROVE  longer[i].funcs[j].id \in 0 .. top
      BY <1>1, <2>1 DEF IdsBelow
    <3>1. CASE i \in 1 .. m
      <4>1. longer[i].funcs[j].id \in 0 .. n - 1
        BY <3>1, <1>3, <1>5
      <4>2. top \in Nat /\ top >= n
        BY <2>1
      <4> HIDE DEF top
      <4> QED
        BY <4>1, <4>2
    <3>2. CASE i = m + 1
      <4>1. j \in 1 .. k /\ longer[i].funcs[j] = node.funcs[j]
        BY <3>2, <1>2, <1>4
      <4>2. node.funcs[j].id \in Nat /\ node.funcs[j].id <= top
        BY <4>1, <1>2, <2>2
      <4> HIDE DEF top
      <4> QED
        BY <4>1, <4>2, <2>1
    <3>3. i \in 1 .. m \/ i = m + 1
      BY <1>1
    <3> QED
      BY <3>1, <3>2, <3>3
  (* An id up to the top one belongs to a revision that has been read.      *)
  <2>5. IdsUsed(longer, top + 1)
    <3> SUFFICES ASSUME NEW d \in 0 .. (top + 1) - 1
                 PROVE  \E i \in DOMAIN longer : \E j \in DOMAIN longer[i].funcs :
                          longer[i].funcs[j].id = d
      BY DEF IdsUsed
    <3>1. m + 1 \in DOMAIN whole /\ k \in DOMAIN whole[m + 1].funcs
      BY <1>1, <1>2, <2>1
    <3>2. top \in 0 .. t - 1
      BY <3>1, <2>1 DEF DenseIds, IdsBelow
    <3>3. d \in 0 .. t - 1
      BY <3>2, <2>1
    <3>4. PICK i \in DOMAIN whole : \E j \in DOMAIN whole[i].funcs : whole[i].funcs[j].id = d
      BY <3>3 DEF DenseIds, IdsUsed
    <3>5. PICK j \in DOMAIN whole[i].funcs : whole[i].funcs[j].id = d
      BY <3>4
    <3>6. ~(m + 1 < i)
      <4>1. IdsIncrease(whole)
        BY DEF DenseIds
      <4>2. m + 1 < i => top < d
        BY <4>1, <3>1, <3>5 DEF IdsIncrease
      <4> QED
        BY <4>2, <2>1
    <3>7. i \in 1 .. m + 1
      BY <3>6, <1>1
    <3> QED
      BY <3>5, <3>7, <1>1
  <2> QED
    BY <2>1, <2>3, <2>4, <2>5, <1>7 DEF DenseIds
<1> QED
  BY <1>2, <1>9, <1>10

(***************************************************************************)
(* Sequences whose elements have no type of their own (hashes, trees).      *)
(***************************************************************************)
(* No elements.                                                             *)
LEMMA IsSeqEmpty == IsSeq(<<>>) /\ Len(<<>>) = 0 /\ DOMAIN <<>> = {}
  BY DEF IsSeq

(* A sequence's length and places.                                          *)
LEMMA IsSeqLen ==
  ASSUME NEW s, IsSeq(s)
  PROVE  Len(s) \in Nat /\ DOMAIN s = 1 .. Len(s) /\ (s = <<>> <=> Len(s) = 0)
<1>1. s \in Seq({s[i] : i \in DOMAIN s})
  BY DEF IsSeq
<1> QED
  BY <1>1, EmptySeq

(* An element more.                                                         *)
LEMMA AppendIsSeq ==
  ASSUME NEW s, IsSeq(s), NEW e
  PROVE  /\ IsSeq(Append(s, e))
         /\ Len(Append(s, e)) = Len(s) + 1
         /\ DOMAIN Append(s, e) = 1 .. Len(s) + 1
         /\ \A i \in 1 .. Len(s) : Append(s, e)[i] = s[i]
         /\ Append(s, e)[Len(s) + 1] = e
<1> DEFINE a == Append(s, e)
           S == {s[i] : i \in DOMAIN s}
           T == S \cup {e}
           A == {a[i] : i \in DOMAIN a}
           n == Len(s)
<1>1. s \in Seq(S) /\ n \in Nat /\ DOMAIN s = 1 .. n
  BY IsSeqLen DEF IsSeq
<1>2. s \in Seq(T)
  BY <1>1, SeqDef
<1>3. /\ a \in Seq(T) /\ Len(a) = n + 1 /\ DOMAIN a = 1 .. n + 1
      /\ \A i \in 1 .. n : a[i] = s[i]
      /\ a[n + 1] = e
  <2> HIDE DEF T
  <2>1. e \in T
    BY DEF T
  <2> QED
    BY <1>1, <1>2, <2>1, AppendProperties
<1>4. a \in [1 .. n + 1 -> A]
  <2> HIDE DEF a, T
  <2>1. a \in [1 .. n + 1 -> T]
    BY <1>3, LenProperties
  <2> QED
    BY <2>1, <1>3
<1>5. a \in Seq(A)
  <2> HIDE DEF a, A
  <2>1. n + 1 \in Nat
    BY <1>1
  <2> QED
    BY <1>4, <2>1, SeqDef
<1> QED
  BY <1>3, <1>5 DEF IsSeq

(* An element changed.                                                      *)
LEMMA ExceptIsSeq ==
  ASSUME NEW s, IsSeq(s), NEW k \in DOMAIN s, NEW e
  PROVE  /\ IsSeq([s EXCEPT ![k] = e])
         /\ Len([s EXCEPT ![k] = e]) = Len(s)
         /\ DOMAIN [s EXCEPT ![k] = e] = DOMAIN s
         /\ \A i \in DOMAIN s : [s EXCEPT ![k] = e][i] = IF i = k THEN e ELSE s[i]
<1> DEFINE x == [s EXCEPT ![k] = e]
           X == {x[i] : i \in DOMAIN x}
           n == Len(s)
<1>1. n \in Nat /\ DOMAIN s = 1 .. n
  BY IsSeqLen
<1>2. DOMAIN x = 1 .. n /\ x \in [1 .. n -> X]
  <2>1. x = [i \in DOMAIN s |-> IF i = k THEN e ELSE s[i]]
    BY DEF IsSeq
  <2> QED
    BY <1>1, <2>1
<1>3. x \in Seq(X)
  <2> HIDE DEF x, X
  <2> QED BY <1>1, <1>2, SeqDef
<1>4. Len(x) = n
  <2> HIDE DEF x, X
  <2> QED BY <1>1, <1>2, <1>3, LenProperties
<1> QED
  BY <1>1, <1>2, <1>3, <1>4 DEF IsSeq

(* The first n elements.                                                    *)
LEMMA PrefixIsSeq ==
  ASSUME NEW s, IsSeq(s), NEW n \in 0 .. Len(s)
  PROVE  /\ IsSeq(SubSeq(s, 1, n))
         /\ Len(SubSeq(s, 1, n)) = n
         /\ DOMAIN SubSeq(s, 1, n) = 1 .. n
         /\ \A i \in 1 .. n : SubSeq(s, 1, n)[i] = s[i]
<1> DEFINE x == SubSeq(s, 1, n)
           S == {s[i] : i \in DOMAIN s}
           X == {x[i] : i \in DOMAIN x}
<1>1. Len(s) \in Nat /\ DOMAIN s = 1 .. Len(s) /\ s \in Seq(S)
  BY IsSeqLen DEF IsSeq
<1>2. n \in Nat /\ n - 1 + 1 = n /\ \A i \in 1 .. n : i \in 1 .. Len(s)
  BY <1>1
<1>3. x \in Seq(S) /\ Len(x) = n /\ \A i \in 1 .. n : x[i] = s[i]
  <2> HIDE DEF S
  <2> QED BY <1>1, <1>2, SubSeqProperties
<1>4. DOMAIN x = 1 .. n /\ x \in [1 .. n -> X]
  <2> HIDE DEF x
  <2>1. x \in [1 .. n -> S] /\ DOMAIN x = 1 .. n
    BY <1>3, LenProperties
  <2> QED
    BY <2>1
<1>5. x \in Seq(X)
  <2> HIDE DEF x, X
  <2> QED BY <1>2, <1>4, SeqDef
<1> QED
  BY <1>3, <1>4, <1>5 DEF IsSeq
(***************************************************************************)
(* Induction: a set of natural numbers that is not empty has a least        *)
(* element, so a claim about all of them has a first counterexample.        *)
(***************************************************************************)
(* The least element.                                                       *)
LEMMA LeastNat ==
  ASSUME NEW S \in SUBSET Nat, S # {}
  PROVE  \E n \in S : \A m \in S : n <= m
<1> DEFINE R == OpToRel(<, Nat)
<1>1. IsWellFoundedOn(R, Nat)
  BY NatLessThanWellFounded, Zenon
<1>2. \A m, n \in Nat : m < n => <<m, n>> \in R
  BY DEF OpToRel
<1> HIDE DEF R
<1>3. PICK n \in S : \A m \in S : <<m, n>> \notin R
  BY <1>1, WFMin, Zenon
<1>4. \A m \in S : ~(m < n)
  BY <1>2, <1>3
<1> QED
  BY <1>4

(* Sequences over the same places are as long as each other.                *)
LEMMA SameInterval ==
  ASSUME NEW m \in Nat, NEW n \in Nat, 1 .. m = 1 .. n
  PROVE  m = n
<1>1. ~(m < n)
  <2>1. m < n => n \in 1 .. n /\ n \notin 1 .. m
    OBVIOUS
  <2> QED
    BY <2>1
<1>2. ~(n < m)
  <2>1. n < m => m \in 1 .. m /\ m \notin 1 .. n
    OBVIOUS
  <2> QED
    BY <2>1
<1> QED
  BY <1>1, <1>2

(* The largest of a bounded set of numbers.                                 *)
LEMMA BoundedMax ==
  ASSUME NEW S \in SUBSET Nat, S # {}, NEW n \in Nat, \A x \in S : x <= n
  PROVE  Max(S) \in S /\ \A x \in S : x <= Max(S)
<1> DEFINE T == {d \in Nat : \E x \in S : d = n - x}
<1>1. PICK d \in T : \A e \in T : d <= e
  <2>1. PICK x \in S : TRUE
    OBVIOUS
  <2>2. n - x \in Nat
    BY <2>1
  <2>3. n - x \in T
    BY <2>1, <2>2
  <2>4. T \in SUBSET Nat /\ T # {}
    BY <2>3
  <2> HIDE DEF T
  <2> QED
    BY <2>4, LeastNat
<1>2. PICK m \in S : d = n - m
  BY <1>1
<1>3. ASSUME NEW x \in S PROVE x <= m
  <2>1. n - x \in Nat /\ n \in Nat /\ x \in Nat /\ m \in Nat
    OBVIOUS
  <2>2. n - x \in T
    BY <2>1
  <2>3. d <= n - x
    BY <1>1, <2>2
  <2> HIDE DEF T
  <2> QED
    BY <2>1, <2>3, <1>2
<1>4. Max(S) = m
  <2>1. S \in SUBSET Int
    OBVIOUS
  <2> QED
    BY <2>1, <1>3, MaxIsLargest
<1> QED
  BY <1>3, <1>4

(***************************************************************************)
(* Recursive functions: there is one by induction over its domain.          *)
(***************************************************************************)
(* What FlattenSeq's recursive function is, up to place n.                  *)
Flattening(seqs, n, g) ==
  g = [i \in 1 .. n |-> IF i = 1 THEN seqs[i] ELSE g[i - 1] \o seqs[i]]

(* There is one for any number of sequences.                                *)
LEMMA FlatteningExists ==
  ASSUME NEW seqs, NEW n \in Nat
  PROVE  \E g : Flattening(seqs, n, g)
<1> DEFINE S == {k \in Nat : ~\E g : Flattening(seqs, k, g)}
<1>1. SUFFICES ASSUME S # {} PROVE FALSE
  OBVIOUS
<1>2. PICK k \in S : \A m \in S : k <= m
  <2> HIDE DEF S
  <2>1. S \in SUBSET Nat
    BY DEF S
  <2> QED
    BY <1>1, <2>1, LeastNat
<1>3. k \in Nat /\ ~\E g : Flattening(seqs, k, g)
  OBVIOUS
<1>4. k # 0
  <2>1. Flattening(seqs, 0, [i \in {} |-> 0])
    BY DEF Flattening
  <2> QED
    BY <1>3, <2>1
<1>5. k - 1 \in Nat /\ k - 1 \notin S
  BY <1>2, <1>3, <1>4
<1>6. PICK g : Flattening(seqs, k - 1, g)
  BY <1>5
<1> DEFINE h == [i \in 1 .. k |-> IF i = k THEN IF k = 1 THEN seqs[k] ELSE g[k - 1] \o seqs[k] ELSE g[i]]
<1>7. \A i \in 1 .. k : h[i] = IF i = 1 THEN seqs[i] ELSE h[i - 1] \o seqs[i]
  <2> SUFFICES ASSUME NEW i \in 1 .. k
               PROVE  h[i] = IF i = 1 THEN seqs[i] ELSE h[i - 1] \o seqs[i]
    OBVIOUS
  <2>1. CASE i = k /\ k = 1
    BY <2>1
  <2>2. CASE i = k /\ k # 1
    <3>1. k - 1 \in 1 .. k /\ k - 1 # k /\ i # 1 /\ k \in 1 .. k
      BY <2>2, <1>3, <1>4
    <3>2. h[k] = g[k - 1] \o seqs[k] /\ h[k - 1] = g[k - 1]
      BY <2>2, <3>1
    <3> QED
      BY <2>2, <3>1, <3>2
  <2>3. CASE i # k
    <3>1. i \in 1 .. k - 1 /\ (i # 1 => i - 1 \in 1 .. k - 1) /\ h[i] = g[i] /\ (i # 1 => h[i - 1] = g[i - 1])
      BY <2>3, <1>3
    <3>2. g[i] = IF i = 1 THEN seqs[i] ELSE g[i - 1] \o seqs[i]
      BY <1>6, <3>1 DEF Flattening
    <3> QED
      BY <3>1, <3>2
  <2> QED
    BY <2>1, <2>2, <2>3
<1>8. Flattening(seqs, k, h)
  <2> DEFINE hh == [i \in 1 .. k |-> IF i = 1 THEN seqs[i] ELSE h[i - 1] \o seqs[i]]
  <2>1. h = hh
    BY <1>7, Zenon
  <2> QED
    BY <2>1 DEF Flattening
<1> QED
  BY <1>3, <1>8

(* FlattenSeq is where it ends.                                             *)
LEMMA FlattenSeqIs ==
  ASSUME NEW seqs, NEW n \in Nat, n # 0, Len(seqs) = n
  PROVE  \E g : Flattening(seqs, n, g) /\ FlattenSeq(seqs) = g[n]
<1> DEFINE f == CHOOSE f : f = [i \in 1 .. n |-> IF i = 1 THEN seqs[i] ELSE f[i - 1] \o seqs[i]]
<1>1. FlattenSeq(seqs) = f[n]
  BY Zenon DEF FlattenSeq
<1>2. Flattening(seqs, n, f)
  BY FlatteningExists, Zenon DEF Flattening
<1> HIDE DEF f
<1> QED
  BY <1>1, <1>2

(***************************************************************************)
(* Ids again.                                                               *)
(***************************************************************************)
(* The numbering of a history without gaps follows from its shape: if two   *)
(* histories have as many functions in every revision, they have the same   *)
(* ids, for the first id they would differ in is nowhere else to be found.  *)
LEMMA SameIds ==
  ASSUME NEW x, NEW y, NEW n \in Nat, NEW m \in Nat,
         History(x), History(y), DenseIds(x, n), DenseIds(y, m),
         Len(x) = Len(y),
         \A i \in DOMAIN x : Len(x[i].funcs) = Len(y[i].funcs)
  PROVE  \A i \in DOMAIN x : \A j \in DOMAIN x[i].funcs :
           x[i].funcs[j].id = y[i].funcs[j].id
<1> DEFINE Differ(d) == \E i \in DOMAIN x : \E j \in DOMAIN x[i].funcs :
                          x[i].funcs[j].id = d /\ y[i].funcs[j].id # d
           S == {d \in Nat : Differ(d)}
<1>1. /\ DOMAIN x = DOMAIN y /\ \A i \in DOMAIN x : i \in Nat
      /\ \A i \in DOMAIN x :
           /\ DOMAIN x[i].funcs = DOMAIN y[i].funcs
           /\ \A j \in DOMAIN x[i].funcs :
                j \in Nat /\ x[i].funcs[j].id \in Nat /\ y[i].funcs[j].id \in Nat
  BY DEF History
<1>2. SUFFICES ASSUME S # {} PROVE FALSE
  BY <1>1
<1>3. PICK d \in S : \A e \in S : d <= e
  <2> HIDE DEF S
  <2>1. S \in SUBSET Nat
    BY DEF S
  <2> QED
    BY <1>2, <2>1, LeastNat
<1>4. PICK i \in DOMAIN x : \E j \in DOMAIN x[i].funcs :
             x[i].funcs[j].id = d /\ y[i].funcs[j].id # d
  BY <1>3
<1>5. PICK j \in DOMAIN x[i].funcs : x[i].funcs[j].id = d /\ y[i].funcs[j].id # d
  BY <1>4
<1> DEFINE e == y[i].funcs[j].id
<1>6. d \in Nat /\ e \in Nat /\ e # d
  BY <1>1, <1>5
<1>7. ASSUME NEW k \in DOMAIN x, NEW l \in DOMAIN x[k].funcs, x[k].funcs[l].id < d
      PROVE  y[k].funcs[l].id = x[k].funcs[l].id
  <2>1. x[k].funcs[l].id \in Nat /\ ~(d <= x[k].funcs[l].id)
    BY SMTT(30), <1>1, <1>6, <1>7
  <2>2. x[k].funcs[l].id \notin S
    <3> HIDE DEF S
    <3> QED BY <2>1, <1>3
  <2> QED
    BY <2>1, <2>2
<1>8. ASSUME NEW k \in DOMAIN x, NEW l \in DOMAIN x[k].funcs
      PROVE  (i < k \/ (i = k /\ j < l)) \/ (k < i \/ (k = i /\ l < j)) \/ (i = k /\ j = l)
  BY <1>1
<1>9. IdsIncrease(x) /\ IdsIncrease(y)
  BY DEF DenseIds
<1>10. CASE d < e
  <2>1. e \in 0 .. m - 1
    BY <1>1 DEF DenseIds, IdsBelow
  <2>2. d \in 0 .. m - 1
    BY SMTT(30), <2>1, <1>6, <1>10
  <2>3. PICK k \in DOMAIN x : \E l \in DOMAIN x[k].funcs : y[k].funcs[l].id = d
    <3> HIDE DEF S
    <3>1. \E k \in DOMAIN y : \E l \in DOMAIN y[k].funcs : y[k].funcs[l].id = d
      BY <2>2 DEF DenseIds, IdsUsed
    <3> QED
      BY <3>1, <1>1

  <2>4. PICK l \in DOMAIN x[k].funcs : y[k].funcs[l].id = d
    BY <2>3
  <2>5. ~(i < k \/ (i = k /\ j < l))
    <3>1. (i < k \/ (i = k /\ j < l)) => e < d
      BY <2>4, <1>1, <1>9 DEF IdsIncrease
    <3> HIDE DEF e, S
    <3> QED
      BY <3>1, <1>6, <1>10
  <2>6. ~(i = k /\ j = l)
    BY <2>4, <1>6
  <2>7. x[k].funcs[l].id < d
    BY <2>5, <2>6, <1>5, <1>8, <1>9 DEF IdsIncrease
  <2>8. x[k].funcs[l].id = d
    BY <2>4, <2>7, <1>7
  <2> QED
    BY <2>7, <2>8, <1>6
<1>11. CASE e < d
  <2>1. d \in 0 .. n - 1
    BY <1>5 DEF DenseIds, IdsBelow
  <2>2. e \in 0 .. n - 1
    BY SMTT(30), <2>1, <1>6, <1>11
  <2>3. PICK k \in DOMAIN x : \E l \in DOMAIN x[k].funcs : x[k].funcs[l].id = e
    BY <2>2 DEF DenseIds, IdsUsed
  <2>4. PICK l \in DOMAIN x[k].funcs : x[k].funcs[l].id = e
    BY <2>3
  <2>5. y[k].funcs[l].id = e
    BY <2>4, <1>7, <1>11
  <2>6. ~(i = k /\ j = l)
    BY <2>4, <1>5, <1>6
  <2>7. (i < k \/ (i = k /\ j < l)) => e < e
    BY <2>5, <1>1, <1>9 DEF IdsIncrease
  <2>8. (k < i \/ (k = i /\ l < j)) => e < e
    BY <2>5, <1>1, <1>9 DEF IdsIncrease
  <2>9. ~(e < e)
    <3> HIDE DEF e
    <3> QED BY <1>6
  <2> QED
    BY <2>6, <2>7, <2>8, <2>9, <1>8
<1>12. d < e \/ e < d
  <2> HIDE DEF S, e
  <2> QED BY <1>6
<1> QED
  BY <1>10, <1>11, <1>12, Zenon
=============================================================================
