--------------------------- MODULE SidlCallProofs ---------------------------
(***************************************************************************)
(* Proofs about SidlCall: for artifacts of any length, any parameter lists  *)
(* whose by-value types have a size, and any number of argument slots from  *)
(* two, a call passes what the caller passed to the function it called.     *)
(*                                                                          *)
(* Three parts: function ids and the vtable; the partition of a parameter   *)
(* list into slots; and one lemma per action for the invariant of           *)
(* SidlCallInv, with the theorems that follow from it.                      *)
(***************************************************************************)
EXTENDS SidlCallInv, SifTheorems, FiniteSetTheorems

(***************************************************************************)
(* Function ids on either side.                                             *)
(***************************************************************************)
(* An artifact's history, as HistoryAssumption describes it.                *)
LEMMA Genuine ==
  ASSUME NEW h \in UNION Interfaces
  PROVE  /\ History(h)
         /\ Span(h) \in Nat /\ DenseIds(h, Span(h))
<1>1. /\ IsSeq(h)
      /\ \A r \in DOMAIN h :
           /\ IsSeq(h[r].funcs)
           /\ \A j \in DOMAIN h[r].funcs : h[r].funcs[j].id \in Nat
  BY HistoryAssumption
<1> QED
  BY <1>1, HistoryAssumption, IsSeqLen DEF History

(* A function is where its id is.                                           *)
LEMMA SameId ==
  ASSUME NEW h, NEW n \in Nat, History(h), DenseIds(h, n),
         NEW r \in DOMAIN h, NEW j \in DOMAIN h[r].funcs,
         NEW k \in DOMAIN h, NEW l \in DOMAIN h[k].funcs,
         h[r].funcs[j].id = h[k].funcs[l].id
  PROVE  r = k /\ j = l
<1>1. r \in Nat /\ k \in Nat /\ j \in Nat /\ l \in Nat
  BY DEF History
<1>2. h[r].funcs[j].id \in Nat /\ h[k].funcs[l].id \in Nat
  BY DEF History
<1>3. ~(r < k \/ (r = k /\ j < l)) /\ ~(k < r \/ (k = r /\ l < j))
  <2>1. IdsIncrease(h)
    BY DEF DenseIds
  <2> QED
    BY <1>2, <2>1 DEF IdsIncrease
<1> QED
  BY <1>1, <1>3

(* Ids tell the functions of an artifact apart.                             *)
LEMMA UniqueId ==
  ASSUME NEW h \in UNION Interfaces,
         NEW f \in FunctionsOf(h), NEW g \in FunctionsOf(h), f.id = g.id
  PROVE  f = g
<1>1. PICK r \in DOMAIN h : \E j \in DOMAIN h[r].funcs : f = h[r].funcs[j]
  BY DEF FunctionsOf
<1>2. PICK j \in DOMAIN h[r].funcs : f = h[r].funcs[j]
  BY <1>1
<1>3. PICK k \in DOMAIN h : \E l \in DOMAIN h[k].funcs : g = h[k].funcs[l]
  BY DEF FunctionsOf
<1>4. PICK l \in DOMAIN h[k].funcs : g = h[k].funcs[l]
  BY <1>3
<1>5. r = k /\ j = l
  BY <1>2, <1>4, Genuine, SameId
<1> QED
  BY <1>2, <1>4, <1>5

(* Ids are below the span.                                                  *)
LEMMA IdBelowSpan ==
  ASSUME NEW h \in UNION Interfaces, NEW f \in FunctionsOf(h)
  PROVE  f.id \in Nat /\ f.id < Span(h)
<1>1. PICK r \in DOMAIN h : \E j \in DOMAIN h[r].funcs : f = h[r].funcs[j]
  BY DEF FunctionsOf
<1>2. f.id \in 0 .. Span(h) - 1 /\ Span(h) \in Nat
  BY <1>1, Genuine DEF DenseIds, IdsBelow
<1> QED
  BY <1>2

(* One more than the last function's id is the number of functions: what    *)
(* the generators reserve (total_funcid_span).                              *)
LEMMA FuncidSpanCounts ==
  ASSUME NEW h \in UNION Interfaces
  PROVE  FuncidSpan(h) = Span(h)
<1> DEFINE filled == {r \in DOMAIN h : h[r].funcs # <<>>}
           n == Span(h)
<1>1. History(h) /\ n \in Nat /\ DenseIds(h, n)
  BY Genuine
<1>2. \A r \in DOMAIN h : Len(h[r].funcs) \in Nat /\ (h[r].funcs = <<>> <=> Len(h[r].funcs) = 0)
  BY HistoryAssumption, IsSeqLen
<1>3. CASE filled = {}
  <2>1. \A r \in DOMAIN h : DOMAIN h[r].funcs = {}
    BY <1>1, <1>2, <1>3 DEF History
  <2>2. FuncIds(h) = {}
    BY <2>1 DEF FuncIds
  <2>3. n = 0
    <3>1. ~(0 \in 0 .. n - 1)
      BY <2>1, <1>1 DEF DenseIds, IdsUsed
    <3> QED
      BY <1>1, <3>1
  <2> QED
    BY <1>3, <2>3 DEF FuncidSpan
<1>4. CASE filled # {}
  <2> DEFINE m == Max(filled)
             k == Len(h[m].funcs)
             e == h[m].funcs[k].id
  <2>1. m \in filled /\ \A r \in filled : r <= m
    <3>1. filled \in SUBSET Nat /\ Len(h) \in Nat /\ \A r \in filled : r <= Len(h)
      BY <1>1 DEF History
    <3> HIDE DEF filled
    <3> QED
      BY <3>1, <1>4, BoundedMax
  <2>2. m \in DOMAIN h /\ k \in DOMAIN h[m].funcs
    <3>1. m \in DOMAIN h /\ h[m].funcs # <<>>
      BY <2>1
    <3> HIDE DEF m, filled
    <3>2. k \in Nat /\ k # 0
      BY <3>1, <1>2
    <3>3. DOMAIN h[m].funcs = 1 .. k
      BY <3>1, <1>1 DEF History
    <3> QED
      BY <3>1, <3>2, <3>3
  <2>3. \A r \in filled : r <= m
    BY <2>1
  <2>4. Last(h[m].funcs).id = e
    BY DEF Last
  <2>14. FuncidSpan(h) = Last(h[m].funcs).id + 1
    BY <1>4 DEF FuncidSpan
  <2> HIDE DEF m
  <2>5. e \in 0 .. n - 1
    BY <2>2, <1>1 DEF DenseIds, IdsBelow
  <2>6. n - 1 \in 0 .. n - 1
    BY <2>5, <1>1
  <2>7. PICK r \in DOMAIN h : \E j \in DOMAIN h[r].funcs : h[r].funcs[j].id = n - 1
    BY <2>6, <1>1 DEF DenseIds, IdsUsed
  <2>8. PICK j \in DOMAIN h[r].funcs : h[r].funcs[j].id = n - 1
    BY <2>7
  <2>9. r \in filled
    BY <2>8, <1>1, <1>2 DEF History
  <2>10. r <= m /\ r \in Nat /\ m \in Nat /\ j \in 1 .. Len(h[r].funcs) /\ k \in Nat
    BY <2>2, <2>3, <2>8, <2>9, <1>1 DEF History
  <2>11. (r < m \/ (r = m /\ j < k)) \/ (r = m /\ j = k)
    BY <2>10
  <2>12. n - 1 <= e
    <3>1. CASE r < m \/ (r = m /\ j < k)
      <4>1. h[r].funcs[j].id < e
        BY <3>1, <2>2, <2>7, <2>8, <1>1 DEF DenseIds, IdsIncrease
      <4> QED
        BY <4>1, <2>5, <2>8, <1>1
    <3>2. CASE r = m /\ j = k
      BY <3>2, <2>8, <1>1
    <3> QED
      BY <2>11, <3>1, <3>2
  <2>13. e + 1 = n
    BY <2>12, <2>5, <1>1
  <2> QED
    BY <2>4, <2>13, <2>14
<1> QED
  BY <1>3, <1>4

(* t lists the names of the functions of h's first i revisions by id.       *)
NamesUpTo(h, i, t) ==
  /\ t \in Seq({f.name : f \in FunctionsOf(h)})
  /\ \A d \in Nat :
       d < Len(t) <=> \E r \in 1 .. i : \E j \in DOMAIN h[r].funcs : h[r].funcs[j].id = d
  /\ \A r \in 1 .. i : \A j \in DOMAIN h[r].funcs : t[h[r].funcs[j].id + 1] = h[r].funcs[j].name

(* The names a revision adds, in source order.                              *)
NamesIn(node) == [j \in DOMAIN node.funcs |-> node.funcs[j].name]

(* The next revision's ids go on where the list ends: a lower id is taken   *)
(* by a function before, and a gap could be filled only by one behind.      *)
LEMMA IdsGoOn ==
  ASSUME NEW h \in UNION Interfaces, NEW i \in Nat, i + 1 \in DOMAIN h,
         NEW t, NamesUpTo(h, i, t)
  PROVE  \A j \in DOMAIN h[i + 1].funcs : h[i + 1].funcs[j].id = Len(t) + j - 1
<1> DEFINE n == Span(h)
           c == Len(t)
           q == i + 1
           F == h[q].funcs
           S == {j \in DOMAIN F : F[j].id # c + j - 1}
<1>1. History(h) /\ n \in Nat /\ DenseIds(h, n)
  BY Genuine
<1>2. DOMAIN h = 1 .. Len(h) /\ Len(h) \in Nat /\ q \in 1 .. Len(h)
  BY <1>1 DEF History
<1>3. DOMAIN F = 1 .. Len(F) /\ Len(F) \in Nat /\ \A j \in DOMAIN F : F[j].id \in Nat
  BY <1>1 DEF History
<1>4. c \in Nat
  BY LenProperties DEF NamesUpTo
<1>5. SUFFICES ASSUME S # {} PROVE FALSE
  OBVIOUS
<1>6. PICK j \in S : \A l \in S : j <= l
  <2>1. S \in SUBSET Nat
    BY <1>3
  <2> HIDE DEF S
  <2> QED
    BY <1>5, <2>1, LeastNat
<1>7. j \in DOMAIN F /\ j \in Nat /\ 1 <= j /\ F[j].id # c + j - 1
  BY <1>3
<1>8. \A l \in DOMAIN F : l < j => F[l].id = c + l - 1
  <2> SUFFICES ASSUME NEW l \in DOMAIN F, l < j, F[l].id # c + l - 1 PROVE FALSE
    OBVIOUS
  <2>1. l \in S /\ l \in Nat
    BY <1>3
  <2>2. j <= l
    BY <1>6, <2>1
  <2> QED
    BY <1>7, <2>1, <2>2
<1> DEFINE e == F[j].id
           p == c + j - 1
<1> HIDE DEF S
<1>9. e \in Nat /\ p \in Nat /\ e # p /\ e < n
  <2>1. e \in 0 .. n - 1
    BY <1>1, <1>2, <1>7 DEF DenseIds, IdsBelow
  <2> QED
    BY <2>1, <1>1, <1>3, <1>4, <1>7
<1>10. IdsIncrease(h) /\ IdsUsed(h, n)
  BY <1>1 DEF DenseIds
\* Every id below p belongs to a function before this one.
<1>11. ~(e < p)
  <2> SUFFICES ASSUME e < p PROVE FALSE
    OBVIOUS
  <2>1. CASE e < c
    <3>1. PICK r \in 1 .. i : \E l \in DOMAIN h[r].funcs : h[r].funcs[l].id = e
      BY <2>1, <1>9 DEF NamesUpTo
    <3>2. PICK l \in DOMAIN h[r].funcs : h[r].funcs[l].id = e
      BY <3>1
    <3>3. r \in DOMAIN h /\ r # q
      BY <1>2, <3>1
    <3> QED
      BY <3>2, <3>3, <1>1, <1>2, <1>7, SameId
  <2>2. CASE ~(e < c)
    <3> DEFINE l == e - c + 1
    <3>1. l \in DOMAIN F /\ l < j
      BY <2>2, <1>3, <1>4, <1>7, <1>9
    <3>2. F[l].id = e
      BY <3>1, <1>8, <1>4, <1>9
    <3>3. l = j
      <4> HIDE DEF l
      <4> QED
        BY <3>1, <3>2, <1>1, <1>2, <1>7, SameId
    <3> QED
      BY <3>1, <3>3, <1>7
  <2> QED
    BY <2>1, <2>2
<1>12. p < e
  BY <1>9, <1>11
<1>13. p \in 0 .. n - 1
  BY <1>9, <1>12, <1>1
<1>14. PICK r \in DOMAIN h : \E l \in DOMAIN h[r].funcs : h[r].funcs[l].id = p
  BY <1>10, <1>13 DEF IdsUsed
<1>15. PICK l \in DOMAIN h[r].funcs : h[r].funcs[l].id = p
  BY <1>14
<1>16. r \in Nat /\ l \in Nat /\ q \in Nat /\ r >= 1 /\ l >= 1
  BY <1>1, <1>2, <1>14, <1>15 DEF History
<1>17. CASE r < q
  <2>1. r \in 1 .. i
    BY <1>16, <1>17
  <2>2. p < c
    BY <2>1, <1>9, <1>15 DEF NamesUpTo
  <2> QED
    BY <2>2, <1>4, <1>7
<1>18. CASE r = q /\ l < j
  <2>1. p = c + l - 1
    BY <1>8, <1>15, <1>18
  <2> QED
    BY <2>1, <1>4, <1>7, <1>16, <1>18
<1>19. CASE r = q /\ l = j
  BY <1>15, <1>19, <1>9
<1>20. CASE q < r \/ (q = r /\ j < l)
  <2>1. e < p
    BY <1>20, <1>2, <1>7, <1>10, <1>14, <1>15 DEF IdsIncrease
  <2> QED
    BY <2>1, <1>9, <1>12
<1> QED
  BY <1>7, <1>16, <1>17, <1>18, <1>19, <1>20

(* The second of two sequences begins behind the first.                     *)
LEMMA BehindConcat ==
  ASSUME NEW S, NEW s \in Seq(S), NEW t \in Seq(S), NEW j \in 1 .. Len(t)
  PROVE  (s \o t)[Len(s) + j] = t[j]
<1>1. Len(s) \in Nat /\ Len(t) \in Nat
  BY LenProperties
<1>2. /\ Len(s) + j \in 1 .. Len(s) + Len(t) /\ ~(Len(s) + j <= Len(s))
      /\ Len(s) + j - Len(s) = j
  BY <1>1
<1> QED
  BY <1>2, ConcatProperties

(* ... so its names go behind the list.                                     *)
LEMMA NamesGrow ==
  ASSUME NEW h \in UNION Interfaces, NEW i \in Nat, i + 1 \in DOMAIN h,
         NEW t, NamesUpTo(h, i, t)
  PROVE  NamesUpTo(h, i + 1, t \o NamesIn(h[i + 1]))
<1> DEFINE N == {f.name : f \in FunctionsOf(h)}
           c == Len(t)
           q == i + 1
           F == h[q].funcs
           u == NamesIn(h[q])
           k == Len(F)
<1>1. History(h)
  BY Genuine
<1>2. k \in Nat /\ DOMAIN F = 1 .. k
  BY <1>1 DEF History
<1>3. u \in Seq(N) /\ Len(u) = k /\ \A j \in 1 .. k : u[j] = F[j].name
  <2>1. u \in [1 .. k -> N]
    BY <1>2 DEF NamesIn, FunctionsOf
  <2>2. \A j \in 1 .. k : u[j] = F[j].name
    BY <1>2 DEF NamesIn
  <2> HIDE DEF u, N, k
  <2> QED
    BY <1>2, <2>1, <2>2, SeqDef, LenProperties
<1>4. t \in Seq(N) /\ c \in Nat
  BY LenProperties DEF NamesUpTo
<1>5. /\ t \o u \in Seq(N) /\ Len(t \o u) = c + k
      /\ \A x \in 1 .. c + k : (t \o u)[x] = IF x <= c THEN t[x] ELSE u[x - c]
  <2> HIDE DEF u, N
  <2>1. /\ t \o u \in Seq(N) /\ Len(t \o u) = Len(t) + Len(u)
        /\ \A x \in 1 .. Len(t) + Len(u) : (t \o u)[x] = IF x <= Len(t) THEN t[x] ELSE u[x - Len(t)]
    BY <1>3, <1>4, ConcatProperties
  <2>2. Len(u) = k
    BY <1>3
  <2> QED
    BY <2>1, <2>2
<1>6. \A j \in DOMAIN F : F[j].id = c + j - 1
  BY IdsGoOn
<1>7. \A r \in 1 .. q : r \in 1 .. i \/ r = q
  OBVIOUS
<1>8. q \in 1 .. q /\ \A r \in 1 .. i : r \in 1 .. q
  OBVIOUS
<1> DEFINE Among(d, m) == \E r \in 1 .. m : \E j \in DOMAIN h[r].funcs : h[r].funcs[j].id = d
<1>9. \A d \in Nat : d < c <=> Among(d, i)
  BY DEF NamesUpTo
<1>10. ASSUME NEW d \in Nat PROVE d < c + k <=> Among(d, q)
  <2>1. ASSUME d < c PROVE Among(d, q)
    <3>1. Among(d, i)
      BY <1>9, <2>1
    <3> QED
      BY <3>1, <1>8
  <2>2. ASSUME ~(d < c), d < c + k PROVE Among(d, q)
    <3>1. d - c + 1 \in DOMAIN F
      BY <2>2, <1>2, <1>4
    <3>2. F[d - c + 1].id = d
      BY <3>1, <1>4, <1>6
    <3> QED
      BY <3>1, <3>2, <1>8
  <2>3. ASSUME Among(d, q) PROVE d < c + k
    <3>1. CASE Among(d, i)
      BY <3>1, <1>9, <1>2, <1>4
    <3>2. CASE ~Among(d, i)
      <4>1. PICK j \in DOMAIN F : F[j].id = d
        BY <2>3, <3>2, <1>7
      <4> QED
        BY <4>1, <1>2, <1>4, <1>6
    <3> QED
      BY <3>1, <3>2
  <2> QED
    BY <2>1, <2>2, <2>3
<1>11. ASSUME NEW r \in 1 .. q, NEW j \in DOMAIN h[r].funcs
       PROVE  (t \o u)[h[r].funcs[j].id + 1] = h[r].funcs[j].name
  <2> DEFINE d == h[r].funcs[j].id
  <2>1. r \in DOMAIN h /\ d \in Nat
    <3>1. r \in DOMAIN h
      BY <1>1 DEF History
    <3> QED
      BY <3>1, <1>1 DEF History
  <2>2. CASE r \in 1 .. i
    <3>1. d < c
      BY <2>1, <2>2, <1>9
    <3>2. d + 1 \in 1 .. c + k /\ d + 1 <= c
      BY <3>1, <2>1, <1>2, <1>4
    <3>3. t[d + 1] = h[r].funcs[j].name
      BY <2>2 DEF NamesUpTo
    <3> QED
      BY <3>2, <3>3, <1>5
  <2>3. CASE r = q
    <3>1. d = c + j - 1 /\ j \in 1 .. k
      BY <2>3, <1>2, <1>6
    <3>3. u[j] = h[r].funcs[j].name
      BY <2>3, <3>1, <1>3
    <3>4. (t \o u)[c + j] = u[j]
      <4> HIDE DEF u, N
      <4>1. j \in 1 .. Len(u)
        BY <3>1, <1>3
      <4> QED
        BY <4>1, <1>3, <1>4, BehindConcat
    <3>5. d + 1 = c + j
      BY <3>1, <1>4
    <3> QED
      BY <3>3, <3>4, <3>5
  <2> QED
    BY <2>2, <2>3, <1>7
<1> HIDE DEF u, k, F, c
<1>12. \A d \in Nat : d < Len(t \o u) <=> Among(d, q)
  BY <1>10, <1>5
<1> QED
  BY <1>5, <1>11, <1>12 DEF NamesUpTo, q, u

(* The vtable's fields are the functions by id: slot `id` tests the very    *)
(* field the dispatcher calls by name, in histories of any length.          *)
LEMMA VTableById ==
  ASSUME NEW h \in UNION Interfaces, NEW f \in FunctionsOf(h)
  PROVE  VTable(h)[f.id + 1] = f.name
<1> DEFINE n == Len(h)
           s == [r \in DOMAIN h |-> NamesIn(h[r])]
<1>1. History(h) /\ n \in Nat /\ DOMAIN h = 1 .. n
  BY Genuine DEF History
<1>2. PICK r \in DOMAIN h : \E j \in DOMAIN h[r].funcs : f = h[r].funcs[j]
  BY DEF FunctionsOf
<1>3. PICK j \in DOMAIN h[r].funcs : f = h[r].funcs[j]
  BY <1>2
<1>4. n # 0 /\ r \in 1 .. n
  BY <1>1, <1>2
<1>5. Len(s) = n /\ \A x \in 1 .. n : s[x] = NamesIn(h[x])
  <2>1. s \in Seq({NamesIn(h[x]) : x \in DOMAIN h})
    BY <1>1, SeqDef
  <2>2. Len(s) = n
    <3> HIDE DEF s
    <3>1. DOMAIN s = 1 .. Len(s) /\ Len(s) \in Nat
      BY <2>1, LenProperties
    <3>2. DOMAIN s = 1 .. n
      BY <1>1 DEF s
    <3> QED
      BY <3>1, <3>2, <1>1, SameInterval
  <2> QED
    BY <2>2, <1>1
<1>6. VTable(h) = FlattenSeq(s)
  BY DEF VTable, NamesIn
<1> HIDE DEF s
<1>7. PICK g : Flattening(s, n, g) /\ FlattenSeq(s) = g[n]
  BY <1>1, <1>4, <1>5, FlattenSeqIs
<1> DEFINE S == {x \in 1 .. n : ~NamesUpTo(h, x, g[x])}
<1>8. S = {}
  <2> SUFFICES ASSUME S # {} PROVE FALSE
    OBVIOUS
  <2>1. PICK x \in S : \A y \in S : x <= y
    <3>1. S \in SUBSET Nat
      OBVIOUS
    <3> HIDE DEF S
    <3> QED
      BY <3>1, LeastNat
  <2>2. x \in 1 .. n /\ ~NamesUpTo(h, x, g[x])
    OBVIOUS
  <2>3. g[x] = IF x = 1 THEN s[x] ELSE g[x - 1] \o s[x]
    BY <2>2, <1>7 DEF Flattening
  <2>4. CASE x = 1
    <3>1. NamesUpTo(h, 0, <<>>)
      BY EmptySeq DEF NamesUpTo
    <3>2. NamesUpTo(h, 0 + 1, <<>> \o NamesIn(h[0 + 1]))
      <4>1. 0 \in Nat /\ 0 + 1 \in DOMAIN h
        BY <1>1, <1>4
      <4> QED
        BY <3>1, <4>1, NamesGrow
    <3>3. NamesIn(h[1]) \in Seq({NamesIn(h[1])[y] : y \in DOMAIN h[1].funcs})
      <4>1. DOMAIN h[1].funcs = 1 .. Len(h[1].funcs) /\ Len(h[1].funcs) \in Nat
        BY <1>1, <1>4 DEF History
      <4> QED
        BY <4>1, SeqDef DEF NamesIn
    <3>4. <<>> \o NamesIn(h[1]) = NamesIn(h[1])
      BY <3>3, ConcatEmptySeq
    <3>5. NamesUpTo(h, 1, NamesIn(h[1]))
      BY <3>2, <3>4
    <3> QED
      BY <2>2, <2>3, <2>4, <3>5, <1>5
  <2>5. CASE x # 1
    <3>1. x - 1 \in 1 .. n /\ x - 1 \in Nat /\ x - 1 + 1 = x /\ ~(x <= x - 1)
      BY <2>2, <2>5
    <3>2. NamesUpTo(h, x - 1, g[x - 1])
      BY <2>1, <3>1
    <3>3. NamesUpTo(h, x - 1 + 1, g[x - 1] \o NamesIn(h[x - 1 + 1]))
      BY <1>1, <2>2, <3>1, <3>2, NamesGrow
    <3> QED
      BY <2>2, <2>3, <2>5, <3>1, <3>3, <1>5
  <2> QED
    BY <2>4, <2>5
<1>9. NamesUpTo(h, n, g[n])
  BY <1>1, <1>4, <1>8
<1> QED
  BY <1>3, <1>4, <1>6, <1>7, <1>9 DEF NamesUpTo

(* p is what h begins with.                                                 *)
Begins(p, h) ==
  /\ Len(p) \in Nat /\ DOMAIN p = 1 .. Len(p) /\ Len(p) <= Len(h)
  /\ \A r \in DOMAIN p : r \in DOMAIN h /\ p[r] = h[r]

(* IsPrefix says so of two sequences.                                       *)
LEMMA PrefixBegins ==
  ASSUME NEW x, IsSeq(x), NEW n \in 0 .. Len(x), NEW h, IsSeq(h),
         IsPrefix(SubSeq(x, 1, n), h)
  PROVE  Begins(SubSeq(x, 1, n), h)
<1> DEFINE p == SubSeq(x, 1, n)
<1>1. Len(p) = n /\ DOMAIN p = 1 .. n /\ IsSeq(p)
  BY PrefixIsSeq
<1>2. n \in Nat /\ Len(h) \in Nat /\ DOMAIN h = 1 .. Len(h)
  BY IsSeqLen
<1> HIDE DEF p
<1>3. n <= Len(h) /\ SubSeq(p, 1, n) = SubSeq(h, 1, n)
  BY <1>1 DEF IsPrefix, p
<1>4. \A r \in 1 .. n : SubSeq(p, 1, n)[r] = p[r] /\ SubSeq(h, 1, n)[r] = h[r]
  <2>1. n \in 0 .. Len(p) /\ n \in 0 .. Len(h)
    BY <1>1, <1>2, <1>3
  <2>2. \A r \in 1 .. n : SubSeq(p, 1, n)[r] = p[r]
    BY <1>1, <2>1, PrefixIsSeq
  <2>3. \A r \in 1 .. n : SubSeq(h, 1, n)[r] = h[r]
    BY <2>1, PrefixIsSeq
  <2> QED
    BY <2>2, <2>3
<1> QED
  BY <1>1, <1>2, <1>3, <1>4 DEF Begins, p

(* Both histories begin with their common past.                             *)
LEMMA PastBegins ==
  ASSUME NEW h, IsSeq(h), NEW g, IsSeq(g)
  PROVE  Begins(CommonPast(h, g), h) /\ Begins(CommonPast(h, g), g)
<1> DEFINE C == CommonPrefixes({h, g})
<1>1. \A p \in C : /\ IsPrefix(p, h) /\ IsPrefix(p, g)
                   /\ \E x \in {h, g} : \E n \in 0 .. Len(x) : p = SubSeq(x, 1, n)
  BY DEF CommonPrefixes, Prefixes
<1>2. \A p \in C : Begins(p, h) /\ Begins(p, g)
  <2> TAKE p \in C
  <2>1. PICK x \in {h, g} : \E n \in 0 .. Len(x) : p = SubSeq(x, 1, n)
    BY <1>1
  <2>2. PICK n \in 0 .. Len(x) : p = SubSeq(x, 1, n)
    BY <2>1
  <2>3. IsSeq(x) /\ IsPrefix(SubSeq(x, 1, n), h) /\ IsPrefix(SubSeq(x, 1, n), g)
    BY <1>1, <2>2
  <2> HIDE DEF C
  <2>4. Begins(SubSeq(x, 1, n), h)
    BY <2>3, PrefixBegins
  <2>5. Begins(SubSeq(x, 1, n), g)
    BY <2>3, PrefixBegins
  <2> QED
    BY <2>2, <2>4, <2>5

<1>3. Len(h) \in Nat
  BY IsSeqLen
<1>4. SubSeq(h, 1, 0) \in C
  <2>1. 0 \in 0 .. Len(h) /\ 0 \in 0 .. Len(g)
    BY IsSeqLen
  <2>2. /\ IsSeq(SubSeq(h, 1, 0)) /\ Len(SubSeq(h, 1, 0)) = 0
        /\ IsSeq(SubSeq(g, 1, 0)) /\ Len(SubSeq(g, 1, 0)) = 0
    BY <2>1, PrefixIsSeq
  <2>3. SubSeq(h, 1, 0) = <<>> /\ SubSeq(g, 1, 0) = <<>>
    BY <2>2, IsSeqLen
  <2>4. SubSeq(<<>>, 1, 0) = <<>>
    <3>1. Len(SubSeq(<<>>, 1, 0)) = 0 /\ IsSeq(SubSeq(<<>>, 1, 0))
      BY PrefixIsSeq, IsSeqEmpty
    <3> QED
      BY <3>1, IsSeqLen
  <2>5. Len(<<>>) = 0 /\ 0 <= Len(h) /\ 0 <= Len(g)
    BY IsSeqLen, IsSeqEmpty
  <2>6. IsPrefix(<<>>, h) /\ IsPrefix(<<>>, g)
    BY <2>3, <2>4, <2>5 DEF IsPrefix
  <2>7. SubSeq(h, 1, 0) \in Prefixes(h)
    BY <2>1 DEF Prefixes
  <2> QED
    BY <2>3, <2>6, <2>7 DEF CommonPrefixes
<1> HIDE DEF C
<1> DEFINE T == {Len(h) - Len(p) : p \in C}
<1>5. T \in SUBSET Nat /\ T # {}
  BY <1>2, <1>3, <1>4 DEF Begins
<1>6. PICK d \in T : \A e \in T : d <= e
  <2> HIDE DEF T
  <2> QED
    BY <1>5, LeastNat
<1>7. PICK m \in C : d = Len(h) - Len(m)
  BY <1>6
<1>8. \A p \in C : Len(p) <= Len(m)
  <2> SUFFICES ASSUME NEW p \in C PROVE Len(p) <= Len(m)
    OBVIOUS
  <2>1. d <= Len(h) - Len(p)
    BY <1>6
  <2> QED
    BY <2>1, <1>2, <1>3, <1>7 DEF Begins
<1>9. CommonPast(h, g) \in C
  BY <1>7, <1>8 DEF CommonPast, LongestCommonPrefix, C
<1> QED
  BY <1>2, <1>9

(* The functions of a beginning are functions of the whole.                 *)
LEMMA BeginsFunctions ==
  ASSUME NEW p, NEW h, Begins(p, h)
  PROVE  FunctionsOf(p) \subseteq FunctionsOf(h)
<1> SUFFICES ASSUME NEW f \in FunctionsOf(p) PROVE f \in FunctionsOf(h)
  OBVIOUS
<1>1. PICK r \in DOMAIN p : \E j \in DOMAIN p[r].funcs : f = p[r].funcs[j]
  BY DEF FunctionsOf
<1> QED
  BY <1>1 DEF Begins, FunctionsOf

(* A function whose id the common past has given out is in it.              *)
LEMMA PastKnows ==
  ASSUME NEW h \in UNION Interfaces, NEW p, Begins(p, h),
         NEW f \in FunctionsOf(h), f.id < Span(p)
  PROVE  f \in FunctionsOf(p)
<1> DEFINE S == {0} \cup {d + 1 : d \in FuncIds(p)}
           n == Span(h)
<1>1. History(h) /\ n \in Nat /\ DenseIds(h, n)
  BY Genuine
<1>2. PICK k \in DOMAIN h : \E l \in DOMAIN h[k].funcs : f = h[k].funcs[l]
  BY DEF FunctionsOf
<1>3. PICK l \in DOMAIN h[k].funcs : f = h[k].funcs[l]
  BY <1>2
<1>4. f.id \in Nat
  BY IdBelowSpan
<1>5. \A d \in FuncIds(p) : d \in 0 .. n - 1
  BY <1>1 DEF FuncIds, Begins, DenseIds, IdsBelow
<1>6. Max(S) \in S
  <2>1. S \in SUBSET Nat /\ S # {} /\ \A x \in S : x <= n
    BY <1>1, <1>5
  <2> HIDE DEF S
  <2> QED
    BY <2>1, <1>1, BoundedMax
<1>7. PICK d \in FuncIds(p) : Span(p) = d + 1
  <2>1. Span(p) # 0
    BY <1>4
  <2>2. Span(p) \in S
    BY <1>6 DEF Span
  <2> QED
    BY <2>1, <2>2
<1>8. f.id <= d /\ d \in Nat
  BY <1>4, <1>5, <1>7
<1>9. PICK r \in DOMAIN p : \E j \in DOMAIN p[r].funcs : p[r].funcs[j].id = d
  BY <1>7 DEF FuncIds
<1>10. PICK j \in DOMAIN p[r].funcs : p[r].funcs[j].id = d
  BY <1>9
<1>11. r \in DOMAIN h /\ p[r] = h[r]
  BY DEF Begins
<1>12. k \in DOMAIN p
  <2> SUFFICES ASSUME ~(k \in DOMAIN p) PROVE FALSE
    OBVIOUS
  <2>1. r < k
    BY <1>1, <1>2 DEF Begins, History
  <2>2. d < f.id
    BY <2>1, <1>1, <1>2, <1>3, <1>10, <1>11 DEF DenseIds, IdsIncrease
  <2> QED
    BY <2>2, <1>4, <1>8
<1> QED
  BY <1>3, <1>12 DEF Begins, FunctionsOf

(* Where the sides agree, either the function called is in their common     *)
(* past, or the server's history is what the client's goes on from.         *)
LEMMA AgreedIsPast ==
  ASSUME BuiltInv, Agreed,
         NEW f \in FunctionsOf(built.client), call.id = f.id
  PROVE  LET past == CommonPast(built.client, built.server) IN
         /\ FunctionsOf(past) \subseteq FunctionsOf(built.client)
         /\ FunctionsOf(past) \subseteq FunctionsOf(built.server)
         /\ f \in FunctionsOf(past) \/ (past = built.server /\ ~(f.id < Span(built.server)))
<1> DEFINE past == CommonPast(built.client, built.server)
<1>1. built.client \in UNION Interfaces /\ built.server \in UNION Interfaces
  BY DEF BuiltInv
<1>2. Begins(past, built.client) /\ Begins(past, built.server)
  BY <1>1, HistoryAssumption, PastBegins
<1> HIDE DEF past
<1>3. /\ FunctionsOf(past) \subseteq FunctionsOf(built.client)
      /\ FunctionsOf(past) \subseteq FunctionsOf(built.server)
  BY <1>2, BeginsFunctions
<1>4. f.id < Span(past) => f \in FunctionsOf(past)
  BY <1>1, <1>2, PastKnows
<1>5. past \in {built.client, built.server} \/ f.id < Span(past)
  BY DEF Agreed, past
<1>6. f \in FunctionsOf(past) \/ (past = built.server /\ ~(f.id < Span(built.server)))
  BY <1>4, <1>5
<1> QED
  BY <1>3, <1>6 DEF past

(* An id the dispatcher knows, where the sides agree, is of a function both *)
(* artifacts declare, and with the parameters the wrapper has.              *)
LEMMA KnownIsCommon ==
  ASSUME BuiltInv, Agreed, KnownId(call.id),
         NEW f \in FunctionsOf(built.client), Calling(f)
  PROVE  f \in FunctionsOf(built.server) /\ call.declared = call.params
<1> DEFINE past == CommonPast(built.client, built.server)
<1>1. call.id = f.id /\ built.server \in UNION Interfaces
  BY DEF Calling, BuiltInv
<1>2. f.id < Span(built.server)
  BY <1>1, FuncidSpanCounts DEF KnownId
<1>3. f \in FunctionsOf(past) /\ FunctionsOf(past) \subseteq FunctionsOf(built.server)
  <2> HIDE DEF past
  <2> QED
    BY <1>1, <1>2, AgreedIsPast DEF past
<1>4. call.declared \in {call.params}
  BY <1>3 DEF Calling, ServerParams
<1> QED
  BY <1>3, <1>4

(* A call of a function that the server has, with an implementation, has an *)
(* id the dispatcher knows, where the sides agree.                          *)
LEMMA MissingIsUnknown ==
  ASSUME BuiltInv, Agreed, ~KnownId(call.id),
         NEW f \in FunctionsOf(built.client), Calling(f),
         NEW g \in FunctionsOf(built.server), g.name = call.name,
         call.name \in built.vtable
  PROVE  FALSE
<1> DEFINE past == CommonPast(built.client, built.server)
<1>1. /\ call.id = f.id /\ call.name = f.name
      /\ built.server \in UNION Interfaces /\ built.client \in UNION Interfaces
  BY DEF Calling, BuiltInv
<1>2. /\ FunctionsOf(past) \subseteq FunctionsOf(built.client)
      /\ FunctionsOf(past) \subseteq FunctionsOf(built.server)
      /\ f \in FunctionsOf(past) \/ (past = built.server /\ ~(f.id < Span(built.server)))
  <2> HIDE DEF past
  <2> QED
    BY <1>1, AgreedIsPast DEF past
<1> HIDE DEF past
<1>3. f \in FunctionsOf(built.server)
  <2>1. CASE past = built.server
    <3>1. g \in FunctionsOf(built.client)
      BY <2>1, <1>2
    <3>2. f.id = g.id
      BY <3>1, <1>1, HistoryAssumption
    <3>3. f = g
      BY <3>1, <3>2, <1>1, UniqueId
    <3> QED
      BY <3>3
  <2> QED
    BY <2>1, <1>2
<1>4. f.id < Span(built.server) /\ VTable(built.server)[f.id + 1] = f.name
  BY <1>1, <1>3, IdBelowSpan, VTableById
<1> QED
  BY <1>1, <1>4, FuncidSpanCounts DEF KnownId

(***************************************************************************)
(* The partition of a parameter list.                                       *)
(***************************************************************************)
(* Rank numbers the members of a finite set of places apart, from zero.     *)
LEMMA RankApart ==
  ASSUME NEW n \in Nat, NEW S \in SUBSET (1 .. n)
  PROVE  /\ \A i \in S : Rank(S, i) \in Nat
         /\ \A i, j \in S : i < j => Rank(S, i) < Rank(S, j)
<1>1. IsFiniteSet(1 .. n)
  BY FS_Interval
<1>2. ASSUME NEW i \in S PROVE Rank(S, i) \in Nat /\ IsFiniteSet({k \in S : k < i})
  <2>1. {k \in S : k < i} \in SUBSET (1 .. n)
    OBVIOUS
  <2>2. IsFiniteSet({k \in S : k < i})
    BY <1>1, <2>1, FS_Subset
  <2> QED
    BY <2>2, FS_CardinalityType DEF Rank
<1>3. ASSUME NEW i \in S, NEW j \in S, i < j PROVE Rank(S, i) < Rank(S, j)
  <2> DEFINE A == {k \in S : k < i}
             B == {k \in S : k < j}
  <2>1. A \in SUBSET B /\ i \in B /\ i \notin A
    <3>1. i \in Nat /\ j \in Nat /\ \A k \in S : k \in Nat
      OBVIOUS
    <3>2. \A k \in S : k < i => k < j
      BY <3>1, <1>3
    <3>3. A \subseteq B
      BY <3>2
    <3>4. i \in B
      BY <1>3
    <3>5. ~(i < i)
      BY <3>1
    <3> QED
      BY <3>3, <3>4, <3>5
  <2>2. IsFiniteSet(B) /\ IsFiniteSet(A)
    BY <1>2
  <2> HIDE DEF A, B
  <2>3. Cardinality(A) <= Cardinality(B) /\ Cardinality(A) # Cardinality(B)
    BY <2>1, <2>2, FS_Subset
  <2>4. Cardinality(A) \in Nat /\ Cardinality(B) \in Nat
    BY <2>2, FS_CardinalityType
  <2>5. Cardinality(A) < Cardinality(B)
    BY <2>3, <2>4
  <2> QED
    BY <2>5 DEF A, B, Rank
<1> QED
  BY <1>2, <1>3

(* The peeled parameters fill the slots behind the first two, one each.     *)
LEMMA PeeledSlots ==
  ASSUME NEW n \in Nat, NEW ps, DOMAIN ps = 1 .. n, NEW S \in SUBSET (1 .. n),
         NEW i \in Peeled(ps, S), Slots >= 2
  PROVE  LET P == Peeled(ps, S) IN
         /\ 3 + Rank(P, i) \in 3 .. Slots
         /\ \A j \in P : Rank(P, j) = Rank(P, i) => j = i
<1> DEFINE P == Peeled(ps, S)
<1>1. P \in SUBSET S /\ i \in S /\ Rank(S, i) < PeelSlots
  BY DEF Peeled
<1>2. P \in SUBSET (1 .. n)
  BY <1>1
<1>3. Slots \in Nat
  BY ArchAssumption DEF Slots
<1>4. Rank(P, i) \in Nat /\ Rank(S, i) \in Nat
  <2> HIDE DEF P
  <2>1. i \in P
    BY DEF P
  <2> QED
    BY <1>1, <1>2, <2>1, RankApart
<1>5. Rank(P, i) <= Rank(S, i)
  <2> DEFINE A == {k \in P : k < i}
             B == {k \in S : k < i}
  <2>1. A \in SUBSET B /\ B \in SUBSET (1 .. n)
    BY <1>1
  <2>2. IsFiniteSet(B)
    <3> HIDE DEF B
    <3>1. IsFiniteSet(1 .. n)
      BY FS_Interval
    <3> QED
      BY <2>1, <3>1, FS_Subset
  <2>3. Cardinality(A) <= Cardinality(B)
    <3> HIDE DEF A, B
    <3> QED
      BY <2>1, <2>2, FS_Subset
  <2> QED
    BY <2>3 DEF Rank
<1>6. 3 + Rank(P, i) \in 3 .. Slots
  <2> HIDE DEF P
  <2>1. PeelSlots = IF Slots > 2 THEN Slots - 2 ELSE 0
    BY DEF PeelSlots
  <2> QED
    BY <2>1, <1>1, <1>3, <1>4, <1>5
<1>7. ASSUME NEW j \in P, Rank(P, j) = Rank(P, i) PROVE j = i
  <2> HIDE DEF P
  <2>1. i \in P
    BY DEF P
  <2>2. i \in Nat /\ j \in Nat /\ Rank(P, i) \in Nat
    BY <2>1, <1>2, <1>4
  <2>3. \A x, y \in P : x < y => Rank(P, x) < Rank(P, y)
    BY <1>2, RankApart
  <2>4. ~(i < j) /\ ~(j < i)
    BY <2>1, <2>2, <2>3, <1>7
  <2> QED
    BY <2>2, <2>4
<1> QED
  BY <1>6, <1>7

(* The generators agree on the scalars of a list of sized types, though one *)
(* takes every size for zero and the other looks it up.                     *)
LEMMA SameScalars ==
  ASSUME NEW ps, Sized(ps)
  PROVE  /\ ClientScalars(ps) = {i \in DOMAIN ps : ByValue(ps[i])}
         /\ ServerScalars(ps) = ClientScalars(ps)
<1>1. \A type : ClientSize(type) <= PointerSize
  BY ArchAssumption DEF ClientSize
<1>2. ClientScalars(ps) = {i \in DOMAIN ps : ByValue(ps[i])}
  BY <1>1 DEF ClientScalars
<1>3. ServerScalars(ps) = {i \in DOMAIN ps : ByValue(ps[i])}
  BY DEF ServerScalars, Sized
<1> QED
  BY <1>2, <1>3

(* Sets of places: none, one, or more than one.                             *)
LEMMA HowMany ==
  ASSUME NEW n \in Nat, NEW S \in SUBSET (1 .. n)
  PROVE  /\ Cardinality(S) \in Nat
         /\ S = {} <=> Cardinality(S) = 0
         /\ Cardinality(S) = 1 => \E i \in S : S = {i}
         /\ \A i : S = {i} => Cardinality(S) = 1 /\ Sole(S) = i
<1>1. IsFiniteSet(S)
  <2>1. IsFiniteSet(1 .. n)
    BY FS_Interval
  <2> QED
    BY <2>1, FS_Subset
<1>2. Cardinality(S) \in Nat /\ (Cardinality(S) = 0 <=> S = {})
  BY <1>1, FS_CardinalityType, FS_EmptySet
<1>3. Cardinality(S) = 1 <=> \E i : S = {i}
  BY <1>1, FS_Singleton
<1>4. \A i : S = {i} => Sole(S) = i
  BY DEF Sole
<1> QED
  BY <1>2, <1>3, <1>4

(* The frame, slot by slot, when it is not a register call.                 *)
LEMMA FrameSlots ==
  ASSUME NEW n \in Nat, NEW ps, DOMAIN ps = 1 .. n, NEW given, Slots >= 2,
         ~InRegisters(ps, ClientScalars(ps))
  PROVE  LET P == Peeled(ps, ClientScalars(ps)) IN
         /\ Frame(ps, given)[1] = InSlot(ps, given)
         /\ Frame(ps, given)[2] = OutSlot(ps, given)
         /\ \A i \in P : Frame(ps, given)[3 + Rank(P, i)] = given[i]
<1> DEFINE S == ClientScalars(ps)
           P == Peeled(ps, S)
           F == Frame(ps, given)
<1>1. Slots \in Nat /\ S \in SUBSET (1 .. n)
  BY ArchAssumption DEF Slots, ClientScalars
<1>2. F = [s \in 1 .. Slots |->
             IF s = 1 THEN InSlot(ps, given)
             ELSE IF s = 2 THEN OutSlot(ps, given)
             ELSE IF \E i \in P : Rank(P, i) = s - 3
                  THEN given[CHOOSE i \in P : Rank(P, i) = s - 3]
                  ELSE Null]
  BY DEF Frame
<1> HIDE DEF F
<1>3. F[1] = InSlot(ps, given) /\ F[2] = OutSlot(ps, given)
  <2>1. 1 \in 1 .. Slots /\ 2 \in 1 .. Slots
    BY <1>1
  <2> QED
    BY <1>2, <2>1
<1>4. ASSUME NEW i \in P PROVE F[3 + Rank(P, i)] = given[i]
  <2> DEFINE s == 3 + Rank(P, i)
  <2>1. s \in 3 .. Slots /\ \A j \in P : Rank(P, j) = Rank(P, i) => j = i
    BY <1>1, PeeledSlots
  <2>2. Rank(P, i) \in Nat
    <3>1. P \in SUBSET (1 .. n)
      BY <1>1 DEF Peeled
    <3> HIDE DEF P
    <3> QED
      BY <3>1, RankApart
  <2> HIDE DEF P, S
  <2>3. s \in 1 .. Slots /\ s # 1 /\ s # 2 /\ s - 3 = Rank(P, i)
    BY <2>1, <2>2, <1>1
  <2>4. (CHOOSE j \in P : Rank(P, j) = s - 3) = i
    BY <2>1, <2>3
  <2> HIDE DEF s
  <2>5. F[s] = IF \E j \in P : Rank(P, j) = s - 3
               THEN given[CHOOSE j \in P : Rank(P, j) = s - 3]
               ELSE Null
    BY <1>2, <2>3
  <2>6. F[s] = given[i]
    BY <2>3, <2>4, <2>5
  <2> QED
    BY <2>6 DEF s
<1> QED
  BY <1>3, <1>4 DEF F

(* Every parameter arrives: what the dispatcher takes out of the slots of a *)
(* list is what the wrapper of the same list put in.                        *)
LEMMA FrameArrives ==
  ASSUME NEW n \in Nat, NEW ps, DOMAIN ps = 1 .. n, Len(ps) = n, Sized(ps),
         NEW given, Slots >= 2, NEW i \in DOMAIN ps
  PROVE  Received(ps, Frame(ps, given), given)[i] =
           IF i \in Outs(ps) /\ ~Direct(ps, i) THEN Local(i) ELSE given[i]
<1> DEFINE S == ClientScalars(ps)
           P == Peeled(ps, S)
           I == Ins(ps, S)
           F == Frame(ps, given)
           R == Received(ps, F, given)[i]
<1>1. /\ S = {k \in DOMAIN ps : ByValue(ps[k])} /\ ServerScalars(ps) = S
      /\ S \in SUBSET (1 .. n) /\ Slots \in Nat
  BY SameScalars, ArchAssumption DEF Slots
<1>2. R = IF InRegisters(ps, S) THEN F[i]
          ELSE IF i \in Outs(ps) THEN ReadOut(ps, F, i)
          ELSE IF i \in P THEN F[3 + Rank(P, i)]
          ELSE ReadIn(ps, F, given, i)
  BY <1>1 DEF Received
<1>3. CASE InRegisters(ps, S)
  <2>1. n <= Slots /\ ByValue(ps[i])
    BY <1>1, <1>3 DEF InRegisters
  <2>2. i \notin Outs(ps)
    BY <2>1 DEF Outs, ByValue
  <2>3. F[i] = given[i]
    <3>1. F = [s \in 1 .. Slots |-> IF s \in DOMAIN ps THEN given[s] ELSE Junk]
      BY <1>3 DEF Frame
    <3>2. i \in 1 .. Slots
      BY <2>1, <1>1
    <3> HIDE DEF F
    <3> QED
      BY <3>1, <3>2
  <2> HIDE DEF F
  <2> QED
    BY <1>2, <1>3, <2>2, <2>3 DEF F
<1>4. CASE ~InRegisters(ps, S)
  <2>1. /\ F[1] = InSlot(ps, given)
        /\ F[2] = OutSlot(ps, given)
        /\ \A k \in P : F[3 + Rank(P, k)] = given[k]
    BY <1>4, FrameSlots
  <2>2. CASE i \in Outs(ps)
    <3> DEFINE O == Outs(ps)
    <3>1. O \in SUBSET (1 .. n)
      BY DEF Outs
    <3>2. R = ReadOut(ps, F, i)
      BY <1>2, <1>4, <2>2
    <3> HIDE DEF F, S, R
    <3>3. CASE O = {i}
      <4>1. Cardinality(O) = 1 /\ Sole(O) = i /\ O # {}
        <5> HIDE DEF O
        <5>1. \A k : O = {k} => Cardinality(O) = 1 /\ Sole(O) = k
          BY <3>1, HowMany
        <5>2. O # {}
          BY <3>3
        <5> QED
          BY <3>3, <5>1, <5>2, Zenon
      <4>2. OutSlot(ps, given) = IF Direct(ps, i) THEN given[i] ELSE Local(i)
        BY <4>1 DEF OutSlot
      <4>3. ReadOut(ps, F, i) = F[2]
        BY <3>3 DEF ReadOut
      <4> QED
        BY <2>1, <2>2, <3>2, <4>2, <4>3 DEF R, F, S
    <3>4. CASE O # {i}
      <4>1. Cardinality(O) > 1
        <5>1. O # {}
          BY <2>2
        <5> HIDE DEF O
        <5>2. Cardinality(O) \in Nat /\ Cardinality(O) # 0
          BY <3>1, <5>1, HowMany
        <5>3. Cardinality(O) # 1
          <6> SUFFICES ASSUME Cardinality(O) = 1 PROVE FALSE
            OBVIOUS
          <6>1. PICK k \in O : O = {k}
            BY <3>1, HowMany
          <6> QED
            BY <2>2, <3>4, <6>1 DEF O
        <5> QED
          BY <5>2, <5>3
      <4>2. OutSlot(ps, given) = OutBlock(O)
        BY <4>1, <2>2 DEF OutSlot
      <4>3. ReadOut(ps, F, i) = Local(i)
        BY <2>1, <3>4, <4>2 DEF ReadOut, FieldAddress, F, S
      <4>4. ~Direct(ps, i)
        BY <3>4 DEF Direct
      <4> QED
        BY <2>2, <3>2, <4>3, <4>4 DEF R, F, S
    <3> QED
      BY <3>3, <3>4
  <2>3. CASE i \notin Outs(ps) /\ i \in P
    <3>1. R = F[3 + Rank(P, i)]
      BY <1>2, <1>4, <2>3
    <3> QED
      BY <2>1, <2>3, <3>1
  <2>4. CASE i \notin Outs(ps) /\ i \notin P
    <3>1. R = ReadIn(ps, F, given, i)
      BY <1>2, <1>4, <2>4
    <3>2. i \in I /\ I \in SUBSET (1 .. n)
      BY <2>4 DEF Ins
    <3>3. ReadIn(ps, F, given, i) =
            IF I # {i} THEN LoadField(F[1], I, i, given)
            ELSE IF ps[i].ptr THEN F[1] ELSE Load(F[1], i, given)
      BY <1>1 DEF ReadIn
    <3>4. InSlot(ps, given) =
            IF I = {} THEN Null
            ELSE IF Cardinality(I) > 1 THEN InBlock(I)
            ELSE IF ps[Sole(I)].ptr THEN given[Sole(I)] ELSE Spill(Sole(I))
      BY DEF InSlot
    <3> HIDE DEF I, F, S, R, P
    <3>5. F[1] = InSlot(ps, given)
      BY <2>1 DEF F
    <3>6. CASE I = {i}
      <4>1. Cardinality(I) = 1 /\ Sole(I) = i
        BY <3>2, <3>6, HowMany
      <4>2. F[1] = IF ps[i].ptr THEN given[i] ELSE Spill(i)
        BY <3>4, <3>5, <3>6, <4>1
      <4>3. ReadIn(ps, F, given, i) = given[i]
        BY <3>3, <3>6, <4>2 DEF Load
      <4> QED
        BY <2>4, <3>1, <4>3 DEF R, F, S, P
    <3>7. CASE I # {i}
      <4>1. Cardinality(I) \in Nat /\ Cardinality(I) # 0
        BY <3>2, HowMany
      <4>2. Cardinality(I) # 1
        <5> SUFFICES ASSUME Cardinality(I) = 1 PROVE FALSE
          OBVIOUS
        <5>1. PICK k \in I : I = {k}
          BY <3>2, HowMany
        <5> QED
          BY <3>2, <3>7, <5>1
      <4>3. Cardinality(I) > 1
        BY <4>1, <4>2
      <4>4. F[1] = InBlock(I)
        BY <3>2, <3>4, <3>5, <4>3
      <4>5. ReadIn(ps, F, given, i) = given[i]
        BY <3>3, <3>7, <4>4 DEF LoadField
      <4> QED
        BY <2>4, <3>1, <4>5 DEF R, F, S, P
    <3> QED
      BY <3>6, <3>7
  <2> QED
    BY <2>2, <2>3, <2>4
<1> QED
  BY <1>3, <1>4

(* A null check turns nothing away that a wrapper of the same list sent.    *)
LEMMA FrameNotRefused ==
  ASSUME NEW n \in Nat, NEW ps, DOMAIN ps = 1 .. n, Sized(ps), NEW given, Slots >= 2
  PROVE  ~Refused(ps, Frame(ps, given))
<1> DEFINE S == ClientScalars(ps)
           I == Ins(ps, S)
           O == Outs(ps)
           F == Frame(ps, given)
<1>1. ServerScalars(ps) = S
  BY SameScalars
<1>2. SUFFICES ASSUME ~InRegisters(ps, S)
               PROVE  /\ (Cardinality(I) > 1 \/ (Cardinality(I) = 1 /\ ~ps[Sole(I)].ptr)) => F[1] # Null
                      /\ Cardinality(O) > 1 => F[2] # Null
  BY <1>1 DEF Refused
<1>3. F[1] = InSlot(ps, given) /\ F[2] = OutSlot(ps, given)
  BY <1>2, FrameSlots
<1>4. /\ I \in SUBSET (1 .. n) /\ O \in SUBSET (1 .. n)
      /\ Cardinality(I) \in Nat /\ Cardinality(O) \in Nat
      /\ I = {} <=> Cardinality(I) = 0
      /\ O = {} <=> Cardinality(O) = 0
  <2>1. I \in SUBSET (1 .. n) /\ O \in SUBSET (1 .. n)
    BY DEF Ins, Outs
  <2> HIDE DEF I, O
  <2> QED
    BY <2>1, HowMany
<1>5. InSlot(ps, given) =
        IF I = {} THEN Null
        ELSE IF Cardinality(I) > 1 THEN InBlock(I)
        ELSE IF ps[Sole(I)].ptr THEN given[Sole(I)] ELSE Spill(Sole(I))
  BY DEF InSlot
<1>6. Cardinality(O) > 1 => OutSlot(ps, given) = OutBlock(O)
  BY <1>4 DEF OutSlot
<1>7. \A x : InBlock(x) # Null /\ OutBlock(x) # Null /\ Spill(x) # Null
  BY DEF InBlock, OutBlock, Spill, Null
<1> HIDE DEF I, O, F
<1>8. ASSUME Cardinality(I) > 1 \/ (Cardinality(I) = 1 /\ ~ps[Sole(I)].ptr) PROVE F[1] # Null
  <2>1. I # {}
    BY <1>4, <1>8
  <2>2. F[1] \in {InBlock(I), Spill(Sole(I))}
    BY <1>3, <1>4, <1>5, <1>8, <2>1
  <2> QED
    BY <2>2, <1>7
<1>9. Cardinality(O) > 1 => F[2] # Null
  BY <1>3, <1>6, <1>7
<1> QED
  BY <1>8, <1>9

(***************************************************************************)
(* The call, step by step.                                                  *)
(***************************************************************************)
(* The parameters of a call and what was passed for them.                   *)
LEMMA Passing ==
  ASSUME Generable, BuiltInv, NEW f \in FunctionsOf(built.client), Calling(f)
  PROVE  LET ps == call.params IN
         /\ Len(ps) \in Nat /\ DOMAIN ps = 1 .. Len(ps) /\ Sized(ps)
         /\ DOMAIN call.given = DOMAIN ps
         /\ Outs(ps) \subseteq DOMAIN ps
         /\ \A i \in Outs(ps) : call.given[i] \in {Null, Cell(i)}
<1> DEFINE ps == call.params
<1>1. built.client \in UNION Interfaces /\ ps \in Signatures[f.name]
  BY DEF BuiltInv, Calling
<1>2. f.name \in DOMAIN Signatures
  BY <1>1, NameAssumption
<1>3. ps \in UNION Range(Signatures)
  BY <1>1, <1>2 DEF Range
<1>4. Len(ps) \in Nat /\ DOMAIN ps = 1 .. Len(ps) /\ Sized(ps)
  BY <1>3, SignatureAssumption, IsSeqLen DEF Generable
<1>5. Outs(ps) \subseteq DOMAIN ps /\ \A i \in Outs(ps) : ps[i].dir = "out"
  BY DEF Outs
<1>6. PICK N \in SUBSET Outs(ps) :
        call.given = [i \in DOMAIN ps |-> IF i \in N THEN Null
                                          ELSE IF ps[i].dir = "in" THEN Value(i) ELSE Cell(i)]
  BY DEF Calling, Passed
<1> HIDE DEF ps
<1>7. /\ DOMAIN call.given = DOMAIN ps
      /\ \A i \in Outs(ps) : call.given[i] \in {Null, Cell(i)}
  BY <1>5, <1>6
<1> QED
  BY <1>4, <1>5, <1>7 DEF ps

(* Once the implementation is entered, where the sides agree: every         *)
(* parameter is as it was passed, or the address of the wrapper's object.   *)
LEMMA Arriving ==
  ASSUME Generable, BuiltInv, NEW f \in FunctionsOf(built.client), Calling(f),
         Agreed, Entered
  PROVE  LET ps == call.params IN
         /\ DOMAIN recv = DOMAIN ps /\ call.declared = ps
         /\ \A i \in DOMAIN ps :
              recv[i] = IF i \in Outs(ps) /\ ~Direct(ps, i) THEN Local(i) ELSE call.given[i]
<1> DEFINE ps == call.params
<1>1. call.declared = ps
  BY KnownIsCommon DEF Entered
<1>2. recv = Received(ps, Frame(ps, call.given), call.given)
  BY <1>1 DEF Entered, Sent
<1>3. DOMAIN recv = DOMAIN ps
  BY <1>2 DEF Received
<1>4. Slots >= 2 /\ Len(ps) \in Nat /\ DOMAIN ps = 1 .. Len(ps) /\ Sized(ps)
  BY Passing DEF Generable
<1> HIDE DEF ps
<1>5. \A i \in DOMAIN ps :
        recv[i] = IF i \in Outs(ps) /\ ~Direct(ps, i) THEN Local(i) ELSE call.given[i]
  BY <1>2, <1>4, FrameArrives
<1> QED
  BY <1>1, <1>3, <1>5 DEF ps

(* At rest the rest of the invariant holds.                                 *)
LEMMA AtRestInv ==
  pc = "idle" /\ AtRest =>
    /\ CallInv /\ ObjectsInv /\ ArgsInv /\ ReceivedInv
    /\ ServedInv /\ StatusInv /\ ReplyInv /\ ReturnedInv
<1> SUFFICES ASSUME pc = "idle", AtRest
             PROVE  /\ CallInv /\ ObjectsInv /\ ArgsInv /\ ReceivedInv
                    /\ ServedInv /\ StatusInv /\ ReplyInv /\ ReturnedInv
  OBVIOUS
<1>1. CallInv
  BY DEF CallInv
<1>2. ObjectsInv
  <2>1. call.params = <<>> /\ DOMAIN cells = {} /\ DOMAIN locals = {} /\ DOMAIN call.params = {}
    BY IsSeqEmpty DEF AtRest, NoCall
  <2> QED
    BY <2>1 DEF ObjectsInv, Objects
<1>3. ArgsInv /\ ReceivedInv
  BY DEF ArgsInv, ReceivedInv, AtRest
<1>4. ServedInv /\ StatusInv /\ ReplyInv /\ ReturnedInv
  BY DEF ServedInv, StatusInv, ReplyInv, ReturnedInv, AtRest
<1> QED
  BY <1>1, <1>2, <1>3, <1>4

(* Nothing built, nothing called.                                           *)
LEMMA InitInv == Init => IInv
<1> SUFFICES ASSUME Init PROVE IInv
  OBVIOUS
<1>1. BuiltInv
  <2>1. PICK I \in Interfaces : \E c, s \in I :
          \E V \in SUBSET {f.name : f \in FunctionsOf(s)} :
            built = [client |-> c, server |-> s, vtable |-> V]
    BY DEF Init
  <2>2. PICK c \in I, s \in I : \E V \in SUBSET {f.name : f \in FunctionsOf(s)} :
          built = [client |-> c, server |-> s, vtable |-> V]
    BY <2>1
  <2>4. PICK V \in SUBSET {f.name : f \in FunctionsOf(s)} :
          built = [client |-> c, server |-> s, vtable |-> V]
    BY <2>2
  <2>3. built.client = c /\ built.server = s /\ built.vtable = V
    BY <2>4
  <2> QED
    BY <2>3 DEF BuiltInv
<1>2. AtRest /\ pc = "idle"
  BY DEF Init, AtRest
<1> QED
  BY <1>1, <1>2, AtRestInv DEF IInv

(* What a step that keeps artifacts and call keeps with them.               *)
LEMMA SameCall ==
  ASSUME UNCHANGED <<built, call>>, BuiltInv
  PROVE  /\ BuiltInv'
         /\ Agreed' <=> Agreed
         /\ KnownId(call.id)' <=> KnownId(call.id)
         /\ \A f : f \in FunctionsOf(built.client)' <=> f \in FunctionsOf(built.client)
         /\ \A f : f \in FunctionsOf(built.server)' <=> f \in FunctionsOf(built.server)
         /\ \A f : Calling(f)' <=> Calling(f)
<1>1. BuiltInv'
  BY DEF BuiltInv
<1>2. Agreed' <=> Agreed
  BY DEF Agreed
<1>3. KnownId(call.id)' <=> KnownId(call.id)
  BY DEF KnownId
<1>4. \A f : Calling(f)' <=> Calling(f)
  BY DEF Calling, ServerParams
<1> QED
  BY <1>1, <1>2, <1>3, <1>4

(* A wrapper is entered.                                                    *)
LEMMA CallStep == IInv /\ Call => IInv'
<1> SUFFICES ASSUME IInv, Call PROVE IInv'
  OBVIOUS
<1>1. pc = "idle" /\ AtRest
  BY DEF IInv, CallInv, Call
<1>2. pc' = "query" /\ UNCHANGED <<built, args, recv, served, wrote, status>>
  BY DEF Call
<1>3. PICK f \in FunctionsOf(built.client) : \E ps \in Signatures[f.name] :
        \E g \in Passed(ps), qs \in ServerParams(f, ps) :
          call' = [id |-> f.id, name |-> f.name, params |-> ps, given |-> g, declared |-> qs]
  BY DEF Call
<1>4. PICK ps \in Signatures[f.name] : \E g \in Passed(ps), qs \in ServerParams(f, ps) :
        call' = [id |-> f.id, name |-> f.name, params |-> ps, given |-> g, declared |-> qs]
  BY <1>3
<1>5. PICK g \in Passed(ps), qs \in ServerParams(f, ps) :
        call' = [id |-> f.id, name |-> f.name, params |-> ps, given |-> g, declared |-> qs]
  BY <1>4
<1>6. /\ cells' = [i \in DOMAIN call'.params |-> "before"]
      /\ locals' = [i \in DOMAIN call'.params |-> "unset"]
  BY DEF Call
<1>7. BuiltInv'
  BY <1>2 DEF IInv, BuiltInv
<1>8. CallInv'
  <2>1. Calling(f)'
    BY <1>2, <1>5 DEF Calling, ServerParams
  <2>2. f \in FunctionsOf(built.client)'
    BY <1>2
  <2> QED
    BY <1>2, <2>1, <2>2 DEF CallInv
<1>9. ObjectsInv'
  BY <1>1, <1>2, <1>6 DEF ObjectsInv, Objects, Untouched, AtRest
<1>10. ArgsInv'
  BY <1>1, <1>2 DEF ArgsInv, AtRest
<1>11. ReceivedInv'
  BY <1>1, <1>2 DEF ReceivedInv, AtRest
<1>12. (ServedInv /\ StatusInv /\ ReplyInv /\ ReturnedInv)'
  BY <1>1, <1>2 DEF ServedInv, StatusInv, ReplyInv, ReturnedInv, AtRest
<1> QED
  BY <1>7, <1>8, <1>9, <1>10, <1>11, <1>12 DEF IInv

(* The function id base is asked for, or the call ends there.               *)
LEMMA QueryStep == IInv /\ Query => IInv'
<1> SUFFICES ASSUME IInv, Query PROVE IInv'
  OBVIOUS
<1>1. /\ pc = "query"
      /\ UNCHANGED <<built, call, args, recv, served, cells, locals, wrote>>
      /\ \/ pc' = "send" /\ status' = status
         \/ pc' = "returned" /\ status' = "query_failed"
  BY DEF Query
<1>2. /\ BuiltInv /\ Objects /\ Untouched /\ args = <<>> /\ status = "none" /\ recv = <<>>
      /\ \E f \in FunctionsOf(built.client) : Calling(f)
  BY <1>1 DEF IInv, CallInv, ObjectsInv, ArgsInv, ReceivedInv
<1>3. /\ BuiltInv' /\ (Agreed' <=> Agreed)
      /\ \A f : f \in FunctionsOf(built.client)' <=> f \in FunctionsOf(built.client)
      /\ \A f : Calling(f)' <=> Calling(f)
  BY <1>1, <1>2, SameCall
<1>4. CallInv'
  BY <1>1, <1>2, <1>3 DEF CallInv
<1>5. ObjectsInv' /\ Untouched'
  BY <1>1, <1>2 DEF ObjectsInv, Objects, Untouched
<1>6. ArgsInv'
  BY <1>1, <1>2 DEF ArgsInv
<1>7. ReceivedInv'
  BY <1>1, <1>2 DEF ReceivedInv, Untouched
<1>8. (ServedInv /\ StatusInv /\ ReplyInv)'
  BY <1>1, <1>2 DEF ServedInv, StatusInv, ReplyInv
<1>9. ReturnedInv'
  <2>1. \A i \in DOMAIN cells : cells'[i] = "before"
    BY <1>1, <1>2 DEF Objects, Untouched
  <2>2. DOMAIN cells = DOMAIN call.params /\ cells' = cells /\ call' = call
    BY <1>1, <1>2 DEF Objects
  <2>3. \A i \in Outs(call.params) : i \in DOMAIN cells
    BY <2>2 DEF Outs
  <2>4. pc' = "returned" => status' # "success"
    BY <1>1
  <2> QED
    BY <2>1, <2>2, <2>3, <2>4 DEF ReturnedInv, OutsDelivered
<1> QED
  BY <1>3, <1>4, <1>5, <1>6, <1>7, <1>8, <1>9 DEF IInv

(* The wrapper fills its frame.                                             *)
LEMMA SendStep == IInv /\ Send => IInv'
<1> SUFFICES ASSUME IInv, Send PROVE IInv'
  OBVIOUS
<1>1. /\ pc = "send" /\ pc' = "dispatch" /\ args' = Frame(call.params, call.given)
      /\ UNCHANGED <<built, call, recv, served, cells, locals, wrote, status>>
  BY DEF Send
<1>2. /\ BuiltInv /\ Objects /\ Untouched /\ status = "none" /\ recv = <<>>
      /\ \E f \in FunctionsOf(built.client) : Calling(f)
  BY <1>1 DEF IInv, CallInv, ObjectsInv, ArgsInv, ReceivedInv
<1>3. /\ BuiltInv'
      /\ \A f : f \in FunctionsOf(built.client)' <=> f \in FunctionsOf(built.client)
      /\ \A f : Calling(f)' <=> Calling(f)
  BY <1>1, <1>2, SameCall
<1>4. CallInv'
  BY <1>1, <1>2, <1>3 DEF CallInv
<1>5. ObjectsInv'
  BY <1>1, <1>2 DEF ObjectsInv, Objects, Untouched
<1>6. ArgsInv'
  BY <1>1, <1>2 DEF ArgsInv, Sent
<1>7. ReceivedInv'
  BY <1>1, <1>2 DEF ReceivedInv, Untouched
<1>8. (ServedInv /\ StatusInv /\ ReplyInv /\ ReturnedInv)'
  BY <1>1, <1>2 DEF ServedInv, StatusInv, ReplyInv, ReturnedInv
<1> QED
  BY <1>3, <1>4, <1>5, <1>6, <1>7, <1>8 DEF IInv

(* The dispatcher knows the id and reads the slots, or turns the call away. *)
LEMMA DispatchStep == ASSUME Generable PROVE IInv /\ Dispatch => IInv'
<1> SUFFICES ASSUME IInv, Dispatch PROVE IInv'
  OBVIOUS
<1>1. pc = "dispatch" /\ UNCHANGED <<built, call, args, cells, locals, wrote>>
  BY DEF Dispatch
<1>2. /\ BuiltInv /\ Objects /\ Untouched /\ Sent /\ status = "none" /\ recv = <<>>
  BY <1>1 DEF IInv, ObjectsInv, ArgsInv, ReceivedInv
<1>3. PICK f \in FunctionsOf(built.client) : Calling(f)
  BY <1>1 DEF IInv, CallInv
<1>4. /\ BuiltInv' /\ (Agreed' <=> Agreed)
      /\ KnownId(call.id)' <=> KnownId(call.id)
      /\ f \in FunctionsOf(built.client)' /\ Calling(f)'
      /\ \A g : g \in FunctionsOf(built.server)' <=> g \in FunctionsOf(built.server)
  BY <1>1, <1>2, <1>3, SameCall
<1>5. Objects' /\ Untouched' /\ Sent'
  BY <1>1, <1>2 DEF Objects, Untouched, Sent
<1>6. CASE pc' = "reply" /\ UNCHANGED <<recv, served>>
           /\ \/ status' = "not_implemented" /\ ~KnownId(call.id)
              \/ status' = "invalid_value" /\ KnownId(call.id) /\ Refused(call.declared, args)
  <2>1. status' = "invalid_value" => ~Agreed
    <3> SUFFICES ASSUME KnownId(call.id), Refused(call.declared, args), Agreed PROVE FALSE
      BY <1>6
    <3>1. call.declared = call.params
      BY <1>2, <1>3, KnownIsCommon
    <3>2. ~Refused(call.params, Frame(call.params, call.given))
      BY <1>2, <1>3, Passing, FrameNotRefused DEF Generable
    <3> QED
      BY <3>1, <3>2, <1>2 DEF Sent
  <2>2. CallInv'
    BY <1>4, <1>6 DEF CallInv
  <2>3. ObjectsInv'
    BY <1>5 DEF ObjectsInv
  <2>4. ArgsInv'
    BY <1>5, <1>6 DEF ArgsInv
  <2>5. ReceivedInv'
    BY <1>1, <1>2, <1>6 DEF ReceivedInv, Untouched
  <2>6. StatusInv'
    BY <2>1, <1>4, <1>6 DEF StatusInv
  <2>7. ReplyInv'
    <3>1. \A i \in DOMAIN cells' : cells'[i] = "before"
      BY <1>5 DEF Objects, Untouched
    <3>2. \A i \in Outs(call.params)' : i \in DOMAIN cells'
      BY <1>5 DEF Objects, Outs
    <3>3. status' # "success"
      BY <1>6
    <3> QED
      BY <3>1, <3>2, <3>3 DEF ReplyInv, Ready
  <2>8. ServedInv' /\ ReturnedInv'
    BY <1>6 DEF ServedInv, ReturnedInv
  <2> QED
    BY <1>4, <2>2, <2>3, <2>4, <2>5, <2>6, <2>7, <2>8 DEF IInv
<1>7. CASE /\ KnownId(call.id) /\ ~Refused(call.declared, args)
           /\ \E g \in FunctionsOf(built.server) : g.id = call.id /\ served' = g.name
           /\ recv' = Received(call.declared, args, call.given)
           /\ pc' = "serve" /\ UNCHANGED status
  <2>1. Entered'
    BY <1>1, <1>4, <1>5, <1>7 DEF Entered
  <2>2. CallInv'
    BY <1>4, <1>7 DEF CallInv
  <2>3. ObjectsInv'
    BY <1>5 DEF ObjectsInv
  <2>4. ArgsInv'
    BY <1>5, <1>7 DEF ArgsInv
  <2>5. ReceivedInv'
    BY <2>1, <1>5, <1>7 DEF ReceivedInv, Untouched
  <2>6. ServedInv'
    <3>1. \E g \in FunctionsOf(built.server)' : g.id = call'.id /\ served' = g.name
      BY <1>1, <1>7
    <3> QED
      BY <3>1, <2>1, <1>2, <1>7 DEF ServedInv
  <2>7. (StatusInv /\ ReplyInv /\ ReturnedInv)'
    BY <1>2, <1>7 DEF StatusInv, ReplyInv, ReturnedInv
  <2> QED
    BY <1>4, <2>2, <2>3, <2>4, <2>5, <2>6, <2>7 DEF IInv
<1> QED
  BY <1>6, <1>7 DEF Dispatch, Reply

(* The implementation assigns what it was given addresses for, or fails.    *)
LEMMA ServeStep == ASSUME Generable PROVE IInv /\ Serve => IInv'
<1> SUFFICES ASSUME IInv, Serve PROVE IInv'
  OBVIOUS
<1>1. pc = "serve" /\ pc' = "reply" /\ UNCHANGED <<built, call, args, recv, served>>
  BY DEF Serve
<1>2. BuiltInv /\ Objects /\ Untouched /\ Entered /\ Sent
  BY <1>1 DEF IInv, ObjectsInv, ServedInv, ArgsInv
<1>3. PICK f \in FunctionsOf(built.client) : Calling(f)
  BY <1>1 DEF IInv, CallInv
<1>4. /\ BuiltInv' /\ (Agreed' <=> Agreed)
      /\ KnownId(call.id)' <=> KnownId(call.id)
      /\ f \in FunctionsOf(built.client)' /\ Calling(f)'
  BY <1>1, <1>2, <1>3, SameCall
<1>5. PICK W \in SUBSET {i \in DOMAIN recv : recv[i] \in {Cell(i), Local(i)}} :
        /\ wrote' = W
        /\ cells' = [i \in DOMAIN cells |->
                       IF i \in W /\ recv[i] = Cell(i) THEN "written" ELSE cells[i]]
        /\ locals' = [i \in DOMAIN locals |->
                        IF i \in W /\ recv[i] = Local(i) THEN "written" ELSE locals[i]]
        /\ \/ status' = "failed"
           \/ /\ \A i \in Outs(call.declared) : recv[i] \in {Cell(i), Local(i)} => i \in W
              /\ status' = "success"
  BY DEF Serve
<1>6. Sent' /\ Entered'
  BY <1>1, <1>2, <1>4 DEF Sent, Entered
<1>7. CallInv'
  BY <1>1, <1>4 DEF CallInv
<1>8. /\ DOMAIN cells = DOMAIN call.params /\ DOMAIN locals = DOMAIN call.params
      /\ \A i \in DOMAIN cells : cells[i] = "before"
      /\ \A i \in DOMAIN locals : locals[i] = "unset"
  BY <1>2 DEF Objects, Untouched
<1>9. ObjectsInv'
  BY <1>1, <1>5, <1>8 DEF ObjectsInv, Objects
<1>10. ArgsInv'
  BY <1>1, <1>6 DEF ArgsInv
<1>11. ReceivedInv'
  <2>1. W \subseteq DOMAIN recv
    BY <1>5
  <2> QED
    BY <2>1, <1>1, <1>5, <1>6 DEF ReceivedInv
<1>12. StatusInv'
  BY <1>5, <1>6 DEF StatusInv
<1>13. ASSUME Agreed, NEW i \in Outs(call.params) PROVE Ready(i)'
  <2> DEFINE ps == call.params
  <2>1. /\ DOMAIN recv = DOMAIN ps /\ call.declared = ps
        /\ \A k \in DOMAIN ps :
             recv[k] = IF k \in Outs(ps) /\ ~Direct(ps, k) THEN Local(k) ELSE call.given[k]
    BY <1>2, <1>3, <1>13, Arriving
  <2>2. i \in DOMAIN ps /\ call.given[i] \in {Null, Cell(i)}
    BY <1>2, <1>3, Passing
  <2>3. recv[i] = IF Direct(ps, i) THEN call.given[i] ELSE Local(i)
    BY <2>1, <2>2
  <2>4. Local(i) # Cell(i)
    BY DEF Local, Cell
  <2>5. ~Direct(ps, i) => cells'[i] = "before"
    <3> HIDE DEF ps
    <3> QED
      BY <2>2, <2>3, <2>4, <1>5, <1>8 DEF ps
  <2>6. ASSUME status' = "success", call.given[i] # Null
        PROVE  IF Direct(ps, i) THEN cells'[i] = "written" ELSE locals'[i] = "written"
    <3>1. recv[i] = IF Direct(ps, i) THEN Cell(i) ELSE Local(i)
      BY <2>2, <2>3, <2>6
    <3>2. i \in Outs(call.declared)
      BY <2>1
    <3>3. status' # "failed"
      BY <2>6
    <3>4. i \in W
      BY <1>5, <3>1, <3>2, <3>3
    <3>5. i \in DOMAIN cells /\ i \in DOMAIN locals
      BY <2>2, <1>8
    <3>6. recv[i] = Cell(i) => cells'[i] = "written"
      BY <3>4, <3>5, <1>5
    <3>7. recv[i] = Local(i) => locals'[i] = "written"
      BY <3>4, <3>5, <1>5
    <3> QED
      BY <3>1, <3>6, <3>7
  <2> QED
    BY <1>1, <2>5, <2>6 DEF Ready
<1>14. ReplyInv'
  <2>1. \A i \in DOMAIN cells' : cells'[i] \in {"before", "written"}
    BY <1>5, <1>8
  <2>2. Agreed' => \A i \in Outs(call.params)' : Ready(i)'
    BY <1>1, <1>4, <1>13
  <2> QED
    BY <2>1, <2>2 DEF ReplyInv
<1>15. ServedInv' /\ ReturnedInv'
  BY <1>1 DEF ServedInv, ReturnedInv
<1> QED
  BY <1>4, <1>7, <1>9, <1>10, <1>11, <1>12, <1>14, <1>15 DEF IInv

(* The rest of the wrapper.                                                 *)
LEMMA ReturnStep == ASSUME Generable PROVE IInv /\ Return => IInv'
<1> SUFFICES ASSUME IInv, Return PROVE IInv'
  OBVIOUS
<1> DEFINE Copied(i) == /\ status = "success"
                        /\ i \in Outs(call.params) /\ ~Direct(call.params, i)
                        /\ call.given[i] # Null
<1>1. /\ pc = "reply" /\ pc' = "returned"
      /\ cells' = [i \in DOMAIN cells |-> IF Copied(i) THEN locals[i] ELSE cells[i]]
      /\ UNCHANGED <<built, call, args, recv, served, locals, wrote, status>>
  BY DEF Return
<1>2. BuiltInv /\ Objects /\ Sent /\ ReceivedInv /\ StatusInv /\ ReplyInv
  BY <1>1 DEF IInv, ObjectsInv, ArgsInv
<1>3. PICK f \in FunctionsOf(built.client) : Calling(f)
  BY <1>1 DEF IInv, CallInv
<1>4. /\ BuiltInv' /\ (Agreed' <=> Agreed)
      /\ KnownId(call.id)' <=> KnownId(call.id)
      /\ f \in FunctionsOf(built.client)' /\ Calling(f)'
  BY <1>1, <1>2, <1>3, SameCall
<1>5. Sent' /\ (Entered => Entered')
  BY <1>1, <1>2, <1>4 DEF Sent, Entered
<1>6. CallInv'
  BY <1>1, <1>4 DEF CallInv
<1>7. ObjectsInv'
  BY <1>1, <1>2 DEF ObjectsInv, Objects
<1>8. ArgsInv'
  BY <1>1, <1>5 DEF ArgsInv
<1>9. ReceivedInv'
  BY <1>1, <1>2, <1>5 DEF ReceivedInv
<1>10. StatusInv'
  BY <1>1, <1>2, <1>4, <1>5 DEF StatusInv
<1>11. /\ DOMAIN cells = DOMAIN call.params /\ DOMAIN locals = DOMAIN call.params
       /\ \A i \in DOMAIN locals : locals[i] \in {"unset", "written"}
       /\ \A i \in DOMAIN cells : cells[i] \in {"before", "written"}
       /\ Agreed => \A i \in Outs(call.params) : Ready(i)
  BY <1>1, <1>2 DEF Objects, ReplyInv
<1>12. \A i \in DOMAIN cells : cells'[i] = IF Copied(i) THEN locals[i] ELSE cells[i]
  BY <1>1
<1>13. DOMAIN cells' = DOMAIN cells
  BY <1>1
<1>14. ASSUME NEW i \in DOMAIN cells
       PROVE  cells'[i] \in {"before", "written"} \/ (~Agreed /\ cells'[i] = "unset")
  <2>1. CASE Copied(i)
    <3>1. Agreed => locals[i] = "written"
      BY <2>1, <1>11 DEF Ready
    <3> QED
      BY <2>1, <3>1, <1>11, <1>12
  <2>2. CASE ~Copied(i)
    BY <2>2, <1>11, <1>12
  <2> QED
    BY <2>1, <2>2
<1>15. ASSUME Agreed, NEW i \in Outs(call.params)
       PROVE  /\ status = "success" /\ call.given[i] # Null => cells'[i] = "written"
              /\ status # "success" /\ ~Direct(call.params, i) => cells'[i] = "before"
  <2>1. i \in DOMAIN cells /\ Ready(i)
    BY <1>11, <1>15 DEF Outs
  <2>2. cells'[i] = IF Copied(i) THEN locals[i] ELSE cells[i]
    BY <2>1, <1>12
  <2> QED
    BY <2>1, <2>2 DEF Ready
<1>16. ReturnedInv'
  <2>1. OutsDelivered'
    BY <1>1, <1>4, <1>15 DEF OutsDelivered
  <2>2. \A i \in DOMAIN cells' : cells'[i] \in {"before", "written"} \/ (~Agreed' /\ cells'[i] = "unset")
    BY <1>4, <1>13, <1>14
  <2> QED
    BY <2>1, <2>2 DEF ReturnedInv
<1>17. ServedInv' /\ ReplyInv'
  BY <1>1 DEF ServedInv, ReplyInv
<1> QED
  BY <1>4, <1>6, <1>7, <1>8, <1>9, <1>10, <1>16, <1>17 DEF IInv

(* The next call finds nothing of this one.                                 *)
LEMMA DoneStep == IInv /\ Done => IInv'
<1> SUFFICES ASSUME IInv, Done PROVE IInv'
  OBVIOUS
<1>1. BuiltInv'
  BY DEF IInv, BuiltInv, Done
<1>2. (pc = "idle" /\ AtRest)'
  BY DEF Done, AtRest
<1>3. (/\ CallInv /\ ObjectsInv /\ ArgsInv /\ ReceivedInv
       /\ ServedInv /\ StatusInv /\ ReplyInv /\ ReturnedInv)'
  BY <1>2, AtRestInv, PTL
<1> QED
  BY <1>1, <1>3 DEF IInv

(* No step keeps all there is.                                              *)
LEMMA StutterStep == IInv /\ UNCHANGED vars => IInv'
<1> SUFFICES ASSUME IInv, UNCHANGED vars PROVE IInv'
  OBVIOUS
<1> USE DEF vars
<1>1. /\ BuiltInv' /\ (Agreed' <=> Agreed) /\ (KnownId(call.id)' <=> KnownId(call.id))
      /\ \A f : f \in FunctionsOf(built.client)' <=> f \in FunctionsOf(built.client)
      /\ \A f : f \in FunctionsOf(built.server)' <=> f \in FunctionsOf(built.server)
      /\ \A f : Calling(f)' <=> Calling(f)
  BY SameCall DEF IInv
<1>2. CallInv'
  BY <1>1 DEF IInv, CallInv, AtRest
<1>3. ObjectsInv' /\ (Sent' <=> Sent) /\ (Entered' <=> Entered)
  BY <1>1 DEF IInv, ObjectsInv, Objects, Untouched, Sent, Entered
<1>4. ArgsInv' /\ ReceivedInv'
  BY <1>3 DEF IInv, ArgsInv, ReceivedInv
<1>5. ServedInv' /\ StatusInv'
  BY <1>1, <1>3 DEF IInv, ServedInv, StatusInv
<1>6. ReplyInv' /\ ReturnedInv'
  BY <1>1 DEF IInv, ReplyInv, ReturnedInv, Ready, OutsDelivered
<1> QED
  BY <1>1, <1>2, <1>3, <1>4, <1>5, <1>6 DEF IInv

(***************************************************************************)
(* What follows for every reachable state.                                  *)
(***************************************************************************)
(* Slots, parameters and the caller's objects agree in every reachable      *)
(* state, for any parameter lists of types the server generator has a size  *)
(* for, any number of slots from two, and any artifacts of an interface.    *)
THEOREM Inductive ==
  ASSUME Generable
  PROVE  Spec => []IInv
<1>1. Init => IInv
  BY InitInv
<1>2. IInv /\ [Next]_vars => IInv'
  BY CallStep, QueryStep, SendStep, DispatchStep, ServeStep, ReturnStep, DoneStep,
     StutterStep DEF Next
<1> QED
  BY <1>1, <1>2, PTL DEF Spec

(* The implementation receives what the caller passed: however a list       *)
(* divides into slots, ins and outs, the two generators divide it alike     *)
(* (c_user_source_generator.cc and c_module_source_generator.cc).           *)
THEOREM Arguments ==
  ASSUME Generable
  PROVE  Spec => []ArgumentsArrive
<1>1. IInv => ArgumentsArrive
  <2> SUFFICES ASSUME IInv, pc = "serve", Agreed, NEW i \in DOMAIN call.params
               PROVE  recv[i] = IF i \in Outs(call.params) /\ ~Direct(call.params, i)
                                THEN Local(i) ELSE call.given[i]
    BY DEF ArgumentsArrive
  <2>1. BuiltInv /\ Entered
    BY DEF IInv, ServedInv
  <2>2. PICK f \in FunctionsOf(built.client) : Calling(f)
    BY DEF IInv, CallInv
  <2> QED
    BY <2>1, <2>2, Arriving
<1> QED
  BY <1>1, Inductive, PTL

(* The dispatcher's null checks refuse no call of a wrapper that agrees.    *)
THEOREM NullChecks ==
  ASSUME Generable
  PROVE  Spec => []NeverTurnedAway
<1>1. IInv => NeverTurnedAway
  BY DEF IInv, StatusInv, NeverTurnedAway
<1> QED
  BY <1>1, Inductive, PTL

(* Out values reach the caller that asked for them, on success only.        *)
THEOREM Outputs ==
  ASSUME Generable
  PROVE  Spec => []OutsDelivered
<1>1. IInv => OutsDelivered
  BY DEF IInv, ReturnedInv, OutsDelivered
<1> QED
  BY <1>1, Inductive, PTL

(* The function entered has an implementation and is the one called: slot   *)
(* `id` of the vtable is the field the dispatcher calls by name.            *)
THEOREM Entering ==
  ASSUME Generable
  PROVE  Spec => []RightFunction
<1>1. IInv => RightFunction
  <2> SUFFICES ASSUME IInv, pc = "serve"
               PROVE  (Agreed => served = call.name) /\ served \in built.vtable
    BY DEF RightFunction
  <2>1. BuiltInv /\ KnownId(call.id)
    BY DEF IInv, ServedInv, Entered
  <2>2. PICK f \in FunctionsOf(built.client) : Calling(f)
    BY DEF IInv, CallInv
  <2>3. PICK g \in FunctionsOf(built.server) : g.id = call.id /\ served = g.name
    BY DEF IInv, ServedInv
  <2>4. built.server \in UNION Interfaces
    BY <2>1 DEF BuiltInv
  <2>5. served \in built.vtable
    <3>1. VTable(built.server)[call.id + 1] = served
      BY <2>3, <2>4, VTableById
    <3> QED
      BY <2>1, <3>1 DEF KnownId
  <2>6. ASSUME Agreed PROVE served = call.name
    <3>1. f \in FunctionsOf(built.server) /\ f.id = g.id /\ call.name = f.name
      BY <2>1, <2>2, <2>3, <2>6, KnownIsCommon DEF Calling
    <3>2. f = g
      BY <2>4, <3>1, UniqueId
    <3> QED
      BY <2>3, <3>1, <3>2
  <2> QED
    BY <2>5, <2>6
<1> QED
  BY <1>1, Inductive, PTL

(* "Not implemented" is said only of what is not (the span check and the    *)
(* null slot of <prefix>ServerDispatchArgs).                                *)
THEOREM Refusals ==
  ASSUME Generable
  PROVE  Spec => []RefusedOnlyIfMissing
<1>1. IInv => RefusedOnlyIfMissing
  <2> SUFFICES ASSUME IInv, status = "not_implemented", Agreed,
                      NEW g \in FunctionsOf(built.server), g.name = call.name,
                      call.name \in built.vtable
               PROVE  FALSE
    BY DEF RefusedOnlyIfMissing
  <2>1. BuiltInv /\ ~KnownId(call.id)
    BY DEF IInv, StatusInv
  <2>2. pc # "idle"
    BY DEF IInv, CallInv, AtRest
  <2>3. PICK f \in FunctionsOf(built.client) : Calling(f)
    BY <2>2 DEF IInv, CallInv
  <2> QED
    BY <2>1, <2>3, MissingIsUnknown
<1> QED
  BY <1>1, Inductive, PTL

(* Type correctness: whatever the sides disagree on, no slot or parameter   *)
(* is missing; and where they agree no garbage reaches a caller's object.   *)
THEOREM TypeCorrect ==
  ASSUME Generable
  PROVE  Spec => []TypeOK
<1>1. IInv => TypeOK
  <2> SUFFICES ASSUME IInv PROVE TypeOK
    OBVIOUS
  <2>1. /\ BuiltInv /\ Objects /\ ReceivedInv /\ ArgsInv
        /\ pc \in {"idle", "query", "send", "dispatch", "serve", "reply", "returned"}
    BY DEF IInv, CallInv, ObjectsInv
  <2>2. call = NoCall \/ call.params \in Signatures[call.name]
    BY DEF IInv, CallInv, AtRest, Calling
  <2>3. DOMAIN call.given = DOMAIN call.params
    <3>1. CASE pc = "idle"
      <4>1. call = NoCall
        BY <3>1 DEF IInv, CallInv, AtRest
      <4>2. call.given = <<>> /\ call.params = <<>>
        BY <4>1 DEF NoCall
      <4> QED
        BY <4>2
    <3>2. CASE pc # "idle"
      <4>1. PICK f \in FunctionsOf(built.client) : Calling(f)
        BY <3>2 DEF IInv, CallInv
      <4> QED
        BY <2>1, <4>1, Passing
    <3> QED
      BY <3>1, <3>2
  <2>4. args = <<>> \/ DOMAIN args = 1 .. Slots
    <3>1. DOMAIN Frame(call.params, call.given) = 1 .. Slots
      BY DEF Frame
    <3> QED
      BY <2>1, <3>1 DEF IInv, CallInv, ArgsInv, AtRest, Sent
  <2>5. recv = <<>> \/ DOMAIN recv = DOMAIN call.declared
    BY <2>1 DEF ReceivedInv, Entered, Received
  <2>6. wrote \subseteq DOMAIN call.declared
    <3>1. DOMAIN <<>> = {}
      BY IsSeqEmpty
    <3> QED
      BY <2>1, <2>5, <3>1 DEF ReceivedInv
  <2>7. \A i \in DOMAIN cells : cells[i] \in {"before", "written"} \/ (~Agreed /\ cells[i] = "unset")
    <3>1. CASE pc = "idle"
      <4>1. DOMAIN cells = {}
        BY <3>1, IsSeqEmpty DEF IInv, CallInv, AtRest
      <4> QED
        BY <4>1
    <3>2. CASE pc \in {"query", "send", "dispatch", "serve"}
      BY <3>2 DEF IInv, ObjectsInv, Objects, Untouched
    <3>3. CASE pc \in {"reply", "returned"}
      BY <3>3 DEF IInv, ReplyInv, ReturnedInv
    <3> QED
      BY <2>1, <3>1, <3>2, <3>3
  <2> QED
    BY <2>1, <2>2, <2>3, <2>4, <2>5, <2>6, <2>7 DEF TypeOK
<1> QED
  BY <1>1, Inductive, PTL
=============================================================================
