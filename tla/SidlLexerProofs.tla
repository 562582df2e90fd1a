--------------------------- MODULE SidlLexerProofs --------------------------
(***************************************************************************)
(* Proofs about SidlLexer: texts of any length, of any characters.          *)
(***************************************************************************)
EXTENDS SidlLexer, SifTheorems, FiniteSetTheorems

(***************************************************************************)
(* One step after the other.                                                *)
(***************************************************************************)
(* A function that takes the same step n times.                             *)
Iterates(f, X, x, n, step) ==
  f \in [0 .. n -> X] /\ f[0] = x /\ \A k \in 1 .. n : f[k] = step[f[k - 1]]

(* There is one.                                                            *)
LEMMA IterationExists ==
  ASSUME NEW X, NEW x \in X, NEW n \in Nat, NEW step \in [X -> X]
  PROVE  \E f : Iterates(f, X, x, n, step)
<1> DEFINE S == {k \in Nat : ~\E f : Iterates(f, X, x, k, step)}
<1>1. SUFFICES ASSUME S # {} PROVE FALSE
  OBVIOUS
<1>2. PICK k \in S : \A m \in S : k <= m
  <2> HIDE DEF S
  <2>1. S \in SUBSET Nat
    BY DEF S
  <2> QED
    BY <1>1, <2>1, LeastNat
<1>3. k \in Nat /\ ~\E f : Iterates(f, X, x, k, step)
  OBVIOUS
<1>4. k # 0
  <2> DEFINE e == [m \in 0 .. 0 |-> x]
  <2>1. e \in [0 .. 0 -> X] /\ e[0] = x
    OBVIOUS
  <2>2. Iterates(e, X, x, 0, step)
    <3> HIDE DEF e
    <3> QED BY <2>1 DEF Iterates
  <2> QED
    BY <1>3, <2>2
<1>5. PICK f : Iterates(f, X, x, k - 1, step)
  <2>1. k - 1 \in Nat /\ k - 1 \notin S
    BY <1>2, <1>3, <1>4
  <2> QED
    BY <2>1
<1>6. /\ f \in [0 .. k - 1 -> X] /\ f[0] = x
      /\ \A m \in 1 .. k - 1 : f[m] = step[f[m - 1]]
  BY <1>5 DEF Iterates
<1> DEFINE h == [m \in 0 .. k |-> IF m = k THEN step[f[k - 1]] ELSE f[m]]
<1>7. k - 1 \in 0 .. k - 1 /\ \A m \in 0 .. k : m # k => m \in 0 .. k - 1
  BY <1>3, <1>4
<1>8. h \in [0 .. k -> X]
  BY <1>6, <1>7
<1>9. h[0] = x
  BY <1>3, <1>4, <1>6
<1>10. \A m \in 1 .. k : h[m] = step[h[m - 1]]
  <2> SUFFICES ASSUME NEW m \in 1 .. k PROVE h[m] = step[h[m - 1]]
    OBVIOUS
  <2>1. m - 1 \in 0 .. k /\ m - 1 # k /\ m \in 0 .. k
    BY <1>3
  <2>2. h[m - 1] = f[m - 1]
    BY <2>1
  <2>3. CASE m = k
    BY <2>1, <2>2, <2>3
  <2>4. CASE m # k
    <3>1. m \in 1 .. k - 1 /\ h[m] = f[m]
      BY <2>1, <2>4, <1>3
    <3> QED
      BY <3>1, <2>2, <1>6
  <2> QED
    BY <2>3, <2>4
<1>11. Iterates(h, X, x, k, step)
  <2> HIDE DEF h
  <2> QED BY <1>8, <1>9, <1>10 DEF Iterates
<1> QED
  BY <1>3, <1>11

(* The least of some numbers.                                               *)
LEMMA MinIs ==
  ASSUME NEW S \in SUBSET Nat, S # {}
  PROVE  Min(S) \in S /\ Min(S) \in Nat /\ \A x \in S : Min(S) <= x
<1>1. \E n \in S : \A m \in S : n <= m
  BY LeastNat
<1>2. Min(S) \in S /\ \A x \in S : Min(S) <= x
  BY <1>1 DEF Min
<1> QED
  BY <1>2

(***************************************************************************)
(* Line ends behind a place.                                                *)
(***************************************************************************)
(* One character further.                                                   *)
LEMMA NewlinesStep ==
  ASSUME NEW T, NEW n \in Nat
  PROVE  /\ IsFiniteSet(Newlines(T, n)) /\ Cardinality(Newlines(T, n)) \in Nat
         /\ Newlines(T, n + 1) = Newlines(T, n) \cup (IF At(T, n + 1) = "\n" THEN {n + 1} ELSE {})
         /\ Cardinality(Newlines(T, n + 1)) =
              Cardinality(Newlines(T, n)) + (IF At(T, n + 1) = "\n" THEN 1 ELSE 0)
<1>1. IsFiniteSet(1 .. n)
  BY FS_Interval
<1>2. Newlines(T, n) \in SUBSET (1 .. n)
  BY DEF Newlines
<1>3. IsFiniteSet(Newlines(T, n)) /\ Cardinality(Newlines(T, n)) \in Nat
  BY <1>1, <1>2, FS_Subset, FS_CardinalityType
<1>4. 1 .. n + 1 = (1 .. n) \cup {n + 1} /\ n + 1 \notin 1 .. n
  OBVIOUS
<1>5. Newlines(T, n + 1) = Newlines(T, n) \cup (IF At(T, n + 1) = "\n" THEN {n + 1} ELSE {})
  BY <1>4 DEF Newlines
<1>6. n + 1 \notin Newlines(T, n)
  BY <1>2, <1>4
<1>7. CASE At(T, n + 1) = "\n"
  <2>1. Cardinality(Newlines(T, n) \cup {n + 1}) = Cardinality(Newlines(T, n)) + 1
    BY <1>3, <1>6, FS_AddElement
  <2> QED
    BY <2>1, <1>3, <1>5, <1>7
<1>8. CASE At(T, n + 1) # "\n"
  <2>1. Newlines(T, n + 1) = Newlines(T, n)
    BY <1>5, <1>8
  <2> QED
    BY <2>1, <1>3, <1>5, <1>8
<1> QED
  BY <1>7, <1>8

(* Where there is none, no more are counted.                                *)
LEMMA NewlinesSame ==
  ASSUME NEW T, NEW m \in Nat, NEW n \in Nat, m <= n, \A i \in m + 1 .. n : At(T, i) # "\n"
  PROVE  Newlines(T, n) = Newlines(T, m)
<1>1. \A i \in 1 .. n : i \in 1 .. m \/ i \in m + 1 .. n
  OBVIOUS
<1>2. \A i \in 1 .. m : i \in 1 .. n
  OBVIOUS
<1> QED
  BY <1>1, <1>2 DEF Newlines

(* Those of a piece of the text are added to those behind it.               *)
LEMMA NewlinesOver ==
  ASSUME NEW T, NEW m \in Nat, NEW n \in Nat
  PROVE  Cardinality(Newlines(T, m + n)) =
           Cardinality(Newlines(T, m)) + Cardinality({j \in 1 .. n : At(T, m + j) = "\n"})
<1> DEFINE In(k) == {j \in 1 .. k : At(T, m + j) = "\n"}
           Adds(k) == /\ IsFiniteSet(In(k)) /\ Cardinality(In(k)) \in Nat
                      /\ Cardinality(Newlines(T, m + k)) =
                           Cardinality(Newlines(T, m)) + Cardinality(In(k))
           S == {k \in Nat : ~Adds(k)}
<1>1. S = {}
  <2> SUFFICES ASSUME S # {} PROVE FALSE
    OBVIOUS
  <2>1. PICK k \in S : \A l \in S : k <= l
    <3> HIDE DEF S
    <3>1. S \in SUBSET Nat
      BY DEF S
    <3> QED
      BY <3>1, LeastNat
  <2>2. k \in Nat /\ ~Adds(k)
    OBVIOUS
  <2>3. k # 0
    <3>1. In(0) = {} /\ m + 0 = m
      OBVIOUS
    <3>2. IsFiniteSet({}) /\ Cardinality({}) = 0
      BY FS_EmptySet
    <3>3. Cardinality(Newlines(T, m)) \in Nat
      BY NewlinesStep
    <3>4. Adds(0)
      BY <3>1, <3>2, <3>3
    <3> HIDE DEF Adds
    <3> QED
      BY <2>2, <3>4
  <2> DEFINE p == k - 1
  <2>4. p \in Nat /\ k = p + 1 /\ Adds(p)
    <3>1. p \in Nat /\ k = p + 1 /\ p \notin S
      BY <2>1, <2>2, <2>3
    <3> HIDE DEF Adds, p
    <3> QED
      BY <3>1
  <2> HIDE DEF p
  <2>5. 1 .. p + 1 = (1 .. p) \cup {p + 1} /\ p + 1 \notin 1 .. p /\ m + p \in Nat
        /\ (m + p) + 1 = m + (p + 1)
    BY <2>4
  <2>6. Cardinality(Newlines(T, m + (p + 1))) =
          Cardinality(Newlines(T, m + p)) + (IF At(T, m + (p + 1)) = "\n" THEN 1 ELSE 0)
    BY <2>5, NewlinesStep
  <2>7. p + 1 \notin In(p)
    BY <2>5
  <2>8. In(p + 1) = In(p) \cup (IF At(T, m + (p + 1)) = "\n" THEN {p + 1} ELSE {})
    BY <2>5
  <2>9. Cardinality(Newlines(T, m)) \in Nat
    BY NewlinesStep
  <2>10. Adds(p + 1)
    <3>1. IsFiniteSet(In(p)) /\ Cardinality(In(p)) \in Nat
      BY <2>4
    <3>2. Cardinality(Newlines(T, m + p)) = Cardinality(Newlines(T, m)) + Cardinality(In(p))
      BY <2>4
    <3> HIDE DEF In
    <3>3. CASE At(T, m + (p + 1)) = "\n"
      <4>1. In(p + 1) = In(p) \cup {p + 1}
        BY <2>8, <3>3
      <4>2. IsFiniteSet(In(p + 1)) /\ Cardinality(In(p + 1)) = Cardinality(In(p)) + 1
        BY <4>1, <3>1, <2>7, FS_AddElement
      <4> QED
        BY <4>2, <3>1, <3>2, <3>3, <2>6, <2>9
    <3>4. CASE At(T, m + (p + 1)) # "\n"
      <4>1. In(p + 1) = In(p)
        BY <2>8, <3>4
      <4> QED
        BY <4>1, <3>1, <3>2, <3>4, <2>6, <2>9
    <3> QED
      BY <3>3, <3>4
  <2> HIDE DEF Adds
  <2> QED
    BY <2>2, <2>4, <2>10
<1>2. Adds(n)
  <2> HIDE DEF Adds
  <2> QED BY <1>1
<1> QED
  BY <1>2

(***************************************************************************)
(* The cursor.                                                              *)
(***************************************************************************)
(* A cursor at its line and column.                                         *)
Cursors(T) == {c \in [pos : Nat \ {0}, line : Nat, column : Nat] : Placed(T, c)}

(* One character on.                                                        *)
LEMMA AdvanceIs ==
  ASSUME NEW T, NEW c \in Cursors(T)
  PROVE  Advance(T, c) \in Cursors(T) /\ Advance(T, c).pos = c.pos + 1 /\ c.pos \in Nat \ {0}
<1> DEFINE p == c.pos
           N == Newlines(T, p - 1)
           M == Newlines(T, p)
           d == Advance(T, c)
<1>1. /\ p \in Nat \ {0} /\ c.line \in Nat /\ c.column \in Nat
      /\ c.line = 1 + Cardinality(N) /\ c.column = p - Max(N \cup {0})
  BY DEF Cursors, Placed
<1>2. p - 1 \in Nat /\ (p - 1) + 1 = p
  BY <1>1
<1>3. /\ Cardinality(N) \in Nat
      /\ M = N \cup (IF At(T, p) = "\n" THEN {p} ELSE {})
      /\ Cardinality(M) = Cardinality(N) + (IF At(T, p) = "\n" THEN 1 ELSE 0)
  <2> HIDE DEF p
  <2>1. /\ Cardinality(Newlines(T, p - 1)) \in Nat
        /\ Newlines(T, (p - 1) + 1) =
             Newlines(T, p - 1) \cup (IF At(T, (p - 1) + 1) = "\n" THEN {(p - 1) + 1} ELSE {})
        /\ Cardinality(Newlines(T, (p - 1) + 1)) =
             Cardinality(Newlines(T, p - 1)) + (IF At(T, (p - 1) + 1) = "\n" THEN 1 ELSE 0)
    BY <1>2, NewlinesStep
  <2> QED
    BY <2>1, <1>2
<1>4. N \in SUBSET (1 .. p - 1)
  BY DEF Newlines
<1>5. d = [pos |-> p + 1, line |-> IF At(T, p) = "\n" THEN c.line + 1 ELSE c.line,
           column |-> IF At(T, p) = "\n" THEN 1 ELSE c.column + 1]
  BY DEF Advance, Here
<1>6. d.pos = p + 1 /\ d \in [pos : Nat \ {0}, line : Nat, column : Nat]
  BY <1>1, <1>5
<1>7. d.line = 1 + Cardinality(M)
  <2> HIDE DEF p, N, M, d
  <2> QED BY <1>1, <1>3, <1>5
<1>8. d.column = (p + 1) - Max(M \cup {0})
  <2>1. CASE At(T, p) = "\n"
    <3>1. M \cup {0} \in SUBSET Int /\ p \in M \cup {0} /\ \A x \in M \cup {0} : x <= p
      BY <1>1, <1>3, <1>4, <2>1
    <3>2. Max(M \cup {0}) = p
      <4> HIDE DEF p, M
      <4> QED BY <3>1, MaxIsLargest
    <3> HIDE DEF p, M, d
    <3> QED
      BY <2>1, <3>2, <1>1, <1>5
  <2>2. CASE At(T, p) # "\n"
    <3>1. M = N
      BY <1>3, <2>2
    <3>2. N \cup {0} \in SUBSET Nat /\ \A x \in N \cup {0} : x <= p
      BY <1>1, <1>4
    <3>3. Max(N \cup {0}) \in N \cup {0}
      <4> HIDE DEF p, N
      <4> QED BY <3>2, <1>1, BoundedMax
    <3>4. Max(N \cup {0}) \in Nat
      BY <3>2, <3>3
    <3> HIDE DEF p, N, M, d
    <3> QED
      BY <3>1, <3>4, <2>2, <1>1, <1>5
  <2> QED
    BY <2>1, <2>2
<1>9. d.pos - 1 = p
  BY <1>1, <1>6
<1>10. Placed(T, d)
  BY <1>6, <1>7, <1>8, <1>9 DEF Placed
<1> QED
  BY <1>1, <1>6, <1>10 DEF Cursors

(* On to the first of some places.                                          *)
LEMMA ToIs ==
  ASSUME NEW T, NEW c \in Cursors(T), NEW places \in SUBSET Nat, places # {},
         \A p \in places : c.pos <= p
  PROVE  To(T, c, places) \in Cursors(T) /\ To(T, c, places).pos = Min(places)
<1> DEFINE n == Min(places) - c.pos
           step == [d \in Cursors(T) |-> Advance(T, d)]
           walk == CHOOSE f : f = [k \in 0 .. n |-> IF k = 0 THEN c ELSE Advance(T, f[k - 1])]
<1>1. To(T, c, places) = walk[n]
  BY Zenon DEF To
<1>2. Min(places) \in places /\ Min(places) \in Nat /\ c.pos \in Nat
  BY MinIs, AdvanceIs
<1>3. n \in Nat /\ c.pos + n = Min(places)
  BY <1>2
<1> HIDE DEF n
<1>4. step \in [Cursors(T) -> Cursors(T)]
  BY AdvanceIs
<1>5. PICK f : Iterates(f, Cursors(T), c, n, step)
  <2> HIDE DEF step
  <2> QED BY <1>3, <1>4, IterationExists
<1>6. f \in [0 .. n -> Cursors(T)] /\ \A k \in 0 .. n : f[k] = IF k = 0 THEN c ELSE Advance(T, f[k - 1])
  <2>1. f \in [0 .. n -> Cursors(T)] /\ f[0] = c /\ \A k \in 1 .. n : f[k] = step[f[k - 1]]
    BY <1>5 DEF Iterates
  <2>2. \A k \in 1 .. n : k - 1 \in 0 .. n /\ f[k - 1] \in Cursors(T)
    BY <2>1, <1>3
  <2>3. \A k \in 1 .. n : f[k] = Advance(T, f[k - 1])
    BY <2>1, <2>2
  <2>4. \A k \in 0 .. n : k # 0 => k \in 1 .. n
    BY <1>3
  <2> QED
    BY <2>1, <2>3, <2>4
<1>7. walk = [k \in 0 .. n |-> IF k = 0 THEN c ELSE Advance(T, walk[k - 1])]
  <2> DEFINE g == [k \in 0 .. n |-> IF k = 0 THEN c ELSE Advance(T, f[k - 1])]
  <2>1. f = g
    <3>1. DOMAIN g = 0 .. n /\ DOMAIN f = 0 .. n /\ \A k \in 0 .. n : g[k] = f[k]
      BY <1>6
    <3>2. g = [k \in DOMAIN g |-> g[k]] /\ f = [k \in DOMAIN f |-> f[k]]
      BY <1>6
    <3> HIDE DEF g
    <3> QED
      BY <3>1, <3>2, Zenon
  <2>2. f = [k \in 0 .. n |-> IF k = 0 THEN c ELSE Advance(T, f[k - 1])]
    BY <2>1, Zenon
  <2> QED
    BY <2>2, Zenon
<1> HIDE DEF walk, step
<1>8. walk[0] = c /\ \A k \in 1 .. n : walk[k] = Advance(T, walk[k - 1])
  BY <1>3, <1>7
<1> DEFINE S == {k \in 0 .. n : ~(walk[k] \in Cursors(T) /\ walk[k].pos = c.pos + k)}
<1>9. S = {}
  <2> SUFFICES ASSUME S # {} PROVE FALSE
    OBVIOUS
  <2>1. PICK k \in S : \A l \in S : k <= l
    <3>1. S \in SUBSET Nat
      BY <1>3
    <3> HIDE DEF S
    <3> QED BY <3>1, LeastNat
  <2>2. k # 0
    BY <1>2, <1>8
  <2>3. k \in 1 .. n /\ k - 1 \in 0 .. n /\ k - 1 \notin S
    BY <2>1, <2>2, <1>3
  <2>4. walk[k - 1] \in Cursors(T) /\ walk[k - 1].pos = c.pos + (k - 1)
    BY <2>3
  <2>5. walk[k] \in Cursors(T) /\ walk[k].pos = walk[k - 1].pos + 1
    BY <2>3, <2>4, <1>8, AdvanceIs
  <2>6. (c.pos + (k - 1)) + 1 = c.pos + k
    BY <2>3, <1>2
  <2>7. k \in S
    OBVIOUS
  <2> QED
    BY <2>4, <2>5, <2>6, <2>7
<1>10. n \in 0 .. n
  BY <1>3
<1>11. walk[n] \in Cursors(T) /\ walk[n].pos = c.pos + n
  BY <1>9, <1>10
<1> QED
  BY <1>1, <1>3, <1>11

(* Over characters of a set: it ends on the first that is none.             *)
LEMMA OverIs ==
  ASSUME NEW T \in Seq(STRING), NEW c \in Cursors(T), c.pos <= Len(T) + 1, NEW set, "end" \notin set
  PROVE  LET end == Over(T, c, set)
         IN /\ end \in Cursors(T) /\ end.pos \in c.pos .. Len(T) + 1 /\ Here(T, end) \notin set
            /\ \A p \in c.pos .. end.pos - 1 : At(T, p) \in set
<1> DEFINE places == {p \in c.pos .. Len(T) + 1 : At(T, p) \notin set}
           end == Over(T, c, set)
<1>1. Len(T) \in Nat /\ c.pos \in Nat
  BY LenProperties, AdvanceIs
<1>2. Len(T) + 1 \in places
  BY <1>1 DEF At
<1>3. places \in SUBSET Nat /\ places # {} /\ \A p \in places : c.pos <= p
  BY <1>1, <1>2
<1>4. Over(T, c, set) = To(T, c, places)
  BY DEF Over
<1> HIDE DEF places
<1>5. end \in Cursors(T) /\ end.pos = Min(places) /\ Min(places) \in places /\ \A p \in places : Min(places) <= p
  BY <1>3, <1>4, ToIs, MinIs
<1> HIDE DEF end
<1>6. end.pos \in c.pos .. Len(T) + 1 /\ At(T, end.pos) \notin set
  BY <1>5 DEF places
<1>7. ASSUME NEW p \in c.pos .. end.pos - 1 PROVE At(T, p) \in set
  <2>1. p \in c.pos .. Len(T) + 1 /\ ~(end.pos <= p)
    BY <1>1, <1>6
  <2>2. p \notin places
    BY <2>1, <1>5
  <2> QED
    BY <2>1, <2>2 DEF places
<1> QED
  BY <1>5, <1>6, <1>7 DEF Here, end

(* Up to a character, or the end.                                           *)
LEMMA UpToIs ==
  ASSUME NEW T \in Seq(STRING), NEW c \in Cursors(T), c.pos <= Len(T) + 1, NEW stop
  PROVE  LET end == UpTo(T, c, stop)
         IN end \in Cursors(T) /\ end.pos \in c.pos .. Len(T) + 1 /\ Here(T, end) \in {stop, "end"}
<1> DEFINE places == {p \in c.pos .. Len(T) + 1 : At(T, p) \in {stop, "end"}}
           end == UpTo(T, c, stop)
<1>1. Len(T) \in Nat /\ c.pos \in Nat
  BY LenProperties, AdvanceIs
<1>2. Len(T) + 1 \in places
  BY <1>1 DEF At
<1>3. places \in SUBSET Nat /\ places # {} /\ \A p \in places : c.pos <= p
  BY <1>1, <1>2
<1>4. end = To(T, c, places)
  BY DEF UpTo
<1> HIDE DEF places, end
<1>5. end \in Cursors(T) /\ end.pos = Min(places) /\ Min(places) \in places
  BY <1>3, <1>4, ToIs, MinIs
<1>6. end.pos \in c.pos .. Len(T) + 1 /\ At(T, end.pos) \in {stop, "end"}
  BY <1>5 DEF places
<1> QED
  BY <1>5, <1>6 DEF Here, end

(* Behind a comment.                                                        *)
LEMMA CommentEndIs ==
  ASSUME NEW T \in Seq(STRING), NEW c \in Cursors(T), c.pos <= Len(T) + 1
  PROVE  LET end == CommentEnd(T, c)
         IN end \in Cursors(T) /\ end.pos \in c.pos .. Len(T) + 1
<1> DEFINE closing == {p \in c.pos .. Len(T) - 1 : T[p] = "*" /\ T[p + 1] = "/"}
           places == {p + 2 : p \in closing} \cup {Len(T) + 1}
           end == CommentEnd(T, c)
<1>1. Len(T) \in Nat /\ c.pos \in Nat
  BY LenProperties, AdvanceIs
<1>2. \A p \in closing : p + 2 \in c.pos .. Len(T) + 1
  BY <1>1
<1>3. end = To(T, c, places)
  BY DEF CommentEnd
<1>4. Len(T) + 1 \in c.pos .. Len(T) + 1
  BY <1>1
<1> HIDE DEF closing
<1>5. places \in SUBSET (c.pos .. Len(T) + 1) /\ places # {}
  BY <1>2, <1>4
<1> HIDE DEF places, end
<1>6. places \in SUBSET Nat /\ \A p \in places : c.pos <= p
  BY <1>1, <1>5
<1>7. end \in Cursors(T) /\ end.pos = Min(places) /\ Min(places) \in places
  BY <1>3, <1>5, <1>6, ToIs, MinIs
<1> QED
  BY <1>5, <1>7 DEF end

(***************************************************************************)
(* What separates the tokens.                                               *)
(***************************************************************************)
Skipped == Blanks \cup {"/"}

(* One is skipped, or none is there.                                        *)
LEMMA SkipOneIs ==
  ASSUME NEW T \in Seq(STRING), NEW c \in Cursors(T), c.pos <= Len(T) + 1
  PROVE  LET d == SkipOne(T, c)
         IN /\ d \in Cursors(T) /\ d.pos <= Len(T) + 1
            /\ IF Here(T, c) \in Skipped THEN d.pos >= c.pos + 1 ELSE d = c
<1> DEFINE next == Advance(T, c)
           d == SkipOne(T, c)
<1>1. Len(T) \in Nat /\ c.pos \in Nat /\ next \in Cursors(T) /\ next.pos = c.pos + 1
  BY LenProperties, AdvanceIs
<1>2. Here(T, c) \in Skipped => next.pos <= Len(T) + 1
  <2>1. Here(T, c) \in Skipped => c.pos <= Len(T)
    BY DEF Here, At, Skipped, Blanks
  <2> HIDE DEF next
  <2> QED
    BY <1>1, <2>1
<1>3. d = IF Here(T, c) \in Blanks THEN next
          ELSE IF Here(T, c) # "/" THEN c
          ELSE IF Here(T, next) = "/" THEN UpTo(T, next, "\n")
          ELSE IF Here(T, next) = "*" THEN CommentEnd(T, Advance(T, next))
          ELSE next
  BY DEF SkipOne
<1> HIDE DEF d, next
<1>4. CASE Here(T, c) \in Blanks
  BY <1>1, <1>2, <1>3, <1>4 DEF Skipped, d
<1>5. CASE Here(T, c) \notin Skipped
  BY <1>1, <1>3, <1>5 DEF Skipped, d
<1>6. CASE Here(T, c) = "/"
  <2>1. Here(T, c) \in Skipped /\ Here(T, c) \notin Blanks
    BY <1>6 DEF Skipped, Blanks
  <2>2. next.pos <= Len(T) + 1
    BY <2>1, <1>2
  <2>3. CASE Here(T, next) = "/"
    <3>1. d = UpTo(T, next, "\n")
      BY <2>1, <2>3, <1>3, <1>6
    <3>2. UpTo(T, next, "\n") \in Cursors(T) /\ UpTo(T, next, "\n").pos \in next.pos .. Len(T) + 1
      BY <2>2, <1>1, UpToIs
    <3> QED
      BY <3>1, <3>2, <2>1, <1>1 DEF d
  <2>4. CASE Here(T, next) = "*"
    <3> DEFINE inside == Advance(T, next)
    <3>1. d = CommentEnd(T, inside)
      BY <2>1, <2>4, <1>3, <1>6
    <3>2. inside \in Cursors(T) /\ inside.pos = next.pos + 1
      BY <1>1, AdvanceIs
    <3>3. next.pos <= Len(T)
      BY <2>4, <1>1 DEF Here, At
    <3> HIDE DEF inside
    <3>4. inside.pos <= Len(T) + 1
      BY <3>2, <3>3, <1>1
    <3>5. CommentEnd(T, inside) \in Cursors(T) /\ CommentEnd(T, inside).pos \in inside.pos .. Len(T) + 1
      BY <3>2, <3>4, CommentEndIs
    <3> QED
      BY <3>1, <3>2, <3>5, <2>1, <1>1 DEF d
  <2>5. CASE Here(T, next) \notin {"/", "*"}
    <3>1. d = next
      BY <2>1, <2>5, <1>3, <1>6
    <3> QED
      BY <3>1, <2>1, <2>2, <1>1 DEF d
  <2> QED
    BY <2>3, <2>4, <2>5
<1> QED
  BY <1>4, <1>5, <1>6 DEF Skipped

(* Where the lexer has skipped all it can, a token begins or the text ends. *)
LEMMA SkipIs ==
  ASSUME NEW T \in Seq(STRING), NEW c \in Cursors(T), c.pos <= Len(T) + 2
  PROVE  LET d == Skip(T, c)
         IN d \in Cursors(T) /\ c.pos <= d.pos /\ d.pos <= Len(T) + 2 /\ Here(T, d) \notin Skipped
<1> DEFINE left == Len(T) + 1 - c.pos
           X == {d \in Cursors(T) : d.pos <= Len(T) + 1}
           step == [d \in X |-> SkipOne(T, d)]
           skip == CHOOSE f : f = [n \in 0 .. left |-> IF n = 0 THEN c ELSE SkipOne(T, f[n - 1])]
<1>1. Len(T) \in Nat /\ c.pos \in Nat \ {0}
  BY LenProperties, AdvanceIs
<1>2. Skip(T, c) = IF left < 0 THEN c ELSE skip[left]
  BY Zenon DEF Skip
<1>3. left \in Int /\ c.pos + left = Len(T) + 1
  BY <1>1
<1> HIDE DEF left
<1>4. CASE left < 0
  <2>1. Skip(T, c) = c
    BY <1>2, <1>4
  <2>2. ~(c.pos <= Len(T))
    BY <1>1, <1>3, <1>4
  <2>3. Here(T, c) \notin Skipped
    BY <2>2 DEF Here, At, Skipped, Blanks
  <2> QED
    BY <2>1, <2>3, <1>1
<1>5. CASE ~(left < 0)
  <2>1. left \in Nat /\ c.pos <= Len(T) + 1
    BY <1>1, <1>3, <1>5
  <2>2. step \in [X -> X] /\ c \in X
    BY <2>1, SkipOneIs
  <2>3. PICK f : Iterates(f, X, c, left, step)
    <3> HIDE DEF step, X
    <3> QED BY <2>1, <2>2, IterationExists
  <2>4. f \in [0 .. left -> X] /\ \A n \in 0 .. left : f[n] = IF n = 0 THEN c ELSE SkipOne(T, f[n - 1])
    <3>1. f \in [0 .. left -> X] /\ f[0] = c /\ \A n \in 1 .. left : f[n] = step[f[n - 1]]
      BY <2>3 DEF Iterates
    <3>2. \A n \in 1 .. left : n - 1 \in 0 .. left
      BY <2>1
    <3>3. \A n \in 1 .. left : f[n - 1] \in X
      <4> HIDE DEF X
      <4> QED BY <3>1, <3>2
    <3>4. \A n \in 1 .. left : f[n] = SkipOne(T, f[n - 1])
      <4> HIDE DEF X
      <4> QED BY <3>1, <3>3
    <3>5. \A n \in 0 .. left : n # 0 => n \in 1 .. left
      BY <2>1
    <3> HIDE DEF X, step
    <3> QED
      BY <3>1, <3>4, <3>5
  <2>5. skip = [n \in 0 .. left |-> IF n = 0 THEN c ELSE SkipOne(T, skip[n - 1])]
    <3> DEFINE g == [n \in 0 .. left |-> IF n = 0 THEN c ELSE SkipOne(T, f[n - 1])]
    <3>1. f = g
      <4>1. DOMAIN g = 0 .. left /\ DOMAIN f = 0 .. left /\ \A n \in 0 .. left : g[n] = f[n]
        BY <2>4
      <4>2. g = [n \in DOMAIN g |-> g[n]] /\ f = [n \in DOMAIN f |-> f[n]]
        BY <2>4
      <4> HIDE DEF g
      <4> QED
        BY <4>1, <4>2, Zenon
    <3>2. f = [n \in 0 .. left |-> IF n = 0 THEN c ELSE SkipOne(T, f[n - 1])]
      BY <3>1, Zenon
    <3> QED
      BY <3>2, Zenon
  <2> HIDE DEF skip, step
  <2>6. skip[0] = c /\ \A n \in 1 .. left : skip[n] = SkipOne(T, skip[n - 1])
    BY <2>1, <2>5
  <2> DEFINE Reached(n) ==
               /\ skip[n] \in Cursors(T) /\ skip[n].pos <= Len(T) + 1 /\ c.pos <= skip[n].pos
               /\ Here(T, skip[n]) \in Skipped => skip[n].pos >= c.pos + n
             S == {n \in 0 .. left : ~Reached(n)}
  <2>7. S = {}
    <3> SUFFICES ASSUME S # {} PROVE FALSE
      OBVIOUS
    <3>1. PICK n \in S : \A m \in S : n <= m
      <4>1. S \in SUBSET Nat
        BY <2>1
      <4> HIDE DEF S
      <4> QED BY <4>1, LeastNat
    <3>2. n \in 0 .. left /\ ~Reached(n)
      OBVIOUS
    <3>3. n # 0
      <4>1. Reached(0)
        BY <1>1, <2>1, <2>6
      <4> HIDE DEF Reached
      <4> QED
        BY <3>2, <4>1
    <3>4. n \in 1 .. left /\ n - 1 \in 0 .. left /\ Reached(n - 1)
      <4>1. n \in 1 .. left /\ n - 1 \in 0 .. left /\ n - 1 \notin S
        BY <3>1, <3>2, <3>3, <2>1
      <4> HIDE DEF Reached
      <4> QED
        BY <4>1
    <3> DEFINE d == skip[n - 1]
               e == skip[n]
    <3>5. /\ d \in Cursors(T) /\ d.pos <= Len(T) + 1 /\ c.pos <= d.pos
          /\ Here(T, d) \in Skipped => d.pos >= c.pos + (n - 1)
      BY <3>4
    <3>6. e = SkipOne(T, d)
      BY <3>4, <2>6
    <3> HIDE DEF d, e
    <3>7. /\ e \in Cursors(T) /\ e.pos <= Len(T) + 1
          /\ IF Here(T, d) \in Skipped THEN e.pos >= d.pos + 1 ELSE e = d
      BY <3>5, <3>6, SkipOneIs
    <3>8. d.pos \in Nat /\ e.pos \in Nat /\ n \in Nat
      <4>1. d.pos \in Nat
        BY <3>5, AdvanceIs
      <4>2. e.pos \in Nat
        BY <3>7, AdvanceIs
      <4>3. n \in Nat
        BY <3>2, <2>1
      <4> QED
        BY <4>1, <4>2, <4>3

    <3>9. c.pos <= e.pos /\ (Here(T, e) \in Skipped => e.pos >= c.pos + n)
      BY <3>5, <3>7, <3>8, <1>1
    <3> QED
      BY <3>2, <3>7, <3>9 DEF e
  <2>8. Reached(left)
    <3>1. left \in 0 .. left
      BY <2>1
    <3> HIDE DEF Reached
    <3> QED
      BY <3>1, <2>7
  <2> DEFINE d == skip[left]
  <2>9. Skip(T, c) = d
    BY <1>2, <1>5
  <2>10. /\ d \in Cursors(T) /\ d.pos <= Len(T) + 1 /\ c.pos <= d.pos
         /\ Here(T, d) \in Skipped => d.pos >= c.pos + left
    BY <2>8
  <2> HIDE DEF d
  <2>11. d.pos \in Nat
    BY <2>10, AdvanceIs
  <2>12. Here(T, d) \notin Skipped
    <3>1. Here(T, d) \in Skipped => d.pos <= Len(T)
      BY DEF Here, At, Skipped, Blanks
    <3> QED
      BY <3>1, <2>10, <2>11, <1>1, <1>3
  <2> QED
    BY <2>9, <2>10, <2>11, <2>12, <1>1
<1> QED
  BY <1>4, <1>5

(***************************************************************************)
(* The tokens.                                                              *)
(***************************************************************************)
(* A token that says where it is: PlacesRight of any text and token.        *)
Right(T, t) ==
  t.at \in DOMAIN T =>
    /\ t.line = 1 + Cardinality(Newlines(T, t.at - 1)) +
         Cardinality({j \in DOMAIN t.text : t.text[j] = "\n"})
    /\ t.column = t.at - Max(Newlines(T, t.at - 1) \cup {0})

(* A token is at its place if every line end passed over is in its text.    *)
LEMMA TokenRight ==
  ASSUME NEW T \in Seq(STRING), NEW c \in Cursors(T), NEW after \in Cursors(T),
         NEW kind, NEW from \in Cursors(T), NEW to \in Cursors(T),
         c.pos <= from.pos, from.pos <= to.pos, to.pos <= after.pos, to.pos <= Len(T) + 1,
         \A p \in c.pos .. from.pos - 1 : At(T, p) # "\n",
         \A p \in to.pos .. after.pos - 1 : At(T, p) # "\n"
  PROVE  Right(T, TokenOf(T, kind, c, from, to, after).token)
<1> DEFINE t == TokenOf(T, kind, c, from, to, after).token
           word == SubSeq(T, from.pos, to.pos - 1)
           n == to.pos - from.pos
           m == from.pos - 1
           start == c.pos - 1
           last == to.pos - 1
           end == after.pos - 1
           inside == {j \in DOMAIN word : word[j] = "\n"}
<1>1. t.at = c.pos /\ t.line = after.line /\ t.column = c.column /\ t.text = word
  BY DEF TokenOf
<1>2. /\ Len(T) \in Nat /\ DOMAIN T = 1 .. Len(T) /\ \A i \in 1 .. Len(T) : T[i] \in STRING
      /\ c.pos \in Nat \ {0} /\ from.pos \in Nat \ {0} /\ to.pos \in Nat \ {0} /\ after.pos \in Nat \ {0}
  <2>1. Len(T) \in Nat /\ DOMAIN T = 1 .. Len(T) /\ \A i \in 1 .. Len(T) : T[i] \in STRING
    BY LenProperties, ElementOfSeq
  <2>2. c.pos \in Nat \ {0}
    BY AdvanceIs
  <2>3. from.pos \in Nat \ {0}
    BY AdvanceIs
  <2>4. to.pos \in Nat \ {0}
    BY AdvanceIs
  <2>5. after.pos \in Nat \ {0}
    BY AdvanceIs
  <2> QED
    BY <2>1, <2>2, <2>3, <2>4, <2>5
<1>3. /\ n \in Nat /\ m \in Nat /\ start \in Nat /\ last \in Nat /\ end \in Nat
      /\ start <= m /\ last <= end /\ m + n = last
  <2>1. \A w, x, y, z \in Nat \ {0} : w <= x /\ x <= y /\ y <= z =>
          /\ y - x \in Nat /\ x - 1 \in Nat /\ w - 1 \in Nat /\ y - 1 \in Nat /\ z - 1 \in Nat
          /\ w - 1 <= x - 1 /\ y - 1 <= z - 1 /\ (x - 1) + (y - x) = y - 1
    OBVIOUS
  <2> QED
    BY <1>2, <2>1, Zenon

<1>4. Newlines(T, m) = Newlines(T, start)
  <2>1. \A i \in start + 1 .. m : At(T, i) # "\n"
    <3>1. start + 1 = c.pos
      BY <1>2
    <3> QED
      BY <3>1
  <2> HIDE DEF m, start
  <2> QED
    BY <2>1, <1>3, NewlinesSame
<1>5. Newlines(T, end) = Newlines(T, last)
  <2>1. \A i \in last + 1 .. end : At(T, i) # "\n"
    <3>1. last + 1 = to.pos
      BY <1>2
    <3> QED
      BY <3>1
  <2> HIDE DEF last, end
  <2> QED
    BY <2>1, <1>3, NewlinesSame
<1>6. \A i \in from.pos .. to.pos - 1 : T[i] \in STRING
  BY <1>2
<1>7. /\ word \in Seq(STRING)
      /\ Len(word) = IF from.pos <= to.pos - 1 THEN (to.pos - 1) - from.pos + 1 ELSE 0
      /\ \A j \in 1 .. (to.pos - 1) - from.pos + 1 : word[j] = T[from.pos + j - 1]
  <2>1. from.pos \in Int /\ to.pos - 1 \in Int
    BY <1>2
  <2> DEFINE a == from.pos
             b == to.pos - 1
  <2>2. a \in Int /\ b \in Int /\ \A i \in a .. b : T[i] \in STRING
    BY <2>1, <1>6
  <2> HIDE DEF a, b
  <2>3. /\ SubSeq(T, a, b) \in Seq(STRING)
        /\ Len(SubSeq(T, a, b)) = IF a <= b THEN b - a + 1 ELSE 0
        /\ \A j \in 1 .. b - a + 1 : SubSeq(T, a, b)[j] = T[a + j - 1]
    BY <2>2, SubSeqProperties
  <2> QED
    BY <2>3 DEF a, b
<1>8. (to.pos - 1) - from.pos + 1 = n /\ Len(word) = n
  <2> HIDE DEF word
  <2> QED BY <1>2, <1>7
<1>9. DOMAIN word = 1 .. n
  <2> HIDE DEF word, n
  <2> QED BY <1>7, <1>8, LenProperties
<1>10. ASSUME NEW j \in 1 .. n PROVE word[j] = At(T, m + j)
  <2>1. from.pos + j - 1 = m + j /\ m + j <= Len(T)
    BY <1>2
  <2>2. j \in 1 .. (to.pos - 1) - from.pos + 1
    BY <1>2
  <2>3. word[j] = T[from.pos + j - 1]
    BY <2>2, <1>7
  <2> HIDE DEF word
  <2> QED
    BY <2>1, <2>3 DEF At
<1> HIDE DEF word, t
<1>11. inside = {j \in 1 .. n : At(T, m + j) = "\n"}
  <2> HIDE DEF m, n
  <2> QED BY <1>9, <1>10
<1> HIDE DEF n, m, start, last, end, inside
<1>12. Cardinality(Newlines(T, m + n)) =
         Cardinality(Newlines(T, m)) + Cardinality({j \in 1 .. n : At(T, m + j) = "\n"})
  BY <1>3, NewlinesOver
<1>13. Cardinality(Newlines(T, end)) = Cardinality(Newlines(T, start)) + Cardinality(inside)
  BY <1>3, <1>4, <1>5, <1>11, <1>12, Zenon
<1>14. after.line = 1 + Cardinality(Newlines(T, end)) /\ c.column = c.pos - Max(Newlines(T, start) \cup {0})
  BY DEF Cursors, Placed, start, end
<1>15. Cardinality(Newlines(T, start)) \in Nat /\ Cardinality(Newlines(T, end)) \in Nat
  BY <1>3, NewlinesStep
<1>16. Cardinality(inside) \in Nat
  <2>1. IsFiniteSet(1 .. n)
    BY <1>3, FS_Interval
  <2>2. inside \in SUBSET (1 .. n)
    BY <1>11
  <2> QED
    BY <2>1, <2>2, FS_Subset, FS_CardinalityType
<1>17. after.line = 1 + Cardinality(Newlines(T, start)) + Cardinality(inside)
  BY <1>13, <1>14, <1>15, <1>16
<1>18. Newlines(T, t.at - 1) = Newlines(T, start)
  BY <1>1 DEF start
<1>19. {j \in DOMAIN t.text : t.text[j] = "\n"} = inside
  BY <1>1 DEF inside
<1>20. t.column = t.at - Max(Newlines(T, start) \cup {0})
  BY <1>1, <1>14
<1>21. t.line = 1 + Cardinality(Newlines(T, start)) + Cardinality(inside)
  BY <1>1, <1>17
<1>22. Right(T, t)
  BY <1>18, <1>19, <1>20, <1>21 DEF Right
<1> QED
  BY <1>22 DEF t

(* What is scanned from a place: a token at its place, and the lexer behind *)
(* it.                                                                      *)
Scanned(T, c, l) ==
  /\ l.after \in Cursors(T) /\ l.after.pos <= Len(T) + 2
  /\ l.token.kind # "end" => l.after.pos >= c.pos + 1
  /\ Right(T, l.token)

(* No line end is part of a word or a number.                               *)
LEMMA NoNewline ==
  "\n" \notin Letters /\ "\n" \notin HexDigits /\ "\n" \notin Digits
  BY DEF Letters, HexDigits, Digits

(* A word.                                                                  *)
LEMMA WordIs ==
  ASSUME NEW T \in Seq(STRING), NEW c \in Cursors(T), c.pos <= Len(T), Here(T, c) \in Letters
  PROVE  Scanned(T, c, Word(T, c))
<1> DEFINE end == Over(T, c, Letters)
           kind == IF SubSeq(T, c.pos, end.pos - 1) \in Keywords THEN "keyword" ELSE "identifier"
<1>1. "end" \notin Letters
  BY DEF Letters, HexDigits, Digits
<1>2. Len(T) \in Nat /\ c.pos \in Nat
  BY LenProperties, AdvanceIs
<1>3. /\ end \in Cursors(T) /\ end.pos \in c.pos .. Len(T) + 1 /\ Here(T, end) \notin Letters
      /\ \A p \in c.pos .. end.pos - 1 : At(T, p) \in Letters
  BY <1>1, <1>2, OverIs
<1>4. Word(T, c) = TokenOf(T, kind, c, c, end, end)
  BY DEF Word
<1> HIDE DEF end, kind
<1>5. end.pos # c.pos
  BY <1>3 DEF Here
<1>6. end.pos >= c.pos + 1 /\ end.pos <= Len(T) + 1
  BY <1>2, <1>3, <1>5
<1>7. Right(T, TokenOf(T, kind, c, c, end, end).token)
  <2>1. (\A p \in c.pos .. c.pos - 1 : At(T, p) # "\n") /\ (\A p \in end.pos .. end.pos - 1 : At(T, p) # "\n")
    BY <1>2, <1>3
  <2>2. c.pos <= c.pos /\ c.pos <= end.pos /\ end.pos <= end.pos
    BY <1>2, <1>3
  <2> QED
    BY <2>1, <2>2, <1>3, <1>6, TokenRight
<1>8. TokenOf(T, kind, c, c, end, end).after = end
  BY DEF TokenOf
<1> QED
  BY <1>2, <1>3, <1>4, <1>6, <1>7, <1>8 DEF Scanned

(* A number: its prefix holds no line end.                                  *)
LEMMA NumberIs ==
  ASSUME NEW T \in Seq(STRING), NEW c \in Cursors(T), c.pos <= Len(T), Here(T, c) \in Digits
  PROVE  Scanned(T, c, Number(T, c))
<1> DEFINE next == Advance(T, c)
           from == Advance(T, next)
           octal == Over(T, next, Digits)
           decimal == Over(T, c, Digits)
<1>1. "end" \notin Digits /\ "end" \notin HexDigits /\ "end" \notin {"0", "1"} /\ "end" \notin {"x", "X", "b", "B"}
  BY DEF HexDigits, Digits
<1>2. Len(T) \in Nat /\ c.pos \in Nat /\ next \in Cursors(T) /\ next.pos = c.pos + 1 /\ next.pos <= Len(T) + 1
  BY LenProperties, AdvanceIs
<1>3. from \in Cursors(T) /\ from.pos = next.pos + 1
  BY <1>2, AdvanceIs
<1> HIDE DEF next, from
<1>4. ASSUME Here(T, next) # "end" PROVE next.pos <= Len(T)
  BY <1>4 DEF Here, At
(* Scanned from a place on, over digits of a base, behind a prefix.         *)
<1>5. ASSUME NEW begin \in Cursors(T), NEW set, "end" \notin set, "\n" \notin set,
             c.pos <= begin.pos, begin.pos <= Len(T) + 1,
             \A p \in c.pos .. begin.pos - 1 : At(T, p) # "\n",
             begin.pos >= c.pos + 1 \/ Here(T, begin) \in set
      PROVE  Scanned(T, c, TokenOf(T, "number", c, begin, Over(T, begin, set), Over(T, begin, set)))
  <2> DEFINE end == Over(T, begin, set)
  <2>1. end \in Cursors(T) /\ end.pos \in begin.pos .. Len(T) + 1 /\ Here(T, end) \notin set
    BY <1>5, OverIs
  <2> HIDE DEF end
  <2>2. begin.pos \in Nat /\ end.pos \in Nat
    <3>1. begin.pos \in Nat
      BY AdvanceIs
    <3> QED
      BY <3>1, <2>1
  <2>3. end.pos >= c.pos + 1
    <3>1. CASE begin.pos >= c.pos + 1
      BY <3>1, <2>1, <2>2, <1>2
    <3>2. CASE Here(T, begin) \in set
      <4>1. end.pos # begin.pos
        BY <3>2, <2>1 DEF Here
      <4> QED
        BY <4>1, <2>1, <2>2, <1>2, <1>5
    <3> QED
      BY <3>1, <3>2, <1>5
  <2>4. (\A p \in end.pos .. end.pos - 1 : At(T, p) # "\n") /\ begin.pos <= end.pos /\ end.pos <= end.pos
        /\ end.pos <= Len(T) + 1
    BY <2>1, <2>2
  <2>5. Right(T, TokenOf(T, "number", c, begin, end, end).token)
    BY <2>1, <2>4, <1>5, TokenRight
  <2>6. TokenOf(T, "number", c, begin, end, end).after = end
    BY DEF TokenOf
  <2>7. end.pos <= Len(T) + 2
    BY <2>1, <2>2, <1>2
  <2> QED
    BY <2>1, <2>3, <2>5, <2>6, <2>7 DEF Scanned, end
<1>6. \A p \in c.pos .. c.pos - 1 : At(T, p) # "\n"
  BY <1>2
<1>7. At(T, c.pos) # "\n"
  BY NoNewline DEF Here
<1>8. \A p \in c.pos .. next.pos - 1 : At(T, p) # "\n"
  <2>1. \A p \in c.pos .. next.pos - 1 : p = c.pos
    BY <1>2
  <2> QED
    BY <2>1, <1>7
<1>9. CASE Here(T, c) # "0"
  <2>1. Number(T, c) = TokenOf(T, "number", c, c, decimal, decimal)
    BY <1>9 DEF Number
  <2>2. Scanned(T, c, TokenOf(T, "number", c, c, decimal, decimal))
    <3>1. c.pos <= c.pos /\ c.pos <= Len(T) + 1
      BY <1>2
    <3> QED
      BY <3>1, <1>1, <1>5, <1>6, NoNewline
  <2> QED
    BY <2>1, <2>2
<1>10. ASSUME Here(T, c) = "0", Here(T, next) \in {"x", "X", "b", "B"},
              NEW set, "end" \notin set, "\n" \notin set
       PROVE  Scanned(T, c, TokenOf(T, "number", c, from, Over(T, from, set), Over(T, from, set)))
  <2>1. next.pos <= Len(T)
    BY <1>1, <1>4, <1>10
  <2>2. from.pos <= Len(T) + 1 /\ c.pos <= from.pos /\ from.pos >= c.pos + 1
    BY <2>1, <1>2, <1>3
  <2>3. \A p \in c.pos .. from.pos - 1 : At(T, p) # "\n"
    <3>1. \A p \in c.pos .. from.pos - 1 : p = c.pos \/ p = next.pos
      BY <1>2, <1>3
    <3>2. At(T, next.pos) # "\n"
      BY <1>10 DEF Here
    <3> QED
      BY <3>1, <3>2, <1>7
  <2> QED
    BY <2>2, <2>3, <1>3, <1>5, <1>10
<1>11. CASE Here(T, c) = "0" /\ Here(T, next) \in {"x", "X"}
  <2>1. Number(T, c) = TokenOf(T, "number", c, from, Over(T, from, HexDigits), Over(T, from, HexDigits))
    BY <1>11 DEF Number, next, from
  <2> QED
    BY <2>1, <1>1, <1>10, <1>11, NoNewline
<1>12. CASE Here(T, c) = "0" /\ Here(T, next) \in {"b", "B"}
  <2>1. Number(T, c) = TokenOf(T, "number", c, from, Over(T, from, {"0", "1"}), Over(T, from, {"0", "1"}))
    BY <1>12 DEF Number, next, from
  <2>2. "\n" \notin {"0", "1"}
    OBVIOUS
  <2> QED
    BY <2>1, <2>2, <1>1, <1>10, <1>12
<1>13. CASE Here(T, c) = "0" /\ Here(T, next) \in Digits
  <2>1. Number(T, c) = TokenOf(T, "number", c, next, octal, octal)
    BY <1>13 DEF Number, next, Digits
  <2>2. c.pos <= next.pos /\ next.pos >= c.pos + 1
    BY <1>2
  <2> QED
    BY <2>1, <2>2, <1>1, <1>2, <1>5, <1>8, NoNewline
<1>14. CASE Here(T, c) = "0" /\ Here(T, next) \notin Digits \cup {"x", "X", "b", "B"}
  <2>1. Number(T, c) = TokenOf(T, "number", c, c, next, next)
    BY <1>14 DEF Number, next
  <2>2. TokenOf(T, "number", c, c, next, next).after = next
    BY DEF TokenOf
  <2>3. c.pos <= c.pos /\ c.pos <= next.pos /\ next.pos <= next.pos /\ next.pos <= Len(T) + 2
        /\ next.pos >= c.pos + 1 /\ \A p \in next.pos .. next.pos - 1 : At(T, p) # "\n"
    BY <1>2
  <2>4. Right(T, TokenOf(T, "number", c, c, next, next).token)
    BY <2>3, <1>2, <1>6, TokenRight
  <2> QED
    BY <2>1, <2>2, <2>3, <2>4, <1>2 DEF Scanned
<1> QED
  BY <1>9, <1>11, <1>12, <1>13, <1>14

(* A string, closed or not: the line ends in it are in its text.            *)
LEMMA QuotedIs ==
  ASSUME NEW T \in Seq(STRING), NEW c \in Cursors(T), c.pos <= Len(T)
  PROVE  Scanned(T, c, Quoted(T, c))
<1> DEFINE next == Advance(T, c)
           end == UpTo(T, next, "\"")
           after == Advance(T, end)
           to == IF Here(T, end) = "end" THEN end ELSE after
<1>1. Len(T) \in Nat /\ c.pos \in Nat /\ next \in Cursors(T) /\ next.pos = c.pos + 1 /\ next.pos <= Len(T) + 1
  BY LenProperties, AdvanceIs
<1>2. Quoted(T, c) = TokenOf(T, "string", c, c, to, after)
  BY DEF Quoted
<1> HIDE DEF next
<1>3. end \in Cursors(T) /\ end.pos \in next.pos .. Len(T) + 1 /\ Here(T, end) \in {"\"", "end"}
  BY <1>1, UpToIs
<1> HIDE DEF end
<1>4. after \in Cursors(T) /\ after.pos = end.pos + 1
  BY <1>3, AdvanceIs
<1>4a. end.pos \in Nat /\ c.pos + 1 <= end.pos /\ end.pos <= Len(T) + 1
  <2> DEFINE a == c.pos
             b == next.pos
             e == end.pos
             n == Len(T)
  <2>1. a \in Nat /\ n \in Nat /\ b = a + 1 /\ e \in b .. n + 1
    BY <1>1, <1>3
  <2> HIDE DEF a, b, e, n
  <2>2. e \in Nat /\ a + 1 <= e /\ e <= n + 1
    BY <2>1
  <2> QED
    BY <2>2 DEF a, e, n

<1> HIDE DEF after
<1>5. to \in Cursors(T) /\ to.pos \in {end.pos, end.pos + 1} /\ to.pos <= Len(T) + 1
  <2>1. CASE Here(T, end) = "end"
    <3>1. to = end
      BY <2>1
    <3> HIDE DEF to
    <3> QED
      BY <3>1, <1>3, <1>4a
  <2>2. CASE Here(T, end) # "end"
    <3>1. end.pos <= Len(T)
      BY <2>2 DEF Here, At
    <3>2. to = after
      BY <2>2
    <3> HIDE DEF to
    <3> QED
      BY <3>1, <3>2, <1>1, <1>4, <1>4a
  <2> QED
    BY <2>1, <2>2
<1>6. \A p \in to.pos .. after.pos - 1 : At(T, p) # "\n"
  <2>1. CASE Here(T, end) = "end"
    <3>1. to = end
      BY <2>1
    <3> HIDE DEF to
    <3>2. \A p \in to.pos .. after.pos - 1 : p = end.pos
      BY <3>1, <1>4, <1>4a
    <3> QED
      BY <2>1, <3>2 DEF Here
  <2>2. CASE Here(T, end) # "end"
    <3>1. to = after
      BY <2>2
    <3> HIDE DEF to
    <3> QED
      BY <3>1, <1>4, <1>4a
  <2> QED
    BY <2>1, <2>2
<1> HIDE DEF to
<1>7. /\ c.pos <= c.pos /\ c.pos <= to.pos /\ to.pos <= after.pos
      /\ after.pos <= Len(T) + 2 /\ after.pos >= c.pos + 1
      /\ \A p \in c.pos .. c.pos - 1 : At(T, p) # "\n"
  BY <1>1, <1>4, <1>4a, <1>5
<1>8. Right(T, TokenOf(T, "string", c, c, to, after).token)
  BY <1>4, <1>5, <1>6, <1>7, TokenRight
<1>9. TokenOf(T, "string", c, c, to, after).after = after
  BY DEF TokenOf
<1> QED
  BY <1>2, <1>4, <1>7, <1>8, <1>9 DEF Scanned

(* Any other character.                                                     *)
LEMMA MarkIs ==
  ASSUME NEW T \in Seq(STRING), NEW c \in Cursors(T), c.pos <= Len(T), Here(T, c) # "\n"
  PROVE  Scanned(T, c, Mark(T, c))
<1> DEFINE next == Advance(T, c)
           kind == IF Here(T, c) \in Punctuation THEN "mark" ELSE "unknown"
<1>1. Len(T) \in Nat /\ c.pos \in Nat /\ next \in Cursors(T) /\ next.pos = c.pos + 1 /\ next.pos <= Len(T) + 1
  BY LenProperties, AdvanceIs
<1>2. Mark(T, c) = TokenOf(T, kind, c, c, next, next)
  BY DEF Mark
<1>3. TokenOf(T, kind, c, c, next, next).after = next
  BY DEF TokenOf
<1> HIDE DEF next, kind
<1>4. /\ c.pos <= c.pos /\ c.pos <= next.pos /\ next.pos <= next.pos /\ next.pos <= Len(T) + 2
      /\ next.pos >= c.pos + 1 /\ \A p \in next.pos .. next.pos - 1 : At(T, p) # "\n"
      /\ \A p \in c.pos .. c.pos - 1 : At(T, p) # "\n"
  BY <1>1
<1>5. Right(T, TokenOf(T, kind, c, c, next, next).token)
  BY <1>1, <1>4, TokenRight
<1> QED
  BY <1>1, <1>2, <1>3, <1>4, <1>5 DEF Scanned

(* One call of next_token().                                                *)
LEMMA LexedIs ==
  ASSUME NEW T \in Texts, NEW c \in Cursors(T), c.pos <= Len(T) + 2
  PROVE  Scanned(T, c, Lexed(T, c))
<1> DEFINE d == Skip(T, c)
           first == Here(T, d)
<1>1. T \in Seq(STRING) /\ "end" \notin Range(T)
  BY TextAssumption
<1>2. Len(T) \in Nat /\ DOMAIN T = 1 .. Len(T)
  BY <1>1, LenProperties
<1>3. d \in Cursors(T) /\ c.pos <= d.pos /\ d.pos <= Len(T) + 2 /\ Here(T, d) \notin Skipped
  BY <1>1, SkipIs
<1>4. Lexed(T, c) =
        IF first = "end" THEN TokenOf(T, "end", d, d, d, d)
        ELSE IF first \in Letters \ Digits THEN Word(T, d)
        ELSE IF first \in Digits THEN Number(T, d)
        ELSE IF first = "\"" THEN Quoted(T, d)
        ELSE Mark(T, d)
  BY DEF Lexed
<1> HIDE DEF d
<1>5. d.pos \in Nat \ {0} /\ c.pos \in Nat \ {0}
  BY <1>3, AdvanceIs
<1>6. first # "end" => d.pos <= Len(T) /\ first # "\n"
  BY <1>3 DEF Here, At, Skipped, Blanks
<1>7. ASSUME NEW l, Scanned(T, d, l) PROVE Scanned(T, c, l)
  <2>1. /\ l.after \in Cursors(T) /\ l.after.pos <= Len(T) + 2
        /\ l.token.kind # "end" => l.after.pos >= d.pos + 1
        /\ Right(T, l.token)
    BY <1>7 DEF Scanned
  <2>2. l.after.pos \in Nat
    BY <2>1, AdvanceIs
  <2> DEFINE a == l.after.pos
             b == d.pos
  <2>3. a \in Nat /\ b \in Nat /\ c.pos <= b /\ (l.token.kind # "end" => a >= b + 1)
    BY <2>1, <2>2, <1>3, <1>5
  <2> HIDE DEF a, b
  <2>4. l.token.kind # "end" => a >= c.pos + 1
    BY <2>3, <1>5
  <2> QED
    BY <2>1, <2>4 DEF Scanned, a
<1>8. CASE first = "end"
  <2> DEFINE l == TokenOf(T, "end", d, d, d, d)
  <2>1. l.token.kind = "end" /\ l.after = d /\ l.token.at = d.pos
    BY DEF TokenOf
  <2>2. d.pos \notin DOMAIN T
    <3>1. d.pos <= Len(T) => T[d.pos] = "end"
      BY <1>8 DEF Here, At
    <3> QED
      BY <3>1, <1>1, <1>2, <1>5 DEF Range
  <2> HIDE DEF l
  <2>3. Right(T, l.token)
    BY <2>1, <2>2 DEF Right
  <2>4. Scanned(T, c, l)
    BY <2>1, <2>3, <1>3 DEF Scanned
  <2> QED
    BY <2>4, <1>4, <1>8 DEF l
<1>9. CASE first # "end" /\ first \in Letters \ Digits
  BY <1>1, <1>3, <1>4, <1>6, <1>7, <1>9, WordIs
<1>10. CASE first # "end" /\ first \in Digits
  <2>1. Lexed(T, c) = Number(T, d)
    BY <1>4, <1>10
  <2> QED
    BY <2>1, <1>1, <1>3, <1>6, <1>7, <1>10, NumberIs
<1>11. CASE first # "end" /\ first \notin Letters \cup Digits /\ first = "\""
  <2>1. Lexed(T, c) = Quoted(T, d)
    BY <1>4, <1>11
  <2> QED
    BY <2>1, <1>1, <1>3, <1>6, <1>7, <1>11, QuotedIs
<1>12. CASE first # "end" /\ first \notin Letters \cup Digits /\ first # "\""
  <2>1. Lexed(T, c) = Mark(T, d)
    BY <1>4, <1>12
  <2> QED
    BY <2>1, <1>1, <1>3, <1>6, <1>7, <1>12, MarkIs
<1> QED
  BY <1>8, <1>9, <1>10, <1>11, <1>12

(***************************************************************************)
(* The lexer from call to call.                                             *)
(***************************************************************************)
(* IInv in terms of the lemmas.                                             *)
Stands ==
  text \in Texts /\ cursor \in Cursors(text) /\ cursor.pos <= Len(text) + 2 /\ Right(text, token)

(* They say the same.                                                       *)
LEMMA InvIs == IInv <=> Stands
<1>1. text \in Texts => Len(text) \in Nat
  BY TextAssumption, LenProperties
<1>2. PlacesRight <=> Right(text, token)
  BY DEF PlacesRight, Right
<1>3. text \in Texts => (cursor \in [pos : 1 .. Len(text) + 2, line : Nat, column : Nat] <=>
        cursor \in [pos : Nat \ {0}, line : Nat, column : Nat] /\ cursor.pos <= Len(text) + 2)
  BY <1>1
<1> QED
  BY <1>2, <1>3 DEF IInv, Cursors, Stands

(* The first character of the first line.                                   *)
LEMMA InitInv == Init => IInv
<1> SUFFICES ASSUME Init PROVE IInv
  OBVIOUS
<1>1. text \in Texts /\ cursor = Begin /\ token = NoToken
  BY DEF Init
<1>2. text \in Seq(STRING) /\ Len(text) \in Nat /\ DOMAIN text = 1 .. Len(text)
  BY <1>1, TextAssumption, LenProperties
<1>3. Newlines(text, 0) = {}
  BY DEF Newlines
<1>4. Max({0}) = 0
  <2>1. {0} \in SUBSET Int /\ 0 \in {0} /\ \A x \in {0} : x <= 0
    OBVIOUS
  <2> QED
    BY <2>1, MaxIsLargest
<1>5. Cardinality({}) = 0
  BY FS_EmptySet
<1>6. Placed(text, Begin)
  <2>1. Begin.pos - 1 = 0 /\ Begin.pos = 1 /\ Begin.line = 1 /\ Begin.column = 1
    BY DEF Begin
  <2>2. {} \cup {0} = {0}
    OBVIOUS
  <2> QED
    BY <2>1, <2>2, <1>3, <1>4, <1>5 DEF Placed
<1>7. Begin \in [pos : Nat \ {0}, line : Nat, column : Nat] /\ Begin.pos <= Len(text) + 2
  BY <1>2 DEF Begin
<1>8. Right(text, NoToken)
  <2>1. NoToken.at = 0
    BY DEF NoToken
  <2> QED
    BY <2>1, <1>2 DEF Right
<1> QED
  BY <1>1, <1>6, <1>7, <1>8, InvIs DEF Cursors, Stands

(* A call from there passes something over, or is at the end.               *)
LEMMA NextTokenIs ==
  ASSUME IInv, NextToken
  PROVE  /\ IInv'
         /\ token'.kind # "end" => cursor'.pos > cursor.pos
         /\ cursor'.pos <= Len(text) + 2
<1> DEFINE l == Lexed(text, cursor)
<1>1. text \in Texts /\ cursor \in Cursors(text) /\ cursor.pos <= Len(text) + 2
  BY InvIs DEF Stands
<1>2. cursor' = l.after /\ token' = l.token /\ text' = text
  BY DEF NextToken
<1>3. Scanned(text, cursor, l)
  BY <1>1, LexedIs
<1> HIDE DEF l
<1>4. /\ cursor' \in Cursors(text) /\ cursor'.pos <= Len(text) + 2 /\ Right(text, token')
      /\ token'.kind # "end" => cursor'.pos >= cursor.pos + 1
  BY <1>2, <1>3 DEF Scanned
<1>5. cursor.pos \in Nat
  BY <1>1, AdvanceIs
<1>6. cursor'.pos \in Nat
  BY <1>4, AdvanceIs
<1>7. token'.kind # "end" => cursor'.pos > cursor.pos
  BY <1>4, <1>5, <1>6
<1>8. IInv' <=> Stands'
  BY InvIs, PTL
<1>9. IInv'
  BY <1>1, <1>2, <1>4, <1>8 DEF Stands

<1> QED
  BY <1>4, <1>7, <1>9

(* A step that changes nothing.                                             *)
LEMMA SameInv == IInv /\ UNCHANGED vars => IInv'
<1> SUFFICES ASSUME IInv, UNCHANGED vars PROVE IInv'
  OBVIOUS
<1> QED
  BY DEF IInv, vars, Placed, PlacesRight

(* Every step of the lexer.                                                 *)
LEMMA NextInv == IInv /\ [Next]_vars => IInv'
<1> SUFFICES ASSUME IInv, [Next]_vars PROVE IInv'
  OBVIOUS
<1>1. CASE NextToken
  BY <1>1, NextTokenIs
<1>2. CASE UNCHANGED vars
  BY <1>2, SameInv
<1> QED
  BY <1>1, <1>2 DEF Next, Finished

(* Wherever a call leaves the lexer, its line and column are those of the   *)
(* character it stands on.                                                  *)
THEOREM LexerStands == Spec => []IInv
  BY InitInv, NextInv, PTL DEF Spec

(* The place a token is given is where it begins, but that a string over    *)
(* several lines is said to be on its last.                                 *)
THEOREM TokenPlaces == Spec => []PlacesRight
<1>1. IInv => PlacesRight
  BY DEF IInv
<1> QED
  BY <1>1, LexerStands, PTL

(* Every call passes something over, until the end, and none goes on more   *)
(* than a character behind it.                                              *)
THEOREM TextsEnd == Spec => TextEnds
<1>1. IInv /\ [Next]_vars =>
        [(token'.kind # "end" => cursor'.pos > cursor.pos) /\ cursor'.pos <= Len(text) + 2]_vars
  <2> SUFFICES ASSUME IInv, [Next]_vars
               PROVE  [(token'.kind # "end" => cursor'.pos > cursor.pos) /\
                         cursor'.pos <= Len(text) + 2]_vars
    OBVIOUS
  <2>1. CASE NextToken
    BY <2>1, NextTokenIs
  <2>2. CASE UNCHANGED vars
    BY <2>2
  <2> QED
    BY <2>1, <2>2 DEF Next, Finished
<1> QED
  BY <1>1, LexerStands, PTL DEF Spec, TextEnds
=============================================================================
