------------------------- MODULE SidlCompileProofs --------------------------
(***************************************************************************)
(* Proofs about SidlCompile, for any set of files, any sources, any number  *)
(* of revisions and functions, and any number of damaged fields.            *)
(*                                                                          *)
(* The inductive invariant IInv and its parts are in SidlCompileInv.        *)
(***************************************************************************)
EXTENDS SidlCompileInv, SifTheorems

(* Ids handed out from a natural counter make functions.                    *)
LEMMA NumberedFuncs ==
  ASSUME NEW names \in Seq(Names), NEW n \in Nat
  PROVE  Numbered(names, n) \in Seq(Funcs)
<1>1. Len(names) \in Nat /\ DOMAIN names = 1 .. Len(names)
      /\ \A j \in 1 .. Len(names) : names[j] \in Names
  BY LenProperties
<1>2. Numbered(names, n) \in [1 .. Len(names) -> Funcs]
  BY <1>1 DEF Numbered, Funcs
<1> QED
  BY <1>1, <1>2, SeqDef

(* A revision the parser accepts becomes a node.                            *)
LEMMA ParsedNode ==
  ASSUME NEW s \in Sources, NEW k \in Nat, k >= 1, k <= Len(Text(s).revs),
         Text(s).revs[k].body # Malformed, NEW n \in Nat
  PROVE  /\ Text(s).revs[k].names \in Seq(Names)
         /\ Text(s).revs[k].version \in Nat
         /\ [version |-> Text(s).revs[k].version, body |-> Text(s).revs[k].body,
             funcs |-> Numbered(Text(s).revs[k].names, n)] \in Nodes
<1>1. Text(s).revs \in Seq(Revs)
  BY TextAssumption
<1>2. Text(s).revs[k] \in Revs
  BY <1>1, LenProperties
<1>3. Numbered(Text(s).revs[k].names, n) \in Seq(Funcs)
  BY <1>2, NumberedFuncs DEF Revs
<1> QED
  BY <1>2, <1>3 DEF Revs, Nodes

(* A truncated file has the shape of a file.                                *)
LEMMA BlankOK == FileOK(Blank)
  BY IsSeqEmpty DEF FileOK, Blank

(* Damage keeps the shape of a file, and only ever rots hashes.             *)
LEMMA SpoiltNode ==
  ASSUME NEW node \in Nodes, NEW j \in DOMAIN node.funcs, NEW d \in Nat
  PROVE  WithId(node, j, d) \in Nodes
<1>1. node.funcs \in Seq(Funcs) /\ node.version \in Nat /\ node.body \in Bodies
  BY DEF Nodes
<1>2. /\ Len(node.funcs) \in Nat /\ node.funcs \in [1 .. Len(node.funcs) -> Funcs]
      /\ DOMAIN node.funcs = 1 .. Len(node.funcs)
  BY <1>1, LenProperties
<1>3. [name |-> node.funcs[j].name, id |-> d] \in Funcs
  BY <1>2 DEF Funcs
<1>4. [node.funcs EXCEPT ![j] = [name |-> node.funcs[j].name, id |-> d]]
        \in [1 .. Len(node.funcs) -> Funcs]
  BY <1>2, <1>3
<1>5. [node.funcs EXCEPT ![j] = [name |-> node.funcs[j].name, id |-> d]] \in Seq(Funcs)
  BY <1>2, <1>4, SeqDef
<1> QED
  BY <1>1, <1>5 DEF Nodes, WithId

(* The functions of a node are a sequence of naturally numbered ones.       *)
LEMMA NodeFuncs ==
  ASSUME NEW node \in Nodes
  PROVE  /\ Len(node.funcs) \in Nat /\ DOMAIN node.funcs = 1 .. Len(node.funcs)
         /\ \A j \in DOMAIN node.funcs : node.funcs[j].id \in Nat
<1>1. node.funcs \in Seq(Funcs)
  BY DEF Nodes
<1>2. /\ Len(node.funcs) \in Nat /\ DOMAIN node.funcs = 1 .. Len(node.funcs)
      /\ \A j \in 1 .. Len(node.funcs) : node.funcs[j] \in Funcs
  BY <1>1, LenProperties
<1> QED
  BY <1>2 DEF Funcs

OnlyRots(f, g) ==
  g.hashes # <<>> =>
    /\ Len(g.hashes) = Len(f.hashes)
    /\ \A i \in DOMAIN g.hashes : g.hashes[i] = f.hashes[i] \/ g.hashes[i] = Rot

(* A spoilt tree still holds a node.                                        *)
LEMMA SpoiltTree ==
  ASSUME NEW t, t.node \in Nodes, NEW u \in SpoiltTrees(t)
  PROVE  u.node \in Nodes
<1>1. CASE u = [node |-> t.node, prev |-> Rot]
  BY <1>1
<1>2. CASE u = [node |-> [t.node EXCEPT !.version = @ + 1], prev |-> t.prev]
  BY <1>2 DEF Nodes
<1>3. CASE \E b \in Bodies : u = [node |-> [t.node EXCEPT !.body = b], prev |-> t.prev]
  BY <1>3 DEF Nodes
<1>4. CASE \E j \in DOMAIN t.node.funcs :
             u = [node |-> WithId(t.node, j, t.node.funcs[j].id + 1), prev |-> t.prev]
  BY <1>4, SpoiltNode, NodeFuncs
<1> QED
  BY <1>1, <1>2, <1>3, <1>4 DEF SpoiltTrees

(* A spoilt file has the shape of a file, and its hashes only ever rot.     *)
LEMMA SpoiltFile ==
  ASSUME NEW f, FileOK(f), NEW g \in SpoiltFiles(f)
  PROVE  FileOK(g) /\ OnlyRots(f, g)
<1>1. CASE g = Blank
  BY <1>1, BlankOK DEF OnlyRots, Blank
<1>2. CASE g \in SpoiltHeads(f)
  <2>1. CASE g = [ident |-> f.ident, root |-> Rot, hashes |-> f.hashes, trees |-> f.trees]
    BY <2>1 DEF FileOK, OnlyRots
  <2>2. CASE \E x \in Idents :
               g = [ident |-> x, root |-> f.root, hashes |-> f.hashes, trees |-> f.trees]
    BY <2>2 DEF FileOK, OnlyRots
  <2>3. ASSUME NEW k \in DOMAIN f.hashes,
               g = [ident |-> f.ident, root |-> f.root,
                    hashes |-> [f.hashes EXCEPT ![k] = Rot], trees |-> f.trees]
        PROVE  FileOK(g) /\ OnlyRots(f, g)
    <3>1. IsSeq(f.hashes)
      BY DEF FileOK
    <3>2. /\ IsSeq(g.hashes) /\ Len(g.hashes) = Len(f.hashes) /\ DOMAIN g.hashes = DOMAIN f.hashes
          /\ \A i \in DOMAIN f.hashes : g.hashes[i] = IF i = k THEN Rot ELSE f.hashes[i]
      BY <2>3, <3>1, ExceptIsSeq
    <3> QED
      BY <2>3, <3>2 DEF FileOK, OnlyRots
  <2> QED
    BY <1>2, <2>1, <2>2, <2>3 DEF SpoiltHeads
<1>3. ASSUME NEW trees, g = WithTrees(f, trees), IsSeq(trees),
             \A i \in DOMAIN trees : trees[i].node \in Nodes
      PROVE  FileOK(g) /\ OnlyRots(f, g)
  BY <1>3 DEF FileOK, OnlyRots, WithTrees
<1>4. IsSeq(f.trees) /\ \A i \in DOMAIN f.trees : f.trees[i].node \in Nodes
  BY DEF FileOK
<1>5. ASSUME NEW k \in DOMAIN f.trees, NEW u \in SpoiltTrees(f.trees[k]),
             g = WithTrees(f, [f.trees EXCEPT ![k] = u])
      PROVE  FileOK(g) /\ OnlyRots(f, g)
  <2> DEFINE x == [f.trees EXCEPT ![k] = u]
  <2>1. u.node \in Nodes
    BY <1>4, SpoiltTree
  <2>2. /\ IsSeq(x) /\ DOMAIN x = DOMAIN f.trees
        /\ \A i \in DOMAIN f.trees : x[i] = IF i = k THEN u ELSE f.trees[i]
    BY <1>4, ExceptIsSeq
  <2> HIDE DEF x
  <2>3. \A i \in DOMAIN x : x[i].node \in Nodes
    BY <1>4, <2>1, <2>2
  <2> QED
    BY <1>3, <1>5, <2>2, <2>3 DEF x
<1>6. ASSUME NEW n \in 0 .. Len(f.trees) - 1, g = WithTrees(f, SubSeq(f.trees, 1, n))
      PROVE  FileOK(g) /\ OnlyRots(f, g)
  <2>1. n \in 0 .. Len(f.trees) /\ Len(f.trees) \in Nat /\ DOMAIN f.trees = 1 .. Len(f.trees)
    BY <1>4, IsSeqLen
  <2>2. \A i \in 1 .. n : i \in DOMAIN f.trees
    BY <2>1
  <2> DEFINE x == SubSeq(f.trees, 1, n)
  <2>3. IsSeq(x) /\ DOMAIN x = 1 .. n /\ \A i \in 1 .. n : x[i] = f.trees[i]
    BY <1>4, <2>1, PrefixIsSeq
  <2> HIDE DEF x
  <2>4. \A i \in DOMAIN x : x[i].node \in Nodes
    BY <1>4, <2>2, <2>3
  <2> QED
    BY <1>3, <1>6, <2>3, <2>4 DEF x
<1>7. ASSUME NEW k \in DOMAIN f.trees, g = WithTrees(f, Append(f.trees, f.trees[k]))
      PROVE  FileOK(g) /\ OnlyRots(f, g)
  <2> DEFINE a == Append(f.trees, f.trees[k])
  <2>1. Len(f.trees) \in Nat /\ DOMAIN f.trees = 1 .. Len(f.trees)
    BY <1>4, IsSeqLen
  <2>2. /\ IsSeq(a) /\ DOMAIN a = 1 .. Len(f.trees) + 1
        /\ \A i \in 1 .. Len(f.trees) : a[i] = f.trees[i]
        /\ a[Len(f.trees) + 1] = f.trees[k]
    BY <1>4, AppendIsSeq
  <2> HIDE DEF a
  <2>3. \A i \in DOMAIN a : a[i].node \in Nodes
    <3>1. \A i \in DOMAIN a : i \in 1 .. Len(f.trees) \/ i = Len(f.trees) + 1
      BY <2>1, <2>2
    <3> QED
      BY <1>4, <2>1, <2>2, <3>1
  <2> QED
    BY <1>3, <1>7, <2>2, <2>3 DEF a
<1>8. \/ g = Blank
      \/ g \in SpoiltHeads(f)
      \/ \E k \in DOMAIN f.trees : \E u \in SpoiltTrees(f.trees[k]) :
           g = WithTrees(f, [f.trees EXCEPT ![k] = u])
      \/ \E n \in 0 .. Len(f.trees) - 1 : g = WithTrees(f, SubSeq(f.trees, 1, n))
      \/ \E k \in DOMAIN f.trees : g = WithTrees(f, Append(f.trees, f.trees[k]))
  BY DEF SpoiltFiles
<1> QED
  BY <1>1, <1>2, <1>5, <1>6, <1>7, <1>8

(***************************************************************************)
(* Histories.                                                               *)
(***************************************************************************)
(* Nodes make a history.                                                    *)
LEMMA HistoryOfNodes ==
  ASSUME NEW nodes \in Seq(Nodes)
  PROVE  History(nodes)
<1>1. /\ Len(nodes) \in Nat /\ DOMAIN nodes = 1 .. Len(nodes)
      /\ \A i \in 1 .. Len(nodes) : nodes[i] \in Nodes
  BY LenProperties
<1> QED
  BY <1>1, NodeFuncs DEF History

(* The empty history is well numbered.                                      *)
LEMMA EmptyHistory ==
  /\ <<>> \in Seq(Nodes) /\ <<>> \o <<>> = <<>>
  /\ Contiguous(<<>>) /\ DenseIds(<<>>, 0) /\ WellNumbered(<<>>)
<1>1. <<>> \in Seq(Nodes) /\ <<>> \o <<>> = <<>>
  OBVIOUS
<1>2. Contiguous(<<>>) /\ DenseIds(<<>>, 0)
  BY DenseEmpty DEF Contiguous
<1>3. Span(<<>>) = 0
  BY <1>1, <1>2, DenseSpan, HistoryOfNodes
<1> QED
  BY <1>1, <1>2, <1>3 DEF WellNumbered

(* Nodes behind nodes are nodes.                                            *)
LEMMA ConcatNodes ==
  ASSUME NEW x \in Seq(Nodes), NEW y \in Seq(Nodes)
  PROVE  /\ x \o y \in Seq(Nodes)
         /\ Len(x \o y) = Len(x) + Len(y)
         /\ \A i \in 1 .. Len(x) : (x \o y)[i] = x[i]
<1>1. Len(x) \in Nat /\ Len(y) \in Nat
  BY LenProperties
<1>2. /\ x \o y \in Seq(Nodes)
      /\ Len(x \o y) = Len(x) + Len(y)
      /\ \A i \in 1 .. Len(x) + Len(y) : (x \o y)[i] = IF i <= Len(x) THEN x[i] ELSE y[i - Len(x)]
  BY ConcatProperties
<1>3. \A i \in 1 .. Len(x) : i \in 1 .. Len(x) + Len(y) /\ i <= Len(x)
  BY <1>1
<1> QED
  BY <1>2, <1>3

(* The revisions of a run: those of its base, then those of its source.     *)
LEMMA RevisionsOf ==
  ASSUME NEW b, NEW e, b.nodes \in Seq(Nodes), e.nodes \in Seq(Nodes)
  PROVE  /\ Revisions(b, e) \in Seq(Nodes)
         /\ Len(Revisions(b, e)) = Len(b.nodes) + Len(e.nodes)
         /\ \A i \in 1 .. Len(b.nodes) : Revisions(b, e)[i] = b.nodes[i]
  BY ConcatNodes DEF Revisions

(* Behind the second of two sequences is behind both.                       *)
LEMMA ConcatThenAppend ==
  ASSUME NEW x \in Seq(Nodes), NEW y \in Seq(Nodes), NEW node \in Nodes
  PROVE  x \o Append(y, node) = Append(x \o y, node)
<1>1. <<node>> \in Seq(Nodes)
  OBVIOUS
<1>2. Append(y, node) = y \o <<node>>
  BY AppendIsConcat
<1>3. x \o y \in Seq(Nodes)
  BY ConcatNodes
<1>4. Append(x \o y, node) = (x \o y) \o <<node>>
  BY <1>3, AppendIsConcat
<1>5. (x \o y) \o <<node>> = x \o (y \o <<node>>)
  BY <1>1, ConcatAssociative
<1> QED
  BY <1>2, <1>4, <1>5

(* A revision more in the source is a revision more in the history.         *)
LEMMA RevisionsAppend ==
  ASSUME NEW b, NEW e, NEW e2, NEW node \in Nodes,
         b.nodes \in Seq(Nodes), e.nodes \in Seq(Nodes), e2.nodes = Append(e.nodes, node)
  PROVE  /\ e2.nodes \in Seq(Nodes)
         /\ ExtendsByOne(Revisions(b, e2), Revisions(b, e), node)
<1>1. e2.nodes \in Seq(Nodes)
  BY AppendProperties
<1>2. Revisions(b, e2) = Append(Revisions(b, e), node)
  BY ZenonT(40), ConcatThenAppend DEF Revisions
<1>3. Revisions(b, e) \in Seq(Nodes)
  BY RevisionsOf
<1>4. \A i \in DOMAIN Revisions(b, e) : i \in 1 .. Len(Revisions(b, e))
  BY <1>3, LenProperties
<1> QED
  BY <1>1, <1>2, <1>3, <1>4, AppendProperties DEF ExtendsByOne

(***************************************************************************)
(* Initial states, and the steps that leave the files alone.                *)
(***************************************************************************)
(* No file, no run.                                                         *)
LEMMA InitInv ==
  ASSUME Init
  PROVE  IInv
<1>1. TypeInv
  <2>1. pc \in Stages /\ damages \in 0 .. MaxDamage /\ CmdInv
    BY DamageAssumption DEF Init, CmdInv, Stages, NoCmd
  <2>2. lost \in BOOLEAN
    BY DEF Init
  <2>3. RunShape
    BY EmptyHistory, IsSeqEmpty DEF Init, RunShape, NoBase, NoExt
  <2>4. FileShape
    BY BlankOK, EmptyHistory DEF Init, FileShape, NothingMeant
  <2> QED
    BY <2>1, <2>2, <2>3, <2>4 DEF TypeInv
<1>2. MeantInv
  BY EmptyHistory DEF Init, MeantInv, NothingMeant
<1>3. DiskInv
  BY DEF Init, DiskInv, Blank
<1>4. FreshInv
  BY DEF Init, FreshInv
<1>5. BaseInv
  BY EmptyHistory DEF Init, BaseInv, NoBase, Chained
<1>6. LoadInv /\ SourceInv /\ ParseInv /\ WriteInv
  BY DEF Init, LoadInv, SourceInv, ParseInv, WriteInv
<1>7. KeptInv
  BY DEF Init, KeptInv
<1> QED
  BY <1>1, <1>2, <1>3, <1>4, <1>5, <1>6, <1>7 DEF IInv

(* A failing run leaves the files to themselves.                            *)
LEMMA FailStep ==
  ASSUME IInv, Fail,
         \/ pc \in {"head", "trees", "parse", "open"}
         \/ pc = "hash" /\ Revisions(base, ext) = <<>>
  PROVE  IInv'
<1> USE DEF Fail, run
<1>1. TypeInv'
  BY DEF IInv, TypeInv, CmdInv, RunShape, FileShape, Stages
<1>2. MeantInv' /\ DiskInv'
  BY DEF IInv, MeantInv, DiskInv
<1>3. FreshInv'
  BY DEF IInv, FreshInv
<1>4. BaseInv'
  BY DEF IInv, BaseInv
<1>5. LoadInv' /\ SourceInv' /\ ParseInv' /\ WriteInv'
  BY DEF LoadInv, SourceInv, ParseInv, WriteInv
<1>6. KeptInv'
  BY DEF IInv, KeptInv
<1> QED
  BY <1>1, <1>2, <1>3, <1>4, <1>5, <1>6 DEF IInv

(* A run starts with nothing read.                                          *)
LEMMA StartStep ==
  ASSUME IInv, Start
  PROVE  IInv'
<1>1. pc = "idle" /\ base = NoBase /\ known = <<>> /\ ext = NoExt /\ hashes = <<>>
  BY DEF IInv, FreshInv, Start
<1>2. UNCHANGED <<disk, damages, base, known, ext, hashes, lost, meant>> /\ before' = disk
  BY DEF Start
<1>3. PICK b \in Paths \cup {None}, o \in Paths, s \in Sources :
        /\ cmd' = [base |-> b, out |-> o, src |-> s]
        /\ pc' = IF b = None THEN "parse" ELSE "head"
  BY DEF Start
<1>4. TypeInv'
  BY <1>1, <1>2, <1>3 DEF IInv, TypeInv, CmdInv, RunShape, FileShape, Stages
<1>5. MeantInv' /\ DiskInv'
  BY <1>2 DEF IInv, MeantInv, DiskInv
<1>6. FreshInv'
  BY <1>1, <1>2, <1>3 DEF FreshInv
<1>7. BaseInv'
  BY <1>2 DEF IInv, BaseInv
<1>8. LoadInv' /\ SourceInv' /\ WriteInv'
  BY <1>3 DEF LoadInv, SourceInv, WriteInv
<1>9. ParseInv'
  BY <1>1, <1>2, EmptyHistory DEF ParseInv, Revisions, NoBase, NoExt
<1>10. KeptInv'
  BY <1>2 DEF KeptInv
<1> QED
  BY <1>4, <1>5, <1>6, <1>7, <1>8, <1>9, <1>10 DEF IInv

(* A run that is over, or killed, leaves what it wrote.                     *)
LEMMA ForgetStep ==
  ASSUME IInv, ForgetRun
  PROVE  IInv'
<1>1. TypeInv'
  BY EmptyHistory, IsSeqEmpty
     DEF IInv, ForgetRun, TypeInv, CmdInv, RunShape, FileShape, Stages, NoCmd, NoBase, NoExt
<1>2. MeantInv' /\ DiskInv'
  BY DEF IInv, ForgetRun, MeantInv, DiskInv
<1>3. FreshInv'
  BY DEF ForgetRun, FreshInv
<1>4. BaseInv'
  BY EmptyHistory DEF ForgetRun, BaseInv, NoBase, Chained
<1>5. LoadInv' /\ SourceInv' /\ ParseInv' /\ WriteInv'
  BY DEF ForgetRun, LoadInv, SourceInv, ParseInv, WriteInv
<1>6. KeptInv'
  BY DEF ForgetRun, KeptInv
<1> QED
  BY <1>1, <1>2, <1>3, <1>4, <1>5, <1>6 DEF IInv

(* Damage touches one file at rest, and hashes only by making them rot.     *)
LEMMA DamageStep ==
  ASSUME IInv, Damage
  PROVE  IInv'
<1>1. /\ pc = "idle" /\ damages < MaxDamage /\ damages' = damages + 1
      /\ before' = disk' /\ UNCHANGED <<pc, cmd, base, known, ext, hashes, lost, meant>>
  BY DEF Damage, run
<1>0. PICK p \in Paths : \E f \in SpoiltFiles(disk[p]) : disk' = [disk EXCEPT ![p] = f]
  BY DEF Damage
<1>2. PICK f \in SpoiltFiles(disk[p]) : disk' = [disk EXCEPT ![p] = f]
  BY <1>0
<1>3. /\ DOMAIN disk = Paths /\ \A q \in Paths : FileOK(disk[q])
  BY DEF IInv, TypeInv, FileShape
<1>4. /\ DOMAIN disk' = Paths
      /\ \A q \in Paths : disk'[q] = IF q = p THEN f ELSE disk[q]
  BY <1>2, <1>3
<1>5. FileOK(f) /\ OnlyRots(disk[p], f)
  BY <1>2, <1>3, SpoiltFile
<1>6. TypeInv'
  BY SMTT(30), <1>1, <1>3, <1>4, <1>5, DamageAssumption
     DEF IInv, TypeInv, CmdInv, RunShape, FileShape, Stages
<1>7. MeantInv'
  BY <1>1 DEF IInv, MeantInv
<1>8. DiskInv'
  <2> SUFFICES ASSUME NEW q \in Paths, disk'[q].hashes # <<>>
               PROVE  /\ Len(disk'[q].hashes) = Len(meant[q].nodes)
                      /\ \A i \in DOMAIN disk'[q].hashes :
                           HashOf(disk'[q].hashes[i], meant[q].ident.uuid, meant[q].nodes[i])
    BY <1>1 DEF DiskInv
  <2>1. CASE q # p
    BY <2>1, <1>4 DEF IInv, DiskInv
  <2>2. CASE q = p
    <3>1. /\ disk'[q] = f /\ f.hashes # <<>> /\ Len(f.hashes) = Len(disk[p].hashes)
          /\ \A i \in DOMAIN f.hashes : f.hashes[i] = disk[p].hashes[i] \/ f.hashes[i] = Rot
      BY <2>2, <1>4, <1>5 DEF OnlyRots
    <3>2. IsSeq(f.hashes) /\ IsSeq(disk[p].hashes)
      BY <1>3, <1>5 DEF FileOK
    <3>3. disk[p].hashes # <<>> /\ DOMAIN f.hashes = DOMAIN disk[p].hashes
      BY <3>1, <3>2, IsSeqLen
    <3>4. /\ Len(disk[p].hashes) = Len(meant[p].nodes)
          /\ \A i \in DOMAIN disk[p].hashes :
               HashOf(disk[p].hashes[i], meant[p].ident.uuid, meant[p].nodes[i])
      BY <3>3 DEF IInv, DiskInv
    <3> QED
      BY <2>2, <3>1, <3>3, <3>4 DEF HashOf
  <2> QED
    BY <2>1, <2>2
<1>9. FreshInv' /\ BaseInv'
  BY <1>1 DEF IInv, FreshInv, BaseInv
<1>10. LoadInv' /\ SourceInv' /\ ParseInv' /\ WriteInv'
  BY <1>1 DEF LoadInv, SourceInv, ParseInv, WriteInv
<1>11. KeptInv'
  BY <1>1 DEF KeptInv
<1> QED
  BY <1>6, <1>7, <1>8, <1>9, <1>10, <1>11 DEF IInv

(***************************************************************************)
(* Reading the base.                                                        *)
(***************************************************************************)
(* The header of the base is checked and its hash table loaded.             *)
LEMMA ReadHeadStep ==
  ASSUME IInv, ReadHead
  PROVE  IInv'
<1>1. CASE ~HeadAccepted(disk[cmd.base]) /\ Fail
  BY <1>1, FailStep DEF ReadHead
<1>2. CASE ~(~HeadAccepted(disk[cmd.base]) /\ Fail)
  <2> DEFINE f == disk[cmd.base]
  <2>1. /\ pc = "head" /\ pc' = "trees" /\ HeadAccepted(f)
        /\ base' = [ident |-> f.ident, nodes |-> <<>>, next |-> 0]
        /\ known' = f.hashes
        /\ UNCHANGED <<disk, damages, cmd, ext, hashes, lost, meant, before>>
    BY <1>2 DEF ReadHead
  <2>2. cmd.base \in Paths /\ FileOK(f)
    BY <2>1 DEF IInv, TypeInv, CmdInv, FileShape
  <2>3. TypeInv'
    <3>1. RunShape'
      BY <2>1, <2>2, EmptyHistory DEF IInv, TypeInv, RunShape, FileOK
    <3>2. CmdInv' /\ FileShape' /\ pc' \in Stages
      BY <2>1 DEF IInv, TypeInv, CmdInv, FileShape, Stages
    <3> QED
      BY <2>1, <3>1, <3>2 DEF IInv, TypeInv
  <2>4. MeantInv' /\ DiskInv'
    BY <2>1 DEF IInv, MeantInv, DiskInv
  <2>5. FreshInv'
    <3>1. cmd.base # None
      BY <2>2, NoneAssumption
    <3> QED
      BY <2>1, <3>1 DEF IInv, FreshInv
  <2>6. BaseInv'
    <3>1. Len(known') \in Nat
      BY <2>1, <2>2, IsSeqLen DEF FileOK
    <3>2. Contiguous(base'.nodes) /\ DenseIds(base'.nodes, base'.next) /\ Len(base'.nodes) = 0
      BY <2>1, EmptyHistory
    <3>3. Chained(base'.ident.uuid, base'.nodes, known', Len(base'.nodes))
      BY <3>2 DEF Chained
    <3> QED
      BY <3>1, <3>2, <3>3 DEF BaseInv
  <2>7. LoadInv'
    BY <2>1 DEF LoadInv, BaseMeant, HeadAccepted
  <2>8. SourceInv' /\ ParseInv' /\ WriteInv'
    BY <2>1 DEF SourceInv, ParseInv, WriteInv
  <2>9. KeptInv'
    BY <2>1 DEF IInv, KeptInv
  <2> QED
    BY <2>3, <2>4, <2>5, <2>6, <2>7, <2>8, <2>9 DEF IInv
<1> QED
  BY <1>1, <1>2

(* A tree that matches its hash is the revision that was meant there:       *)
(* no damaged field survives the recomputation of the digest.               *)
LEMMA VerifiedIsMeant ==
  ASSUME MeantInv, DiskInv, FileShape, NEW p \in Paths, disk[p].hashes # <<>>,
         NEW i \in DOMAIN disk[p].hashes, NEW uuid, NEW node, NEW prev,
         Digest(uuid, node, prev) = disk[p].hashes[i]
  PROVE  /\ uuid = meant[p].ident.uuid
         /\ node = meant[p].nodes[i]
         /\ i \in 1 .. Len(meant[p].nodes)
<1>1. IsSeq(disk[p].hashes)
  BY DEF FileShape, FileOK
<1>2. /\ Len(disk[p].hashes) = Len(meant[p].nodes)
      /\ HashOf(disk[p].hashes[i], meant[p].ident.uuid, meant[p].nodes[i])
  BY DEF DiskInv
<1>3. Digest(uuid, node, prev) # Rot
  BY DEF Digest, Rot
<1>4. Digest(uuid, node, prev) = Digest(meant[p].ident.uuid, meant[p].nodes[i], disk[p].hashes[i][3])
  BY <1>2, <1>3 DEF HashOf
<1> QED
  BY <1>1, <1>2, <1>4, IsSeqLen DEF Digest

(* A tree that passes its checks is one more revision of the base.          *)
LEMMA ReadTreeStep ==
  ASSUME IInv, ReadTree
  PROVE  IInv'
<1> DEFINE k == Len(base.nodes)
           f == disk[cmd.base]
           accepted == TreeAccepted(base.ident.uuid, known, f.trees, k + 1)
<1>1. CASE ~accepted /\ Fail
  BY <1>1, FailStep DEF ReadTree
<1>2. CASE ~(~accepted /\ Fail)
  <2> DEFINE node == f.trees[k + 1].node
  <2>1. /\ pc = "trees" /\ k < Len(known) /\ accepted
        /\ base' = [ident |-> base.ident, nodes |-> Append(base.nodes, node),
                    next |-> NextFuncid(base.next, node)]
        /\ UNCHANGED <<disk, damages, pc, cmd, known, ext, hashes, lost, meant, before>>
    BY <1>2 DEF ReadTree
  <2>2. /\ cmd.base \in Paths /\ FileOK(f) /\ known = f.hashes /\ known # <<>>
        /\ base.ident = f.ident /\ BaseMeant
    BY <2>1 DEF IInv, TypeInv, CmdInv, FileShape, LoadInv
  <2>3. /\ base.nodes \in Seq(Nodes) /\ base.next \in Nat /\ IsSeq(known)
        /\ k \in Nat /\ DOMAIN base.nodes = 1 .. k
        /\ Len(known) \in Nat /\ DOMAIN known = 1 .. Len(known)
    BY LenProperties, IsSeqLen DEF IInv, TypeInv, RunShape
  <2>4. k + 1 \in DOMAIN known
    BY <2>1, <2>3
  <2>5. /\ k + 1 <= Len(f.trees) /\ node.version = k
        /\ f.trees[k + 1].prev = PrevIn(known, k + 1)
        /\ Digest(base.ident.uuid, node, f.trees[k + 1].prev) = known[k + 1]
    BY <2>1, <2>3 DEF TreeAccepted
  <2>6. node \in Nodes
    <3>1. Len(f.trees) \in Nat /\ DOMAIN f.trees = 1 .. Len(f.trees)
      BY <2>2, IsSeqLen DEF FileOK
    <3> QED
      BY <2>2, <2>3, <2>5, <3>1 DEF FileOK
  <2> DEFINE whole == meant[cmd.base].nodes
  <2>7. /\ base.ident.uuid = meant[cmd.base].ident.uuid
        /\ node = whole[k + 1]
        /\ k + 1 \in 1 .. Len(whole)
    BY <2>2, <2>4, <2>5, VerifiedIsMeant DEF IInv, TypeInv
  <2>8. /\ base'.nodes \in Seq(Nodes) /\ Len(base'.nodes) = k + 1 /\ DOMAIN base'.nodes = 1 .. k + 1
        /\ \A i \in 1 .. k : base'.nodes[i] = base.nodes[i]
        /\ base'.nodes[k + 1] = node
        /\ base'.ident = base.ident /\ base'.next = NextFuncid(base.next, node)
    <3>1. base'.nodes = Append(base.nodes, node)
      BY <2>1
    <3> HIDE DEF node
    <3>2. Append(base.nodes, node) \in Seq(Nodes)
      BY <2>3, <2>6, AppendProperties
    <3>3. Len(Append(base.nodes, node)) = k + 1 /\ DOMAIN Append(base.nodes, node) = 1 .. k + 1
      BY <2>3, <2>6, <3>2, AppendProperties, LenProperties
    <3> QED
      BY <2>1, <2>3, <2>6, <3>1, <3>2, <3>3, AppendProperties
  <2> HIDE DEF node, whole, k, accepted
  <2>9. whole \in Seq(Nodes) /\ WellNumbered(whole) /\ Span(whole) \in Nat
    BY <2>2 DEF IInv, TypeInv, FileShape, MeantInv, WellNumbered, whole
  <2>10. /\ base'.next \in Nat /\ DenseIds(base'.nodes, base'.next)
    <3>1. History(base.nodes) /\ History(base'.nodes) /\ History(whole)
      BY <2>3, <2>8, <2>9, HistoryOfNodes
    <3>2. ExtendsByOne(base'.nodes, base.nodes, node)
      BY <2>3, <2>8 DEF ExtendsByOne, k
    <3>3. \A i \in DOMAIN base'.nodes : base'.nodes[i] = whole[i]
      <4>1. \A i \in 1 .. k : base.nodes[i] = whole[i]
        BY <2>2, <2>3 DEF BaseMeant, whole
      <4>2. \A i \in 1 .. k + 1 : i \in 1 .. k \/ i = k + 1
        BY <2>3
      <4> QED
        BY <2>7, <2>8, <4>1, <4>2
    <3>4. DenseIds(base.nodes, base.next) /\ DenseIds(whole, Span(whole))
      BY <2>9 DEF IInv, BaseInv, WellNumbered
    <3>5. Len(base'.nodes) <= Len(whole)
      BY <2>7, <2>8
    <3>6. ExtendsByOne(base'.nodes, base.nodes, whole[Len(base.nodes) + 1])
      BY <2>7, <3>2 DEF k
    <3>7. base'.next = NextFuncid(base.next, whole[Len(base.nodes) + 1])
      BY <2>7, <2>8 DEF k
    <3> DEFINE next == NextFuncid(base.next, whole[Len(base.nodes) + 1])
    <3>8. base.next \in Nat /\ Span(whole) \in Nat
      BY <2>3, <2>9
    <3>9. next \in Nat /\ DenseIds(base'.nodes, next)
      BY <3>1, <3>3, <3>4, <3>5, <3>6, <3>8, DenseNext
    <3> HIDE DEF next
    <3> QED
      BY <3>7, <3>9 DEF next
  <2>11. TypeInv'
    <3>1. RunShape'
      BY <2>1, <2>8, <2>10 DEF IInv, TypeInv, RunShape
    <3>2. CmdInv' /\ FileShape'
      BY <2>1 DEF IInv, TypeInv, CmdInv, FileShape
    <3> QED
      BY <2>1, <3>1, <3>2 DEF IInv, TypeInv
  <2>12. MeantInv' /\ DiskInv'
    BY <2>1 DEF IInv, MeantInv, DiskInv
  <2>13. FreshInv'
    <3>1. cmd.base # None
      BY <2>2, NoneAssumption
    <3> QED
      BY <2>1, <3>1 DEF IInv, FreshInv
  <2>14. \A i \in 1 .. k + 1 : i \in 1 .. k \/ i = k + 1
    BY <2>3
  <2>15. BaseInv'
    <3>1. Contiguous(base'.nodes)
      <4>1. \A i \in 1 .. k : base.nodes[i].version = i - 1
        BY <2>3 DEF IInv, BaseInv, Contiguous
      <4>2. base'.nodes[k + 1].version = (k + 1) - 1
        BY <2>3, <2>5, <2>8
      <4> QED
        BY <2>8, <2>14, <4>1, <4>2 DEF Contiguous
    <3>2. Len(base'.nodes) <= Len(known)
      BY <2>1, <2>3, <2>8 DEF k
    <3>3. Chained(base.ident.uuid, base'.nodes, known, k + 1)
      <4>1. Chained(base.ident.uuid, base.nodes, known, k)
        BY DEF IInv, BaseInv, k
      <4>2. known[k + 1] = Digest(base.ident.uuid, base'.nodes[k + 1], PrevIn(known, k + 1))
        BY <2>5, <2>8
      <4> QED
        BY <2>8, <2>14, <4>1, <4>2 DEF Chained
    <3> QED
      BY <2>1, <2>8, <2>10, <3>1, <3>2, <3>3 DEF BaseInv
  <2>16. LoadInv'
    <3>1. BaseMeant'
      <4>1. \A i \in 1 .. k : base.nodes[i] = whole[i]
        BY <2>2, <2>3 DEF BaseMeant, whole
      <4> QED
        BY <2>1, <2>7, <2>8, <2>14, <4>1 DEF BaseMeant, whole
    <3>2. HeadAccepted(f)
      BY <2>1 DEF IInv, LoadInv
    <3>3. \A i \in DOMAIN base'.nodes : TreeAccepted(base.ident.uuid, known, f.trees, i)
      <4>1. \A i \in 1 .. k : TreeAccepted(base.ident.uuid, known, f.trees, i)
        BY <2>1, <2>3 DEF IInv, LoadInv
      <4>2. TreeAccepted(base.ident.uuid, known, f.trees, k + 1)
        BY <2>1 DEF accepted
      <4> HIDE DEF f
      <4> QED
        BY <2>8, <2>14, <4>1, <4>2
    <3> QED
      BY <2>1, <2>2, <2>8, <3>1, <3>2, <3>3 DEF LoadInv
  <2>17. SourceInv' /\ ParseInv' /\ WriteInv'
    BY <2>1 DEF SourceInv, ParseInv, WriteInv
  <2>18. KeptInv'
    BY <2>1 DEF IInv, KeptInv
  <2> QED
    BY <2>11, <2>12, <2>13, <2>15, <2>16, <2>17, <2>18 DEF IInv
<1> QED
  BY <1>1, <1>2

(* All trees read, the base is the whole published history.                 *)
LEMMA ReadEndStep ==
  ASSUME IInv, ReadEnd
  PROVE  IInv'
<1>1. CASE Fail
  BY <1>1, FailStep DEF ReadEnd
<1>2. CASE ~Fail
  <2>1. /\ pc = "trees" /\ pc' = "parse" /\ Len(base.nodes) = Len(known)
        /\ ext' = [nodes |-> <<>>, next |-> base.next]
        /\ UNCHANGED <<disk, damages, cmd, base, known, hashes, lost, meant, before>>
    BY <1>2 DEF ReadEnd
  <2>2. /\ cmd.base \in Paths /\ cmd.base # None
        /\ known = disk[cmd.base].hashes /\ known # <<>> /\ BaseMeant
    BY <2>1, NoneAssumption DEF IInv, TypeInv, CmdInv, LoadInv
  <2>3. base.nodes \in Seq(Nodes) /\ base.next \in Nat /\ IsSeq(known)
    BY DEF IInv, TypeInv, RunShape
  <2>4. TypeInv'
    <3>1. RunShape'
      BY <2>1, <2>3, EmptyHistory DEF IInv, TypeInv, RunShape
    <3>2. CmdInv' /\ FileShape' /\ pc' \in Stages
      BY <2>1 DEF IInv, TypeInv, CmdInv, FileShape, Stages
    <3> QED
      BY <2>1, <3>1, <3>2 DEF IInv, TypeInv
  <2>5. MeantInv' /\ DiskInv'
    BY <2>1 DEF IInv, MeantInv, DiskInv
  <2>6. FreshInv' /\ BaseInv'
    BY <2>1, <2>2 DEF IInv, FreshInv, BaseInv
  <2>7. LoadInv' /\ WriteInv'
    BY <2>1 DEF LoadInv, WriteInv
  <2>8. SourceInv'
    <3>1. base.nodes # <<>>
      BY <2>1, <2>2, <2>3, IsSeqLen
    <3>2. Len(base.nodes) = Len(meant[cmd.base].nodes)
      BY <2>1, <2>2 DEF IInv, DiskInv
    <3> QED
      BY <2>1, <2>2, <3>1, <3>2 DEF SourceInv, BaseMeant
  <2>9. ParseInv'
    <3>1. Revisions(base, ext)' = base.nodes
      BY <2>1, <2>3, ConcatEmptySeq DEF Revisions
    <3> QED
      BY <2>1, <3>1 DEF IInv, BaseInv, ParseInv
  <2>10. KeptInv'
    BY <2>1 DEF IInv, KeptInv
  <2> QED
    BY <2>4, <2>5, <2>6, <2>7, <2>8, <2>9, <2>10 DEF IInv
<1> QED
  BY <1>1, <1>2

(***************************************************************************)
(* Parsing and validating the source.                                       *)
(***************************************************************************)
(* A parsed revision is numbered from the counter.                          *)
LEMMA ParseRevisionStep ==
  ASSUME IInv, ParseRevision
  PROVE  IInv'
<1> DEFINE k == Len(ext.nodes) + 1
           rev == Text(cmd.src).revs[k]
           node == [version |-> rev.version, body |-> rev.body,
                    funcs |-> Numbered(rev.names, ext.next)]
<1>1. CASE Fail
  BY <1>1, FailStep DEF ParseRevision
<1>2. CASE ~Fail
  <2>1. /\ pc = "parse" /\ k <= Len(Text(cmd.src).revs)
        /\ rev.body # Malformed /\ rev.version = Len(base.nodes) + Len(ext.nodes)
        /\ ext' = [nodes |-> Append(ext.nodes, node), next |-> ext.next + Len(rev.names)]
        /\ UNCHANGED <<disk, damages, pc, cmd, base, known, hashes, lost, meant, before>>
    BY <1>2 DEF ParseRevision
  <2>2. /\ base.nodes \in Seq(Nodes) /\ ext.nodes \in Seq(Nodes) /\ ext.next \in Nat
        /\ Len(base.nodes) \in Nat /\ Len(ext.nodes) \in Nat
        /\ cmd.src \in Sources
    BY <2>1, LenProperties DEF IInv, TypeInv, RunShape, CmdInv
  <2>3. node \in Nodes /\ rev.names \in Seq(Names)
    <3>1. k \in Nat /\ k >= 1
      BY <2>2
    <3> HIDE DEF k
    <3> QED
      BY <2>1, <2>2, <3>1, ParsedNode
  <2>4. Len(rev.names) \in Nat /\ DOMAIN rev.names = 1 .. Len(rev.names)
    BY <2>3, LenProperties
  <2>5. /\ node.funcs = Numbered(rev.names, ext.next)
        /\ node.version = Len(base.nodes) + Len(ext.nodes)
        /\ ext'.nodes = Append(ext.nodes, node)
        /\ ext'.next = ext.next + Len(rev.names)
    BY <2>1
  <2> HIDE DEF node, rev, k
  <2>6. ext'.nodes \in Seq(Nodes) /\ ExtendsByOne(Revisions(base, ext'), Revisions(base, ext), node)
    BY <2>2, <2>3, <2>5, RevisionsAppend
  <2>7. ext'.next \in Nat
    BY <2>2, <2>4, <2>5
  <2>8. TypeInv'
    <3>1. RunShape'
      BY <2>1, <2>6, <2>7 DEF IInv, TypeInv, RunShape
    <3>2. CmdInv' /\ FileShape'
      BY <2>1 DEF IInv, TypeInv, CmdInv, FileShape
    <3> QED
      BY <2>1, <3>1, <3>2 DEF IInv, TypeInv
  <2>9. MeantInv' /\ DiskInv'
    BY <2>1 DEF IInv, MeantInv, DiskInv
  <2>10. FreshInv' /\ BaseInv'
    BY <2>1 DEF IInv, FreshInv, BaseInv
  <2>11. LoadInv' /\ SourceInv' /\ WriteInv'
    BY <2>1 DEF IInv, LoadInv, SourceInv, WriteInv, BaseMeant
  <2>12. ParseInv'
    <3> DEFINE old == Revisions(base, ext)
               new == Revisions(base, ext')
    <3>1. /\ old \in Seq(Nodes) /\ new \in Seq(Nodes)
          /\ Len(old) = Len(base.nodes) + Len(ext.nodes)
      BY <2>2, <2>6, RevisionsOf
    <3>2. History(old) /\ History(new)
      BY <3>1, HistoryOfNodes
    <3>3. Contiguous(old) /\ DenseIds(old, ext.next) /\ Len(base.nodes) = Len(known)
      BY <2>1 DEF IInv, ParseInv
    <3>4. /\ DOMAIN old = 1 .. Len(old) /\ Len(old) \in Nat
          /\ DOMAIN new = 1 .. Len(new)
      BY <3>1, LenProperties
    <3>5. ExtendsByOne(new, old, node)
      BY <2>6
    <3> HIDE DEF old, new
    <3>6. DenseIds(new, ext.next + Len(rev.names))
      BY <2>2, <2>4, <2>5, <3>2, <3>3, <3>5, DenseAppend
    <3>7. Contiguous(new)
      <4>1. /\ Len(new) = Len(old) + 1
            /\ \A i \in DOMAIN old : new[i] = old[i]
            /\ new[Len(old) + 1] = node
        BY <3>5 DEF ExtendsByOne
      <4>2. node.version = (Len(old) + 1) - 1
        BY <2>5, <3>1, <3>4
      <4>3. \A i \in DOMAIN new : i \in DOMAIN old \/ i = Len(old) + 1
        BY <3>4, <4>1
      <4> SUFFICES ASSUME NEW i \in DOMAIN new
                   PROVE  new[i].version = i - 1
        BY DEF Contiguous
      <4>4. CASE i \in DOMAIN old
        BY <3>3, <4>1, <4>4 DEF Contiguous
      <4>5. CASE i = Len(old) + 1
        BY <4>1, <4>2, <4>5
      <4> QED
        BY <4>3, <4>4, <4>5
    <3> QED
      BY <2>1, <2>5, <3>3, <3>6, <3>7 DEF ParseInv, new
  <2>13. KeptInv'
    BY <2>1 DEF IInv, KeptInv
  <2> QED
    BY <2>8, <2>9, <2>10, <2>11, <2>12, <2>13 DEF IInv
<1> QED
  BY <1>1, <1>2

(* Validation accepts the source or ends the run.                           *)
LEMMA ValidateStep ==
  ASSUME IInv, Validate
  PROVE  IInv'
<1>1. CASE Fail
  BY <1>1, FailStep DEF Validate
<1>2. CASE ~Fail
  <2>1. /\ pc = "parse" /\ pc' = "open"
        /\ UNCHANGED <<disk, damages, cmd, base, known, ext, hashes, lost, meant, before>>
    BY <1>2 DEF Validate, run
  <2>2. TypeInv'
    BY <2>1 DEF IInv, TypeInv, CmdInv, RunShape, FileShape, Stages
  <2>3. MeantInv' /\ DiskInv'
    BY <2>1 DEF IInv, MeantInv, DiskInv
  <2>4. FreshInv' /\ BaseInv'
    BY <2>1 DEF IInv, FreshInv, BaseInv
  <2>5. LoadInv' /\ SourceInv' /\ ParseInv' /\ WriteInv'
    BY <2>1 DEF IInv, LoadInv, SourceInv, ParseInv, WriteInv, BaseMeant
  <2>6. KeptInv'
    BY <2>1 DEF IInv, KeptInv
  <2> QED
    BY <2>2, <2>3, <2>4, <2>5, <2>6 DEF IInv
<1> QED
  BY <1>1, <1>2

(***************************************************************************)
(* Writing the output.                                                      *)
(***************************************************************************)
(* The output is truncated: nothing of what was meant there is left.        *)
LEMMA OpenStep ==
  ASSUME IInv, Open
  PROVE  IInv'
<1>1. CASE Fail
  BY <1>1, FailStep DEF Open
<1>2. CASE ~Fail
  <2> DEFINE o == cmd.out
             nodes == Revisions(base, ext)
  <2>1. /\ pc = "open" /\ pc' = "hash"
        /\ disk' = [disk EXCEPT ![o] = Blank]
        /\ meant' = [meant EXCEPT ![o] = [ident |-> OutIdent(cmd, base), nodes |-> nodes]]
        /\ UNCHANGED <<damages, cmd, base, known, ext, hashes, lost, before>>
    BY <1>2 DEF Open, run
  <2>2. /\ o \in Paths /\ DOMAIN disk = Paths /\ DOMAIN meant = Paths
        /\ hashes = <<>> /\ base.nodes \in Seq(Nodes) /\ ext.nodes \in Seq(Nodes)
        /\ ext.next \in Nat
    BY <2>1 DEF IInv, TypeInv, CmdInv, FileShape, RunShape, FreshInv
  <2>3. nodes \in Seq(Nodes) /\ Len(nodes) \in Nat
    BY <2>2, RevisionsOf, LenProperties
  <2>4. WellNumbered(nodes)
    <3>1. Contiguous(nodes) /\ DenseIds(nodes, ext.next)
      BY <2>1 DEF IInv, ParseInv
    <3>2. Span(nodes) = ext.next
      BY <2>2, <2>3, <3>1, HistoryOfNodes, DenseSpan
    <3> QED
      BY <2>2, <3>1, <3>2 DEF WellNumbered
  <2>5. /\ DOMAIN disk' = Paths /\ DOMAIN meant' = Paths
        /\ disk'[o] = Blank
        /\ meant'[o] = [ident |-> OutIdent(cmd, base), nodes |-> nodes]
        /\ \A q \in Paths \ {o} : disk'[q] = disk[q] /\ meant'[q] = meant[q]
    BY <2>1, <2>2
  <2> HIDE DEF o, nodes
  <2>6. TypeInv'
    <3>1. FileShape'
      BY <2>3, <2>5, BlankOK DEF IInv, TypeInv, FileShape
    <3>2. CmdInv' /\ RunShape' /\ pc' \in Stages
      BY <2>1 DEF IInv, TypeInv, CmdInv, RunShape, Stages
    <3> QED
      BY <2>1, <3>1, <3>2 DEF IInv, TypeInv
  <2>7. MeantInv'
    BY <2>4, <2>5 DEF IInv, MeantInv
  <2>8. DiskInv'
    BY <2>5 DEF IInv, DiskInv, Blank
  <2>9. FreshInv' /\ BaseInv'
    BY <2>1 DEF IInv, FreshInv, BaseInv
  <2>10. LoadInv' /\ SourceInv'
    BY <2>1 DEF LoadInv, SourceInv
  <2>11. ParseInv'
    BY <2>1 DEF IInv, ParseInv
  <2>12. WriteInv'
    <3>1. Chained(OutIdent(cmd, base).uuid, nodes, hashes, 0)
      BY DEF Chained
    <3> QED
      BY <2>1, <2>2, <2>3, <2>5, <3>1 DEF WriteInv, o, nodes
  <2>13. KeptInv'
    BY <2>1, <2>5 DEF IInv, KeptInv, o
  <2> QED
    BY <2>6, <2>7, <2>8, <2>9, <2>10, <2>11, <2>12, <2>13 DEF IInv
<1> QED
  BY <1>1, <1>2

(* Each revision's hash is of its tree and of the hash before.              *)
LEMMA HashStep ==
  ASSUME IInv, Hash
  PROVE  IInv'
<1> DEFINE nodes == Revisions(base, ext)
           n == Len(hashes)
           uuid == OutIdent(cmd, base).uuid
           next == Digest(uuid, nodes[n + 1], PrevIn(hashes, n + 1))
<1>1. CASE nodes = <<>> /\ Fail
  BY <1>1, FailStep DEF Hash
<1>2. CASE ~(nodes = <<>> /\ Fail)
  <2>1. /\ pc = "hash" /\ n + 1 <= Len(nodes) /\ hashes' = Append(hashes, next)
        /\ UNCHANGED <<disk, damages, pc, cmd, base, known, ext, lost, meant, before>>
    BY <1>2 DEF Hash
  <2>2. IsSeq(hashes) /\ n \in Nat /\ DOMAIN hashes = 1 .. n
    BY IsSeqLen DEF IInv, TypeInv, RunShape
  <2>3. /\ IsSeq(hashes') /\ Len(hashes') = n + 1 /\ DOMAIN hashes' = 1 .. n + 1
        /\ \A i \in 1 .. n : hashes'[i] = hashes[i]
        /\ hashes'[n + 1] = next
    BY <2>1, <2>2, AppendIsSeq
  <2>4. TypeInv'
    <3>1. RunShape'
      BY <2>1, <2>3 DEF IInv, TypeInv, RunShape
    <3>2. CmdInv' /\ FileShape'
      BY <2>1 DEF IInv, TypeInv, CmdInv, FileShape
    <3> QED
      BY <2>1, <3>1, <3>2 DEF IInv, TypeInv
  <2>5. MeantInv' /\ DiskInv'
    BY <2>1 DEF IInv, MeantInv, DiskInv
  <2>6. FreshInv' /\ BaseInv'
    BY <2>1 DEF IInv, FreshInv, BaseInv
  <2>7. LoadInv' /\ SourceInv'
    BY <2>1 DEF LoadInv, SourceInv
  <2>8. ParseInv'
    BY <2>1 DEF IInv, ParseInv
  <2>9. WriteInv'
    <3>1. Chained(uuid, nodes, hashes, n)
      BY <2>1 DEF IInv, WriteInv
    <3>2. \A i \in 1 .. n + 1 : PrevIn(hashes', i) = PrevIn(hashes, i)
      BY <2>2, <2>3 DEF PrevIn
    <3>3. \A i \in 1 .. n + 1 : i \in 1 .. n \/ i = n + 1
      BY <2>2
    <3>4. n + 1 \in 1 .. n + 1
      BY <2>2
    <3> HIDE DEF nodes, uuid, n
    <3>5. Chained(uuid, nodes, hashes', n + 1)
      BY <2>3, <3>1, <3>2, <3>3, <3>4 DEF Chained
    <3> QED
      BY <2>1, <2>3, <3>5 DEF IInv, WriteInv, nodes, uuid
  <2>10. KeptInv'
    BY <2>1 DEF IInv, KeptInv
  <2> QED
    BY <2>4, <2>5, <2>6, <2>7, <2>8, <2>9, <2>10 DEF IInv
<1> QED
  BY <1>1, <1>2

(* The hash table goes to disk ahead of the trees: each hash is the digest  *)
(* of the revision meant at its place.                                      *)
LEMMA WriteHeadStep ==
  ASSUME IInv, WriteHead
  PROVE  IInv'
<1> DEFINE o == cmd.out
           nodes == Revisions(base, ext)
           h == Header(OutIdent(cmd, base), hashes)
<1>1. /\ pc = "hash" /\ pc' = "write" /\ hashes # <<>> /\ Len(hashes) = Len(nodes)
      /\ disk' = [disk EXCEPT ![o] = h]
      /\ UNCHANGED <<damages, cmd, base, known, ext, hashes, lost, meant, before>>
  BY DEF WriteHead, run
<1>2. /\ o \in Paths /\ DOMAIN disk = Paths
      /\ IsSeq(hashes) /\ DOMAIN hashes = 1 .. Len(hashes) /\ Len(hashes) \in Nat
  BY <1>1, IsSeqLen DEF IInv, TypeInv, CmdInv, FileShape, RunShape
<1>3. /\ DOMAIN disk' = Paths /\ disk'[o] = h /\ \A q \in Paths \ {o} : disk'[q] = disk[q]
  BY <1>1, <1>2
<1>4. /\ h.ident = OutIdent(cmd, base) /\ h.root = hashes[1] /\ h.hashes = hashes
      /\ h.trees = <<>>
  BY DEF Header
<1>5. /\ meant[o] = [ident |-> OutIdent(cmd, base), nodes |-> nodes]
      /\ Chained(OutIdent(cmd, base).uuid, nodes, hashes, Len(hashes))
  BY <1>1 DEF IInv, WriteInv
<1> HIDE DEF o, nodes, h
<1>6. TypeInv'
  <2>1. FileShape'
    BY <1>1, <1>2, <1>3, <1>4, IsSeqEmpty DEF IInv, TypeInv, FileShape, FileOK
  <2>2. CmdInv' /\ RunShape' /\ pc' \in Stages
    BY <1>1 DEF IInv, TypeInv, CmdInv, RunShape, Stages
  <2> QED
    BY <1>1, <2>1, <2>2 DEF IInv, TypeInv
<1>7. MeantInv'
  BY <1>1 DEF IInv, MeantInv
<1>8. DiskInv'
  <2> SUFFICES ASSUME NEW q \in Paths, disk'[q].hashes # <<>>
               PROVE  /\ Len(disk'[q].hashes) = Len(meant[q].nodes)
                      /\ \A i \in DOMAIN disk'[q].hashes :
                           HashOf(disk'[q].hashes[i], meant[q].ident.uuid, meant[q].nodes[i])
    BY <1>1 DEF DiskInv
  <2>1. CASE q # o
    BY <2>1, <1>3 DEF IInv, DiskInv
  <2>2. CASE q = o
    <3>1. disk'[q].hashes = hashes /\ Len(hashes) = Len(meant[q].nodes)
      BY <2>2, <1>1, <1>3, <1>4, <1>5 DEF nodes
    <3>2. ASSUME NEW i \in DOMAIN hashes
          PROVE  HashOf(hashes[i], meant[q].ident.uuid, meant[q].nodes[i])
      <4>1. hashes[i] = Digest(meant[q].ident.uuid, meant[q].nodes[i], PrevIn(hashes, i))
        BY <2>2, <1>2, <1>5 DEF Chained
      <4> QED
        BY <4>1 DEF HashOf, Digest
    <3> QED
      BY <3>1, <3>2
  <2> QED
    BY <2>1, <2>2
<1>9. FreshInv' /\ BaseInv'
  BY <1>1 DEF IInv, FreshInv, BaseInv
<1>10. LoadInv' /\ SourceInv'
  BY <1>1 DEF LoadInv, SourceInv
<1>11. ParseInv'
  BY <1>1 DEF IInv, ParseInv
<1>12. WriteInv'
  <2>1. Written'
    BY <1>1, <1>2, <1>3, <1>4, IsSeqEmpty DEF Written, o, nodes
  <2> QED
    BY <1>1, <1>2, <2>1 DEF IInv, WriteInv
<1>13. KeptInv'
  BY <1>1, <1>3 DEF IInv, KeptInv, o
<1> QED
  BY <1>6, <1>7, <1>8, <1>9, <1>10, <1>11, <1>12, <1>13 DEF IInv

(* A tree is written behind the trees there are.                            *)
LEMMA WriteTreeStep ==
  ASSUME IInv, WriteTree
  PROVE  IInv'
<1> DEFINE o == cmd.out
           nodes == Revisions(base, ext)
           n == Len(disk[o].trees)
           t == [node |-> nodes[n + 1], prev |-> PrevIn(hashes, n + 1)]
           g == WithTrees(disk[o], Append(disk[o].trees, t))
<1>1. /\ pc = "write" /\ n + 1 <= Len(hashes)
      /\ disk' = [disk EXCEPT ![o] = g]
      /\ UNCHANGED <<damages, pc, cmd, base, known, ext, hashes, lost, meant, before>>
  BY DEF WriteTree, run
<1>2. /\ o \in Paths /\ DOMAIN disk = Paths /\ FileOK(disk[o])
      /\ base.nodes \in Seq(Nodes) /\ ext.nodes \in Seq(Nodes)
      /\ Written
  BY <1>1 DEF IInv, TypeInv, CmdInv, FileShape, RunShape, WriteInv
<1>3. /\ DOMAIN disk' = Paths /\ disk'[o] = g /\ \A q \in Paths \ {o} : disk'[q] = disk[q]
  BY <1>1, <1>2
<1>4. n \in Nat /\ DOMAIN disk[o].trees = 1 .. n /\ IsSeq(disk[o].trees)
  BY <1>2, IsSeqLen DEF FileOK
<1>5. /\ IsSeq(g.trees) /\ Len(g.trees) = n + 1 /\ DOMAIN g.trees = 1 .. n + 1
      /\ \A i \in 1 .. n : g.trees[i] = disk[o].trees[i]
      /\ g.trees[n + 1] = t
      /\ g.ident = disk[o].ident /\ g.root = disk[o].root /\ g.hashes = disk[o].hashes
  <2>1. /\ g.trees = Append(disk[o].trees, t) /\ g.ident = disk[o].ident
        /\ g.root = disk[o].root /\ g.hashes = disk[o].hashes
    BY DEF WithTrees
  <2> HIDE DEF g, t
  <2> QED
    BY <1>4, <2>1, AppendIsSeq
<1>6. nodes[n + 1] \in Nodes
  <2>1. nodes \in Seq(Nodes) /\ Len(nodes) = Len(hashes)
    BY <1>2, RevisionsOf DEF Written
  <2>2. n + 1 \in 1 .. Len(nodes)
    BY <1>1, <1>4, <2>1, LenProperties
  <2> QED
    BY <2>1, <2>2, LenProperties
<1>7. t.node = nodes[n + 1]
  OBVIOUS
<1>8. \A i \in 1 .. n + 1 : i \in 1 .. n \/ i = n + 1
  BY <1>4
<1> HIDE DEF o, nodes, n, g
<1>9. TypeInv'
  <2>1. FileOK(g)
    BY <1>2, <1>4, <1>5, <1>6, <1>7, <1>8 DEF FileOK
  <2>2. FileShape'
    BY <1>1, <1>3, <2>1 DEF IInv, TypeInv, FileShape
  <2>3. CmdInv' /\ RunShape'
    BY <1>1 DEF IInv, TypeInv, CmdInv, RunShape
  <2> QED
    BY <1>1, <2>2, <2>3 DEF IInv, TypeInv
<1>10. MeantInv'
  BY <1>1 DEF IInv, MeantInv
<1>11. DiskInv'
  <2>1. \A q \in Paths : disk'[q].hashes = disk[q].hashes
    BY <1>3, <1>5
  <2> QED
    BY <1>1, <2>1 DEF IInv, DiskInv
<1>12. FreshInv' /\ BaseInv'
  BY <1>1 DEF IInv, FreshInv, BaseInv
<1>13. LoadInv' /\ SourceInv'
  BY <1>1 DEF LoadInv, SourceInv
<1>14. ParseInv'
  BY <1>1 DEF IInv, ParseInv
<1>15. WriteInv'
  <2>1. \A i \in 1 .. n : disk[o].trees[i] = [node |-> nodes[i], prev |-> PrevIn(hashes, i)]
    BY <1>2, <1>4 DEF Written, o, nodes
  <2>2. \A i \in DOMAIN g.trees : g.trees[i] = [node |-> nodes[i], prev |-> PrevIn(hashes, i)]
    BY <2>1, <1>5, <1>8
  <2>3. Written'
    BY <1>1, <1>2, <1>3, <1>5, <2>2 DEF Written, o, nodes
  <2> QED
    BY <1>1, <2>3 DEF IInv, WriteInv
<1>16. KeptInv'
  BY <1>1, <1>3 DEF IInv, KeptInv, o
<1> QED
  BY <1>9, <1>10, <1>11, <1>12, <1>13, <1>14, <1>15, <1>16 DEF IInv

(* Closing changes no file.                                                 *)
LEMMA CloseStep ==
  ASSUME IInv, Close
  PROVE  IInv'
<1>1. /\ pc \in {"hash", "write"} /\ pc' = "done" /\ lost' \in BOOLEAN
      /\ ~lost' => pc = "write" /\ Len(disk[cmd.out].trees) = Len(hashes)
      /\ UNCHANGED <<disk, damages, cmd, base, known, ext, hashes, meant, before>>
  BY DEF Close
<1>2. TypeInv'
  BY <1>1 DEF IInv, TypeInv, CmdInv, RunShape, FileShape, Stages
<1>3. MeantInv' /\ DiskInv'
  BY <1>1 DEF IInv, MeantInv, DiskInv
<1>4. FreshInv' /\ BaseInv'
  BY <1>1 DEF IInv, FreshInv, BaseInv
<1>5. LoadInv' /\ SourceInv'
  BY <1>1 DEF LoadInv, SourceInv
<1>6. ParseInv'
  BY <1>1 DEF IInv, ParseInv
<1>7. WriteInv'
  <2>1. ~lost' => Written'
    BY <1>1 DEF IInv, WriteInv, Written
  <2> QED
    BY <1>1, <2>1 DEF IInv, WriteInv
<1>8. KeptInv'
  BY <1>1 DEF IInv, KeptInv
<1> QED
  BY <1>2, <1>3, <1>4, <1>5, <1>6, <1>7, <1>8 DEF IInv

(***************************************************************************)
(* The invariant, and what follows from it.                                 *)
(***************************************************************************)
(* No step keeps all there is.                                              *)
LEMMA StutterStep ==
  ASSUME IInv, UNCHANGED vars
  PROVE  IInv'
<1>1. UNCHANGED <<disk, damages, pc, cmd, base, known, ext, hashes, lost, meant, before>>
  BY DEF vars, run
<1>2. TypeInv'
  BY <1>1 DEF IInv, TypeInv, CmdInv, RunShape, FileShape
<1>3. MeantInv' /\ DiskInv' /\ FreshInv' /\ BaseInv'
  BY <1>1 DEF IInv, MeantInv, DiskInv, FreshInv, BaseInv
<1>4. LoadInv' /\ SourceInv' /\ ParseInv'
  BY <1>1 DEF IInv, LoadInv, SourceInv, ParseInv, BaseMeant
<1>5. WriteInv' /\ KeptInv'
  BY <1>1 DEF IInv, WriteInv, Written, KeptInv
<1> QED
  BY <1>2, <1>3, <1>4, <1>5 DEF IInv

(* The parts of IInv hold in every reachable state: through every stage of  *)
(* every run, after kills, lost writes and damaged fields (SidlCompile's    *)
(* whole next-state relation).                                              *)
THEOREM Inductive == Spec => []IInv
<1>1. Init => IInv
  BY InitInv
<1>2. IInv /\ [Next]_vars => IInv'
  <2> SUFFICES ASSUME IInv, [Next]_vars PROVE IInv'
    OBVIOUS
  <2>1. CASE Start
    BY <2>1, StartStep
  <2>2. CASE ReadHead
    BY <2>2, ReadHeadStep
  <2>3. CASE ReadTree
    BY <2>3, ReadTreeStep
  <2>4. CASE ReadEnd
    BY <2>4, ReadEndStep
  <2>5. CASE ParseRevision
    BY <2>5, ParseRevisionStep
  <2>6. CASE Validate
    BY <2>6, ValidateStep
  <2>7. CASE Open
    BY <2>7, OpenStep
  <2>8. CASE Hash
    BY <2>8, HashStep
  <2>9. CASE WriteHead
    BY <2>9, WriteHeadStep
  <2>10. CASE WriteTree
    BY <2>10, WriteTreeStep
  <2>11. CASE Close
    BY <2>11, CloseStep
  <2>12. CASE Exit
    BY <2>12, ForgetStep DEF Exit
  <2>13. CASE Crash
    BY <2>13, ForgetStep DEF Crash
  <2>14. CASE Damage
    BY <2>14, DamageStep
  <2>15. CASE UNCHANGED vars
    BY <2>15, StutterStep
  <2> QED
    BY <2>1, <2>2, <2>3, <2>4, <2>5, <2>6, <2>7, <2>8, <2>9, <2>10, <2>11, <2>12,
       <2>13, <2>14, <2>15 DEF Next, RunStep
<1> QED
  BY <1>1, <1>2, PTL DEF Spec

(* The shapes TypeOK states hold for every choice of the constants.         *)
THEOREM TypeCorrect == Spec => []TypeOK
<1>1. IInv => TypeOK
  <2> SUFFICES ASSUME IInv PROVE TypeOK
    OBVIOUS
  <2>1. /\ pc \in Stages /\ damages \in 0 .. MaxDamage /\ lost \in BOOLEAN
        /\ CmdInv /\ RunShape /\ FileShape
    BY DEF IInv, TypeInv
  <2> QED
    BY <2>1 DEF TypeOK, CmdInv, RunShape, FileShape, FileOK
<1> QED
  BY <1>1, Inductive, PTL

(* In any state of the invariant, what a reader accepts is what was meant.  *)
LEMMA AcceptedIsMeant ==
  ASSUME IInv, NEW p \in Paths, Accepts(disk[p])
  PROVE  NodesOf(disk[p]) = meant[p].nodes
<1> DEFINE f == disk[p]
           whole == meant[p].nodes
<1>1. /\ f.hashes # <<>> /\ Len(f.trees) = Len(f.hashes)
      /\ \A i \in DOMAIN f.trees : TreeAccepted(f.ident.uuid, f.hashes, f.trees, i)
  BY DEF Accepts, HeadAccepted
<1>2. /\ IsSeq(f.hashes) /\ IsSeq(f.trees)
      /\ MeantInv /\ DiskInv /\ FileShape /\ whole \in Seq(Nodes)
  BY DEF IInv, TypeInv, FileShape, FileOK
<1>3. /\ DOMAIN f.trees = 1 .. Len(f.trees) /\ DOMAIN f.hashes = 1 .. Len(f.hashes)
      /\ Len(f.hashes) = Len(whole)
  BY <1>1, <1>2, IsSeqLen DEF DiskInv
<1>4. ASSUME NEW i \in DOMAIN f.trees
      PROVE  f.trees[i].node = whole[i]
  <2>1. Digest(f.ident.uuid, f.trees[i].node, f.trees[i].prev) = f.hashes[i]
    BY <1>1 DEF TreeAccepted
  <2>2. i \in DOMAIN f.hashes
    BY <1>1, <1>3
  <2> QED
    BY <1>1, <1>2, <2>1, <2>2, VerifiedIsMeant
<1>5. DOMAIN f.trees = 1 .. Len(whole) /\ whole = [i \in 1 .. Len(whole) |-> whole[i]]
  BY <1>1, <1>2, <1>3, LenProperties
<1> QED
  BY <1>4, <1>5 DEF NodesOf

(* A readable artifact is exactly what was meant to be in it, whatever was  *)
(* killed, lost or damaged, and however often (sif_write, sif_read).        *)
THEOREM Integrity == Spec => []PublishedOrRefused
<1>1. IInv => PublishedOrRefused
  BY AcceptedIsMeant DEF PublishedOrRefused
<1> QED
  BY <1>1, Inductive, PTL

(* The ids in a readable artifact number its functions without gap, through *)
(* any sequence of extensions (parse_function, read_function).              *)
THEOREM Numbering == Spec => []FuncIdsDense
<1>1. IInv => FuncIdsDense
  <2> SUFFICES ASSUME IInv, NEW p \in Paths, Accepts(disk[p])
               PROVE  DenseIds(NodesOf(disk[p]), Span(NodesOf(disk[p])))
    BY DEF FuncIdsDense
  <2>1. NodesOf(disk[p]) = meant[p].nodes
    BY AcceptedIsMeant
  <2> QED
    BY <2>1 DEF IInv, MeantInv, WellNumbered
<1> QED
  BY <1>1, Inductive, PTL

(* An extension starts from the history that was published (sif_read,       *)
(* command_compile's counters).                                             *)
THEOREM Loading == Spec => []LoadedWasPublished
<1>1. IInv => LoadedWasPublished
  <2> SUFFICES ASSUME IInv, pc \in {"parse", "open"}, cmd.base # None
               PROVE  /\ base.nodes = meant[cmd.base].nodes
                      /\ base.ident.uuid = meant[cmd.base].ident.uuid
                      /\ base.next = Span(base.nodes)
    BY DEF LoadedWasPublished
  <2>1. /\ BaseMeant /\ base.nodes # <<>> /\ Len(base.nodes) = Len(meant[cmd.base].nodes)
        /\ DenseIds(base.nodes, base.next) /\ base.next \in Nat
        /\ base.nodes \in Seq(Nodes) /\ cmd.base \in Paths
        /\ meant[cmd.base].nodes \in Seq(Nodes)
    BY DEF IInv, SourceInv, BaseInv, TypeInv, RunShape, CmdInv, FileShape
  <2>2. base.nodes = meant[cmd.base].nodes
    <3>1. DOMAIN base.nodes = 1 .. Len(base.nodes)
          /\ base.nodes = [i \in 1 .. Len(base.nodes) |-> base.nodes[i]]
          /\ meant[cmd.base].nodes = [i \in 1 .. Len(base.nodes) |-> meant[cmd.base].nodes[i]]
      BY <2>1, LenProperties
    <3> QED
      BY <2>1, <3>1 DEF BaseMeant
  <2>3. base.ident.uuid = meant[cmd.base].ident.uuid
    <3>1. 1 \in DOMAIN base.nodes
      BY <2>1, EmptySeq, LenProperties
    <3> QED
      BY <2>1, <3>1 DEF BaseMeant
  <2>4. base.next = Span(base.nodes)
    BY <2>1, HistoryOfNodes, DenseSpan
  <2> QED
    BY <2>2, <2>3, <2>4
<1> QED
  BY <1>1, Inductive, PTL

(* A failing run leaves every file as it was, but for the one case where    *)
(* there was nothing to write (command_compile, sif.cc:999).                *)
THEOREM Keeping == Spec => []ArtifactsKept
<1>1. IInv => ArtifactsKept
  BY DEF IInv, KeptInv, ArtifactsKept
<1> QED
  BY <1>1, Inductive, PTL

-----------------------------------------------------------------------------
(***************************************************************************)
(* Proofs about hash chains: what equal hashes say of two histories, and    *)
(* what equal histories say of their hashes, for histories of any length.   *)
(* Each revision's hash covers the hash before it, so these are inductions  *)
(* along the chain; LeastNat supplies the first counterexample.             *)
(***************************************************************************)

(* Equal revisions under one UUID have equal hashes, from the first on.     *)
LEMMA ChainUp ==
  ASSUME NEW uuid, NEW x, NEW y, NEW hx, NEW hy, NEW n \in Nat,
         Chained(uuid, x, hx, n), Chained(uuid, y, hy, n),
         \A i \in 1 .. n : x[i] = y[i]
  PROVE  \A i \in 1 .. n : hx[i] = hy[i]
<1> DEFINE S == {i \in 1 .. n : hx[i] # hy[i]}
<1>1. SUFFICES ASSUME S # {} PROVE FALSE
  OBVIOUS
<1>2. S \in SUBSET Nat
  OBVIOUS
<1>3. PICK k \in S : \A i \in S : k <= i
  <2> HIDE DEF S
  <2> QED BY <1>1, <1>2, LeastNat
<1>4. k \in 1 .. n /\ hx[k] # hy[k]
  OBVIOUS
<1>5. PrevIn(hx, k) = PrevIn(hy, k)
  <2>1. CASE k = 1
    BY <2>1 DEF PrevIn
  <2>2. CASE k # 1
    <3>1. k - 1 \in 1 .. n /\ ~(k <= k - 1)
      BY <1>4, <2>2
    <3>2. k - 1 \notin S
      <4> HIDE DEF S
      <4> QED BY <1>3, <3>1
    <3> QED
      BY <2>2, <3>1, <3>2 DEF PrevIn
  <2> QED
    BY <2>1, <2>2
<1> QED
  BY <1>4, <1>5 DEF Chained

(* SHA-256 is idealised: equal digests are digests of the same.             *)
LEMMA DigestInjective ==
  ASSUME NEW u, NEW v, NEW x, NEW y, NEW g, NEW h, Digest(u, x, g) = Digest(v, y, h)
  PROVE  u = v /\ x = y /\ g = h
  BY DEF Digest

(* A hash two chains share is a hash of the same past in both: the digest   *)
(* is injective and contains the hash before it.                            *)
LEMMA ChainDown ==
  ASSUME NEW u, NEW v, NEW x, NEW y, NEW hx, NEW hy, NEW k \in Nat,
         Chained(u, x, hx, k), Chained(v, y, hy, k), k # 0, hx[k] = hy[k]
  PROVE  \A i \in 1 .. k : x[i] = y[i]
<1> DEFINE S == {d \in 0 .. k - 1 : hx[k - d] # hy[k - d]}
<1>1. S \in SUBSET Nat
  OBVIOUS
<1>2. ASSUME S # {} PROVE FALSE
  <2>1. PICK d \in S : \A e \in S : d <= e
    <3> HIDE DEF S
    <3> QED BY <1>1, <1>2, LeastNat
  <2>2. d \in 0 .. k - 1 /\ hx[k - d] # hy[k - d]
    OBVIOUS
  <2>3. d # 0
    BY <2>2
  <2>4. d - 1 \in 0 .. k - 1 /\ ~(d <= d - 1)
    BY <2>2, <2>3
  <2>5. d - 1 \notin S
    <3> HIDE DEF S
    <3> QED BY <2>1, <2>4
  <2> DEFINE j == k - d + 1
  <2>6. j \in 1 .. k /\ j # 1 /\ j - 1 = k - d /\ k - (d - 1) = j
    BY <2>2, <2>3
  <2>7. hx[j] = hy[j]
    BY <2>4, <2>5, <2>6
  <2> HIDE DEF j
  <2>8. hx[j] = Digest(u, x[j], PrevIn(hx, j)) /\ hy[j] = Digest(v, y[j], PrevIn(hy, j))
    BY <2>6 DEF Chained
  <2>9. PrevIn(hx, j) = PrevIn(hy, j)
    <3>1. Digest(u, x[j], PrevIn(hx, j)) = Digest(v, y[j], PrevIn(hy, j))
      BY <2>7, <2>8
    <3> QED
      BY <3>1, DigestInjective
  <2> QED
    BY <2>2, <2>6, <2>9 DEF PrevIn
<1>3. ASSUME NEW i \in 1 .. k
      PROVE  hx[i] = hy[i]
  <2>1. k - i \in 0 .. k - 1 /\ k - (k - i) = i
    OBVIOUS
  <2> QED
    BY <1>2, <2>1
<1>4. ASSUME NEW i \in 1 .. k
      PROVE  x[i] = y[i]
  <2>1. hx[i] = Digest(u, x[i], PrevIn(hx, i)) /\ hy[i] = Digest(v, y[i], PrevIn(hy, i))
    BY DEF Chained
  <2> QED
    BY <1>3, <2>1, DigestInjective
<1> QED
  BY <1>4

(* What a reader accepts is a chain of digests.                             *)
LEMMA AcceptedChain ==
  ASSUME NEW f, FileOK(f), Accepts(f)
  PROVE  /\ Len(f.hashes) \in Nat /\ Len(f.hashes) # 0
         /\ DOMAIN f.hashes = 1 .. Len(f.hashes)
         /\ DOMAIN NodesOf(f) = 1 .. Len(f.hashes)
         /\ \A i \in 1 .. Len(f.hashes) : NodesOf(f)[i] \in Nodes /\ NodesOf(f)[i].version = i - 1
         /\ Chained(f.ident.uuid, NodesOf(f), f.hashes, Len(f.hashes))
<1> DEFINE n == Len(f.hashes)
<1>1. /\ IsSeq(f.hashes) /\ IsSeq(f.trees) /\ f.hashes # <<>> /\ Len(f.trees) = n
      /\ \A i \in DOMAIN f.trees : TreeAccepted(f.ident.uuid, f.hashes, f.trees, i)
      /\ \A i \in DOMAIN f.trees : f.trees[i].node \in Nodes
  BY DEF FileOK, Accepts, HeadAccepted
<1>2. n \in Nat /\ n # 0 /\ DOMAIN f.hashes = 1 .. n /\ DOMAIN f.trees = 1 .. n
  BY <1>1, IsSeqLen
<1>3. DOMAIN NodesOf(f) = 1 .. n /\ \A i \in 1 .. n : NodesOf(f)[i] = f.trees[i].node
  BY <1>2 DEF NodesOf
<1>4. ASSUME NEW i \in 1 .. n
      PROVE  f.hashes[i] = Digest(f.ident.uuid, NodesOf(f)[i], PrevIn(f.hashes, i))
  BY <1>1, <1>2, <1>3 DEF TreeAccepted
<1>5. ASSUME NEW i \in 1 .. n
      PROVE  NodesOf(f)[i] \in Nodes /\ NodesOf(f)[i].version = i - 1
  BY <1>1, <1>2, <1>3 DEF TreeAccepted
<1> QED
  BY <1>2, <1>3, <1>4, <1>5 DEF Chained

(***************************************************************************)
(* The invariants.                                                          *)
(***************************************************************************)
(* Artifacts of one interface that share a revision's hash share everything *)
(* up to it, whatever runs, kills and damage made of them (the previous     *)
(* hash in each tree, read_revision_tree's digest).                         *)
THEOREM SharedPast == Spec => []SharedHashSharedPast
<1>1. IInv => SharedHashSharedPast
  <2> SUFFICES ASSUME IInv, NEW p \in Paths, NEW q \in Paths,
                      Accepts(disk[p]), Accepts(disk[q]),
                      NEW k \in DOMAIN disk[p].hashes \cap DOMAIN disk[q].hashes,
                      disk[p].hashes[k] = disk[q].hashes[k]
               PROVE  SubSeq(NodesOf(disk[p]), 1, k) = SubSeq(NodesOf(disk[q]), 1, k)
    BY DEF SharedHashSharedPast
  <2> DEFINE f == disk[p]
             g == disk[q]
  <2>1. FileOK(f) /\ FileOK(g)
    BY DEF IInv, TypeInv, FileShape
  <2>2. /\ k \in Nat /\ k # 0
        /\ k \in 1 .. Len(f.hashes) /\ k \in 1 .. Len(g.hashes)
        /\ Len(f.hashes) \in Nat /\ Len(g.hashes) \in Nat
    BY <2>1, AcceptedChain
  <2>3. /\ Chained(f.ident.uuid, NodesOf(f), f.hashes, k)
        /\ Chained(g.ident.uuid, NodesOf(g), g.hashes, k)
    <3>1. \A i \in 1 .. k : i \in 1 .. Len(f.hashes) /\ i \in 1 .. Len(g.hashes)
      BY <2>2
    <3>2. /\ Chained(f.ident.uuid, NodesOf(f), f.hashes, Len(f.hashes))
          /\ Chained(g.ident.uuid, NodesOf(g), g.hashes, Len(g.hashes))
      BY <2>1, AcceptedChain
    <3> QED
      BY <3>1, <3>2 DEF Chained
  <2>4. \A i \in 1 .. k : NodesOf(f)[i] = NodesOf(g)[i]
    BY <2>2, <2>3, ChainDown
  <2> QED
    BY <2>2, <2>4
<1> QED
  BY <1>1, Inductive, PTL

(* A run that ends well has left a whole, readable artifact, or the device  *)
(* was full (command_compile's `return 0`).                                 *)
THEOREM Success == Spec => []SuccessMeansReadable
<1>1. IInv => SuccessMeansReadable
  <2> SUFFICES ASSUME IInv, pc = "done", ~lost
               PROVE  /\ Accepts(disk[cmd.out])
                      /\ NodesOf(disk[cmd.out]) = meant[cmd.out].nodes
                      /\ disk[cmd.out].ident = meant[cmd.out].ident
    BY DEF SuccessMeansReadable
  <2> DEFINE f == disk[cmd.out]
             nodes == Revisions(base, ext)
  <2>1. /\ Written /\ Len(f.trees) = Len(hashes)
        /\ meant[cmd.out] = [ident |-> OutIdent(cmd, base), nodes |-> nodes]
        /\ Chained(OutIdent(cmd, base).uuid, nodes, hashes, Len(hashes))
        /\ Contiguous(nodes)
    BY DEF IInv, WriteInv, ParseInv
  <2>2. /\ cmd.out \in Paths /\ FileOK(f) /\ nodes \in Seq(Nodes) /\ IsSeq(hashes)
    BY RevisionsOf DEF IInv, TypeInv, CmdInv, FileShape, RunShape
  <2>3. /\ f.hashes = hashes /\ f.root = hashes[1] /\ hashes # <<>>
        /\ f.ident = OutIdent(cmd, base) /\ Len(nodes) = Len(hashes)
        /\ \A i \in DOMAIN f.trees : f.trees[i] = [node |-> nodes[i], prev |-> PrevIn(hashes, i)]
    BY <2>1 DEF Written
  <2>4. DOMAIN f.trees = 1 .. Len(hashes) /\ DOMAIN nodes = 1 .. Len(hashes)
    BY <2>1, <2>2, <2>3, IsSeqLen, LenProperties DEF FileOK
  <2>5. ASSUME NEW i \in DOMAIN f.trees
        PROVE  TreeAccepted(f.ident.uuid, f.hashes, f.trees, i)
    <3>1. i <= Len(f.trees) /\ nodes[i].version = i - 1
      BY <2>1, <2>4 DEF Contiguous
    <3>2. hashes[i] = Digest(f.ident.uuid, nodes[i], PrevIn(hashes, i))
      BY <2>1, <2>3, <2>4 DEF Chained
    <3> HIDE DEF f, nodes
    <3>3. f.trees[i] = [node |-> nodes[i], prev |-> PrevIn(hashes, i)]
      BY <2>3
    <3>4. f.trees[i].node = nodes[i] /\ f.trees[i].prev = PrevIn(hashes, i)
      BY <3>3
    <3> QED
      BY <2>3, <3>1, <3>2, <3>4 DEF TreeAccepted
  <2>6. Accepts(f)
    <3> HIDE DEF f, nodes
    <3> QED BY <2>1, <2>3, <2>5 DEF Accepts, HeadAccepted
  <2>7. NodesOf(f) = meant[cmd.out].nodes
    BY <2>2, <2>6, AcceptedIsMeant
  <2> QED
    BY <2>1, <2>3, <2>6, <2>7
<1> QED
  BY <1>1, Inductive, PTL

(* An extension writes the hashes of its base over again, unchanged: the    *)
(* reader checked them against the same digests (sif_write's first loop).   *)
THEOREM Extension == Spec => []ExtensionKeepsHistory
<1>1. IInv => ExtensionKeepsHistory
  <2> SUFFICES ASSUME IInv, pc = "write", cmd.base # None
               PROVE  Len(known) <= Len(hashes) /\ SubSeq(hashes, 1, Len(known)) = known
    BY DEF ExtensionKeepsHistory
  <2> DEFINE n == Len(known)
             nodes == Revisions(base, ext)
  <2>1. /\ base.nodes \in Seq(Nodes) /\ ext.nodes \in Seq(Nodes)
        /\ IsSeq(known) /\ IsSeq(hashes)
    BY DEF IInv, TypeInv, RunShape
  <2>2. /\ n \in Nat /\ DOMAIN known = 1 .. n /\ Len(hashes) \in Nat
        /\ Len(base.nodes) \in Nat /\ Len(ext.nodes) \in Nat
    BY <2>1, IsSeqLen, LenProperties
  <2>3. /\ Len(base.nodes) = n
        /\ Chained(base.ident.uuid, base.nodes, known, n)
        /\ Len(hashes) = Len(nodes)
        /\ Chained(base.ident.uuid, nodes, hashes, Len(hashes))
    BY DEF IInv, BaseInv, ParseInv, WriteInv, Written, OutIdent
  <2>4. /\ Len(nodes) = n + Len(ext.nodes)
        /\ \A i \in 1 .. n : nodes[i] = base.nodes[i]
    BY ZenonT(40), <2>1, <2>3, RevisionsOf
  <2>5. n <= Len(hashes) /\ \A i \in 1 .. n : i \in 1 .. Len(hashes)
    BY <2>2, <2>3, <2>4
  <2> HIDE DEF n, nodes
  <2>6. Chained(base.ident.uuid, nodes, hashes, n)
    BY <2>3, <2>5 DEF Chained
  <2>7. \A i \in 1 .. n : hashes[i] = known[i]
    BY <2>2, <2>3, <2>4, <2>6, ChainUp
  <2>8. SubSeq(hashes, 1, n) = [i \in 1 .. n |-> hashes[i]]
    BY <2>2
  <2>9. known = [i \in 1 .. n |-> known[i]]
    BY <2>1, <2>2 DEF IsSeq
  <2> QED
    BY <2>5, <2>7, <2>8, <2>9 DEF n
<1> QED
  BY <1>1, Inductive, PTL

(* Two nodes that agree in all that a source determines are the same node.  *)
LEMMA NodeEquality ==
  ASSUME NEW x \in Nodes, NEW y \in Nodes,
         x.version = y.version, x.body = y.body,
         DOMAIN x.funcs = DOMAIN y.funcs,
         \A j \in DOMAIN x.funcs :
           x.funcs[j].name = y.funcs[j].name /\ x.funcs[j].id = y.funcs[j].id
  PROVE  x = y
<1>1. x.funcs \in Seq(Funcs) /\ y.funcs \in Seq(Funcs)
  BY DEF Nodes
<1>2. \A j \in DOMAIN x.funcs : x.funcs[j] \in Funcs /\ y.funcs[j] \in Funcs
  BY <1>1, LenProperties
<1>3. \A j \in DOMAIN x.funcs : x.funcs[j] = y.funcs[j]
  BY <1>2 DEF Funcs
<1>4. /\ x.funcs = [j \in DOMAIN x.funcs |-> x.funcs[j]]
      /\ y.funcs = [j \in DOMAIN y.funcs |-> y.funcs[j]]
  BY <1>1, LenProperties
<1>5. x.funcs = y.funcs
  BY <1>3, <1>4
<1> QED
  BY <1>5 DEF Nodes

(* Well numbered histories with the same view are the same history.         *)
LEMMA ViewDetermines ==
  ASSUME NEW x \in Seq(Nodes), NEW y \in Seq(Nodes),
         WellNumbered(x), WellNumbered(y), View(x) = View(y)
  PROVE  x = y
<1>1. DOMAIN View(x) = DOMAIN x /\ DOMAIN View(y) = DOMAIN y
  BY DEF View
<1>2. /\ Len(x) \in Nat /\ DOMAIN x = 1 .. Len(x) /\ Len(y) \in Nat /\ DOMAIN y = 1 .. Len(y)
      /\ \A i \in DOMAIN x : x[i] \in Nodes
      /\ \A i \in DOMAIN y : y[i] \in Nodes
  BY LenProperties
<1>3. DOMAIN x = DOMAIN y /\ Len(x) = Len(y)
  <2>1. DOMAIN x = DOMAIN y
    BY <1>1, Zenon
  <2>2. 1 .. Len(x) = 1 .. Len(y)
    BY <2>1, <1>2, Zenon
  <2>3. Len(x) = Len(y)
    BY <2>2, <1>2, SameInterval
  <2> QED
    BY <2>1, <2>3
<1>4. ASSUME NEW i \in DOMAIN x
      PROVE  /\ x[i].body = y[i].body
             /\ DOMAIN x[i].funcs = DOMAIN y[i].funcs
             /\ Len(x[i].funcs) = Len(y[i].funcs)
             /\ \A j \in DOMAIN x[i].funcs : x[i].funcs[j].name = y[i].funcs[j].name
  <2> DEFINE a == [j \in DOMAIN x[i].funcs |-> x[i].funcs[j].name]
             b == [j \in DOMAIN y[i].funcs |-> y[i].funcs[j].name]
  <2>1. View(x)[i] = [body |-> x[i].body, names |-> a]
    BY DEF View
  <2>2. View(y)[i] = [body |-> y[i].body, names |-> b]
    BY <1>3 DEF View
  <2>3. x[i].body = y[i].body /\ a = b
    <3> HIDE DEF a, b
    <3> QED BY <2>1, <2>2
  <2>4. DOMAIN a = DOMAIN x[i].funcs /\ DOMAIN b = DOMAIN y[i].funcs
    OBVIOUS
  <2>5. DOMAIN x[i].funcs = DOMAIN y[i].funcs
    BY <2>3, <2>4
  <2>6. \A j \in DOMAIN x[i].funcs : a[j] = x[i].funcs[j].name /\ b[j] = y[i].funcs[j].name
    BY <2>5
  <2>7. x[i] \in Nodes /\ y[i] \in Nodes
    BY <1>2, <1>3
  <2>8. Len(x[i].funcs) = Len(y[i].funcs)
    BY <2>5, <2>7, NodeFuncs
  <2> HIDE DEF a, b
  <2> QED
    BY <2>3, <2>5, <2>6, <2>8
<1>5. \A i \in DOMAIN x : \A j \in DOMAIN x[i].funcs : x[i].funcs[j].id = y[i].funcs[j].id
  <2>1. History(x) /\ History(y)
    BY HistoryOfNodes
  <2> QED
    <3>1. /\ Span(x) \in Nat /\ DenseIds(x, Span(x))
          /\ Span(y) \in Nat /\ DenseIds(y, Span(y))
      BY DEF WellNumbered
    <3>2. \A i \in DOMAIN x : Len(x[i].funcs) = Len(y[i].funcs)
      BY <1>4
    <3> QED
      BY ZenonT(40), <2>1, <3>1, <3>2, <1>3, SameIds
<1>6. ASSUME NEW i \in DOMAIN x
      PROVE  x[i] = y[i]
  <2>1. x[i].version = y[i].version
    BY <1>3 DEF WellNumbered, Contiguous
  <2>2. x[i] \in Nodes /\ y[i] \in Nodes
    BY <1>2, <1>3
  <2> QED
    BY <2>1, <2>2, <1>4, <1>5, NodeEquality
<1>7. x = [i \in DOMAIN x |-> x[i]] /\ y = [i \in DOMAIN y |-> y[i]]
  BY LenProperties
<1> QED
  BY <1>3, <1>6, <1>7

(* However a history is divided among sources and extensions, its hashes    *)
(* come out the same (parse_function's counter, sif_write's chain).         *)
THEOREM Split == Spec => []SplitIndependence
<1>1. IInv => SplitIndependence
  <2> SUFFICES ASSUME IInv, NEW p \in Paths, NEW q \in Paths,
                      Accepts(disk[p]), Accepts(disk[q]),
                      disk[p].ident.uuid = disk[q].ident.uuid,
                      View(NodesOf(disk[p])) = View(NodesOf(disk[q]))
               PROVE  disk[p].hashes = disk[q].hashes
    BY DEF SplitIndependence
  <2> DEFINE f == disk[p]
             g == disk[q]
             n == Len(f.hashes)
  <2>1. FileOK(f) /\ FileOK(g) /\ meant[p].nodes \in Seq(Nodes) /\ meant[q].nodes \in Seq(Nodes)
    BY DEF IInv, TypeInv, FileShape
  <2>2. NodesOf(f) = meant[p].nodes /\ NodesOf(g) = meant[q].nodes
    BY AcceptedIsMeant
  <2>3. WellNumbered(meant[p].nodes) /\ WellNumbered(meant[q].nodes)
    BY DEF IInv, MeantInv
  <2>4. NodesOf(f) = NodesOf(g)
    BY <2>1, <2>2, <2>3, ViewDetermines
  <2>5. /\ n \in Nat /\ DOMAIN f.hashes = 1 .. n /\ DOMAIN NodesOf(f) = 1 .. n
        /\ Chained(f.ident.uuid, NodesOf(f), f.hashes, n)
    BY <2>1, AcceptedChain
  <2>6. /\ Len(g.hashes) \in Nat /\ DOMAIN g.hashes = 1 .. Len(g.hashes)
        /\ DOMAIN NodesOf(g) = 1 .. Len(g.hashes)
        /\ Chained(g.ident.uuid, NodesOf(g), g.hashes, Len(g.hashes))
    BY <2>1, AcceptedChain
  <2>7. Len(g.hashes) = n
    BY <2>4, <2>5, <2>6
  <2>8. f.hashes = [i \in 1 .. n |-> f.hashes[i]] /\ g.hashes = [i \in 1 .. n |-> g.hashes[i]]
    BY <2>1, <2>5, <2>6, <2>7 DEF FileOK, IsSeq
  <2>9. \A i \in 1 .. n : f.hashes[i] = g.hashes[i]
    BY <2>4, <2>5, <2>6, <2>7, ChainUp
  <2> QED
    BY <2>8, <2>9
<1> QED
  BY <1>1, Inductive, PTL
=============================================================================
