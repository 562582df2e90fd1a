----------------------- MODULE SidlCompileRefinement ------------------------
(***************************************************************************)
(* SidlCompile implements AbiHistory: a proof of the safety property        *)
(* KeepsHistories under the mapping given there (Abstract), step by step.   *)
(***************************************************************************)
EXTENDS SidlCompileProofs

(* An artifact a reader accepts holds a history.                            *)
LEMMA AcceptedHolds ==
  ASSUME IInv, NEW p \in Paths, Accepts(disk[p])
  PROVE  meant[p].nodes # <<>>
<1>1. FileOK(disk[p])
  BY DEF IInv, TypeInv, FileShape
<1>2. DOMAIN NodesOf(disk[p]) = 1 .. Len(disk[p].hashes)
      /\ Len(disk[p].hashes) \in Nat /\ Len(disk[p].hashes) # 0
  BY <1>1, AcceptedChain
<1>3. 1 \in DOMAIN NodesOf(disk[p])
  BY <1>2
<1>4. NodesOf(disk[p]) = meant[p].nodes
  BY AcceptedIsMeant
<1> QED
  BY <1>3, <1>4

HoldsWhatReads == \A p \in Paths : Accepts(disk[p]) => meant[p].nodes # <<>>

(* ... which is so before and after every step.                             *)
LEMMA ReadableHolds == IInv => HoldsWhatReads
  BY AcceptedHolds DEF HoldsWhatReads

(* A truncated file is not readable.                                        *)
LEMMA BlankRefused == ~Accepts(Blank)
  BY DEF Accepts, HeadAccepted, Blank

(* The mapping, by name.                                                    *)
Held == [p \in Paths |-> meant[p].nodes]
Readable == {p \in Paths : Accepts(disk[p])}
Draft == IF pc \in {"parse", "open"} THEN base.nodes ELSE <<>>

(* AbiHistory means by a well numbered history what the invariant does.     *)
LEMMA SameNumbering ==
  ASSUME NEW nodes
  PROVE  Abstract!WellNumbered(nodes) <=> Contiguous(nodes) /\ DenseIds(nodes, Span(nodes))
<1>1. Abstract!FuncIds(nodes) = FuncIds(nodes)
  BY DEF Abstract!FuncIds, FuncIds
<1>2. Abstract!Span(nodes) = Span(nodes)
  BY <1>1 DEF Abstract!Span, Span, Abstract!Max, Max
<1>3. Abstract!Contiguous(nodes) <=> Contiguous(nodes)
  BY DEF Abstract!Contiguous, Contiguous
<1>4. \A n : Abstract!DenseIds(nodes, n) <=> DenseIds(nodes, n)
  BY DEF Abstract!DenseIds, DenseIds, Abstract!IdsBelow, IdsBelow,
         Abstract!IdsUsed, IdsUsed, Abstract!IdsIncrease, IdsIncrease
<1> QED
  BY <1>2, <1>3, <1>4 DEF Abstract!WellNumbered

(* A run that has read its base drafts from a readable artifact.            *)
LEMMA ReadEndLoads ==
  ASSUME IInv, IInv', ReadEnd
  PROVE  \/ UNCHANGED <<Held, Readable, Draft>>
         \/ \E p \in Paths : Abstract!Load(p)
<1>1. CASE Fail
  <2>1. pc = "trees" /\ pc' = "failed" /\ UNCHANGED <<disk, meant>>
    BY <1>1 DEF ReadEnd, Fail
  <2> QED
    BY <2>1 DEF Held, Readable, Draft
<1>2. CASE ~Fail
  <2> DEFINE f == disk[cmd.base]
  <2>1. /\ pc = "trees" /\ pc' = "parse" /\ Len(base.nodes) = Len(known)
        /\ Len(f.trees) = Len(known)
        /\ UNCHANGED <<disk, damages, cmd, base, known, hashes, lost, meant, before>>
    BY <1>2 DEF ReadEnd
  <2>2. /\ cmd.base \in Paths /\ cmd.base # None /\ FileOK(f)
        /\ known = f.hashes /\ base.ident = f.ident /\ HeadAccepted(f)
        /\ \A i \in DOMAIN base.nodes : TreeAccepted(base.ident.uuid, known, f.trees, i)
    BY <2>1, NoneAssumption DEF IInv, TypeInv, CmdInv, FileShape, LoadInv
  <2>3. DOMAIN f.trees = DOMAIN base.nodes
    <3>1. base.nodes \in Seq(Nodes) /\ IsSeq(f.trees)
      BY <2>2 DEF IInv, TypeInv, RunShape, FileOK
    <3> QED
      BY <2>1, <3>1, IsSeqLen, LenProperties
  <2>4. Accepts(f)
    <3> HIDE DEF f
    <3> QED BY <2>1, <2>2, <2>3 DEF Accepts
  <2>5. base.nodes = meant[cmd.base].nodes
    <3>1. BaseMeant /\ base.nodes \in Seq(Nodes) /\ meant[cmd.base].nodes \in Seq(Nodes)
      BY <2>1, <2>2 DEF IInv, LoadInv, TypeInv, RunShape, FileShape
    <3>2. NodesOf(f) = meant[cmd.base].nodes
      BY <2>2, <2>4, AcceptedIsMeant
    <3>3. DOMAIN base.nodes = DOMAIN meant[cmd.base].nodes
      BY <2>3, <3>2 DEF NodesOf
    <3>4. /\ base.nodes = [i \in DOMAIN base.nodes |-> base.nodes[i]]
          /\ meant[cmd.base].nodes
               = [i \in DOMAIN meant[cmd.base].nodes |-> meant[cmd.base].nodes[i]]
      BY <3>1, LenProperties
    <3>5. \A i \in DOMAIN base.nodes : base.nodes[i] = meant[cmd.base].nodes[i]
      BY <3>1 DEF BaseMeant
    <3> QED
      BY <3>3, <3>4, <3>5
  <2>6. Abstract!Load(cmd.base)
    BY <2>1, <2>2, <2>4, <2>5 DEF Abstract!Load
  <2> QED
    BY <2>2, <2>6
<1> QED
  BY <1>1, <1>2

(* A run that stops before it has opened its output gives its draft up.     *)
LEMMA FailAbandons ==
  ASSUME Fail
  PROVE  Abstract!Abandon
<1>1. pc' = "failed" /\ UNCHANGED <<disk, meant>>
  BY DEF Fail
<1> QED
  BY <1>1 DEF Abstract!Abandon

(* Opening the output publishes the draft under that name.                  *)
LEMMA OpenPublishes ==
  ASSUME IInv, IInv', Open
  PROVE  Abstract!Abandon \/ \E p \in Paths : Abstract!Publish(p)
<1>1. CASE Fail
  BY <1>1, FailAbandons
<1>2. CASE ~Fail
  <2> DEFINE nodes == Revisions(base, ext)
  <2>0. PICK o \in Paths : o = cmd.out
    BY <1>2 DEF IInv, TypeInv, CmdInv, Open
  <2>1. /\ pc = "open" /\ pc' = "hash"
        /\ disk' = [disk EXCEPT ![o] = Blank]
        /\ meant' = [meant EXCEPT ![o] = [ident |-> OutIdent(cmd, base), nodes |-> nodes]]
    BY <1>2, <2>0 DEF Open
  <2>2. /\ DOMAIN disk = Paths /\ DOMAIN meant = Paths
        /\ base.nodes \in Seq(Nodes) /\ ext.nodes \in Seq(Nodes)
    BY DEF IInv, TypeInv, FileShape, RunShape
  <2>3. /\ disk'[o] = Blank /\ meant'[o].nodes = nodes
        /\ \A q \in Paths \ {o} : disk'[q] = disk[q] /\ meant'[q] = meant[q]
    BY <2>1, <2>2
  <2>4. /\ nodes \in Seq(Nodes) /\ Len(nodes) = Len(base.nodes) + Len(ext.nodes)
        /\ Len(base.nodes) \in Nat /\ Len(ext.nodes) \in Nat
        /\ \A i \in 1 .. Len(base.nodes) : nodes[i] = base.nodes[i]
    BY <2>2, RevisionsOf, LenProperties
  <2>5. Contiguous(nodes) /\ DenseIds(nodes, Span(nodes))
    BY <2>3 DEF IInv, MeantInv, WellNumbered
  <2> HIDE DEF nodes
  <2>6. SubSeq(nodes, 1, Len(base.nodes)) = base.nodes
    <3> DEFINE n == Len(base.nodes)
    <3>1. n \in Nat /\ \A i \in 1 .. n : nodes[i] = base.nodes[i]
      BY <2>4
    <3>2. base.nodes = [i \in 1 .. n |-> base.nodes[i]]
      BY <2>2, LenProperties
    <3> HIDE DEF n
    <3>3. SubSeq(nodes, 1, n) = [i \in 1 .. n |-> nodes[i]]
      BY <3>1 DEF SubSeq
    <3>4. SubSeq(nodes, 1, n) = base.nodes
      BY <3>1, <3>2, <3>3
    <3> QED
      BY <3>4 DEF n
  <2>7. Draft = base.nodes /\ Draft' = <<>>
    BY <2>1 DEF Draft
  <2>8. Readable' = Readable \ {o}
    BY <2>2, <2>3, BlankRefused DEF Readable
  <2>9. /\ Held'[o] = nodes /\ DOMAIN Held' = Paths
        /\ \A q \in Paths \ {o} : Held'[q] = Held[q]
    BY <2>2, <2>3 DEF Held
  <2>10. Abstract!WellNumbered(nodes)
    BY <2>5, SameNumbering
  <2>11. Len(base.nodes) <= Len(nodes)
    <3>1. \A k, n \in Nat : k <= k + n
      OBVIOUS
    <3> QED
      BY <2>4, <3>1
  <2>12. Abstract!WellNumbered(Held'[o])
    BY <2>9, <2>10
  <2>13. Len(Draft) <= Len(Held'[o]) /\ SubSeq(Held'[o], 1, Len(Draft)) = Draft
    <3> HIDE DEF Held
    <3>1. Held'[o] = nodes
      BY <2>9
    <3> QED
      BY <2>6, <2>7, <2>11, <3>1
  <2>14. Abstract!Publish(o)
    BY <2>7, <2>8, <2>9, <2>12, <2>13 DEF Abstract!Publish, Held, Readable, Draft
  <2>15. \E p \in Paths : Abstract!Publish(p)
    BY <2>14
  <2> QED
    BY <2>15
<1> QED
  BY <1>1, <1>2

(* Starting a run, reading the head and the trees of a base, hashing and    *)
(* closing are not seen from outside: no history, no readability, no draft. *)
LEMMA QuietSteps ==
  ASSUME IInv, Start \/ ReadHead \/ ReadTree \/ Hash \/ Close \/ UNCHANGED vars
  PROVE  UNCHANGED <<Held, Readable, Draft>>
<1>1. CASE Start
  <2>1. pc = "idle" /\ pc' \in {"parse", "head"} /\ UNCHANGED <<disk, meant, base>>
    BY <1>1 DEF Start
  <2>2. base.nodes = <<>>
    BY <2>1 DEF IInv, FreshInv, NoBase
  <2>3. Draft = <<>> /\ Draft' = <<>>
    BY <2>1, <2>2 DEF Draft
  <2> QED
    BY <2>1, <2>3 DEF Held, Readable
<1>2. CASE ReadHead
  <2>1. pc = "head" /\ pc' \in {"trees", "failed"} /\ UNCHANGED <<disk, meant>>
    BY <1>2 DEF ReadHead, Fail
  <2> QED
    BY <2>1 DEF Held, Readable, Draft
<1>3. CASE ReadTree
  <2>1. pc = "trees" /\ pc' \in {"trees", "failed"} /\ UNCHANGED <<disk, meant>>
    BY <1>3 DEF ReadTree, Fail
  <2> QED
    BY <2>1 DEF Held, Readable, Draft
<1>4. CASE Hash
  <2>1. pc = "hash" /\ pc' \in {"hash", "failed"} /\ UNCHANGED <<disk, meant>>
    BY <1>4 DEF Hash, Fail
  <2> QED
    BY <2>1 DEF Held, Readable, Draft
<1>5. CASE Close
  <2>1. pc \in {"hash", "write"} /\ pc' = "done" /\ UNCHANGED <<disk, meant>>
    BY <1>5 DEF Close
  <2> QED
    BY <2>1 DEF Held, Readable, Draft
<1>6. CASE UNCHANGED vars
  BY <1>6 DEF vars, run, Held, Readable, Draft
<1> QED
  BY <1>1, <1>2, <1>3, <1>4, <1>5, <1>6

(* Parsing and validating keep the draft; an error gives it up.             *)
LEMMA ParseKeepsDraft ==
  ASSUME ParseRevision \/ Validate
  PROVE  UNCHANGED <<Held, Readable, Draft>> \/ Abstract!Abandon
<1>1. CASE Fail
  BY <1>1, FailAbandons
<1>2. CASE ~Fail
  <2>1. pc = "parse" /\ pc' \in {"parse", "open"} /\ UNCHANGED <<disk, meant, base>>
    BY <1>2 DEF ParseRevision, Validate, run
  <2> QED
    BY <2>1 DEF Held, Readable, Draft
<1> QED
  BY <1>1, <1>2

(* A header alone is not readable.                                          *)
LEMMA WriteHeadQuiet ==
  ASSUME IInv, IInv', WriteHead
  PROVE  UNCHANGED <<Held, Readable, Draft>>
<1>1. /\ pc = "hash" /\ pc' = "write" /\ hashes # <<>> /\ UNCHANGED meant
      /\ disk' = [disk EXCEPT ![cmd.out] = Header(OutIdent(cmd, base), hashes)]
  BY DEF WriteHead
<1>2. /\ cmd.out \in Paths /\ DOMAIN disk = Paths /\ IsSeq(hashes)
      /\ disk[cmd.out] = Blank
  BY <1>1 DEF IInv, TypeInv, CmdInv, RunShape, FileShape, WriteInv
<1>3. ~Accepts(disk[cmd.out])
  BY <1>2, BlankRefused
<1>4. ~Accepts(disk'[cmd.out])
  <2>1. disk'[cmd.out].trees = <<>> /\ disk'[cmd.out].hashes = hashes
    BY <1>1, <1>2 DEF Header
  <2>2. Len(hashes) # 0
    BY <1>1, <1>2, IsSeqLen
  <2> QED
    BY <2>1, <2>2, IsSeqEmpty DEF Accepts
<1>5. \A p \in Paths : p # cmd.out => disk'[p] = disk[p]
  BY <1>1, <1>2
<1>6. \A p \in Paths : Accepts(disk'[p]) <=> Accepts(disk[p])
  BY <1>3, <1>4, <1>5
<1> QED
  BY <1>1, <1>6 DEF Held, Readable, Draft

(* A tree completes the artifact, or leaves it unreadable still.            *)
LEMMA WriteTreeCompletes ==
  ASSUME IInv, IInv', WriteTree
  PROVE  \/ UNCHANGED <<Held, Readable, Draft>>
         \/ \E p \in Paths : Abstract!Complete(p)
<1>0. PICK o \in Paths : o = cmd.out
  BY DEF IInv, TypeInv, CmdInv, WriteTree
<1>1. /\ pc = "write" /\ pc' = "write" /\ UNCHANGED <<meant, cmd>>
      /\ \E f : disk' = [disk EXCEPT ![o] = f]
  BY <1>0 DEF WriteTree, run
<1>2. DOMAIN disk = Paths
  BY DEF IInv, TypeInv, FileShape
<1>3. \A p \in Paths : p # o => disk'[p] = disk[p]
  BY <1>1, <1>2
<1>4. UNCHANGED <<Held, Draft>>
  BY <1>1 DEF Held, Draft
<1>5. ~Accepts(disk[o])
  <2>1. Len(disk[o].trees) + 1 <= Len(hashes)
    BY <1>0 DEF WriteTree
  <2>2. disk[o].hashes = hashes /\ IsSeq(disk[o].trees) /\ IsSeq(hashes)
    BY <1>0, <1>1 DEF IInv, TypeInv, RunShape, FileShape, FileOK, WriteInv, Written
  <2>3. Len(disk[o].trees) \in Nat /\ Len(hashes) \in Nat
    BY <2>2, IsSeqLen
  <2>4. Len(disk[o].trees) # Len(hashes)
    BY <2>1, <2>3
  <2> QED
    BY <2>2, <2>4 DEF Accepts
<1>6. CASE Accepts(disk'[o])
  <2>1. meant'[o].nodes # <<>>
    <3>1. HoldsWhatReads'
      BY ReadableHolds, PTL
    <3> QED
      BY <1>6, <3>1 DEF HoldsWhatReads
  <2>2. Held[o] # <<>>
    BY <1>1, <2>1 DEF Held
  <2>3. Readable' = Readable \cup {o}
    BY <1>3, <1>6 DEF Readable
  <2>4. Abstract!Complete(o)
    BY <1>4, <2>2, <2>3 DEF Abstract!Complete, Held, Readable, Draft
  <2> QED
    BY <2>4
<1>7. CASE ~Accepts(disk'[o])
  <2>1. \A p \in Paths : Accepts(disk'[p]) <=> Accepts(disk[p])
    BY <1>3, <1>5, <1>7
  <2>2. UNCHANGED Readable
    BY <2>1 DEF Readable
  <2> QED
    BY <1>4, <2>2
<1> QED
  BY <1>6, <1>7

(* The end of a process gives up what draft it had.                         *)
LEMMA EndAbandons ==
  ASSUME Exit \/ Crash
  PROVE  Abstract!Abandon
<1>1. pc' = "idle" /\ UNCHANGED <<disk, meant>>
  BY DEF Exit, Crash, ForgetRun
<1> QED
  BY <1>1 DEF Abstract!Abandon

(* Damage changes which artifacts are readable, not what they hold; and an  *)
(* artifact that never held a history does not become readable.             *)
LEMMA DamageFaults ==
  ASSUME IInv, IInv', Damage
  PROVE  Abstract!Fault
<1>1. pc = "idle" /\ pc' = "idle" /\ UNCHANGED meant
  BY DEF Damage
<1>2. HoldsWhatReads'
  BY ReadableHolds, PTL
<1>3. \A p \in Paths : Accepts(disk'[p]) => Held[p] # <<>>
  BY <1>1, <1>2 DEF HoldsWhatReads, Held
<1>4. Readable' \subseteq {p \in Paths : Held[p] # <<>>}
  BY <1>3 DEF Readable
<1>5. UNCHANGED <<Held, Draft>>
  BY <1>1 DEF Held, Draft
<1> QED
  BY <1>4, <1>5 DEF Abstract!Fault, Held, Readable, Draft

(***************************************************************************)
(* The refinement.                                                          *)
(***************************************************************************)

(* Nothing is held, readable or drafted before the first run.               *)
LEMMA StartsEmpty == Init => Abstract!Init
<1> SUFFICES ASSUME Init PROVE Abstract!Init
  OBVIOUS
<1>1. Draft = <<>>
  BY DEF Init, Draft
<1>2. Readable = {}
  BY BlankRefused DEF Init, Readable
<1>3. Held = [p \in Paths |-> <<>>]
  BY DEF Init, Held, NothingMeant
<1> QED
  BY <1>1, <1>2, <1>3 DEF Abstract!Init, Held, Readable, Draft

(* Every step is a step of AbiHistory, or is not seen there.                *)
LEMMA StepsMap ==
  ASSUME IInv, IInv', [Next]_vars
  PROVE  [Abstract!Next]_(Abstract!vars)
<1>1. CASE UNCHANGED <<Held, Readable, Draft>>
  BY <1>1 DEF Abstract!vars, Held, Readable, Draft
<1>2. CASE \E p \in Paths : Abstract!Load(p) \/ Abstract!Publish(p) \/ Abstract!Complete(p)
  BY <1>2 DEF Abstract!Next
<1>3. CASE Abstract!Abandon \/ Abstract!Fault
  BY <1>3 DEF Abstract!Next
<1>4. CASE Start \/ ReadHead \/ ReadTree \/ Hash \/ Close \/ UNCHANGED vars
  BY <1>1, <1>4, QuietSteps
<1>5. CASE ReadEnd
  BY <1>1, <1>2, <1>5, ReadEndLoads
<1>6. CASE ParseRevision \/ Validate
  BY <1>1, <1>3, <1>6, ParseKeepsDraft
<1>7. CASE Open
  BY <1>2, <1>3, <1>7, OpenPublishes
<1>8. CASE WriteHead
  BY <1>1, <1>8, WriteHeadQuiet
<1>9. CASE WriteTree
  BY <1>1, <1>2, <1>9, WriteTreeCompletes
<1>10. CASE Exit \/ Crash
  BY <1>3, <1>10, EndAbandons
<1>11. CASE Damage
  BY <1>3, <1>11, DamageFaults
<1> QED
  BY <1>4, <1>5, <1>6, <1>7, <1>8, <1>9, <1>10, <1>11 DEF Next, RunStep

(* Runs of the compiler, kills, full devices and damage together do no more *)
(* to the artifacts than AbiHistory allows: a history grows from a readable *)
(* one or from none, and no fault ever makes one up.                        *)
THEOREM Implements == Spec => KeepsHistories
<1>1. Init => Abstract!Init
  BY StartsEmpty
<1>2. IInv /\ IInv' /\ [Next]_vars => [Abstract!Next]_(Abstract!vars)
  BY StepsMap
<1> QED
  BY <1>1, <1>2, Inductive, PTL DEF Spec, KeepsHistories, Abstract!Spec
=============================================================================
