----------------------------- MODULE SifDamage ------------------------------
(***************************************************************************)
(* The revisions of an artifact are written one after the other             *)
(* (sif_write), some bytes change, go missing or are added, and sif_read    *)
(* reads them back.  The header in front of them is module Sif's.           *)
(***************************************************************************)
EXTENDS SifLayout

CONSTANTS
  Histories,    \* the lists of revision trees that are written
  MaxDamage     \* bound: damaged places, by history

VARIABLES
  pc,
  trees,     \* what was written
  bytes,     \* the artifact after its header
  damaged,   \* places damaged so far
  found      \* what the reader made of the bytes

vars == <<pc, trees, bytes, damaged, found>>

(* A stand-in for the digest of the revision before, zero for the first.    *)
Prev(i) == Little(i - 1, 4)

WriteTrees(history) == FlattenSeq([i \in DOMAIN history |-> WriteTree(history[i], Prev(i))])

RECURSIVE ReadTrees(_, _, _)
ReadTrees(B, r, i) ==
  IF Ok(r) /\ i \in DOMAIN trees
  THEN ReadTrees(B, Collected(r, ReadTree(B, r, i - 1, Prev(i), WriteTree(trees[i], Prev(i)))), i + 1)
  ELSE r

(* Nothing may follow the last tree.                                        *)
ReadArtifact(B) ==
  LET r == ReadTrees(B, Started, 1)
  IN Unless(r, r.at <= Len(B), "error")

Init ==
  /\ pc = "tree"
  /\ trees \in Histories
  /\ bytes = <<>> /\ damaged = 0 /\ found = Started

Write ==
  /\ pc = "tree"
  /\ bytes' = WriteTrees(trees)
  /\ pc' = "disk"
  /\ UNCHANGED <<trees, damaged, found>>

Damage ==
  /\ pc = "disk" /\ damaged < MaxDamage[trees]
  /\ \/ \E i \in DOMAIN bytes, b \in 0 .. ByteBase - 1 : bytes' = [bytes EXCEPT ![i] = b]
     \/ \E i \in DOMAIN bytes : bytes' \in {RemoveAt(bytes, i), SubSeq(bytes, 1, i - 1)}
     \/ \E i \in 1 .. Len(bytes) + 1, b \in {0, 1} : bytes' = InsertAt(bytes, i, b)
  /\ damaged' = damaged + 1
  /\ UNCHANGED <<pc, trees, found>>

Read ==
  /\ pc = "disk"
  /\ found' = ReadArtifact(bytes)
  /\ pc' = "done"
  /\ UNCHANGED <<trees, bytes, damaged>>

Finished == pc = "done" /\ UNCHANGED vars

Next == Write \/ Damage \/ Read \/ Finished

Spec == Init /\ [][Next]_vars

(***************************************************************************)
(* Properties.                                                              *)
(***************************************************************************)

(* What was written and left alone is read back: every field of every       *)
(* declaration, by a reader that knows only the counts and sizes it finds   *)
(* (sif.cc:338-660 against 351-764).                                        *)
ReadsBack ==
  (pc = "done" /\ bytes = WriteTrees(trees)) => Ok(found) /\ found.v = trees

(* Damaged bytes are refused unless they say the same: what is accepted are *)
(* the trees that were written, although their digests are taken of trees   *)
(* written anew and not of the bytes on disk (sif.cc:758).                  *)
DamageNoticed == (pc = "done" /\ Ok(found)) => found.v = trees

(* Nothing is put in, left out or cut short, and no byte is another, but   *)
(* for the const flag, of which the reader takes any value but zero for one *)
(* (padding, tags, counts and lengths have one spelling).                   *)
OneSpelling ==
  (pc = "done" /\ Ok(found)) =>
    LET written == WriteTrees(trees)
    IN /\ Len(bytes) = Len(written)
       /\ \A i \in DOMAIN bytes : bytes[i] = written[i] \/ (written[i] = 1 /\ bytes[i] > 1)
=============================================================================
