--------------------------- MODULE SidlCompileInv ---------------------------
(***************************************************************************)
(* The inductive invariant of SidlCompile, in named parts.                  *)
(*                                                                          *)
(* TypeInv gives the variables their shapes.  The other parts relate them:  *)
(* what each file was meant to hold is densely numbered (MeantInv); a hash  *)
(* on disk is damaged or is the digest of the revision meant at its place   *)
(* (DiskInv); and what a run has read (BaseInv, LoadInv, SourceInv), parsed *)
(* (ParseInv) and hashed and written so far (WriteInv) agrees with that.    *)
(***************************************************************************)
EXTENDS SidlCompile

FileOK(f) ==
  /\ IsSeq(f.hashes) /\ IsSeq(f.trees)
  /\ \A i \in DOMAIN f.trees : f.trees[i].node \in Nodes

CmdInv ==
  /\ cmd \in [base : Paths \cup {None}, out : Paths \cup {None}, src : Sources \cup {None}]
  /\ pc # "idle" => cmd.out \in Paths /\ cmd.src \in Sources
  /\ pc \in {"head", "trees"} => cmd.base \in Paths

RunShape ==
  /\ base.nodes \in Seq(Nodes) /\ base.next \in Nat
  /\ ext.nodes \in Seq(Nodes) /\ ext.next \in Nat
  /\ IsSeq(known) /\ IsSeq(hashes)

FileShape ==
  /\ DOMAIN disk = Paths /\ DOMAIN meant = Paths
  /\ \A p \in Paths : FileOK(disk[p]) /\ meant[p].nodes \in Seq(Nodes)

TypeInv ==
  /\ pc \in Stages
  /\ damages \in 0 .. MaxDamage
  /\ lost \in BOOLEAN
  /\ CmdInv
  /\ RunShape
  /\ FileShape

(* Every history that was set out to be written is numbered from zero.      *)
WellNumbered(nodes) ==
  Contiguous(nodes) /\ Span(nodes) \in Nat /\ DenseIds(nodes, Span(nodes))

MeantInv == \A p \in Paths : WellNumbered(meant[p].nodes)

(* A hash in a file is damaged, or is a digest of the revision meant there. *)
HashOf(h, uuid, node) == h = Rot \/ h = Digest(uuid, node, h[3])

DiskInv ==
  \A p \in Paths :
    disk[p].hashes # <<>> =>
      /\ Len(disk[p].hashes) = Len(meant[p].nodes)
      /\ \A i \in DOMAIN disk[p].hashes :
           HashOf(disk[p].hashes[i], meant[p].ident.uuid, meant[p].nodes[i])

(* Without a base there is nothing read; before hashing there is no hash.   *)
FreshInv ==
  /\ pc \in {"idle", "head"} \/ cmd.base = None => base = NoBase /\ known = <<>>
  /\ pc \in {"idle", "head", "trees"} => ext = NoExt
  /\ pc \notin {"hash", "write", "failed", "done"} => hashes = <<>>

(* A chain of digests over nodes.                                           *)
Chained(uuid, nodes, chain, n) ==
  \A i \in 1 .. n : chain[i] = Digest(uuid, nodes[i], PrevIn(chain, i))

(* What has been read of the base is verified and numbered from zero.       *)
BaseInv ==
  /\ Contiguous(base.nodes) /\ DenseIds(base.nodes, base.next)
  /\ Len(base.nodes) <= Len(known)
  /\ Chained(base.ident.uuid, base.nodes, known, Len(base.nodes))

(* ... and is what the base was meant to hold.                              *)
BaseMeant ==
  \A i \in DOMAIN base.nodes :
    /\ base.nodes[i] = meant[cmd.base].nodes[i]
    /\ base.ident.uuid = meant[cmd.base].ident.uuid

LoadInv ==
  pc = "trees" =>
    /\ known = disk[cmd.base].hashes /\ known # <<>>
    /\ base.ident = disk[cmd.base].ident
    /\ HeadAccepted(disk[cmd.base])
    /\ \A i \in DOMAIN base.nodes :
         TreeAccepted(base.ident.uuid, known, disk[cmd.base].trees, i)
    /\ BaseMeant

SourceInv ==
  (pc \in {"parse", "open"} /\ cmd.base # None) =>
    /\ BaseMeant
    /\ base.nodes # <<>>
    /\ Len(base.nodes) = Len(meant[cmd.base].nodes)

(* The parser continues the numbering of the base.                          *)
ParseInv ==
  pc \in {"parse", "open", "hash", "write", "done"} =>
    /\ Len(base.nodes) = Len(known)
    /\ Contiguous(Revisions(base, ext))
    /\ DenseIds(Revisions(base, ext), ext.next)

(* The output holds the header and the first trees of what is meant.        *)
Written ==
  /\ hashes # <<>> /\ Len(hashes) = Len(Revisions(base, ext))
  /\ disk[cmd.out].ident = OutIdent(cmd, base)
  /\ disk[cmd.out].root = hashes[1]
  /\ disk[cmd.out].hashes = hashes
  /\ Len(disk[cmd.out].trees) <= Len(hashes)
  /\ \A i \in DOMAIN disk[cmd.out].trees :
       disk[cmd.out].trees[i] = [node |-> Revisions(base, ext)[i], prev |-> PrevIn(hashes, i)]

WriteInv ==
  pc \in {"hash", "write", "done"} =>
    /\ meant[cmd.out] = [ident |-> OutIdent(cmd, base), nodes |-> Revisions(base, ext)]
    /\ Len(hashes) <= Len(Revisions(base, ext))
    /\ Chained(OutIdent(cmd, base).uuid, Revisions(base, ext), hashes, Len(hashes))
    /\ pc = "hash" => disk[cmd.out] = Blank
    /\ pc = "write" => Written
    /\ pc = "done" /\ ~lost => Written /\ Len(disk[cmd.out].trees) = Len(hashes)

KeptInv ==
  \A p \in Paths :
    disk[p] # before[p] =>
      /\ p = cmd.out
      /\ pc \in {"hash", "write", "failed", "done"}
      /\ pc = "failed" => Revisions(base, ext) = <<>>

(* The inductive invariant: published histories, the files and the run in   *)
(* progress agree, in every stage of a run and after every fault.           *)
IInv ==
  /\ TypeInv
  /\ MeantInv /\ DiskInv /\ FreshInv
  /\ BaseInv /\ LoadInv /\ SourceInv /\ ParseInv /\ WriteInv /\ KeptInv
=============================================================================
