-------------------------------- MODULE Sif ---------------------------------
(***************************************************************************)
(* The SIF artifact as lang/sif.cc writes and reads it: an identity header, *)
(* a root revision hash, a table of revision hashes, and one revision tree  *)
(* per hash, each tree naming the hash of its predecessor.                  *)
(*                                                                          *)
(* Declarations other than functions (structs, enums, bitfields, their      *)
(* annotations) travel through an artifact unchanged; they are one opaque   *)
(* value, the "body" of a revision.  SHA-256 is idealised as injective.     *)
(***************************************************************************)
EXTENDS Sequences, FiniteSetsExt

(* The all-zero array a hash chain starts from.                             *)
ZeroHash == <<>>

(* What a damaged hash field reads as: no revision has this digest.         *)
Rot == <<"rot">>

\* The digest covers the revision's own declarations only.
DigestOfNode(uuid, node, prev) == <<uuid, node, ZeroHash>>

(* The digest covers the interface UUID and the revision tree, which holds  *)
(* the previous hash; it covers neither name, prefix nor annotations.       *)
Digest(uuid, node, prev) == <<uuid, node, prev>>

(* The hash a revision refers back to.                                      *)
PrevIn(hashes, i) == IF i = 1 THEN ZeroHash ELSE hashes[i - 1]

(* A file: header fields and the trees that follow.  A missing file, an     *)
(* empty file and one torn inside the header all make sif_read fail before  *)
(* it looks at a tree, so they are one value.                               *)
NoIdent == [name |-> "", uuid |-> "", prefix |-> "", notes |-> ""]

Blank == [ident |-> NoIdent, root |-> ZeroHash, hashes |-> <<>>, trees |-> <<>>]

\* The root recorded is the newest revision's hash.
HeaderNewestRoot(ident, hashes) ==
  [ident |-> ident, root |-> hashes[Len(hashes)], hashes |-> hashes, trees |-> <<>>]

(* What sif_write puts in front of the trees.                               *)
Header(ident, hashes) ==
  [ident |-> ident, root |-> hashes[1], hashes |-> hashes, trees |-> <<>>]

WithTrees(f, trees) ==
  [ident |-> f.ident, root |-> f.root, hashes |-> f.hashes, trees |-> trees]

(* The header checks: at least one revision, root = first hash.             *)
HeadAccepted(f) == f.hashes # <<>> /\ f.root = f.hashes[1]

\* A reader that trusts the stored hash instead of recomputing it.
TreeAcceptedUnhashed(uuid, hashes, trees, i) ==
  /\ i <= Len(trees)
  /\ trees[i].node.version = i - 1
  /\ trees[i].prev = PrevIn(hashes, i)

(* The checks of read_revision_tree on the i-th tree.                       *)
TreeAccepted(uuid, hashes, trees, i) ==
  /\ i <= Len(trees)
  /\ trees[i].node.version = i - 1
  /\ trees[i].prev = PrevIn(hashes, i)
  /\ Digest(uuid, trees[i].node, trees[i].prev) = hashes[i]

(* The whole of sif_read: does it return an interface for this file?        *)
Accepts(f) ==
  /\ HeadAccepted(f)
  /\ Len(f.trees) = Len(f.hashes)
  /\ \A i \in DOMAIN f.trees : TreeAccepted(f.ident.uuid, f.hashes, f.trees, i)

NodesOf(f) == [i \in DOMAIN f.trees |-> f.trees[i].node]

(***************************************************************************)
(* Function ids.                                                            *)
(***************************************************************************)

\* A reader that records the largest id instead of the one after it.
NextFuncidLargest(next, node) ==
  Max({next} \cup {node.funcs[j].id : j \in DOMAIN node.funcs})

(* current_funcid after read_function has read every function of a node.    *)
NextFuncid(next, node) ==
  Max({next} \cup {node.funcs[j].id + 1 : j \in DOMAIN node.funcs})

\* A numbering that counts from one before the counter.
NumberedFromBelow(names, next) ==
  [j \in DOMAIN names |-> [name |-> names[j], id |-> next + j - 2]]

(* parse_function hands out current_funcid++ in source order.               *)
Numbered(names, next) ==
  [j \in DOMAIN names |-> [name |-> names[j], id |-> next + j - 1]]

(* A node with one function's id replaced.                                  *)
WithId(node, j, d) ==
  [version |-> node.version, body |-> node.body,
   funcs |-> [node.funcs EXCEPT ![j] = [name |-> node.funcs[j].name, id |-> d]]]

(* The ids of a history number its functions 0 .. n-1 in order, no gap.     *)
IdsBelow(nodes, n) ==
  \A i \in DOMAIN nodes : \A j \in DOMAIN nodes[i].funcs :
    nodes[i].funcs[j].id \in 0 .. n - 1

IdsUsed(nodes, n) ==
  \A d \in 0 .. n - 1 :
    \E i \in DOMAIN nodes : \E j \in DOMAIN nodes[i].funcs :
      nodes[i].funcs[j].id = d

IdsIncrease(nodes) ==
  \A i, k \in DOMAIN nodes :
    \A j \in DOMAIN nodes[i].funcs : \A l \in DOMAIN nodes[k].funcs :
      (i < k \/ (i = k /\ j < l)) => nodes[i].funcs[j].id < nodes[k].funcs[l].id

DenseIds(nodes, n) ==
  IdsBelow(nodes, n) /\ IdsUsed(nodes, n) /\ IdsIncrease(nodes)

(* The number of slots a generator reserves for a history.                  *)
FuncIds(nodes) ==
  UNION {{nodes[i].funcs[j].id : j \in DOMAIN nodes[i].funcs} : i \in DOMAIN nodes}

Span(nodes) == Max({0} \cup {d + 1 : d \in FuncIds(nodes)})

(* The revisions of a history are numbered from zero.                       *)
Contiguous(nodes) == \A i \in DOMAIN nodes : nodes[i].version = i - 1

(* A sequence, whatever its elements are.                                   *)
IsSeq(s) == s \in Seq({s[i] : i \in DOMAIN s})
=============================================================================
