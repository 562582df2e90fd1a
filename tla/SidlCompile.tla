---------------------------- MODULE SidlCompile -----------------------------
(***************************************************************************)
(* `sidlc compile [-b base] -o out src` (core/main.cc command_compile), run *)
(* again and again over a set of artifact files: reading and verifying the  *)
(* base, parsing the source with the counters the base hands over,          *)
(* validating the identity, truncating the output, hashing, writing.  A run *)
(* may be killed at any point, the device may fill up while it writes, and  *)
(* a field of a file at rest may be damaged.                                *)
(***************************************************************************)
EXTENDS Sif

CONSTANTS
  Paths,        \* names of artifact files
  None,         \* "no base given", and the idle value of a command's fields
  Sources,      \* names of .sidl files
  Text(_),      \* the interface a .sidl file declares
  Malformed,    \* text the parser, or the metadata check, rejects
  Names,        \* function names
  Bodies,       \* everything else a revision declares
  Idents,       \* interface identities
  MaxDamage     \* bound: damaged fields in a behaviour

Revs == [version : Nat, body : Bodies \cup {Malformed}, names : Seq(Names)]
Funcs == [name : Names, id : Nat]
Nodes == [version : Nat, body : Bodies, funcs : Seq(Funcs)]

ASSUME NoneAssumption == None \notin Paths \cup Sources
ASSUME TextAssumption ==
  \A s \in Sources : Text(s).ident \in Idents /\ Text(s).revs \in Seq(Revs)
ASSUME BodiesAssumption == Malformed \notin Bodies
ASSUME DamageAssumption == MaxDamage \in Nat

VARIABLES
  disk,     \* what each artifact file holds
  damages,  \* how many fields have been damaged
  pc,       \* where the current run is
  cmd,      \* its command line
  base,     \* the interface read from the base: identity, nodes, counter
  known,    \* the hash table in the base's header
  ext,      \* the nodes parsed from the source, and the parser's counter
  hashes,   \* the hash table being computed for the output
  lost,     \* did a write fail unnoticed?
  meant,    \* history variable: what the last run to open a file set out to write
  before    \* history variable: the files as the current run found them

run == <<cmd, base, known, ext, hashes, lost>>
vars == <<disk, damages, pc, run, meant, before>>

NoCmd == [base |-> None, out |-> None, src |-> None]
NoBase == [ident |-> NoIdent, nodes |-> <<>>, next |-> 0]
NoExt == [nodes |-> <<>>, next |-> 0]
NothingMeant == [ident |-> NoIdent, nodes |-> <<>>]

Init ==
  /\ disk = [p \in Paths |-> Blank]
  /\ damages = 0
  /\ pc = "idle"
  /\ cmd = NoCmd /\ base = NoBase /\ known = <<>> /\ ext = NoExt
  /\ hashes = <<>> /\ lost = FALSE
  /\ meant = [p \in Paths |-> NothingMeant]
  /\ before = disk

(* `return 1`: an error was reported, nothing more is done.                 *)
Fail == pc' = "failed" /\ UNCHANGED <<disk, damages, run, meant, before>>

(***************************************************************************)
(* Reading the base (read_sif_file, sif_read).                              *)
(***************************************************************************)
Start ==
  /\ pc = "idle"
  /\ \E b \in Paths \cup {None}, o \in Paths, s \in Sources :
       /\ cmd' = [base |-> b, out |-> o, src |-> s]
       /\ pc' = IF b = None THEN "parse" ELSE "head"
  /\ before' = disk
  /\ UNCHANGED <<disk, damages, base, known, ext, hashes, lost, meant>>

ReadHead ==
  /\ pc = "head"
  /\ LET f == disk[cmd.base] IN
       \/ /\ HeadAccepted(f)
          /\ pc' = "trees"
          /\ base' = [ident |-> f.ident, nodes |-> <<>>, next |-> 0]
          /\ known' = f.hashes
          /\ UNCHANGED <<disk, damages, cmd, ext, hashes, lost, meant, before>>
       \/ ~HeadAccepted(f) /\ Fail

\* A reader that takes whatever tree comes next.
ReadTreeUnchecked ==
  /\ pc = "trees"
  /\ Len(base.nodes) < Len(known)
  /\ LET i == Len(base.nodes) + 1
         trees == disk[cmd.base].trees
     IN \/ /\ i <= Len(trees)
           /\ base' = [ident |-> base.ident,
                       nodes |-> Append(base.nodes, trees[i].node),
                       next |-> NextFuncid(base.next, trees[i].node)]
           /\ UNCHANGED <<disk, damages, pc, cmd, known, ext, hashes, lost, meant, before>>
        \/ i > Len(trees) /\ Fail

ReadTree ==
  /\ pc = "trees"
  /\ Len(base.nodes) < Len(known)
  /\ LET i == Len(base.nodes) + 1
         trees == disk[cmd.base].trees
     IN \/ /\ TreeAccepted(base.ident.uuid, known, trees, i)
           /\ base' = [ident |-> base.ident,
                       nodes |-> Append(base.nodes, trees[i].node),
                       next |-> NextFuncid(base.next, trees[i].node)]
           /\ UNCHANGED <<disk, damages, pc, cmd, known, ext, hashes, lost, meant, before>>
        \/ ~TreeAccepted(base.ident.uuid, known, trees, i) /\ Fail

\* A reader that waits for the end of the file instead of rejecting more data.
ReadEndNoReject ==
  /\ pc = "trees"
  /\ Len(base.nodes) = Len(known)
  /\ Len(disk[cmd.base].trees) = Len(known)
  /\ pc' = "parse"
  /\ ext' = [nodes |-> <<>>, next |-> base.next]
  /\ UNCHANGED <<disk, damages, cmd, base, known, hashes, lost, meant, before>>

\* The parser is started at function id 0 although a base was read.
ReadEndRestartsIds ==
  /\ pc = "trees"
  /\ Len(base.nodes) = Len(known)
  /\ pc' = "parse"
  /\ ext' = NoExt
  /\ UNCHANGED <<disk, damages, cmd, base, known, hashes, lost, meant, before>>

(* Nothing may follow the last tree; the parser takes over the counters.    *)
ReadEnd ==
  /\ pc = "trees"
  /\ Len(base.nodes) = Len(known)
  /\ \/ /\ Len(disk[cmd.base].trees) = Len(known)
        /\ pc' = "parse"
        /\ ext' = [nodes |-> <<>>, next |-> base.next]
        /\ UNCHANGED <<disk, damages, cmd, base, known, hashes, lost, meant, before>>
     \/ Len(disk[cmd.base].trees) # Len(known) /\ Fail

(***************************************************************************)
(* Parsing the source (Parser) and checking it against the base.            *)
(***************************************************************************)

(* One abirevision block; its functions take the next ids.  The block must  *)
(* carry the number after the base's and its own predecessors.              *)
ParseRevision ==
  /\ pc = "parse"
  /\ LET k == Len(ext.nodes) + 1
         revs == Text(cmd.src).revs
         fits == /\ revs[k].body # Malformed
                 /\ revs[k].version = Len(base.nodes) + Len(ext.nodes)
     IN /\ k <= Len(revs)
        /\ \/ /\ fits
              /\ ext' = [nodes |-> Append(ext.nodes,
                                     [version |-> revs[k].version,
                                      body |-> revs[k].body,
                                      funcs |-> Numbered(revs[k].names, ext.next)]),
                         next |-> ext.next + Len(revs[k].names)]
              /\ UNCHANGED <<disk, damages, pc, cmd, base, known, hashes, lost, meant, before>>
           \/ ~fits /\ Fail

(* normalize_interface_metadata: exactly one well-formed uuid and prefix.   *)
MetadataOK(ident) == ident.uuid # Malformed /\ ident.prefix # Malformed

(* validate_extension_interface.                                            *)
SameIdentity(a, b) ==
  a.name = b.name /\ a.uuid = b.uuid /\ a.prefix = b.prefix /\ a.notes = b.notes

SourceAccepted ==
  LET ident == Text(cmd.src).ident
  IN MetadataOK(ident) /\ (cmd.base # None => SameIdentity(base.ident, ident))

\* The output is truncated before the source has been validated.
ValidateAfterOpen ==
  /\ pc = "parse"
  /\ Len(ext.nodes) = Len(Text(cmd.src).revs)
  /\ \/ /\ SourceAccepted
        /\ pc' = "open"
        /\ UNCHANGED <<disk, damages, run, meant, before>>
     \/ /\ ~SourceAccepted
        /\ pc' = "failed"
        /\ disk' = [disk EXCEPT ![cmd.out] = Blank]
        /\ UNCHANGED <<damages, run, meant, before>>

Validate ==
  /\ pc = "parse"
  /\ Len(ext.nodes) = Len(Text(cmd.src).revs)
  /\ \/ /\ SourceAccepted
        /\ pc' = "open"
        /\ UNCHANGED <<disk, damages, run, meant, before>>
     \/ ~SourceAccepted /\ Fail

(***************************************************************************)
(* Writing the artifact (open_binary_output_file, sif_write).               *)
(***************************************************************************)
\* sif_write is handed the source's revisions only.
RevisionsOfSource(b, e) == e.nodes

(* The revisions sif_write lists: the base's, then the extension's.         *)
Revisions(b, e) == b.nodes \o e.nodes

(* The interface whose header is written: the base if there is one.         *)
OutIdent(c, b) == IF c.base = None THEN Text(c.src).ident ELSE b.ident

(* Opening truncates the file; or it fails and the file stays.              *)
Open ==
  /\ pc = "open"
  /\ \/ Fail
     \/ /\ pc' = "hash"
        /\ disk' = [disk EXCEPT ![cmd.out] = Blank]
        /\ meant' = [meant EXCEPT ![cmd.out] =
                       [ident |-> OutIdent(cmd, base), nodes |-> Revisions(base, ext)]]
        /\ UNCHANGED <<damages, run, before>>

(* An empty history is refused only now; otherwise hash the next revision.  *)
Hash ==
  /\ pc = "hash"
  /\ LET nodes == Revisions(base, ext)
         i == Len(hashes) + 1
     IN \/ nodes = <<>> /\ Fail
        \/ /\ i <= Len(nodes)
           /\ hashes' = Append(hashes, Digest(OutIdent(cmd, base).uuid, nodes[i],
                                              PrevIn(hashes, i)))
           /\ UNCHANGED <<disk, damages, pc, cmd, base, known, ext, lost, meant, before>>

WriteHead ==
  /\ pc = "hash"
  /\ hashes # <<>> /\ Len(hashes) = Len(Revisions(base, ext))
  /\ pc' = "write"
  /\ disk' = [disk EXCEPT ![cmd.out] = Header(OutIdent(cmd, base), hashes)]
  /\ UNCHANGED <<damages, run, meant, before>>

\* previous_hash is not advanced between trees.
WriteTreeStalePrev ==
  /\ pc = "write"
  /\ LET i == Len(disk[cmd.out].trees) + 1
     IN /\ i <= Len(hashes)
        /\ disk' = [disk EXCEPT ![cmd.out] = WithTrees(@,
                      Append(@.trees, [node |-> Revisions(base, ext)[i], prev |-> ZeroHash]))]
  /\ UNCHANGED <<damages, pc, run, meant, before>>

WriteTree ==
  /\ pc = "write"
  /\ LET i == Len(disk[cmd.out].trees) + 1
     IN /\ i <= Len(hashes)
        /\ disk' = [disk EXCEPT ![cmd.out] = WithTrees(@,
                      Append(@.trees, [node |-> Revisions(base, ext)[i],
                                       prev |-> PrevIn(hashes, i)]))]
  /\ UNCHANGED <<damages, pc, run, meant, before>>

(* `return 0`: every tree was written, or the stream failed on the way: its *)
(* state is never looked at, the rest of the output is silently dropped.    *)
Close ==
  /\ \/ /\ pc = "write"
        /\ Len(disk[cmd.out].trees) = Len(hashes)
        /\ lost' = FALSE
     \/ /\ \/ pc = "hash" /\ hashes # <<>> /\ Len(hashes) = Len(Revisions(base, ext))
           \/ pc = "write" /\ Len(disk[cmd.out].trees) < Len(hashes)
        /\ lost' = TRUE
  /\ pc' = "done"
  /\ UNCHANGED <<disk, damages, cmd, base, known, ext, hashes, meant, before>>

(***************************************************************************)
(* The end of a process, and the environment.                               *)
(***************************************************************************)
ForgetRun ==
  /\ pc' = "idle"
  /\ cmd' = NoCmd /\ base' = NoBase /\ known' = <<>> /\ ext' = NoExt
  /\ hashes' = <<>> /\ lost' = FALSE
  /\ before' = disk
  /\ UNCHANGED <<disk, damages, meant>>

Exit == pc \in {"failed", "done"} /\ ForgetRun

(* The process is killed; files keep what has been written so far.          *)
Crash == pc \notin {"idle", "failed", "done"} /\ ForgetRun

(* What one damaged field makes of a tree.                                  *)
SpoiltTrees(t) ==
  {[node |-> t.node, prev |-> Rot],
   [node |-> [t.node EXCEPT !.version = @ + 1], prev |-> t.prev]}
    \cup {[node |-> [t.node EXCEPT !.body = b], prev |-> t.prev] : b \in Bodies}
    \cup {[node |-> WithId(t.node, j, t.node.funcs[j].id + 1), prev |-> t.prev] :
            j \in DOMAIN t.node.funcs}

(* What it makes of a header.                                               *)
SpoiltHeads(f) ==
  {[ident |-> f.ident, root |-> Rot, hashes |-> f.hashes, trees |-> f.trees]}
    \cup {[ident |-> x, root |-> f.root, hashes |-> f.hashes, trees |-> f.trees] :
            x \in Idents}
    \cup {[ident |-> f.ident, root |-> f.root, hashes |-> [f.hashes EXCEPT ![i] = Rot],
            trees |-> f.trees] : i \in DOMAIN f.hashes}

(* ... and of a file: a field changed, the end cut off, or a tree too many. *)
SpoiltFiles(f) ==
  {Blank}
    \cup SpoiltHeads(f)
    \cup (UNION {{WithTrees(f, [f.trees EXCEPT ![i] = t]) : t \in SpoiltTrees(f.trees[i])} :
                   i \in DOMAIN f.trees})
    \cup {WithTrees(f, SubSeq(f.trees, 1, n)) : n \in 0 .. Len(f.trees) - 1}
    \cup {WithTrees(f, Append(f.trees, f.trees[i])) : i \in DOMAIN f.trees}

Damage ==
  /\ pc = "idle" /\ damages < MaxDamage
  /\ \E p \in Paths : \E f \in SpoiltFiles(disk[p]) :
       /\ disk[p] # Blank
       /\ disk' = [disk EXCEPT ![p] = f]
  /\ damages' = damages + 1
  /\ before' = disk'
  /\ UNCHANGED <<pc, run, meant>>

RunStep ==
  \/ ReadHead \/ ReadTree \/ ReadEnd
  \/ ParseRevision \/ Validate
  \/ Open \/ Hash \/ WriteHead \/ WriteTree \/ Close \/ Exit

Next == Start \/ RunStep \/ Crash \/ Damage

Spec == Init /\ [][Next]_vars

(* A process that has been started keeps executing.                         *)
FairSpec == Spec /\ WF_vars(RunStep)

(***************************************************************************)
(* Properties.                                                              *)
(***************************************************************************)
Stages == {"idle", "head", "trees", "parse", "open", "hash", "write", "failed", "done"}

(* Types, as far as the rest of the properties depends on them.             *)
TypeOK ==
  /\ pc \in Stages
  /\ damages \in 0 .. MaxDamage
  /\ lost \in BOOLEAN
  /\ cmd \in [base : Paths \cup {None}, out : Paths \cup {None}, src : Sources \cup {None}]
  /\ base.nodes \in Seq(Nodes) /\ base.next \in Nat
  /\ ext.nodes \in Seq(Nodes) /\ ext.next \in Nat
  /\ \A p \in Paths : meant[p].nodes \in Seq(Nodes)
  /\ \A p \in Paths : \A i \in DOMAIN disk[p].trees : disk[p].trees[i].node \in Nodes

(* An artifact a reader accepts is exactly what the last run that opened it *)
(* set out to write: a killed compile, a full device or a damaged field     *)
(* makes an artifact unreadable, never readable with another history.       *)
(* (The table of hashes written ahead of the trees, sif.cc:1013-1027, and   *)
(* the checks of read_revision_tree.)                                       *)
PublishedOrRefused ==
  \A p \in Paths : Accepts(disk[p]) => NodesOf(disk[p]) = meant[p].nodes

(* What a run extends is the history that was published, whatever happened  *)
(* to the file in between, and the parser continues at the first id that    *)
(* history leaves free (main.cc:423-427).                                   *)
LoadedWasPublished ==
  (pc \in {"parse", "open"} /\ cmd.base # None) =>
    /\ base.nodes = meant[cmd.base].nodes
    /\ base.ident.uuid = meant[cmd.base].ident.uuid
    /\ base.next = Span(base.nodes)

(* The ids in every readable artifact number its functions 0 .. n-1 in      *)
(* order: the generated vtable has slot `id` for function `id`, and the     *)
(* dispatcher's bound is one more than the last id.                         *)
FuncIdsDense ==
  \A p \in Paths :
    Accepts(disk[p]) => DenseIds(NodesOf(disk[p]), Span(NodesOf(disk[p])))

(* The hash table of an extension starts with the base's own table: nothing *)
(* published earlier is rehashed to something else.                         *)
ExtensionKeepsHistory ==
  (pc = "write" /\ cmd.base # None) =>
    Len(known) <= Len(hashes) /\ SubSeq(hashes, 1, Len(known)) = known

(* Declarations reach the same artifact whether they are compiled from one  *)
(* source or added over several extensions: equal declarations under equal  *)
(* UUIDs have equal hash tables.                                            *)
View(nodes) ==
  [i \in DOMAIN nodes |->
     [body |-> nodes[i].body,
      names |-> [j \in DOMAIN nodes[i].funcs |-> nodes[i].funcs[j].name]]]

SplitIndependence ==
  \A p, q \in Paths :
    /\ Accepts(disk[p]) /\ Accepts(disk[q])
    /\ disk[p].ident.uuid = disk[q].ident.uuid
    /\ View(NodesOf(disk[p])) = View(NodesOf(disk[q]))
    => disk[p].hashes = disk[q].hashes

(* A run that reports success left an artifact its own reader accepts, with *)
(* the whole history in it - unless the device filled up, which the run     *)
(* does not notice (main.cc:443-455).                                       *)
SuccessMeansReadable ==
  (pc = "done" /\ ~lost) =>
    /\ Accepts(disk[cmd.out])
    /\ NodesOf(disk[cmd.out]) = meant[cmd.out].nodes
    /\ disk[cmd.out].ident = meant[cmd.out].ident

(* A run changes no file but its output, and one that reports an error has  *)
(* not touched that either, except when there was no revision to write:     *)
(* that is noticed after the output has been truncated (sif.cc:999).        *)
ArtifactsKept ==
  \A p \in Paths :
    disk[p] # before[p] =>
      /\ p = cmd.out
      /\ pc = "failed" => Revisions(base, ext) = <<>>

(* A revision hash stands for the whole history up to that revision: where  *)
(* two artifacts of one interface agree on the hash of a revision, however  *)
(* their histories were extended and wherever they part later, they agree   *)
(* on everything before it (the previous hash in each tree, sif.cc:696).    *)
SharedHashSharedPast ==
  \A p, q \in Paths :
    /\ Accepts(disk[p]) /\ Accepts(disk[q])
    /\ disk[p].ident.uuid = disk[q].ident.uuid
    => \A i \in DOMAIN disk[p].hashes \cap DOMAIN disk[q].hashes :
         disk[p].hashes[i] = disk[q].hashes[i] =>
           SubSeq(NodesOf(disk[p]), 1, i) = SubSeq(NodesOf(disk[q]), 1, i)

(* Runs, kills, full devices and damage amount to no more than AbiHistory   *)
(* allows: histories grow from readable ones and are never made up.         *)
Abstract ==
  INSTANCE AbiHistory WITH
    held <- [p \in Paths |-> meant[p].nodes],
    readable <- {p \in Paths : Accepts(disk[p])},
    draft <- IF pc \in {"parse", "open"} THEN base.nodes ELSE <<>>

KeepsHistories == Abstract!Spec

(* Every run ends: each loop of reader, parser and writer makes progress.   *)
EveryRunEnds == pc # "idle" ~> pc = "idle"
=============================================================================
