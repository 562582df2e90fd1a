---------------------------- MODULE SidlBuildInv ----------------------------
(***************************************************************************)
(* The inductive invariant of SidlBuild, in named parts.                    *)
(*                                                                          *)
(* ProcInv and FilesInv give the variables their shapes.  OwnInv is about   *)
(* the header and source of a mode, which only runs of that mode write:     *)
(* what has been written of them so far.  SharedInv is about the types      *)
(* header, which runs of all modes truncate and fill at once: every piece   *)
(* of it is there or will be written by a run that is still short of it.    *)
(* OrderInv is about builds that compile before they generate: a run then   *)
(* has the newest version, or is known to be out of date.                   *)
(***************************************************************************)
EXTENDS SidlBuild

(* Everything a file can hold at a place.                                   *)
Pieces == {Hole} \cup (({"types"} \cup (Modes \X {2, 3})) \X Nat \X Nat)

FilesInv == files \in [Names -> Seq(Pieces)]

States == {"idle", "read", "open", "put", "done", "failed"}

Runs ==
  [pc : States, version : Nat, output : 0 .. 3, at : Nat, stale : BOOLEAN, lost : BOOLEAN]

ArtifactInv ==
  /\ ordered \in BOOLEAN
  /\ newest \in 1 .. MaxVersion /\ sif \in {Torn, newest}
  /\ kills \in Nat /\ losses \in Nat

RunOK(r) ==
  /\ r.version <= newest
  /\ r.pc \in {"read", "open", "put"} => ~r.stale
  /\ r.pc \in {"open", "put", "done"} => r.output # 0 /\ r.version # 0
  /\ r.pc = "put" => r.at \in 1 .. r.version + 2

ProcInv ==
  /\ proc \in [Modes -> Runs] /\ good \in [Modes -> 0 .. newest]
  /\ \A m \in Modes : RunOK(proc[m])

(* The k-th output of a mode, and its first n pieces.                       *)
Held(m, k) == files[Outputs(m)[k]]
Beginning(m, k, v, n) == [i \in 1 .. n |-> TextOf(m, k, v)[i]]

(* The header and the source of a mode.                                     *)
Own(m) ==
  /\ proc[m].pc = "put" /\ proc[m].output # 1 =>
       Held(m, proc[m].output)
         = Beginning(m, proc[m].output, proc[m].version, proc[m].at - 1)
  /\ good[m] # 0 => \A k \in {2, 3} : Held(m, k) = TextOf(m, k, good[m])
  /\ \/ proc[m].pc = "put" /\ proc[m].output # 1
     \/ proc[m].pc = "open" /\ proc[m].output = 3
     => good[m] = 0
  /\ proc[m].pc \in {"open", "put"} /\ proc[m].output = 3 /\ ~proc[m].lost =>
       Held(m, 2) = TextOf(m, 2, proc[m].version)
  /\ proc[m].pc = "done" /\ ~proc[m].lost => good[m] = proc[m].version

OwnInv == \A m \in Modes : Own(m)

(* A run of version v that has truncated the types header, and lost nothing *)
(* of it since.                                                             *)
Writes(m, v) ==
  /\ proc[m].version = v /\ ~proc[m].lost
  /\ \/ proc[m].pc = "put"
     \/ proc[m].pc = "open" /\ proc[m].output # 1
     \/ proc[m].pc = "done"

(* A run that ended before the newest version was there.                    *)
Past(m, v) ==
  ordered /\ v = newest /\ proc[m].pc = "done" /\ proc[m].version # v

(* All runs that may still touch the types header, or have left their mark  *)
(* on it, are of version v.                                                 *)
Agree(v) ==
  /\ \A m \in Modes : proc[m].pc = "idle" \/ Writes(m, v) \/ Past(m, v)
  /\ \E m \in Modes : Writes(m, v)

(* The run of a mode has yet to write the i-th piece of the types header.   *)
Owes(m, i) == proc[m].pc = "put" /\ proc[m].output = 1 /\ proc[m].at <= i

TypesName == Append(Stem(Artifact), "types.h")
TypesText(v) == [i \in 1 .. v + 1 |-> <<"types", v, i>>]

Shared(v) ==
  Agree(v) =>
    /\ Len(files[TypesName]) <= v + 1
    /\ \A i \in 1 .. v + 1 :
         \/ i <= Len(files[TypesName]) /\ files[TypesName][i] = <<"types", v, i>>
         \/ \E m \in Modes : Owes(m, i)

SharedInv == \A v \in 1 .. MaxVersion : Shared(v)

(* A mode of a build that compiles first: nothing runs while the artifact   *)
(* is written, and what runs or is up to date has the newest version.       *)
InOrder(m) ==
  /\ Running(m) => sif # Torn
  /\ proc[m].pc \in {"open", "put"} => proc[m].version = newest
  /\ sif # Torn /\ proc[m].pc = "done" /\ ~proc[m].stale => proc[m].version = newest

OrderInv == ordered => \A m \in Modes : InOrder(m)

(* The inductive invariant: the files and the runs that write them agree,   *)
(* however the runs are interleaved and whichever of them failed.           *)
IInv == ArtifactInv /\ FilesInv /\ ProcInv /\ OwnInv /\ SharedInv /\ OrderInv
=============================================================================
