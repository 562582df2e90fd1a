------------------------------ MODULE SidlBuild ------------------------------
(***************************************************************************)
(* `sidlc generate` for several modes of one artifact (core/main.cc         *)
(* command_generate, lang/c_handler.cc c_generate), each in a process of    *)
(* its own.  A run reads the artifact, then writes the types header, which  *)
(* all modes share, its own header and its own source, piece by piece: two  *)
(* runs at once truncate and fill the same types header.                    *)
(*                                                                          *)
(* Around them: the artifact is compiled anew now and then, runs are killed *)
(* or lose their output to a full device, and the build that CMake was told *)
(* of (cmake/UseSIDLC.cmake) runs what failed or is out of date again.      *)
(***************************************************************************)
EXTENDS Naturals, SequencesExt

CONSTANTS
  Modes,        \* the modes generated, of "client", "server", "server-client"
  Artifact,     \* the artifact's file name without directory: parts between dots
  MaxVersion,   \* bound: versions of the artifact
  MaxKills,     \* bound: runs killed, or refused a file
  MaxLosses     \* bound: files cut short by a full device

ASSUME ModesAssumption == Modes \subseteq {"client", "server", "server-client"}
ASSUME ArtifactAssumption ==
  Artifact \in Seq(STRING) /\ Len(Artifact) > 1 /\ Last(Artifact) = "sif"
ASSUME BoundsAssumption ==
  MaxVersion \in Nat \ {0} /\ MaxKills \in Nat /\ MaxLosses \in Nat

VARIABLES
  ordered, \* does one build graph hold the compile and the generates?
  sif,     \* the artifact: its version, or Torn while a compile writes it
  newest,  \* the version compiled last, or being compiled
  files,   \* what has been written, by name
  proc,    \* the run of generate, by mode
  good,    \* history variable: the version of a mode's header and source, if
           \* a run wrote them to the end and none has opened them since
  kills, losses

vars == <<ordered, sif, newest, files, proc, good, kills, losses>>

Torn == 0

(***************************************************************************)
(* Names.                                                                   *)
(***************************************************************************)

(* std::filesystem::path::stem: up to the last dot.                         *)
Stem(name) == Front(name)

(* get_filename_component(... NAME_WE): up to the first dot.                *)
NameWE(name) == <<name[1]>>

HeaderSuffix(m) ==
  CASE m = "client" -> "h" [] m = "server" -> "server.h"
    [] m = "server-client" -> "server-client.h"

SourceSuffix(m) ==
  CASE m = "client" -> "client.c" [] m = "server" -> "server.c"
    [] m = "server-client" -> "server-client.c"

(* The files a run writes, in this order.  The source's path is an argument *)
(* the build makes up.                                                      *)
Outputs(m) ==
  <<Append(Stem(Artifact), "types.h"), Append(Stem(Artifact), HeaderSuffix(m)),
    Append(NameWE(Artifact), SourceSuffix(m))>>

(* The OUTPUTs the custom command declares.                                 *)
Declared(m) ==
  <<Append(NameWE(Artifact), "types.h"), Append(NameWE(Artifact), HeaderSuffix(m)),
    Append(NameWE(Artifact), SourceSuffix(m))>>

Names == UNION {ToSet(Outputs(m)) \cup ToSet(Declared(m)) : m \in Modes}

(***************************************************************************)
(* Contents.                                                                *)
(***************************************************************************)

(* The pieces of the k-th output: a longer history has a longer text.  The  *)
(* types header is the same in every mode.                                  *)
TextOf(m, k, v) ==
  [i \in 1 .. v + 1 |-> <<IF k = 1 THEN "types" ELSE <<m, k>>, v, i>>]

Hole == <<"hole">>

\* A stream that appends instead of keeping its own position.
PutAppend(text, at, piece) == Append(text, piece)

\* A stream that only writes over what is there.
PutInPlace(text, at, piece) ==
  IF at <= Len(text) THEN [text EXCEPT ![at] = piece] ELSE text

(* A stream writes at its own position, whatever others do to the file.     *)
Put(text, at, piece) ==
  [i \in 1 .. (IF at > Len(text) THEN at ELSE Len(text)) |->
     IF i = at THEN piece ELSE IF i <= Len(text) THEN text[i] ELSE Hole]

(***************************************************************************)
(* A run of generate.                                                       *)
(***************************************************************************)
NotRun == [pc |-> "idle", version |-> 0, output |-> 0, at |-> 0, stale |-> TRUE,
           lost |-> FALSE]

Init ==
  /\ ordered \in BOOLEAN
  /\ sif = 1 /\ newest = 1
  /\ files = [n \in Names |-> <<>>]
  /\ proc = [m \in Modes |-> NotRun]
  /\ good = [m \in Modes |-> 0]
  /\ kills = 0 /\ losses = 0

Running(m) == proc[m].pc \in {"read", "open", "put"}

\* A rule that does not depend on the artifact.
StartOnce(m) ==
  /\ ~Running(m)
  /\ proc[m].pc # "done"
  /\ ordered => sif # Torn
  /\ proc' = [proc EXCEPT ![m] = [NotRun EXCEPT !.pc = "read", !.stale = FALSE]]
  /\ UNCHANGED <<ordered, sif, newest, files, good, kills, losses>>

(* The build runs what failed and what is older than the artifact.          *)
Start(m) ==
  /\ ~Running(m)
  /\ proc[m].pc # "done" \/ proc[m].stale
  /\ ordered => sif # Torn
  /\ proc' = [proc EXCEPT ![m] = [NotRun EXCEPT !.pc = "read", !.stale = FALSE]]
  /\ UNCHANGED <<ordered, sif, newest, files, good, kills, losses>>

\* The outputs are opened, and so truncated, before the artifact is read.
ReadAfterOpen(m) ==
  /\ proc[m].pc = "read"
  /\ proc' = [proc EXCEPT ![m] =
       IF sif = Torn THEN [@ EXCEPT !.pc = "failed"]
       ELSE [@ EXCEPT !.pc = "open", !.version = sif, !.output = 1]]
  /\ files' = [n \in Names |-> IF n \in ToSet(Outputs(m)) THEN <<>> ELSE files[n]]
  /\ UNCHANGED <<ordered, sif, newest, good, kills, losses>>

(* read_sif_file: a torn artifact ends the run.                             *)
Read(m) ==
  /\ proc[m].pc = "read"
  /\ proc' = [proc EXCEPT ![m] =
       IF sif = Torn THEN [@ EXCEPT !.pc = "failed"]
       ELSE [@ EXCEPT !.pc = "open", !.version = sif, !.output = 1]]
  /\ UNCHANGED <<ordered, sif, newest, files, good, kills, losses>>

\* A stream that is opened for writing without being emptied.
OpenKeepsOld(m) ==
  /\ proc[m].pc = "open"
  /\ proc' = [proc EXCEPT ![m] = [@ EXCEPT !.pc = "put", !.at = 1]]
  /\ good' = [good EXCEPT ![m] = IF proc[m].output = 1 THEN @ ELSE 0]
  /\ UNCHANGED <<ordered, sif, newest, files, kills, losses>>

(* std::ofstream truncates the file.                                        *)
Open(m) ==
  /\ proc[m].pc = "open"
  /\ proc' = [proc EXCEPT ![m] = [@ EXCEPT !.pc = "put", !.at = 1]]
  /\ files' = [files EXCEPT ![Outputs(m)[proc[m].output]] = <<>>]
  /\ good' = [good EXCEPT ![m] = IF proc[m].output = 1 THEN @ ELSE 0]
  /\ UNCHANGED <<ordered, sif, newest, kills, losses>>

PutPiece(m) ==
  LET p == proc[m]
      text == TextOf(m, p.output, p.version)
      n == Outputs(m)[p.output]
  IN /\ p.pc = "put" /\ p.at <= Len(text)
     /\ files' = [files EXCEPT ![n] = Put(@, p.at, text[p.at])]
     /\ proc' = [proc EXCEPT ![m] = [@ EXCEPT !.at = p.at + 1]]
     /\ UNCHANGED <<ordered, sif, newest, good, kills, losses>>

(* On to the next output, whatever became of this one; after the third the  *)
(* run has succeeded.                                                       *)
EndOutput(m, cut) ==
  LET p == proc[m]
  IN /\ proc' = [proc EXCEPT ![m] =
          IF p.output < 3
          THEN [p EXCEPT !.pc = "open", !.output = p.output + 1, !.lost = p.lost \/ cut]
          ELSE [p EXCEPT !.pc = "done", !.lost = p.lost \/ cut]]
     /\ good' = IF p.output = 3 /\ ~proc'[m].lost
                THEN [good EXCEPT ![m] = p.version] ELSE good
     /\ UNCHANGED <<ordered, sif, newest, files>>

Close(m) ==
  /\ proc[m].pc = "put"
  /\ proc[m].at > Len(TextOf(m, proc[m].output, proc[m].version))
  /\ EndOutput(m, FALSE)
  /\ UNCHANGED <<kills, losses>>

(* The device is full: the rest of a file is dropped and nobody notices.    *)
Lose(m) ==
  /\ proc[m].pc = "put" /\ losses < MaxLosses
  /\ proc[m].at <= Len(TextOf(m, proc[m].output, proc[m].version))
  /\ EndOutput(m, TRUE)
  /\ losses' = losses + 1
  /\ UNCHANGED kills

\* What the last of the three generators returns is ignored.
RefusedUnnoticed(m) ==
  /\ proc[m].pc \in {"read", "open"} /\ kills < MaxKills
  /\ proc' = [proc EXCEPT ![m] =
       [@ EXCEPT !.pc = IF @ = "open" /\ proc[m].output = 3 THEN "done" ELSE "failed"]]
  /\ kills' = kills + 1
  /\ UNCHANGED <<ordered, sif, newest, files, good, losses>>

(* A file cannot be opened: the run ends with an error, and what it wrote   *)
(* before stays as it is.                                                   *)
Refused(m) ==
  /\ proc[m].pc \in {"read", "open"} /\ kills < MaxKills
  /\ proc' = [proc EXCEPT ![m] = [@ EXCEPT !.pc = "failed"]]
  /\ kills' = kills + 1
  /\ UNCHANGED <<ordered, sif, newest, files, good, losses>>

(* The process is killed.                                                   *)
Kill(m) ==
  /\ Running(m) /\ kills < MaxKills
  /\ proc' = [proc EXCEPT ![m] = [@ EXCEPT !.pc = "failed"]]
  /\ kills' = kills + 1
  /\ UNCHANGED <<ordered, sif, newest, files, good, losses>>

(***************************************************************************)
(* The artifact is compiled anew.                                           *)
(***************************************************************************)
CompileBegins ==
  /\ sif # Torn /\ newest < MaxVersion
  /\ ordered => \A m \in Modes : ~Running(m)
  /\ sif' = Torn /\ newest' = newest + 1
  /\ UNCHANGED <<ordered, files, proc, good, kills, losses>>

(* What ended before now is older than the artifact.                        *)
CompileEnds ==
  /\ sif = Torn
  /\ sif' = newest
  /\ proc' = [m \in Modes |-> IF Running(m) THEN proc[m] ELSE [proc[m] EXCEPT !.stale = TRUE]]
  /\ UNCHANGED <<ordered, newest, files, good, kills, losses>>

(* Everything is done and the artifact will not change any more.            *)
Rest ==
  /\ newest = MaxVersion /\ sif # Torn
  /\ \A m \in Modes : proc[m].pc = "done"
  /\ UNCHANGED vars

Step(m) == Read(m) \/ Open(m) \/ PutPiece(m) \/ Close(m)

Next ==
  \/ \E m \in Modes : Start(m) \/ Step(m) \/ Lose(m) \/ Refused(m) \/ Kill(m)
  \/ CompileBegins \/ CompileEnds
  \/ Rest

Spec == Init /\ [][Next]_vars

(* The build starts what it has to start, and what runs keeps running.      *)
FairSpec ==
  /\ Spec
  /\ \A m \in Modes : WF_vars(Start(m)) /\ WF_vars(Step(m))
  /\ WF_vars(CompileEnds)

(***************************************************************************)
(* Properties.                                                              *)
(***************************************************************************)
TypeOK ==
  /\ ordered \in BOOLEAN /\ sif \in Torn .. newest /\ newest \in 1 .. MaxVersion
  /\ DOMAIN files = Names
  /\ \A m \in Modes :
       /\ proc[m].pc \in {"idle", "read", "open", "put", "done", "failed"}
       /\ proc[m].version \in 0 .. newest /\ good[m] \in 0 .. newest
       /\ Running(m) => ~proc[m].stale
       /\ proc[m].pc = "put" => proc[m].at <= Len(files[Outputs(m)[proc[m].output]]) + 1
                                \/ proc[m].output = 1

(* After a run that ended well the header and source the build expects of   *)
(* its mode are there, whole and of one version - while other modes read,   *)
(* write and fail, and until a later run of the mode has come as far as its *)
(* header: one that finds the artifact torn, or fails in the types header,  *)
(* destroys no bindings (the order in c_generate, c_handler.cc:108-149).    *)
DeclaredWhole ==
  \A m \in Modes : good[m] # 0 =>
    \A k \in {2, 3} : files[Declared(m)[k]] = TextOf(m, k, good[m])

(* When nothing runs, every mode that ran has succeeded, and all read the   *)
(* same version, the types header they share is whole and of that version,  *)
(* however their writes to it were interleaved (c_handler.cc:22-34).        *)
Settled(v) ==
  \A m \in Modes : \/ proc[m].pc = "idle"
                   \/ proc[m].pc = "done" /\ proc[m].version = v /\ ~proc[m].lost

TypesWhole ==
  \A v \in 1 .. newest :
    Settled(v) =>
      \A m \in Modes : proc[m].pc = "done" => files[Declared(m)[1]] = TextOf(m, 1, v)

(* Whatever such a build takes for done, because the run succeeded and no   *)
(* compile ended since, is of the newest version: a mode whose source could *)
(* not be opened after the types header had been written anew is not taken  *)
(* for done with its old bindings (c_handler.cc:108-149, main.cc:585), nor  *)
(* is one that read the artifact before it was compiled anew.  The types    *)
(* header is another mode's too: it is of the newest version with the       *)
(* bindings when none of the modes that ran has failed.  (A full device is  *)
(* exempt: no run notices.)                                                 *)
TakenForDone(m) == proc[m].pc = "done" /\ ~proc[m].stale /\ ~proc[m].lost

NothingOutOfDate ==
  ordered /\ sif # Torn =>
    \A m \in Modes : TakenForDone(m) =>
      /\ \A k \in {2, 3} : files[Declared(m)[k]] = TextOf(m, k, newest)
      /\ (\A n \in Modes : proc[n].pc \in {"idle", "done"} /\ ~proc[n].lost) =>
           files[Declared(m)[1]] = TextOf(m, 1, newest)

(* A build whose rules are ordered by the artifact ends with every file     *)
(* whole and of the newest version, after any kills on the way, unless a    *)
(* device was full: that no run notices.                                    *)
AllCurrent ==
  \A m \in Modes : \A k \in 1 .. 3 : files[Declared(m)[k]] = TextOf(m, k, newest)

BuildSettles == [](ordered /\ losses = 0) => <>[]AllCurrent
=============================================================================
