--------------------------- MODULE SidlBuildProofs --------------------------
(***************************************************************************)
(* Proofs about SidlBuild, for any set of modes, any artifact name and any  *)
(* number of versions, killed runs and full devices.                        *)
(***************************************************************************)
EXTENDS SidlBuildInv, SequenceTheorems, TLAPS

(***************************************************************************)
(* Names.                                                                   *)
(***************************************************************************)

(* The name of a file tells its suffix.                                     *)
LEMMA SuffixOf ==
  ASSUME NEW s \in Seq(STRING), NEW t \in Seq(STRING), NEW x, NEW y,
         Append(s, x) = Append(t, y)
  PROVE  x = y
<1> DEFINE S == STRING \cup {x, y}
<1>1. s \in Seq(S) /\ t \in Seq(S)
  <2>1. STRING \subseteq S
    OBVIOUS
  <2> QED
    BY <2>1, SeqMonotonic
<1>2. x \in S /\ y \in S
  OBVIOUS
<1> HIDE DEF S
<1>3. /\ Len(Append(s, x)) = Len(s) + 1 /\ Append(s, x)[Len(s) + 1] = x
      /\ Len(Append(t, y)) = Len(t) + 1 /\ Append(t, y)[Len(t) + 1] = y
  BY <1>1, <1>2, AppendProperties
<1>4. Len(s) \in Nat /\ Len(t) \in Nat
  BY <1>1, LenProperties
<1>5. Len(s) = Len(t)
  BY <1>3, <1>4
<1> QED
  BY <1>3, <1>5

(* The parts of the artifact's name that outputs are named by.              *)
LEMMA Stems == Stem(Artifact) \in Seq(STRING) /\ NameWE(Artifact) \in Seq(STRING)
<1>1. Artifact \in Seq(STRING) /\ Len(Artifact) \in Nat /\ Len(Artifact) > 1
      /\ \A i \in 1 .. Len(Artifact) : Artifact[i] \in STRING
  BY ArtifactAssumption, LenProperties
<1>2. Stem(Artifact) \in Seq(STRING)
  BY <1>1, SubSeqProperties DEF Stem, Front
<1>3. NameWE(Artifact) \in Seq(STRING)
  BY <1>1 DEF NameWE
<1> QED
  BY <1>2, <1>3

Suffix(m, k) ==
  CASE k = 1 -> "types.h" [] k = 2 -> HeaderSuffix(m) [] k = 3 -> SourceSuffix(m)

(* A mode writes names of the build; the first is the types header's.       *)
LEMMA OutputNames ==
  ASSUME NEW m \in Modes
  PROVE  /\ \A k \in 1 .. 3 : Outputs(m)[k] \in Names
         /\ Outputs(m)[1] = TypesName
         /\ \A k \in 1 .. 3 : \E s \in Seq(STRING) : Outputs(m)[k] = Append(s, Suffix(m, k))
<1>1. DOMAIN Outputs(m) = 1 .. 3
  BY DEF Outputs
<1>2. \A k \in 1 .. 3 : Outputs(m)[k] \in Names
  BY <1>1 DEF Names, ToSet
<1>3. Outputs(m)[1] = TypesName
  BY DEF Outputs, TypesName
<1>5. /\ Outputs(m)[1] = Append(Stem(Artifact), Suffix(m, 1))
      /\ Outputs(m)[2] = Append(Stem(Artifact), Suffix(m, 2))
      /\ Outputs(m)[3] = Append(NameWE(Artifact), Suffix(m, 3))
  BY DEF Outputs, Suffix
<1>6. \A k \in 1 .. 3 : k = 1 \/ k = 2 \/ k = 3
  OBVIOUS
<1>7. \A k \in 1 .. 3 : \E s \in Seq(STRING) : Outputs(m)[k] = Append(s, Suffix(m, k))
  BY <1>5, <1>6, Stems
<1> QED
  BY <1>2, <1>3, <1>7

(* Only the types header is an output of more than one mode.                *)
LEMMA OutputsApart ==
  ASSUME NEW m \in Modes, NEW n \in Modes, NEW j \in 1 .. 3, NEW k \in 1 .. 3,
         Outputs(m)[j] = Outputs(n)[k]
  PROVE  j = k /\ (j = 1 \/ m = n)
<1>1. PICK s \in Seq(STRING) : Outputs(m)[j] = Append(s, Suffix(m, j))
  BY OutputNames
<1>2. PICK t \in Seq(STRING) : Outputs(n)[k] = Append(t, Suffix(n, k))
  BY OutputNames
<1>3. Suffix(m, j) = Suffix(n, k)
  BY <1>1, <1>2, SuffixOf
<1> QED
  BY <1>3, ModesAssumption DEF Suffix, HeaderSuffix, SourceSuffix

(***************************************************************************)
(* Contents.                                                                *)
(***************************************************************************)
(* A text is a sequence of pieces, one more than its version.               *)
LEMMA TextFacts ==
  ASSUME NEW m \in Modes, NEW k \in 1 .. 3, NEW v \in Nat
  PROVE  /\ TextOf(m, k, v) \in Seq(Pieces)
         /\ Len(TextOf(m, k, v)) = v + 1
         /\ DOMAIN TextOf(m, k, v) = 1 .. v + 1
         /\ \A i \in 1 .. v + 1 : TextOf(m, k, v)[i] \in Pieces
         /\ k = 1 => TextOf(m, k, v) = TypesText(v)
<1> DEFINE t == TextOf(m, k, v)
<1>1. DOMAIN t = 1 .. v + 1 /\ \A i \in 1 .. v + 1 : t[i] \in Pieces
  BY DEF TextOf, Pieces
<1>2. t = [i \in 1 .. v + 1 |-> t[i]]
  BY DEF TextOf
<1>3. k = 1 => t = TypesText(v)
  BY DEF TextOf, TypesText
<1> HIDE DEF t
<1>4. t \in [1 .. v + 1 -> Pieces]
  BY <1>1, <1>2
<1>5. v + 1 \in Nat
  OBVIOUS
<1>6. t \in Seq(Pieces)
  BY <1>4, <1>5, SeqDef
<1>7. Len(t) = v + 1
  BY <1>1, <1>5, <1>6, LenProperties
<1> QED
  BY <1>1, <1>3, <1>6, <1>7 DEF t

(* What a write makes of a file.                                            *)
LEMMA PutFacts ==
  ASSUME NEW text \in Seq(Pieces), NEW at \in Nat, at # 0, NEW piece \in Pieces
  PROVE  /\ Put(text, at, piece) \in Seq(Pieces)
         /\ Len(Put(text, at, piece)) = IF at > Len(text) THEN at ELSE Len(text)
         /\ Put(text, at, piece)[at] = piece
         /\ \A i \in 1 .. Len(text) : i # at => Put(text, at, piece)[i] = text[i]
<1> DEFINE n == IF at > Len(text) THEN at ELSE Len(text)
           t == Put(text, at, piece)
<1>1. Len(text) \in Nat /\ \A i \in 1 .. Len(text) : text[i] \in Pieces
  BY LenProperties
<1>2. n \in Nat /\ at \in 1 .. n /\ \A i \in 1 .. Len(text) : i \in 1 .. n
  BY <1>1
<1> HIDE DEF n
<1>3. t = [i \in 1 .. n |-> IF i = at THEN piece ELSE IF i <= Len(text) THEN text[i] ELSE Hole]
  BY DEF Put, n
<1>4. t \in [1 .. n -> Pieces]
  BY <1>1, <1>2, <1>3 DEF Pieces
<1>5. t[at] = piece /\ \A i \in 1 .. Len(text) : i # at => t[i] = text[i]
  BY <1>1, <1>2, <1>3
<1> HIDE DEF t
<1>6. t \in Seq(Pieces)
  BY <1>2, <1>4, SeqDef
<1>7. Len(t) = n
  BY <1>2, <1>4, <1>6, LenProperties
<1> QED
  BY <1>5, <1>6, <1>7 DEF n, t

(* A stream that has the file to itself appends.                            *)
LEMMA PutContinues ==
  ASSUME NEW m \in Modes, NEW k \in 1 .. 3, NEW v \in Nat, NEW at \in 1 .. v + 1
  PROVE  Put(Beginning(m, k, v, at - 1), at, TextOf(m, k, v)[at]) = Beginning(m, k, v, at)
<1> DEFINE b == Beginning(m, k, v, at - 1)
           T == TextOf(m, k, v)
<1>1. /\ DOMAIN b = 1 .. at - 1 /\ \A i \in 1 .. at - 1 : b[i] = T[i]
      /\ at - 1 \in Nat
  BY DEF Beginning
<1>2. \A i \in 1 .. at - 1 : T[i] \in Pieces
  <2>1. \A i \in 1 .. at - 1 : i \in 1 .. v + 1
    OBVIOUS
  <2> HIDE DEF T
  <2>2. \A i \in 1 .. v + 1 : T[i] \in Pieces
    BY TextFacts DEF T
  <2> QED
    BY <2>1, <2>2
<1>3. b \in Seq(Pieces) /\ Len(b) = at - 1
  <2>1. b \in [1 .. at - 1 -> Pieces]
    BY <1>2 DEF Beginning
  <2> HIDE DEF b
  <2>2. b \in Seq(Pieces)
    BY <1>1, <2>1, SeqDef
  <2> QED
    BY <1>1, <2>2, LenProperties
<1>4. at > Len(b)
  BY <1>3
<1> HIDE DEF b, T
<1>5. Put(b, at, T[at])
        = [i \in 1 .. at |-> IF i = at THEN T[at] ELSE IF i <= Len(b) THEN b[i] ELSE Hole]
  BY <1>4 DEF Put
<1>6. \A i \in 1 .. at : i # at => i <= Len(b) /\ i \in 1 .. at - 1
  BY <1>3
<1>7. Put(b, at, T[at]) = [i \in 1 .. at |-> T[i]]
  BY <1>1, <1>5, <1>6
<1> QED
  BY <1>7 DEF b, T, Beginning

(* A beginning with all pieces is the text.                                 *)
LEMMA BeginningWhole ==
  ASSUME NEW m, NEW k, NEW v \in Nat
  PROVE  Beginning(m, k, v, v + 1) = TextOf(m, k, v)
  BY DEF Beginning, TextOf

(***************************************************************************)
(* Runs.                                                                    *)
(***************************************************************************)

(* The updates the actions make keep a run a run.                           *)
LEMMA RunUpdated ==
  ASSUME NEW p \in Runs, NEW c \in States
  PROVE  /\ [p EXCEPT !.pc = c] \in Runs
         /\ [p EXCEPT !.pc = c, !.stale = FALSE] \in Runs
         /\ [p EXCEPT !.stale = TRUE] \in Runs
         /\ \A v \in Nat, o \in 0 .. 3 : [p EXCEPT !.pc = c, !.version = v, !.output = o] \in Runs
         /\ \A a \in Nat : [p EXCEPT !.pc = c, !.at = a] \in Runs
         /\ \A a \in Nat : [p EXCEPT !.at = a] \in Runs
         /\ \A o \in 0 .. 3, b \in BOOLEAN : [p EXCEPT !.pc = c, !.output = o, !.lost = b] \in Runs
         /\ \A b \in BOOLEAN : [p EXCEPT !.pc = c, !.lost = b] \in Runs
  BY DEF Runs

(* A run that has not started has the shape of a run.                       *)
LEMMA RunBefore == NotRun \in Runs
  BY DEF NotRun, Runs, States

(***************************************************************************)
(* What a step of one mode leaves alone.                                    *)
(***************************************************************************)

(* The shapes after a step of one run.                                      *)
LEMMA RunChanged ==
  ASSUME ArtifactInv, ProcInv, NEW m \in Modes, NEW r \in Runs, RunOK(r),
         proc' = [proc EXCEPT ![m] = r], newest' = newest,
         good' \in [Modes -> 0 .. newest]
  PROVE  /\ ProcInv'
         /\ proc'[m] = r
         /\ \A n \in Modes \ {m} : proc'[n] = proc[n]
<1>1. proc \in [Modes -> Runs] /\ \A n \in Modes : RunOK(proc[n])
  BY DEF ProcInv
<1>2. /\ proc' \in [Modes -> Runs] /\ proc'[m] = r
      /\ \A n \in Modes \ {m} : proc'[n] = proc[n]
  BY <1>1
<1>3. ASSUME NEW n \in Modes
      PROVE  RunOK(proc[n])'
  <2>1. proc'[n] = proc[n] \/ proc'[n] = r
    BY <1>2
  <2> QED
    BY <1>1, <2>1 DEF RunOK
<1> QED
  BY <1>2, <1>3 DEF ProcInv

(* A mode whose run, header and source did not change is as it was.         *)
LEMMA OwnKept ==
  ASSUME ProcInv, NEW n \in Modes, Own(n), good'[n] = good[n],
         proc'[n].pc = proc[n].pc, proc'[n].version = proc[n].version,
         proc'[n].output = proc[n].output, proc'[n].at = proc[n].at,
         proc'[n].lost = proc[n].lost,
         \A k \in {2, 3} : files'[Outputs(n)[k]] = files[Outputs(n)[k]]
  PROVE  Own(n)'
<1>1. proc[n] \in Runs /\ RunOK(proc[n])
  BY DEF ProcInv
<1>2. proc[n].pc = "put" /\ proc[n].output # 1 => proc[n].output \in {2, 3}
  BY <1>1 DEF Runs, RunOK
<1> QED
  BY <1>2 DEF Own, Held, Beginning

(* A step of one mode leaves what the others own.                           *)
LEMMA OthersKept ==
  ASSUME ProcInv, OwnInv, NEW m \in Modes,
         \A n \in Modes \ {m} : proc'[n] = proc[n] /\ good'[n] = good[n],
         \A f \in Names : (\A k \in 1 .. 3 : f # Outputs(m)[k]) => files'[f] = files[f]
  PROVE  \A n \in Modes \ {m} : Own(n)'
<1> SUFFICES ASSUME NEW n \in Modes \ {m} PROVE Own(n)'
  OBVIOUS
<1>1. \A k \in {2, 3} : files'[Outputs(n)[k]] = files[Outputs(n)[k]]
  <2> SUFFICES ASSUME NEW k \in {2, 3}
               PROVE  files'[Outputs(n)[k]] = files[Outputs(n)[k]]
    OBVIOUS
  <2>1. k \in 1 .. 3 /\ k # 1
    OBVIOUS
  <2>2. \A j \in 1 .. 3 : Outputs(n)[k] # Outputs(m)[j]
    BY <2>1, OutputsApart
  <2> QED
    BY <2>1, <2>2, OutputNames
<1>2. Own(n)
  BY DEF OwnInv
<1> QED
  BY <1>1, <1>2, OwnKept

(* The shared header is as before when nobody came to write it or left.     *)
LEMMA SharedKept ==
  ASSUME SharedInv, files'[TypesName] = files[TypesName], NEW m \in Modes,
         UNCHANGED <<ordered, newest>>,
         \A n \in Modes \ {m} : proc'[n] = proc[n],
         proc'[m].pc # "idle", \A v : ~Past(m, v)',
         \A v \in 1 .. MaxVersion : Writes(m, v)' => Writes(m, v),
         \A v \in 1 .. MaxVersion : \A i \in 1 .. v + 1 :
           Writes(m, v) /\ Owes(m, i) => Owes(m, i)'
  PROVE  SharedInv'
<1> SUFFICES ASSUME NEW v \in 1 .. MaxVersion, Agree(v)'
             PROVE  /\ Len(files'[TypesName]) <= v + 1
                    /\ \A i \in 1 .. v + 1 :
                         \/ i <= Len(files'[TypesName]) /\ files'[TypesName][i] = <<"types", v, i>>
                         \/ \E n \in Modes : Owes(n, i)'
  BY DEF SharedInv, Shared
<1>1. Writes(m, v)
  BY DEF Agree
<1>2. Agree(v)
  <2>1. \A n \in Modes \ {m} : proc[n].pc = "idle" \/ Writes(n, v) \/ Past(n, v)
    BY DEF Agree, Writes, Past
  <2> QED
    BY <1>1, <2>1 DEF Agree
<1>3. ASSUME NEW n \in Modes, NEW i \in 1 .. v + 1, Owes(n, i)
      PROVE  Owes(n, i)'
  <2>1. CASE n = m
    BY <2>1, <1>1, <1>3
  <2>2. CASE n # m
    BY <2>2, <1>3 DEF Owes
  <2> QED
    BY <2>1, <2>2
<1>4. /\ Len(files[TypesName]) <= v + 1
      /\ \A i \in 1 .. v + 1 :
           \/ i <= Len(files[TypesName]) /\ files[TypesName][i] = <<"types", v, i>>
           \/ \E n \in Modes : Owes(n, i)
  BY <1>2 DEF SharedInv, Shared
<1> QED
  BY <1>3, <1>4

(* ... nor when a run that has no part in it steps.                         *)
LEMMA SharedApart ==
  ASSUME NEW m \in Modes, proc'[m].pc # "idle",
         \A v \in 1 .. MaxVersion : ~Writes(m, v)' /\ ~Past(m, v)'
  PROVE  SharedInv'
  BY DEF SharedInv, Shared, Agree

(* The order of a build is kept by a step of one mode that keeps it.        *)
LEMMA OrderKept ==
  ASSUME OrderInv, NEW m \in Modes, UNCHANGED <<ordered, sif, newest>>,
         \A n \in Modes \ {m} : proc'[n] = proc[n],
         ordered => InOrder(m)'
  PROVE  OrderInv'
<1> SUFFICES ASSUME ordered, NEW n \in Modes PROVE InOrder(n)'
  BY DEF OrderInv
<1>1. CASE n = m
  BY <1>1
<1>2. CASE n # m
  BY <1>2 DEF OrderInv, InOrder, Running
<1> QED
  BY <1>1, <1>2

(***************************************************************************)
(* The steps.                                                               *)
(***************************************************************************)

(* Nothing written, nothing running.                                        *)
LEMMA InitInv == Init => IInv
<1> SUFFICES ASSUME Init PROVE IInv
  OBVIOUS
<1>1. ArtifactInv
  BY BoundsAssumption DEF Init, ArtifactInv
<1>2. FilesInv
  BY EmptySeq DEF Init, FilesInv
<1>3. NotRun \in Runs /\ NotRun.pc = "idle" /\ NotRun.version = 0
  BY DEF NotRun, Runs, States
<1>4. \A m \in Modes : proc[m] = NotRun /\ good[m] = 0
  BY DEF Init
<1>5. ProcInv
  BY <1>1, <1>3, <1>4 DEF Init, ProcInv, RunOK, ArtifactInv
<1>6. OwnInv
  BY <1>3, <1>4 DEF OwnInv, Own
<1>7. SharedInv /\ OrderInv
  BY <1>3, <1>4 DEF SharedInv, Shared, Agree, Writes, OrderInv, InOrder, Running
<1> QED
  BY <1>1, <1>2, <1>5, <1>6, <1>7 DEF IInv

(* A run that starts, finds a torn artifact or is killed has no part in the *)
(* files any more; one that has read the artifact not yet.                  *)
LEMMA OutsideStep ==
  ASSUME IInv, NEW m \in Modes, Start(m) \/ Read(m) \/ Refused(m) \/ Kill(m)
  PROVE  IInv'
<1>0. ArtifactInv /\ ProcInv /\ OwnInv /\ SharedInv /\ FilesInv /\ OrderInv
      /\ proc \in [Modes -> Runs] /\ proc[m] \in Runs /\ RunOK(proc[m])
      /\ good \in [Modes -> 0 .. newest]
  BY DEF IInv, ProcInv
<1>1. /\ UNCHANGED <<ordered, sif, newest, files, good, losses>>
      /\ kills' \in Nat
  BY <1>0 DEF Start, Read, Refused, Kill, ArtifactInv
<1>2. PICK r \in Runs :
        /\ proc' = [proc EXCEPT ![m] = r] /\ RunOK(r)
        /\ \/ r.pc = "failed"
           \/ r.pc = "read" /\ (ordered => sif # Torn)
           \/ r.pc = "open" /\ r.output = 1 /\ sif # Torn /\ r.version = newest
  <2>1. CASE Start(m)
    <3> DEFINE r == [NotRun EXCEPT !.pc = "read", !.stale = FALSE]
    <3>1. r \in Runs /\ r.pc = "read" /\ r.version = 0 /\ ~r.stale
      <4>1. "read" \in States
        BY DEF States
      <4>2. r \in Runs
        BY <4>1, RunBefore, RunUpdated
      <4>3. r.pc = "read" /\ r.version = NotRun.version /\ r.stale = FALSE
        BY RunBefore DEF Runs
      <4>4. NotRun.version = 0
        BY DEF NotRun
      <4> QED
        BY <4>2, <4>3, <4>4
    <3>2. proc' = [proc EXCEPT ![m] = r]
      BY <2>1 DEF Start
    <3> HIDE DEF r
    <3>3. RunOK(r)
      BY <1>0, <3>1 DEF RunOK, ArtifactInv
    <3>4. ordered => sif # Torn
      BY <2>1 DEF Start
    <3> QED
      BY <3>1, <3>2, <3>3, <3>4
  <2>2. CASE Read(m) /\ sif # Torn
    <3> DEFINE r == [proc[m] EXCEPT !.pc = "open", !.version = sif, !.output = 1]
    <3>1. sif \in Nat /\ sif # 0 /\ sif = newest /\ sif <= newest
      BY <1>0, <2>2 DEF ArtifactInv, Torn
    <3>2. /\ r \in Runs /\ r.pc = "open" /\ r.version = sif /\ r.output = 1
          /\ r.stale = proc[m].stale
      <4>1. r \in Runs
        <5>1. "open" \in States /\ 1 \in 0 .. 3
          BY DEF States
        <5> QED
          BY <1>0, <3>1, <5>1, RunUpdated
      <4>2. r.pc = "open" /\ r.version = sif /\ r.output = 1
        BY <1>0 DEF Runs
      <4>3. r.stale = proc[m].stale
        BY <1>0 DEF Runs
      <4> QED
        BY <4>1, <4>2, <4>3
    <3>3. proc' = [proc EXCEPT ![m] = r] /\ proc[m].pc = "read"
      BY <1>0, <2>2 DEF Read
    <3> HIDE DEF r
    <3>4. RunOK(r)
      BY <1>0, <3>1, <3>2, <3>3 DEF RunOK
    <3> QED
      BY <2>2, <3>1, <3>2, <3>3, <3>4
  <2>3. CASE Refused(m) \/ Kill(m) \/ (Read(m) /\ sif = Torn)
    <3> DEFINE r == [proc[m] EXCEPT !.pc = "failed"]
    <3>1. r \in Runs /\ r.pc = "failed" /\ r.version = proc[m].version
      BY <1>0 DEF Runs, States
    <3>2. proc' = [proc EXCEPT ![m] = r]
      BY <1>0, <2>3 DEF Read, Refused, Kill
    <3> HIDE DEF r
    <3>3. RunOK(r)
      BY <1>0, <3>1 DEF RunOK
    <3> QED
      BY <3>1, <3>2, <3>3
  <2> QED
    BY <2>1, <2>2, <2>3
<1>3. ProcInv' /\ proc'[m] = r /\ \A n \in Modes \ {m} : proc'[n] = proc[n]
  BY <1>0, <1>1, <1>2, RunChanged
<1>4. ArtifactInv' /\ FilesInv'
  BY <1>0, <1>1 DEF ArtifactInv, FilesInv
<1>5. Own(m)'
  <2>1. good[m] # 0 => \A k \in {2, 3} : Held(m, k) = TextOf(m, k, good[m])
    BY <1>0 DEF OwnInv, Own
  <2> QED
    BY <1>1, <1>2, <1>3, <2>1 DEF Own, Held
<1>6. OwnInv'
  <2>1. \A n \in Modes \ {m} : Own(n)'
    BY <1>0, <1>1, <1>3, OthersKept
  <2> QED
    BY <1>5, <2>1 DEF OwnInv
<1>7. SharedInv'
  <2>1. \A v \in 1 .. MaxVersion : ~Writes(m, v)' /\ ~Past(m, v)'
    BY <1>2, <1>3 DEF Writes, Past
  <2> QED
    BY <1>2, <1>3, <2>1, SharedApart
<1>8. OrderInv'
  <2>1. ordered => InOrder(m)'
    BY <1>1, <1>2, <1>3 DEF InOrder, Running
  <2> QED
    BY <1>0, <1>1, <1>3, <2>1, OrderKept
<1> QED
  BY <1>3, <1>4, <1>6, <1>7, <1>8 DEF IInv

(* No pieces are an empty file.                                             *)
LEMMA BeginningNone ==
  ASSUME NEW m, NEW k, NEW v
  PROVE  Beginning(m, k, v, 0) = <<>>
<1> DEFINE b == Beginning(m, k, v, 0)
<1>1. b \in [1 .. 0 -> {}] /\ DOMAIN b = 1 .. 0
  BY DEF Beginning
<1> HIDE DEF b
<1>2. b \in Seq({})
  BY <1>1, SeqDef
<1>3. Len(b) = 0
  BY <1>1, <1>2, LenProperties
<1> QED
  BY <1>2, <1>3, EmptySeq DEF b

(* A step that changes one output of its mode keeps the rest.               *)
LEMMA OneFile ==
  ASSUME FilesInv, NEW m \in Modes, NEW j \in 1 .. 3, NEW text \in Seq(Pieces),
         files' = [files EXCEPT ![Outputs(m)[j]] = text]
  PROVE  /\ FilesInv'
         /\ files'[Outputs(m)[j]] = text
         /\ \A k \in 1 .. 3 : k # j => files'[Outputs(m)[k]] = files[Outputs(m)[k]]
         /\ \A f \in Names : (\A k \in 1 .. 3 : f # Outputs(m)[k]) => files'[f] = files[f]
         /\ j # 1 => files'[TypesName] = files[TypesName]
<1>1. /\ files \in [Names -> Seq(Pieces)]
      /\ \A k \in 1 .. 3 : Outputs(m)[k] \in Names
      /\ Outputs(m)[1] = TypesName
  BY OutputNames DEF FilesInv
<1>2. \A k \in 1 .. 3 : k # j => Outputs(m)[k] # Outputs(m)[j]
  BY OutputsApart
<1> QED
  BY <1>1, <1>2 DEF FilesInv

(* Opening the types header owes all of it; opening another output starts   *)
(* that one.                                                                *)
LEMMA OpenStep ==
  ASSUME IInv, NEW m \in Modes, Open(m)
  PROVE  IInv'
<1> DEFINE p == proc[m]
           r == [p EXCEPT !.pc = "put", !.at = 1]
<1>0. /\ ArtifactInv /\ ProcInv /\ OwnInv /\ SharedInv /\ FilesInv /\ OrderInv
      /\ p \in Runs /\ RunOK(p) /\ good \in [Modes -> 0 .. newest]
  BY DEF IInv, ProcInv
<1>1. /\ p.pc = "open"
      /\ proc' = [proc EXCEPT ![m] = r]
      /\ files' = [files EXCEPT ![Outputs(m)[p.output]] = <<>>]
      /\ good' = [good EXCEPT ![m] = IF p.output = 1 THEN @ ELSE 0]
      /\ UNCHANGED <<ordered, sif, newest, kills, losses>>
  BY DEF Open
<1>2. p.output \in 1 .. 3 /\ p.version \in Nat /\ p.version # 0
  BY <1>0, <1>1 DEF Runs, RunOK
<1>3. /\ r \in Runs
      /\ r.pc = "put" /\ r.at = 1 /\ r.version = p.version /\ r.output = p.output
      /\ r.stale = p.stale /\ r.lost = p.lost
  <2>1. "put" \in States
    BY DEF States
  <2>2. r \in Runs
    BY <1>0, <2>1, RunUpdated
  <2>3. r.pc = "put" /\ r.at = 1 /\ r.version = p.version /\ r.output = p.output
    BY <1>0 DEF Runs
  <2>4. r.stale = p.stale /\ r.lost = p.lost
    BY <1>0 DEF Runs
  <2> QED
    BY <2>2, <2>3, <2>4
<1> HIDE DEF r
<1>4. RunOK(r)
  <2>1. r.version <= newest /\ r.output # 0 /\ r.version # 0
    BY <1>0, <1>2, <1>3 DEF RunOK
  <2>2. r.at \in 1 .. r.version + 2
    BY <1>2, <1>3
  <2>3. ~r.stale
    BY <1>0, <1>1, <1>3 DEF RunOK
  <2> QED
    BY <2>1, <2>2, <2>3 DEF RunOK
<1>5. good' \in [Modes -> 0 .. newest] /\ \A n \in Modes \ {m} : good'[n] = good[n]
  <2>1. 0 \in 0 .. newest
    BY <1>0 DEF ArtifactInv
  <2> QED
    BY <1>0, <1>1, <2>1
<1>6. ProcInv' /\ proc'[m] = r /\ \A n \in Modes \ {m} : proc'[n] = proc[n]
  BY <1>0, <1>1, <1>3, <1>4, <1>5, RunChanged
<1>7. ArtifactInv'
  BY <1>0, <1>1 DEF ArtifactInv
<1>8. /\ FilesInv'
      /\ files'[Outputs(m)[p.output]] = <<>>
      /\ \A k \in 1 .. 3 : k # p.output => files'[Outputs(m)[k]] = files[Outputs(m)[k]]
      /\ \A f \in Names : (\A k \in 1 .. 3 : f # Outputs(m)[k]) => files'[f] = files[f]
      /\ p.output # 1 => files'[TypesName] = files[TypesName]
  <2>1. <<>> \in Seq(Pieces)
    BY EmptySeq
  <2> HIDE DEF p
  <2> QED
    BY <1>0, <1>1, <1>2, <2>1, OneFile
<1>9. Own(m)'
  <2>1. Own(m)
    BY <1>0 DEF OwnInv
  <2>2. CASE p.output = 1
    <3>1. good'[m] = good[m] /\ \A k \in {2, 3} : files'[Outputs(m)[k]] = files[Outputs(m)[k]]
      BY <1>0, <1>1, <1>8, <2>2
    <3>2. good[m] # 0 => \A k \in {2, 3} : Held(m, k) = TextOf(m, k, good[m])
      BY <2>1 DEF Own
    <3> QED
      BY <1>3, <1>6, <2>2, <3>1, <3>2 DEF Own, Held
  <2>3. CASE p.output # 1
    <3>1. good'[m] = 0
      BY <1>0, <1>1, <2>3
    <3>2. files'[Outputs(m)[p.output]] = Beginning(m, p.output, p.version, 0)
      BY <1>8, BeginningNone
    <3>3. p.output = 3 /\ ~p.lost => files'[Outputs(m)[2]] = TextOf(m, 2, p.version)
      BY <1>1, <1>8, <2>1 DEF Own, Held
    <3>4. r.at - 1 = 0
      BY <1>3
    <3> QED
      BY <1>3, <1>6, <3>1, <3>2, <3>3, <3>4 DEF Own, Held
  <2> QED
    BY <2>2, <2>3
<1>10. OwnInv'
  <2>1. \A n \in Modes \ {m} : Own(n)'
    BY <1>0, <1>5, <1>6, <1>8, OthersKept
  <2> QED
    BY <1>9, <2>1 DEF OwnInv
<1>11. SharedInv'
  <2>1. CASE p.output = 1
    <3>1. files'[TypesName] = <<>>
      BY <1>8, <2>1, OutputNames
    <3>2. \A i \in Nat \ {0} : Owes(m, i)'
      BY <1>3, <1>6, <2>1 DEF Owes
    <3>3. \A v \in 1 .. MaxVersion : Len(<<>>) <= v + 1 /\ \A i \in 1 .. v + 1 : i \in Nat \ {0}
      BY EmptySeq, BoundsAssumption
    <3> QED
      BY <3>1, <3>2, <3>3 DEF SharedInv, Shared
  <2>2. CASE p.output # 1
    <3>1. \A v : Writes(m, v)' => Writes(m, v)
      BY <1>1, <1>3, <1>6, <2>2 DEF Writes
    <3>2. \A i : ~Owes(m, i)
      BY <1>1 DEF Owes
    <3>3. proc'[m].pc # "idle" /\ \A v : ~Past(m, v)'
      BY <1>3, <1>6 DEF Past
    <3> QED
      BY <1>0, <1>1, <1>6, <1>8, <2>2, <3>1, <3>2, <3>3, SharedKept
  <2> QED
    BY <2>1, <2>2
<1>12. OrderInv'
  <2>1. ordered => InOrder(m)'
    BY <1>0, <1>1, <1>3, <1>6 DEF OrderInv, InOrder, Running
  <2> QED
    BY <1>0, <1>1, <1>6, <2>1, OrderKept
<1> QED
  BY <1>6, <1>7, <1>8, <1>10, <1>11, <1>12 DEF IInv

(* A piece continues an output of the mode's own; in the types header it    *)
(* lands in its place whatever the other runs have done to the file.        *)
LEMMA PutStep ==
  ASSUME IInv, NEW m \in Modes, PutPiece(m)
  PROVE  IInv'
<1> DEFINE p == proc[m]
           T == TextOf(m, p.output, p.version)
           f == Outputs(m)[p.output]
           r == [p EXCEPT !.at = p.at + 1]
<1>0. /\ ArtifactInv /\ ProcInv /\ OwnInv /\ SharedInv /\ FilesInv /\ OrderInv
      /\ p \in Runs /\ RunOK(p) /\ good \in [Modes -> 0 .. newest]
  BY DEF IInv, ProcInv
<1>1. /\ p.pc = "put" /\ p.at <= Len(T)
      /\ proc' = [proc EXCEPT ![m] = r]
      /\ files' = [files EXCEPT ![f] = Put(files[f], p.at, T[p.at])]
      /\ UNCHANGED <<ordered, sif, newest, good, kills, losses>>
  BY <1>0 DEF PutPiece, FilesInv
<1>2. /\ p.output \in 1 .. 3 /\ p.version \in Nat /\ p.version # 0 /\ p.at \in Nat
      /\ p.at \in 1 .. p.version + 2
  BY <1>0, <1>1 DEF Runs, RunOK
<1>3. p.at \in 1 .. p.version + 1 /\ p.at # 0 /\ p.at + 1 \in Nat
  BY SMTT(30), <1>1, <1>2, TextFacts
<1>4. /\ r \in Runs
      /\ r.pc = "put" /\ r.at = p.at + 1 /\ r.version = p.version /\ r.output = p.output
      /\ r.stale = p.stale /\ r.lost = p.lost
  <2>1. r \in Runs
    <3>1. p.pc \in States
      BY <1>0 DEF Runs
    <3> QED
      BY <1>0, <1>3, <3>1, RunUpdated
  <2>2. r.pc = "put" /\ r.at = p.at + 1 /\ r.version = p.version /\ r.output = p.output
    BY <1>0, <1>1 DEF Runs
  <2>3. r.stale = p.stale /\ r.lost = p.lost
    BY <1>0 DEF Runs
  <2> QED
    BY <2>1, <2>2, <2>3
<1> HIDE DEF r
<1>5. RunOK(r)
  <2>1. r.at \in 1 .. r.version + 2
    BY <1>2, <1>3, <1>4
  <2> QED
    BY <1>0, <1>1, <1>4, <2>1 DEF RunOK
<1>6. ProcInv' /\ proc'[m] = r /\ \A n \in Modes \ {m} : proc'[n] = proc[n] /\ good'[n] = good[n]
  BY <1>0, <1>1, <1>4, <1>5, RunChanged
<1>7. ArtifactInv'
  BY <1>0, <1>1 DEF ArtifactInv
<1>8. T \in Seq(Pieces) /\ T[p.at] \in Pieces /\ files[f] \in Seq(Pieces)
  BY <1>0, <1>2, <1>3, TextFacts, OutputNames DEF FilesInv
<1> DEFINE text == Put(files[f], p.at, T[p.at])
<1>9. /\ text \in Seq(Pieces)
      /\ Len(text) = IF p.at > Len(files[f]) THEN p.at ELSE Len(files[f])
      /\ text[p.at] = T[p.at]
      /\ \A i \in 1 .. Len(files[f]) : i # p.at => text[i] = files[f][i]
  BY <1>2, <1>3, <1>8, PutFacts
<1> HIDE DEF text
<1>10. /\ FilesInv'
       /\ files'[f] = text
       /\ \A k \in 1 .. 3 : k # p.output => files'[Outputs(m)[k]] = files[Outputs(m)[k]]
       /\ \A g \in Names : (\A k \in 1 .. 3 : g # Outputs(m)[k]) => files'[g] = files[g]
       /\ p.output # 1 => files'[TypesName] = files[TypesName]
  <2>1. files' = [files EXCEPT ![Outputs(m)[p.output]] = text]
    BY <1>1 DEF text
  <2> HIDE DEF p
  <2> QED
    BY <1>0, <1>2, <1>9, <2>1, OneFile
<1>11. Own(m)'
  <2>1. Own(m)
    BY <1>0 DEF OwnInv
  <2>2. CASE p.output = 1
    <3>1. \A k \in {2, 3} : files'[Outputs(m)[k]] = files[Outputs(m)[k]]
      BY <1>10, <2>2
    <3>2. good[m] # 0 => \A k \in {2, 3} : Held(m, k) = TextOf(m, k, good[m])
      BY <2>1 DEF Own
    <3> QED
      BY <1>1, <1>4, <1>6, <2>2, <3>1, <3>2 DEF Own, Held
  <2>3. CASE p.output # 1
    <3>1. good'[m] = 0
      BY <1>1, <2>1, <2>3 DEF Own
    <3>2. files[f] = Beginning(m, p.output, p.version, p.at - 1)
      BY <1>1, <2>1, <2>3 DEF Own, Held
    <3>3. files'[f] = Beginning(m, p.output, p.version, p.at)
      BY <1>2, <1>3, <1>10, <3>2, PutContinues DEF text
    <3>4. p.output = 3 /\ ~p.lost => files'[Outputs(m)[2]] = TextOf(m, 2, p.version)
      BY <1>1, <1>10, <2>1 DEF Own, Held
    <3>5. r.at - 1 = p.at
      BY <1>2, <1>4
    <3> QED
      BY <1>4, <1>6, <3>1, <3>3, <3>4, <3>5 DEF Own, Held
  <2> QED
    BY <2>2, <2>3
<1>12. OwnInv'
  <2>1. \A n \in Modes \ {m} : Own(n)'
    BY <1>0, <1>6, <1>10, OthersKept
  <2> QED
    BY <1>11, <2>1 DEF OwnInv
<1>13. proc'[m].pc # "idle" /\ \A v : (Writes(m, v)' <=> Writes(m, v)) /\ ~Past(m, v)'
  BY <1>1, <1>4, <1>6 DEF Writes, Past
<1>14. SharedInv'
  <2>1. CASE p.output # 1
    <3>1. \A i : ~Owes(m, i)
      BY <2>1 DEF Owes
    <3> QED
      BY <1>0, <1>1, <1>6, <1>10, <1>13, <2>1, <3>1, SharedKept
  <2>2. CASE p.output = 1
    <3> SUFFICES ASSUME NEW v \in 1 .. MaxVersion, Agree(v)'
                 PROVE  /\ Len(files'[TypesName]) <= v + 1
                        /\ \A i \in 1 .. v + 1 :
                             \/ i <= Len(files'[TypesName])
                                /\ files'[TypesName][i] = <<"types", v, i>>
                             \/ \E n \in Modes : Owes(n, i)'
      BY DEF SharedInv, Shared
    <3> DEFINE old == files[TypesName]
    <3>1. Writes(m, v) /\ p.version = v
      BY <1>13 DEF Agree, Writes
    <3>2. Agree(v)
      <4>1. \A n \in Modes \ {m} : proc[n].pc = "idle" \/ Writes(n, v) \/ Past(n, v)
        BY <1>1, <1>6 DEF Agree, Writes, Past
      <4> QED
        BY <3>1, <4>1 DEF Agree
    <3>3. /\ Len(old) <= v + 1
          /\ \A i \in 1 .. v + 1 :
               \/ i <= Len(old) /\ old[i] = <<"types", v, i>>
               \/ \E n \in Modes : Owes(n, i)
      BY <1>0, <3>2 DEF SharedInv, Shared
    <3>4. f = TypesName /\ files[f] = old /\ files'[TypesName] = text
      BY <1>10, <2>2, OutputNames
    <3>5. Len(old) \in Nat /\ old \in Seq(Pieces)
      BY <1>8, <3>4, LenProperties
    <3>6. Len(text) <= v + 1 /\ p.at <= Len(text) /\ Len(old) <= Len(text)
      BY <1>3, <1>9, <3>1, <3>3, <3>4, <3>5
    <3>7. text[p.at] = <<"types", v, p.at>>
      BY <1>3, <1>9, <2>2, <3>1 DEF TextOf
    <3>8. ASSUME NEW i \in 1 .. v + 1
          PROVE  \/ i <= Len(text) /\ text[i] = <<"types", v, i>>
                 \/ \E n \in Modes : Owes(n, i)'
      <4>1. CASE i = p.at
        BY <4>1, <3>6, <3>7
      <4>2. CASE i # p.at /\ i <= Len(old) /\ old[i] = <<"types", v, i>>
        <5>1. i \in 1 .. Len(old)
          BY <4>2, <3>5
        <5>2. i <= Len(text)
          BY <4>2, <3>5, <3>6
        <5> QED
          BY <1>9, <3>4, <4>2, <5>1, <5>2
      <4>3. CASE i # p.at /\ \E n \in Modes : Owes(n, i)
        <5>1. PICK n \in Modes : Owes(n, i)
          BY <4>3
        <5>2. CASE n # m
          BY <5>1, <5>2, <1>6 DEF Owes
        <5>3. CASE n = m
          <6>1. p.at <= i
            BY <5>1, <5>3 DEF Owes
          <6>2. r.at <= i
            BY <6>1, <4>3, <1>2, <1>4
          <6> QED
            BY <6>2, <1>4, <1>6, <2>2 DEF Owes
        <5> QED
          BY <5>2, <5>3
      <4> QED
        BY <3>3, <4>1, <4>2, <4>3
    <3> QED
      BY <3>4, <3>6, <3>8
  <2> QED
    BY <2>1, <2>2
<1>15. OrderInv'
  <2>1. ordered => InOrder(m)'
    BY <1>0, <1>1, <1>4, <1>6 DEF OrderInv, InOrder, Running
  <2> QED
    BY <1>0, <1>1, <1>6, <2>1, OrderKept
<1> QED
  BY <1>6, <1>7, <1>10, <1>12, <1>14, <1>15 DEF IInv

(* A run leaves an output whole, or cut short and knows nothing of it.      *)
LEMMA EndStep ==
  ASSUME IInv, NEW m \in Modes, NEW cut \in BOOLEAN, EndOutput(m, cut),
         proc[m].pc = "put", cut \/ proc[m].at > proc[m].version + 1,
         kills' = kills, losses' \in Nat
  PROVE  IInv'
<1> DEFINE p == proc[m]
<1>0. /\ ArtifactInv /\ ProcInv /\ OwnInv /\ SharedInv /\ FilesInv /\ OrderInv /\ Own(m)
      /\ p \in Runs /\ RunOK(p)
      /\ proc \in [Modes -> Runs] /\ good \in [Modes -> 0 .. newest]
  BY DEF IInv, ProcInv, OwnInv
<1>1. /\ UNCHANGED <<ordered, sif, newest, files>>
      /\ good' = IF p.output = 3 /\ ~proc'[m].lost THEN [good EXCEPT ![m] = p.version] ELSE good
  BY DEF EndOutput
<1>2. /\ p.output \in 1 .. 3 /\ p.version \in Nat /\ p.version # 0 /\ p.version <= newest
      /\ p.at \in 1 .. p.version + 2
  BY <1>0 DEF Runs, RunOK
<1>3. PICK r \in Runs :
        /\ proc' = [proc EXCEPT ![m] = r]
        /\ r.version = p.version /\ r.stale = p.stale
        /\ ~r.lost => ~p.lost /\ ~cut
        /\ \/ p.output # 3 /\ r.pc = "open" /\ r.output = p.output + 1
           \/ p.output = 3 /\ r.pc = "done" /\ r.output = 3
  <2>1. (p.lost \/ cut) \in BOOLEAN
    BY <1>0 DEF Runs
  <2>2. CASE p.output = 3
    <3> DEFINE r == [p EXCEPT !.pc = "done", !.lost = p.lost \/ cut]
    <3>1. "done" \in States
      BY DEF States
    <3>2. r \in Runs
      BY <1>0, <2>1, <3>1, RunUpdated
    <3>3. r.pc = "done" /\ r.version = p.version /\ r.output = 3
      BY <1>0, <2>2 DEF Runs
    <3>4. r.stale = p.stale /\ r.lost = (p.lost \/ cut)
      BY <1>0 DEF Runs
    <3>5. proc' = [proc EXCEPT ![m] = r]
      BY <1>0, <2>2 DEF EndOutput
    <3> HIDE DEF r
    <3>6. ~r.lost => ~p.lost /\ ~cut
      BY <3>4
    <3> QED
      BY <2>2, <3>2, <3>3, <3>4, <3>5, <3>6
  <2>3. CASE p.output # 3
    <3> DEFINE r == [p EXCEPT !.pc = "open", !.output = p.output + 1, !.lost = p.lost \/ cut]
    <3>1. "open" \in States /\ p.output + 1 \in 0 .. 3 /\ p.output < 3
      BY <1>2, <2>3 DEF States
    <3>2. r \in Runs
      BY <1>0, <2>1, <3>1, RunUpdated
    <3>3. r.pc = "open" /\ r.version = p.version /\ r.output = p.output + 1
      BY <1>0 DEF Runs
    <3>4. r.stale = p.stale /\ r.lost = (p.lost \/ cut)
      BY <1>0 DEF Runs
    <3>5. proc' = [proc EXCEPT ![m] = r]
      BY <1>0, <3>1 DEF EndOutput
    <3> HIDE DEF r
    <3>6. ~r.lost => ~p.lost /\ ~cut
      BY <3>4
    <3> QED
      BY <2>3, <3>2, <3>3, <3>4, <3>5, <3>6
  <2> QED
    BY <2>2, <2>3
<1>4. RunOK(r)
  <2>1. p.output + 1 # 0
    BY <1>2
  <2>2. r.output # 0
    BY <1>3, <2>1
  <2>3. ~p.stale
    BY <1>0 DEF RunOK
  <2> QED
    BY <1>2, <1>3, <2>2, <2>3 DEF RunOK
<1>5. good' \in [Modes -> 0 .. newest] /\ \A n \in Modes \ {m} : good'[n] = good[n]
  <2>1. p.version \in 0 .. newest
    BY <1>0, <1>2 DEF ArtifactInv
  <2> QED
    BY <1>0, <1>1, <2>1
<1>6. ProcInv' /\ proc'[m] = r /\ \A n \in Modes \ {m} : proc'[n] = proc[n]
  BY <1>0, <1>1, <1>3, <1>4, <1>5, RunChanged
<1>7. ArtifactInv' /\ FilesInv'
  BY <1>0, <1>1 DEF ArtifactInv, FilesInv
<1>8. ~cut /\ p.output # 1 => Held(m, p.output) = TextOf(m, p.output, p.version)
  <2> SUFFICES ASSUME ~cut, p.output # 1
               PROVE  Held(m, p.output) = TextOf(m, p.output, p.version)
    OBVIOUS
  <2>1. p.at - 1 = p.version + 1
    BY <1>2
  <2>2. Held(m, p.output) = Beginning(m, p.output, p.version, p.version + 1)
    BY <1>0, <2>1 DEF Own
  <2> QED
    BY <1>2, <2>2, BeginningWhole
<1>9. Own(m)'
  <2>1. CASE p.output = 1
    <3>1. good'[m] = good[m] /\ r.pc = "open" /\ r.output = 2
      BY <1>1, <1>3, <2>1
    <3>2. good[m] # 0 => \A k \in {2, 3} : Held(m, k) = TextOf(m, k, good[m])
      BY <1>0 DEF Own
    <3> QED
      BY <1>1, <1>6, <3>1, <3>2 DEF Own, Held
  <2>2. CASE p.output = 2
    <3>1. good'[m] = 0 /\ r.pc = "open" /\ r.output = 3
      BY <1>0, <1>1, <1>3, <2>2 DEF Own
    <3>2. ~r.lost => files'[Outputs(m)[2]] = TextOf(m, 2, r.version)
      BY <1>1, <1>3, <1>8, <2>2 DEF Held
    <3> QED
      BY <1>6, <3>1, <3>2 DEF Own, Held
  <2>3. CASE p.output = 3
    <3>1. r.pc = "done" /\ good'[m] \in {0, p.version}
          /\ (good'[m] # 0 => ~r.lost) /\ (~r.lost => good'[m] = p.version)
      <4>1. good[m] = 0
        BY <1>0, <2>3 DEF Own
      <4>2. CASE ~r.lost
        BY <1>0, <1>1, <1>3, <1>6, <2>3, <4>2
      <4>3. CASE r.lost
        BY <1>1, <1>3, <1>6, <2>3, <4>1, <4>3
      <4> QED
        BY <4>2, <4>3
    <3>2. ~r.lost => files'[Outputs(m)[3]] = TextOf(m, 3, p.version)
      BY <1>1, <1>3, <1>8, <2>3 DEF Held
    <3>3. ~r.lost => files'[Outputs(m)[2]] = TextOf(m, 2, p.version)
      BY <1>0, <1>1, <1>3, <2>3 DEF Own, Held
    <3>4. good'[m] # 0 => \A k \in {2, 3} : files'[Outputs(m)[k]] = TextOf(m, k, good'[m])
      BY <3>1, <3>2, <3>3
    <3> QED
      BY <1>3, <1>6, <3>1, <3>4 DEF Own, Held
  <2> QED
    BY <1>2, <2>1, <2>2, <2>3
<1>10. OwnInv'
  <2>1. \A n \in Modes \ {m} : Own(n)'
    BY <1>0, <1>1, <1>5, <1>6, OthersKept
  <2> QED
    BY <1>9, <2>1 DEF OwnInv
<1>11. SharedInv'
  <2>1. proc'[m].pc # "idle" /\ \A v : ~Past(m, v)'
    <3>1. ordered => p.version = newest
      BY <1>0 DEF OrderInv, InOrder
    <3> QED
      BY <1>1, <1>3, <1>6, <3>1 DEF Past
  <2>2. CASE cut
    <3>1. \A v \in 1 .. MaxVersion : ~Writes(m, v)' /\ ~Past(m, v)'
      BY <1>3, <1>6, <2>1, <2>2 DEF Writes
    <3> QED
      BY <2>1, <3>1, SharedApart
  <2>3. CASE ~cut
    <3>1. \A v \in 1 .. MaxVersion : Writes(m, v)' => Writes(m, v)
      BY <1>3, <1>6 DEF Writes
    <3>2. ASSUME NEW v \in 1 .. MaxVersion, NEW i \in 1 .. v + 1, Writes(m, v)
          PROVE  ~Owes(m, i)
      <4>1. p.version = v /\ p.at > v + 1
        BY <2>3, <3>2 DEF Writes
      <4>2. ~(p.at <= i)
        BY <1>2, <4>1
      <4> QED
        BY <4>2 DEF Owes
    <3> QED
      BY <1>0, <1>1, <1>6, <2>1, <3>1, <3>2, SharedKept
  <2> QED
    BY <2>2, <2>3
<1>12. OrderInv'
  <2>1. ordered => sif # Torn /\ p.version = newest
    BY <1>0 DEF OrderInv, InOrder, Running
  <2>2. ordered => InOrder(m)'
    BY <1>1, <1>3, <1>6, <2>1 DEF InOrder, Running
  <2> QED
    BY <1>0, <1>1, <1>6, <2>2, OrderKept
<1> QED
  BY <1>6, <1>7, <1>10, <1>11, <1>12 DEF IInv

(* Compiling anew touches no generated file; what ended becomes stale.      *)
LEMMA CompileStep ==
  ASSUME IInv, CompileBegins \/ CompileEnds
  PROVE  IInv'
<1>0. /\ ArtifactInv /\ ProcInv /\ OwnInv /\ SharedInv /\ FilesInv /\ OrderInv
      /\ proc \in [Modes -> Runs] /\ good \in [Modes -> 0 .. newest]
      /\ \A m \in Modes : proc[m] \in Runs /\ RunOK(proc[m])
  BY DEF IInv, ProcInv
<1>1. UNCHANGED <<ordered, files, good, kills, losses>>
  BY DEF CompileBegins, CompileEnds
<1>2. newest \in Nat /\ newest' \in Nat /\ newest <= newest' /\ ArtifactInv'
  BY <1>0, <1>1, BoundsAssumption DEF ArtifactInv, CompileBegins, CompileEnds, Torn
<1>3. /\ proc' \in [Modes -> Runs]
      /\ \A m \in Modes :
           /\ proc'[m].pc = proc[m].pc /\ proc'[m].version = proc[m].version
           /\ proc'[m].output = proc[m].output /\ proc'[m].at = proc[m].at
           /\ proc'[m].lost = proc[m].lost
           /\ Running(m) => proc'[m] = proc[m]
  <2>1. CASE CompileBegins
    BY <1>0, <2>1 DEF CompileBegins
  <2>2. CASE CompileEnds
    <3>1. \A m \in Modes :
            proc'[m] = IF Running(m) THEN proc[m] ELSE [proc[m] EXCEPT !.stale = TRUE]
      BY <2>2 DEF CompileEnds
    <3>2. DOMAIN proc' = Modes /\ proc' = [m \in Modes |-> proc'[m]]
      BY <2>2 DEF CompileEnds
    <3>3. ASSUME NEW m \in Modes
          PROVE  /\ proc'[m] \in Runs
                 /\ proc'[m].pc = proc[m].pc /\ proc'[m].version = proc[m].version
                 /\ proc'[m].output = proc[m].output /\ proc'[m].at = proc[m].at
                 /\ proc'[m].lost = proc[m].lost
                 /\ Running(m) => proc'[m] = proc[m]
      <4>1. CASE Running(m)
        BY <1>0, <3>1, <4>1
      <4>2. CASE ~Running(m)
        <5> DEFINE p == proc[m]
                   r == [p EXCEPT !.stale = TRUE]
        <5>1. proc'[m] = r
          BY <3>1, <4>2
        <5>2. r \in Runs
          <6>1. p \in Runs /\ p.pc \in States
            BY <1>0 DEF Runs
          <6> QED
            BY <6>1, RunUpdated
        <5>3. r.pc = p.pc /\ r.version = p.version /\ r.output = p.output /\ r.at = p.at
          BY <1>0 DEF Runs
        <5>4. r.lost = p.lost
          BY <1>0 DEF Runs
        <5> HIDE DEF r
        <5> QED
          BY <4>2, <5>1, <5>2, <5>3, <5>4
      <4> QED
        BY <4>1, <4>2
    <3>4. proc' \in [Modes -> Runs]
      BY <3>2, <3>3
    <3> QED
      BY <3>3, <3>4
  <2> QED
    BY <2>1, <2>2
<1>4. ProcInv'
  <2>1. good' \in [Modes -> 0 .. newest']
    BY <1>0, <1>1, <1>2
  <2>2. ASSUME NEW m \in Modes
        PROVE  RunOK(proc[m])'
    <3>1. proc[m].version \in Nat /\ RunOK(proc[m])
      BY <1>0 DEF Runs
    <3>2. proc'[m].version <= newest'
      BY <1>2, <1>3, <3>1 DEF RunOK
    <3>3. proc'[m].pc \in {"read", "open", "put"} => ~proc'[m].stale
      BY <1>3, <3>1 DEF RunOK, Running
    <3> QED
      BY <1>3, <3>1, <3>2, <3>3 DEF RunOK
  <2> QED
    BY <1>3, <2>1, <2>2 DEF ProcInv
<1>5. OwnInv'
  BY <1>0, <1>1, <1>3, OwnKept DEF OwnInv
<1>6. SharedInv'
  <2>1. ASSUME NEW v \in 1 .. MaxVersion, Agree(v)'
        PROVE  Agree(v)
    <3>1. \A m \in Modes : Writes(m, v)' => Writes(m, v)
      BY <1>3 DEF Writes
    <3>2. PICK n \in Modes : Writes(n, v)
      BY <2>1, <3>1 DEF Agree
    <3>3. v <= newest
      BY <1>0, <3>2 DEF Writes, RunOK
    <3>4. newest' = newest \/ newest' > newest
      BY <1>2 DEF CompileBegins, CompileEnds
    <3>5. \A m \in Modes : Past(m, v)' => Past(m, v)
      BY <1>1, <1>2, <1>3, <3>3, <3>4 DEF Past
    <3> QED
      BY <1>3, <2>1, <3>1, <3>2, <3>5 DEF Agree
  <2>2. \A m \in Modes : \A i : Owes(m, i)' <=> Owes(m, i)
    BY <1>3 DEF Owes
  <2> QED
    BY <1>0, <1>1, <2>1, <2>2 DEF SharedInv, Shared
<1>7. FilesInv'
  BY <1>0, <1>1 DEF FilesInv
<1>8. OrderInv'
  <2> SUFFICES ASSUME ordered, NEW m \in Modes PROVE InOrder(m)'
    BY <1>1 DEF OrderInv
  <2>1. ~Running(m)
    BY <1>0 DEF CompileBegins, CompileEnds, OrderInv, InOrder
  <2>2. proc'[m].pc = proc[m].pc /\ proc[m].pc \notin {"read", "open", "put"}
    BY <1>3, <2>1 DEF Running
  <2>3. CASE CompileBegins
    BY <2>2, <2>3 DEF CompileBegins, InOrder, Running
  <2>4. CASE CompileEnds
    <3>1. proc'[m] = [proc[m] EXCEPT !.stale = TRUE]
      BY <2>1, <2>4 DEF CompileEnds
    <3>2. proc'[m].stale
      BY <1>0, <3>1 DEF Runs
    <3> QED
      BY <2>2, <3>2 DEF InOrder, Running
  <2> QED
    BY <2>3, <2>4
<1> QED
  BY <1>2, <1>4, <1>5, <1>6, <1>7, <1>8 DEF IInv

(* No step keeps all there is.                                              *)
LEMMA StutterStep ==
  ASSUME IInv, UNCHANGED vars
  PROVE  IInv'
  BY SMTT(30) DEF vars, IInv, ArtifactInv, FilesInv, ProcInv, RunOK, OwnInv, Own, Held, Beginning,
         SharedInv, Shared, Agree, Writes, Past, Owes, OrderInv, InOrder, Running

(***************************************************************************)
(* The theorems.                                                            *)
(***************************************************************************)

(* The files and the runs that write them agree in every reachable state.   *)
THEOREM Inductive == Spec => []IInv
<1>1. Init => IInv
  BY InitInv
<1>2. IInv /\ [Next]_vars => IInv'
  <2> SUFFICES ASSUME IInv, [Next]_vars PROVE IInv'
    OBVIOUS
  <2>1. CASE \E m \in Modes : Start(m) \/ Read(m) \/ Refused(m) \/ Kill(m)
    BY <2>1, OutsideStep
  <2>2. CASE \E m \in Modes : Open(m)
    BY <2>2, OpenStep
  <2>3. CASE \E m \in Modes : PutPiece(m)
    BY <2>3, PutStep
  <2>4. ASSUME NEW m \in Modes, Close(m) \/ Lose(m)
        PROVE  IInv'
    <3>1. proc[m] \in Runs /\ RunOK(proc[m]) /\ kills \in Nat /\ losses \in Nat
      BY DEF IInv, ProcInv, ArtifactInv
    <3>2. proc[m].pc = "put"
      BY <2>4 DEF Close, Lose
    <3>3. proc[m].output \in 1 .. 3 /\ proc[m].version \in Nat
      BY <3>1, <3>2 DEF Runs, RunOK
    <3>4. CASE Close(m)
      <4>1. proc[m].at > proc[m].version + 1
        BY <3>3, <3>4, TextFacts DEF Close
      <4> QED
        BY <3>1, <3>2, <3>4, <4>1, EndStep DEF Close
    <3>5. CASE Lose(m)
      <4>1. EndOutput(m, TRUE) /\ kills' = kills /\ losses' \in Nat
        <5>1. EndOutput(m, TRUE)
          BY <3>5, Zenon DEF Lose
        <5>2. kills' = kills /\ losses' = losses + 1
          BY <3>5, Zenon DEF Lose
        <5>3. losses' \in Nat
          BY <3>1, <5>2
        <5> QED
          BY <5>1, <5>2, <5>3
      <4>2. \E cut \in BOOLEAN : cut = TRUE /\ EndOutput(m, cut)
        BY <4>1
      <4>3. PICK cut \in BOOLEAN : cut /\ EndOutput(m, cut)
        BY <4>2
      <4> QED
        BY <3>2, <4>1, <4>3, EndStep
    <3> QED
      BY <2>4, <3>4, <3>5
  <2>5. CASE CompileBegins \/ CompileEnds
    BY <2>5, CompileStep
  <2>6. CASE Rest \/ UNCHANGED vars
    BY <2>6, StutterStep DEF Rest
  <2> QED
    BY <2>1, <2>2, <2>3, <2>4, <2>5, <2>6 DEF Next, Step
<1> QED
  BY <1>1, <1>2, PTL DEF Spec

(* Type correctness; a stream is never further in a file of its mode's own  *)
(* than the file is long.                                                   *)
THEOREM TypeCorrect == Spec => []TypeOK
<1>1. IInv => TypeOK
  <2> SUFFICES ASSUME IInv PROVE TypeOK
    OBVIOUS
  <2>1. ordered \in BOOLEAN /\ newest \in 1 .. MaxVersion /\ sif \in Torn .. newest
    BY BoundsAssumption DEF IInv, ArtifactInv, Torn
  <2>2. DOMAIN files = Names
    BY DEF IInv, FilesInv
  <2>3. ASSUME NEW m \in Modes
        PROVE  /\ proc[m].pc \in States
               /\ proc[m].version \in 0 .. newest /\ good[m] \in 0 .. newest
               /\ Running(m) => ~proc[m].stale
               /\ proc[m].pc = "put" => proc[m].at <= Len(Held(m, proc[m].output)) + 1
                                        \/ proc[m].output = 1
    <3> DEFINE p == proc[m]
    <3>1. p \in Runs /\ RunOK(p) /\ Own(m) /\ good[m] \in 0 .. newest
      BY DEF IInv, ProcInv, OwnInv
    <3>2. p.pc \in States /\ p.version \in 0 .. newest
      BY <2>1, <3>1 DEF Runs, RunOK
    <3>3. Running(m) => ~p.stale
      BY <3>1 DEF RunOK, Running
    <3>4. ASSUME p.pc = "put", p.output # 1
          PROVE  p.at <= Len(Held(m, p.output)) + 1
      <4>1. p.version \in Nat /\ p.output \in 1 .. 3 /\ p.at \in 1 .. p.version + 2
        BY <3>1, <3>4 DEF Runs, RunOK
      <4>2. Held(m, p.output) = Beginning(m, p.output, p.version, p.at - 1)
        BY <3>1, <3>4 DEF Own
      <4>3. Len(Beginning(m, p.output, p.version, p.at - 1)) = p.at - 1
        <5>1. Held(m, p.output) \in Seq(Pieces)
          BY <4>1, OutputNames DEF IInv, FilesInv, Held
        <5>2. DOMAIN Beginning(m, p.output, p.version, p.at - 1) = 1 .. p.at - 1 /\ p.at - 1 \in Nat
          BY <4>1 DEF Beginning
        <5> QED
          BY <4>2, <5>1, <5>2, LenProperties
      <4> QED
        BY <4>1, <4>2, <4>3
    <3> QED
      BY <3>1, <3>2, <3>3, <3>4
  <2> QED
    BY <2>1, <2>2, <2>3 DEF TypeOK, States, Held
<1> QED
  BY <1>1, Inductive, PTL

(* An artifact whose name has one dot: the build then expects the files the *)
(* tool writes (UseSIDLC.cmake's NAME_WE, c_handler.cc's stem).             *)
LEMMA PlainNames ==
  ASSUME Len(Artifact) = 2, NEW m \in Modes
  PROVE  Declared(m) = Outputs(m)
<1>1. Front(Artifact) = SubSeq(Artifact, 1, 1)
  BY DEF Front
<1>2. Artifact \in Seq(STRING) /\ Artifact[1] \in STRING
  <2>1. Artifact \in Seq(STRING) /\ 1 \in 1 .. Len(Artifact)
    BY ArtifactAssumption
  <2> QED
    BY <2>1, ElementOfSeq
<1>3. /\ SubSeq(Artifact, 1, 1) \in Seq(STRING) /\ Len(SubSeq(Artifact, 1, 1)) = 1
      /\ SubSeq(Artifact, 1, 1)[1] = Artifact[1]
  BY <1>2, SubSeqProperties
<1>4. <<Artifact[1]>> \in Seq(STRING) /\ Len(<<Artifact[1]>>) = 1
      /\ <<Artifact[1]>>[1] = Artifact[1]
  BY <1>2
<1>5. SubSeq(Artifact, 1, 1) = <<Artifact[1]>>
  <2>1. \A i \in 1 .. 1 : SubSeq(Artifact, 1, 1)[i] = <<Artifact[1]>>[i]
    BY <1>3, <1>4
  <2> QED
    BY <1>3, <1>4, <2>1, SeqEqual
<1>6. Stem(Artifact) = NameWE(Artifact)
  BY <1>1, <1>5 DEF Stem, NameWE
<1> QED
  BY <1>6 DEF Declared, Outputs

(* Bindings that were generated stay whole until the mode is generated      *)
(* again and has come to its header, whatever the other runs do, for any    *)
(* set of modes (the order of the outputs in c_generate).                   *)
THEOREM Bindings ==
  ASSUME Len(Artifact) = 2
  PROVE  Spec => []DeclaredWhole
<1>1. IInv => DeclaredWhole
  BY PlainNames DEF IInv, OwnInv, Own, Held, DeclaredWhole
<1> QED
  BY <1>1, Inductive, PTL

(* A types header that nobody has yet to write a piece of.                  *)
LEMMA TypesThere ==
  ASSUME IInv, NEW v \in 1 .. newest, Agree(v), \A n \in Modes : \A i : ~Owes(n, i),
         NEW m \in Modes
  PROVE  files[Outputs(m)[1]] = TextOf(m, 1, v)
<1> DEFINE f == files[TypesName]
<1>1. v \in 1 .. MaxVersion /\ v \in Nat
  BY BoundsAssumption DEF IInv, ArtifactInv
<1>2. /\ Len(f) <= v + 1
      /\ \A i \in 1 .. v + 1 : i <= Len(f) /\ f[i] = <<"types", v, i>>
  BY <1>1 DEF IInv, SharedInv, Shared
<1>3. f \in Seq(Pieces) /\ Outputs(m)[1] = TypesName
  BY OutputNames DEF IInv, FilesInv
<1>4. Len(f) = v + 1
  <2>1. v + 1 <= Len(f) /\ Len(f) \in Nat
    BY <1>1, <1>2, <1>3, LenProperties
  <2> QED
    BY <1>1, <1>2, <2>1
<1>5. TextOf(m, 1, v) \in Seq(Pieces) /\ Len(TextOf(m, 1, v)) = v + 1
  <2>1. 1 \in 1 .. 3
    OBVIOUS
  <2> QED
    BY <1>1, <2>1, TextFacts
<1>6. \A i \in 1 .. v + 1 : TextOf(m, 1, v)[i] = <<"types", v, i>>
  BY DEF TextOf
<1>7. f = TextOf(m, 1, v)
  <2>1. \A i \in 1 .. Len(f) : f[i] = TextOf(m, 1, v)[i]
    BY <1>2, <1>4, <1>6
  <2> HIDE DEF f
  <2> QED
    BY <1>3, <1>4, <1>5, <2>1, SeqEqual
<1> QED
  BY <1>3, <1>7

(* The types header that concurrent runs truncate and fill at once is whole *)
(* when all have succeeded from one version, for any number of runs and any *)
(* interleaving (c_handler.cc:22-34).                                       *)
THEOREM TypesHeader ==
  ASSUME Len(Artifact) = 2
  PROVE  Spec => []TypesWhole
<1>1. IInv => TypesWhole
  <2> SUFFICES ASSUME IInv, NEW v \in 1 .. newest, Settled(v),
                      NEW m \in Modes, proc[m].pc = "done"
               PROVE  files[Declared(m)[1]] = TextOf(m, 1, v)
    BY DEF TypesWhole
  <2>1. Agree(v) /\ \A n \in Modes : \A i : ~Owes(n, i)
    BY DEF Settled, Agree, Writes, Owes
  <2> QED
    BY <2>1, TypesThere, PlainNames
<1> QED
  BY <1>1, Inductive, PTL

(* What a build that compiles before it generates takes for done is of the  *)
(* newest version, header, source and, where no mode has failed, the types  *)
(* header: a run that ends early is never taken for one that succeeded, and *)
(* none outlives the version it read (main.cc:551, c_handler.cc:108-149).   *)
THEOREM Current ==
  ASSUME Len(Artifact) = 2
  PROVE  Spec => []NothingOutOfDate
<1>1. IInv => NothingOutOfDate
  <2> SUFFICES ASSUME IInv, ordered, sif # Torn, NEW m \in Modes, TakenForDone(m)
               PROVE  /\ \A k \in {2, 3} : files[Declared(m)[k]] = TextOf(m, k, newest)
                      /\ (\A n \in Modes : proc[n].pc \in {"idle", "done"} /\ ~proc[n].lost)
                           => files[Declared(m)[1]] = TextOf(m, 1, newest)
    BY DEF NothingOutOfDate
  <2>1. proc[m].pc = "done" /\ proc[m].version = newest /\ ~proc[m].lost
    BY DEF IInv, OrderInv, InOrder, TakenForDone
  <2>2. newest \in Nat /\ newest # 0 /\ newest \in 1 .. newest
    BY BoundsAssumption DEF IInv, ArtifactInv
  <2>3. \A k \in {2, 3} : files[Declared(m)[k]] = TextOf(m, k, newest)
    <3>1. good[m] = newest /\ good[m] # 0
      BY <2>1, <2>2 DEF IInv, OwnInv, Own
    <3> QED
      BY <3>1, PlainNames DEF IInv, OwnInv, Own, Held
  <2>4. ASSUME \A n \in Modes : proc[n].pc \in {"idle", "done"} /\ ~proc[n].lost
        PROVE  files[Declared(m)[1]] = TextOf(m, 1, newest)
    <3>1. Agree(newest)
      BY <2>1, <2>4 DEF Agree, Writes, Past
    <3>2. \A n \in Modes : \A i : ~Owes(n, i)
      BY <2>4 DEF Owes
    <3> QED
      BY <2>2, <3>1, <3>2, TypesThere, PlainNames
  <2> QED
    BY <2>3, <2>4
<1> QED
  BY <1>1, Inductive, PTL
=============================================================================
