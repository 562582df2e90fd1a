# TLA+ models of sidlc

`sidlc` compiles Strata interface definitions (`.sidl`) into artifacts (`.sif`)
that carry the whole ABI history of an interface, extends such artifacts
revision by revision, and generates C bindings for clients and servers from
them. This directory holds TLA+ models of that tool, configurations that
check them with TLC, and proofs checked by TLAPS. Paths below are relative to
the repository.

## 1. The system

| part | state | operations | talks to |
|---|---|---|---|
| **SIF artifact** (`lang/sif.cc`, `include/ast.hh`) | a file: identity (name, UUID, prefix, annotations), root hash, table of revision hashes, one tree per revision with the hash before it | `sif_write`, `sif_read` | compile, decompile, generate |
| **compile** (`core/main.cc` `command_compile`) | base interface, its counters, source interface, output stream | read base, parse, validate, truncate output, hash, write | artifact files, parser |
| **lexer, parser** (`lang/lexer.cc`, `lang/parser.cc`) | position, current token, `current_funcid`, next revision number | one method per declaration | compile (which hands over the base's counters) |
| **SHA-256** (in `lang/sif.cc`) | state words, 64-byte buffer, bit count | `update`, `finish` | `compute_revision_hash` |
| **byte layout** (in `lang/sif.cc`) | stream, or byte vector, or hash | `write_*`, `read_*` pairs | artifact, hash |
| **decompile** (`sif_decompile`) | - | writes source for an artifact | artifact |
| **generate** (`command_generate`, `lang/c_handler.cc`) | three output files | types header, header, source | artifact, generators, CMake |
| **client generator** (`lang/c_user_source_generator.cc`) | - | one wrapper per function | at run time: `StHandle_Query`, `StHandle_Call<n>`, `StHandle_CallN` |
| **server generator** (`lang/c_module_source_generator.cc`) | table of type sizes, function id span | dispatcher, one case per function | at run time: vtable, argument slots |
| **header generator** (`lang/c_header_generator.cc`) | function id span | types, macros, vtable | C compiler |
| **CMake module** (`cmake/UseSIDLC.cmake`) | lists of outputs | `sidlc_compile`, `sidlc_generate` | compile, generate |
| **UUID** (`include/uuid.h`) | - | third-party | - |

Nothing in the tool runs concurrently with itself inside a process. What makes
it hard is what happens *between* processes: an artifact is the only memory the
tool has, runs read what earlier runs left behind, a run may die or its device
may fill up between any two writes, and the two halves of a remote call are
generated separately, possibly from different revisions, by code that decides
the same questions twice.

What makes each part correct:

* artifact: the reader accepts exactly the complete files a writer meant to
  write; damage, truncation and surplus are refused;
* compile: history is only ever appended to; function ids stay dense and
  ordered over any chain of extensions (the vtable depends on it); the way
  declarations are split over runs does not matter; a failing run destroys
  nothing it need not;
* bindings: both sides agree on where every parameter of every parameter list
  travels; out values come back on success and only then; the function entered
  is the one called, whatever revisions the two sides were built from;
* generate and CMake: the files declared to the build are the files written,
  and parallel generation leaves whole files;
* lexer, SHA-256, layout, decompile: functions with a reference to agree with
  (the number written, the padding of the standard, the tree written, the
  artifact decompiled), that must neither lose nor invent anything on inputs
  nobody meant to give them;
* headers: what is used is declared above its use, masks share no bit.

`PROJECT.json` lists the hazards line by line.

## 2. Modules

| module | models |
|---|---|
| `Sif` | the artifact as a value, the reader's checks, function id arithmetic |
| `SidlCompile` | runs of `sidlc compile` over a set of files, with kills, full devices and damage; EXTENDS `Sif` |
| `AbiHistory` | what `compile` promises, in terms of histories alone; `SidlCompile` implements it |
| `SidlCompileInv` | the inductive invariant of `SidlCompile` |
| `MCSidlCompile` | a small workspace for TLC |
| `SifTheorems` | lemmas about sequences and their concatenation, dense numbering and least elements |
| `SidlCompileProofs` | its proof, and what follows from it: first about a single file, then about several files and runs (chains of hashes, divisions of a history) |
| `SidlCompileRefinement` | the proof that `SidlCompile` implements `AbiHistory` |
| `SidlCall`, `MCSidlCall` | one call through generated bindings; EXTENDS `Sif` for the numbering its vtable needs |
| `SidlCallInv`, `SidlCallProofs` | the inductive invariant of `SidlCall`, and the proofs |
| `SidlBuild`, `MCSidlBuild` | `generate` in several processes, the build around them |
| `SidlBuildInv`, `SidlBuildProofs` | the inductive invariant of `SidlBuild`, and the proofs |
| `SidlLexer`, `MCSidlLexer` | the lexer on characters |
| `SidlLexerProofs` | the proofs about `SidlLexer` |
| `Scan` | reading a sequence from the front, with failures; used by the next two |
| `SidlSyntax` | the parser, `normalize_interface_metadata` and `sif_decompile`, on tokens |
| `SidlRoundTrip`, `MCSidlRoundTrip` | a text written, mistyped, compiled, decompiled and compiled again |
| `SifLayout` | the bytes of a revision, written and read |
| `SifDamage`, `MCSifDamage` | bytes changed, lost and added between the two |
| `Sha256Buffer`, `MCSha256Buffer` | buffering and padding of the hash |
| `Sha256Proofs` | the proofs about `Sha256Buffer` |
| `SidlHeader`, `MCSidlHeader` | order of declarations and bitfield masks in generated headers |
| `SidlHeaderProofs` | the proofs about `SidlHeader` |

`SidlCompile` takes bodies of declarations as single values and hashes as what
they are taken of. Four modules look below that: `SidlSyntax` (from text to
tree), `SifLayout` (from tree to bytes and back), `Sha256Buffer` (from bytes to
blocks), `SidlLexer` (from characters to tokens). What one passes to the other
is the same tree (`SidlSyntax`, `SifLayout`) or a sequence whose elements the
upper one does not look into.

Operators that nothing uses, with a comment beginning `\*` that describes a
mistake (`HeaderNewestRoot`, `ReadEndRestartsIds`, ...), are plausible bugs.
Replacing the definition that follows by one of them makes a property fail;
this is how each property was tested. `PROJECT.json` lists the pairs.

### Sif, SidlCompile and AbiHistory

A file is a record of identity, root hash, hash table and trees. A missing, an
empty and a header-less file are the same to the reader (it throws before any
tree) and are one value, `Blank`. A tree holds a node (version, body,
functions) and the previous hash. Structs, enums, bitfields and annotations
take part in no decision of `compile`: they are the *body*, one value per
distinct contents. A hash is the tuple of what is hashed - UUID, node, previous
hash - so equal hashes mean equal contents, SHA-256 idealised as injective.
`Rot` is a hash that has been damaged.

`SidlCompile` has one action per step of `command_compile`:

| `pc` | action | code |
|---|---|---|
| idle | `Start` | options parsed; any base, output (the same file included) and source |
| head | `ReadHead` | `sif_read` up to the root hash check |
| trees | `ReadTree`, `ReadEnd` | one `read_revision_tree` each; trailing data; counters handed to the parser |
| parse | `ParseRevision`, `Validate` | one `abirevision` block each; metadata and identity checks |
| open | `Open` | the output is truncated, or cannot be opened |
| hash | `Hash`, `WriteHead` | `sif_write`, first loop; header, root, table |
| write | `WriteTree`, `Close` | second loop; `return 0`, whether or not the stream failed on the way |
| failed, done | `Exit` | |

`Crash` ends a run at any point and keeps what is on disk. `Damage` changes
one field of a file at rest, cuts its end off or repeats a tree. `Close` may
happen before everything is written: the code never looks at the stream's
state, so a full device ends in success (`lost`). `meant` and `before` are
history variables: what the last run that opened a file set out to write, and
the files as the current run found them.

`AbiHistory` knows nothing of runs, files or hashes. Each artifact *holds* a
history and is readable or not; a history is replaced only by one that begins
with the history of a readable artifact, or from nothing, and is numbered on
from there; faults make artifacts unreadable. The mapping (in `SidlCompile`,
above `KeepsHistories`) takes `held` from `meant`, `readable` from what the
reader accepts, and `draft` from what a run has loaded.

### SidlCall

The client wrapper and the dispatcher are modelled by the two partitions of a
parameter list they compute. `ClientScalars` is every by-value `in` parameter:
`TypeNode::type_size` is never assigned for a type read from an artifact, so
the size test of `c_user_source_generator.cc:150` always succeeds.
`ServerScalars` looks the type up in `type_value_infos`, which is filled while
visiting declarations (`ServerOrder`, `Registered`). `Frame` is what the
wrapper puts into the slots, `Received` what the dispatcher makes of them;
memory is an address tagged with what lives there, so reading a struct declared
with other members, or following a value, yields `Junk`. Base types of enums
and bitfields are named types.

The actions follow the wrapper (`Call`, `Query`, `Send`, `Return`) and the
dispatcher (`Dispatch`). `Serve` stands for the implementation behind the
vtable, which is not in the repository: it may fail after assigning any of its
out parameters, and assigns all of them when it succeeds. That slot `k` of
`StHandle_Call<n>` and in, out and peeled slots of `StHandle_CallN` arrive in
`args` in that order, and that the kernel subtracts the function id base, is
taken from how both generators use them.

The two sides are built from any two artifacts of an interface: a shorter and a
longer history, or two that parted because a base was extended twice. In the
second case the same id may name functions with different parameters; nothing
in a call tells them apart, so properties speak of ids the sides agree on
(`Agreed`). Of an artifact's history `HistoryAssumption` takes what a reader
accepts (shape, and ids without gaps, which `FuncIdsDense` shows of every
readable file) and that names differ: they are members of one C struct.

### SidlBuild

`proc[m]` is the process that generates mode `m`: it reads the artifact
(`Read`, a torn one ends it), then for each of its three outputs truncates
(`Open`), writes piece by piece (`PutPiece`) and goes on (`Close`). The first
output, the types header, is shared by all modes, so two processes write it at
once; each keeps its own file position (`Put`), and a gap is a `Hole`. `Lose`
is a device that is full, which `c_generate` does not notice; `Refused` a file
that cannot be opened, on which `c_generate` returns false with the files before
it already written; `Kill` a process killed. `CompileBegins`/`CompileEnds` replace
the artifact; `Start` is the build running what failed or is out of date.
`ordered` says whether one build graph holds the compile and the generates
(CMake's `DEPENDS`), or the compile is run by hand.

### SidlLexer

One call of `next_token()` is one step. The cursor is `pos`, `current_line`,
`current_column`; every scanner moves it by `Advance`, one character at a time,
as the code does, so places come out of the same loop as tokens. A loop that
looks for something is `To`: as many `Advance`s as it takes to the first place
where the loop stops. `Skip` repeats `SkipOne`, one round of
`skip_unmeaningful_string`, which changes nothing once there is nothing to
skip; it cannot skip more often than characters are left. `Stoull` is what the
parser makes of a number's text.

### SidlSyntax and SidlRoundTrip

A *reading* (`Scan`) is a position, a value and whether the reading goes on, was
refused (`std::runtime_error`, reported) or aborts (any other exception, caught
by nobody). Each `parse_*` method is a sequence of tokens and parts and a record
made of the parts (`Sequence`, `Part`); the loops are `While`, with `Continues`
and `Round` for their conditions and bodies. `ParseElement` and `Attach` are the
body of `parse_abiversion`: a vector of annotations waits for the next
declaration. `Decompile` writes the tokens `sif_decompile` writes.

`SidlRoundTrip` writes a source, may slip (a token left out, repeated, replaced
or put in), compiles, decompiles, and compiles again.

### SifLayout and SifDamage

`Write*` and `Read*` are the pairs of `lang/sif.cc`, byte by byte. A byte has
`ByteBase` values; the digest of a tree is the tree written out, which is what
`compute_revision_hash` hashes, so nothing is idealised here but the size of
numbers. The digest is taken of a tree written *anew*: what the reader
normalises the hash cannot see, and `SifDamage` asks what that lets pass.

### Sha256Buffer

A message byte is its position, so that what `transform()` is fed can be told
from what it should be. `Update` is the head of `update()`, `Copy` a round of its
loop; `PutMark`, `Spill` and `PutLength` are `finish()`. The buffer is never
cleared, as in the code.

### SidlHeader

`TypesOf` prints the declarations of each revision kind by kind, `Masks` the
`#define`s of a bitfield. A shift by a word or more is undefined in C++; `wide`
chooses among what machines make of it. `Generate` is a mode's header, which
`c_generate` comes to after the types header.

## 3. What the runs check

| run | properties | bounds | states |
|---|---|---|---|
| `compile` | `TypeOK`, `IInv`, `PublishedOrRefused`, `LoadedWasPublished`, `FuncIdsDense`, `ExtensionKeepsHistory`, `SplitIndependence`, `SuccessMeansReadable`, `ArtifactsKept` | 2 files, 9 sources, 1 damaged field, any number of runs | 583 075 |
| `compile_live` | `EveryRunEnds`, `KeepsHistories`, `SharedHashSharedPast` | 2 files, 5 sources, 1 damaged field | 503 699 |
| `call` | `TypeOK`, `IInv`, `ArgumentsArrive`, `NeverTurnedAway`, `OutsDelivered`, `RightFunction`, `RefusedOnlyIfMissing` | x86_64; one function with all lists of up to 4 parameters of 6 kinds, 5 of 4 kinds; an interface with five histories, two of them divergent, any pair, any subset of the vtable | 451 773 |
| `build` | `TypeOK`, `IInv`, `DeclaredWhole`, `TypesWhole`, `NothingOutOfDate`, `BuildSettles` | 2 modes, 2 versions, 1 kill or refused file, 1 full device, with and without order | 618 758 |
| `round_trip` | `AsDeclared`, `RoundTrip`, `NothingLost` | up to 3 small declarations in one revision and one in a second, 4 heads; up to 2 large ones with 1 slip | 371 204 |
| `damage` | `ReadsBack`, `DamageNoticed`, `OneSpelling` | 6 histories with 1 damaged byte, a small one with 2; 4 values of a byte | 111 715 |
| `sha256` | `BytesInOrder`, `Padded` | blocks of 64 bytes, counts of 8, messages up to 140 bytes | 10 434 |
| `lexer` | `IInv`, `SeparatorsIrrelevant`, `PlacesRight`, `TextEnds` | all texts of up to 5 characters of two alphabets | 201 215 |
| `header` | `IInv`, `UsesDeclared`, `MasksTile` | up to 3 declarations and one in a second revision; words of 4 bits, members of up to 3 | 59 112 |
| `call_enum_of_bitfield`, `lexer_base`, `header_bitfield_over_enum` | violated, see section 6 | | |

* `PublishedOrRefused`: a file the reader accepts holds exactly the history the
  last run that opened it set out to write.
* `LoadedWasPublished`: what a run extends is the published history of its
  base, and the parser continues at the first id that history leaves free.
* `FuncIdsDense`: the ids in every readable artifact are 0 .. n-1 in order.
* `ExtensionKeepsHistory`: an extension's hash table starts with its base's.
* `SplitIndependence`: equal declarations under one UUID have equal hashes, in
  one source or over several extensions.
* `SuccessMeansReadable`: success means a complete readable artifact, unless
  the device filled up.
* `ArtifactsKept`: a run touches only its output, and not even that when it
  reports an error - except that an empty history is refused after truncation.
* `EveryRunEnds`: reader, parser and writer loops make progress.
* `KeepsHistories`: every step of `SidlCompile` is a step of `AbiHistory` or
  changes nothing it speaks of.
* `SharedHashSharedPast`: artifacts that have one revision hash in common have
  everything up to it in common, whoever extended them.
* `ArgumentsArrive`, `NeverTurnedAway`: the implementation receives what the
  caller passed, and no null check of the dispatcher refuses a wrapper's call.
* `OutsDelivered`: out values reach the caller on success; on failure nothing
  collected in the wrapper's own objects leaks out. A single `out ptr<T>` is
  handed through and is the implementation's business.
* `RightFunction`, `RefusedOnlyIfMissing`: client and server of different
  revisions meet in the right function or in `STATUS_NOT_IMPLEMENTED`.
* `DeclaredWhole`: bindings a run finished stay whole, and are the files the
  build declared, until a later run of the mode opens its header.
* `TypesWhole`: processes that read the same version leave the shared types
  header whole however their truncations and writes interleave.
* `NothingOutOfDate`: what a build that orders generate behind compile takes for
  done - the run succeeded, and no compile ended since - has header and source
  of the newest version, and the types header too where no mode has failed. So
  a run refused its second or third file, which leaves a new types header beside
  old bindings, does not pass for done, and neither does one that read the
  artifact before it was compiled anew. It is about ordered builds on purpose:
  when somebody compiles by hand beside a running build, the outputs of a
  generate that read the old artifact are newer than the new one, no rule
  of the build would run it again, and nothing in the generated files says so.
* `BuildSettles`: a build that orders generate behind compile ends with every
  file whole and of the newest version, unless a device filled up.
* `AsDeclared`: a text without slips is understood as it was meant, said
  without a parser: lists by kind, own annotations, ids through the interface.
* `RoundTrip`: whatever is accepted decompiles to a text that compiles to the
  same tree. `NothingLost`: every name, number, string and keyword of an
  accepted text is in the tree as often as in the text - annotations in front of
  the end of a revision excepted, which the parser drops.
* `ReadsBack`, `DamageNoticed`, `OneSpelling`: what was written is read; damaged
  bytes are refused or say the same; and the one thing that can be said in two
  ways is the `const` flag, of which any value but zero is one.
* `BytesInOrder`, `Padded`: what is compressed is the message as the standard
  pads it, in whatever pieces it came.
* `SeparatorsIrrelevant`: tokens printed the way `decompile` prints them, with
  any blank or comment between them, are the same tokens. `PlacesRight`: the
  place in an error message is where the token begins (a string over several
  lines is said to be on its last). `TextEnds`: every call passes something over
  and none goes behind the end, but for the one character an unclosed string
  costs.
* `UsesDeclared`, `MasksTile`: C declares before use; masks of members that fit
  in a word cover its low bits once.

**Why the bounds are enough.** `compile` does not bound the number of runs;
nothing grows, because files hold at most the revisions of two sources on top
of each other with numbers that must be contiguous (longest history: three
revisions). Two files cover base and output distinct, identical, and the one
not involved. The sources contain one that declares a history at once, its two
parts, a two-revision continuation without functions in its first, a different
name, a different UUID, missing metadata, an error in the second revision and
no revision at all; `compile_live` adds another first revision, so that one
extension is made of two pasts. One damaged field is enough to separate any two
checks of the reader; the proofs allow any number (`MaxDamage`). `Symmetry`
permutes files, which no definition tells apart; `compile_live` does not use it.
For `call`, x86_64 has four slots, of which two are peeled; five parameters
exceed the slots, and four kinds at five places put every kind before, between
and after the peeled ones. `build`: two modes share one file, which three would
too; text of a version is longer than the one before, so leftovers show.
`round_trip`: each kind of declaration appears full and empty, every kind next
to every other, and a slip hits every token of each. `damage`: histories have
strings of 0, 1, 3, 4 and 5 bytes (all paddings), every kind of declaration,
nested types and two revisions; every byte takes every value, and tags of 3 and
more are no tags. A byte of four values keeps counts and lengths that reach
beyond the end of the file. `sha256` has the sizes of the code. In the alphabets
of `lexer` every branch of `next_token` and every pair of adjacent marks occurs;
comments need four characters, the fifth is what follows.

**Fairness.** `FairSpec` of `SidlCompile` adds weak fairness of `RunStep`, the
disjunction of a run's own steps: a process that has been started keeps
executing. Starting, being killed and damage are not fair. `FairSpec` of
`SidlBuild` adds weak fairness of a process's steps, of a compile ending, and of
`Start`: a build runs what it has to run, again after a failure. Deadlock is
checked in every run.

## 4. What is proved

Every theorem is for any value of the constants that satisfies the assumptions
named in the modules, plus what is said below. A run checks the same property,
and the inductive invariant, on a small instance.

**SidlCompile** (`None` is not a path; `Malformed` is not a body; texts declare
sequences of revisions; any number of files, sources and damages):

| theorem | states |
|---|---|
| `Inductive` | `Spec => []IInv` |
| `TypeCorrect` | `Spec => []TypeOK` |
| `Integrity` | `Spec => []PublishedOrRefused` |
| `Numbering` | `Spec => []FuncIdsDense` |
| `Loading` | `Spec => []LoadedWasPublished` |
| `Keeping` | `Spec => []ArtifactsKept` |
| `SharedPast` | `Spec => []SharedHashSharedPast` |
| `Success` | `Spec => []SuccessMeansReadable` |
| `Extension` | `Spec => []ExtensionKeepsHistory` |
| `Split` | `Spec => []SplitIndependence` |
| `Implements` | `Spec => KeepsHistories`, the refinement of `AbiHistory` |

None of these is inductive: that a readable file is a
published one depends on how its hashes came about, which depends on the run
that wrote it. The argument runs over three layers. (1) *Published histories are
well numbered* (`MeantInv`): what a run sets out to write is a verified base with
parsed revisions appended (`BaseInv`, `ParseInv`), and numbering is preserved
by appending a block numbered from the counter (`DenseAppend`), the counter
being the span of the history so far (`DenseSpan`). (2) *Every hash on disk is
damaged or the digest of the revision meant at its place* (`DiskInv`). Damage
can only turn a hash into `Rot`; writing puts digests of what is meant there
(`WriteInv`). (3) *A tree that matches its hash is the revision meant*, because
`Digest` is injective; so an accepted file, whose trees all match and are as
many as its hashes, is the published history, and so is what `ReadTree` loads
(`LoadInv`, `SourceInv`). The table of hashes is written before the trees with
its full length, which is why a torn file is refused: `DiskInv` says the table
is as long as the history meant. The first part of `SidlCompileProofs` has one
lemma per action, and the theorems about a single file after them.

Its second part goes along a chain of hashes. A claim about all places of a
chain, or all ids of a history, is proved by looking at the first one where it
fails (`LeastNat`, which the library's fact that every well-founded relation
has minimal elements gives without an operator parameter). `ChainDown` follows
a shared hash back to the start, since the digest holds the hash before it:
`SharedPast`. `ChainUp` follows equal revisions forward; `SameIds` says that
histories without gaps and of one shape have the same ids, the first id they
could differ in being nowhere else to be found: together, `Split`. `Success`
and `Extension` made `LoadInv` stronger than its first form: what was loaded
was not only published but accepted, tree by tree, against the hashes the
run keeps.

`SidlCompileRefinement` maps each step: parsing is `Draft`ing, opening the
output is `Publish`, writing the last tree makes a history readable, damage and
kills are the faults `AbiHistory` allows, everything else is not seen there.
`IInv` is needed in both states of a step: only it excludes that a half-written
file is accepted, or that damage makes a file readable that held nothing.

**SidlCall**, under `Generable`: there are two argument slots at least (the one
architecture of `main.cc:42` has four), and the server generator has a size for
every type passed by value, of at most a pointer's. Run `call` satisfies it;
`call_enum_of_bitfield` is what happens without it. Parameter lists and
artifacts have any length, slots any number, and the sides may be built from
any two artifacts of an interface:

| theorem | states |
|---|---|
| `Inductive`, `TypeCorrect` | `Spec => []IInv`, `Spec => []TypeOK` |
| `Arguments` | `Spec => []ArgumentsArrive` |
| `NullChecks` | `Spec => []NeverTurnedAway` |
| `Outputs` | `Spec => []OutsDelivered` |
| `Entering` | `Spec => []RightFunction` |
| `Refusals` | `Spec => []RefusedOnlyIfMissing` |

Three arguments meet. *Ids*: the vtable lists functions by id (`VTableById`,
revision after revision by `NamesGrow`, since a revision's ids start where the
list ends: a smaller id is taken, and a gap could be filled only by a function
behind, whose id is larger: `IdsGoOn`); the span the generators reserve is the
number of functions (`FuncidSpanCounts`); and an id the server knows, where the
sides agree, is of a function in the common past, with the client's parameters
(`PastBegins`, `PastKnows`, `KnownIsCommon`). *Partition*: both sides find the
same scalars although one takes every size for zero (`SameScalars`), ranks put
the peeled ones into slots of their own (`RankApart`, `PeeledSlots`), and what
is then read from each slot is what was put there (`FrameArrives`,
`FrameNotRefused`). *Steps*: the invariant ties the slots to the wrapper's
frame, the received parameters to the slots, and the out objects to the status
(`Ready` before the wrapper copies, `OutsDelivered` after).

**SidlBuild** (any set of modes, any number of runs, versions, kills and full
devices; an artifact's name is a sequence of strings):

| theorem | states |
|---|---|
| `Inductive`, `TypeCorrect` | `Spec => []IInv`, `Spec => []TypeOK` |
| `Bindings` | `Spec => []DeclaredWhole`, if `Len(Artifact) = 2` |
| `TypesHeader` | `Spec => []TypesWhole`, if `Len(Artifact) = 2` |
| `Current` | `Spec => []NothingOutOfDate`, if `Len(Artifact) = 2` |

`Len(Artifact) = 2` is a name with one dot. With two, the build waits for files
that are never written (section 6), so the properties do not hold. `OwnInv` is
about the header and source of a mode, which only that mode's runs write: the
one being written is a beginning of its text as long as the run has come, a
header left without loss is whole while the source is written, and where a run
ended well (`good`) both are. That does not work for the shared types header,
which a run of any mode may truncate under another. `SharedInv` says instead
what is *owed*: if every run there has been read the same version, has
truncated the header and lost nothing since (`Agree`, `Writes`), or had ended
before that version was there (`Past`), then the header
is no longer than its text, and each piece of it is in its place or still to be
written by a run that has not come to it (`Owes`). A run that read another
version, or was killed or short of space, voids the claim, as
`TypesWhole` says nothing then either. Hence, when nobody owes anything, the
header is whole (`TypesThere`). `OrderInv` is what the order of a build adds: no
run goes on while the artifact is written, so a run that writes has the newest
version, and what has an older one is known to be stale. That makes the ended
runs of other modes `Past`, and `Current` follows.

**Sha256Buffer**, for any block size, any smaller length size and messages
of any length:

| theorem | states |
|---|---|
| `FedOnce` | `Spec => []BytesInOrder` |
| `PaddedToTheEnd` | `Spec => []Padded` |

`BufferInv` says for every stage of `finish()` what is fed and what
waits in the buffer: `OpenInv` (the message so far, `BytesInOrder` itself),
`MarkedInv` (the mark behind it), `SpilledInv` (the mark in a block already fed
or still in the buffer, zeros behind it where a block was spilled), `Padded`.
`OneBlockMore` is the fact about sequences each `Take` needs: appending a full
buffer keeps the blocks whole and what was fed in place.

**SidlLexer**, for texts of any length, over any characters but the mark of the
end, and any keywords:

| theorem | states |
|---|---|
| `LexerStands` | `Spec => []IInv` |
| `TokenPlaces` | `Spec => []PlacesRight` |
| `TextsEnd` | `Spec => TextEnds`, an action property |

A token's place is what the cursor was when the token began, so nothing about
tokens can be proved without knowing where the lexer stands between them.
`Placed`, the heart of `IInv`, says it without a loop: the line is one more than
the number of line ends passed, the column the distance from the last of them.
`AdvanceIs` is one character; `ToIs` carries it over a loop, whose rounds are
the values of a function that `IterationExists` provides (the least number of
steps without such a function would be one more than a number with one:
`LeastNat` again); `SkipIs` over the rounds of the skipping loop, each of which
stays within the text and, until nothing is left to skip, moves on. `TokenRight` turns what is known of the cursor at the
beginning and the end of a token into its line and column: line ends between
the two are those of its text, and only strings have any (`NoNewline`). Then
there is one lemma per scanner, and `LexedIs` puts them together: what is
returned is rightly placed, and unless it is the end, the cursor has moved.

**SidlHeader**, for any histories, of any length, and a word of any size:

| theorem | states |
|---|---|
| `WrittenWhole` | `Spec => []IInv` |
| `HeadersDeclare` | `Spec => []UsesDeclared`, if `KindsNest` |
| `MasksShareOut` | `Spec => []MasksTile`, if `Narrow` |

`KindsNest` says that no declaration uses one of a kind printed behind its own
in the same revision (in C terms: no bitfield stands on an enum, no type uses a
function); `Narrow` that no member is as wide as a word. The code enforces
neither, and both are needed: run `header_bitfield_over_enum` breaks
`UsesDeclared` without the one, and a member as wide as a word `MasksTile`
without the other (section 6). What run `header` checks
satisfies both (TLC evaluates `InputsAreProvedAbout`). *Order*: the list of a kind holds what the
revision has of it, in the same order (`OfKindIs`, along the fold), so what was
above a use and is of the same kind still is (`KindClear`); what is of another
kind is in a list printed before (`RevisionClear`, `ClearConcat`), and what is
of an earlier revision was printed with that revision (`ClearFlatten`).
*Masks*: the mask of a member is the interval of bits from its offset to the
next (`MaskIs`), and offsets only grow (`SumsGrow`), so intervals of different
members are apart; a bit below the total belongs to the first member whose end
is above it (`MembersTile`).

**Model-checked only.** Liveness under fairness (`EveryRunEnds`,
`BuildSettles`) is outside the prover's reach. So is what a recursive definition
computes for every input, which needs induction over data:

* `AsDeclared`, `RoundTrip`, `NothingLost` (`SidlRoundTrip`): the parser's
  `ParseType` and its parts, and what `Decompile` writes, follow the nesting of
  types and declarations, with recursive operators the prover cannot use.
* `ReadsBack`, `DamageNoticed`, `OneSpelling` (`SifDamage`): the same for the
  readers and writers of `SifLayout`, whose types nest to any depth.
* `SeparatorsIrrelevant` (`SidlLexer`): compares all tokens of a text with all
  tokens of another, printed from the first by recursion over digits
  (`Decimal`); an induction over the tokens of both.

## 5. Not modelled, and why

* Option parsing and messages: a wrong command line ends the run before it
  touches anything.
* SHA-256's compression function: arithmetic a model would only repeat;
  idealised as injective where hashes are compared.
* The UUID library: third-party. That a UUID has several spellings and one
  canonical form is the function `Spelling`.
* The interface's name, prefix and annotations under damage: they are outside
  the hash (`sif.cc:696-714`), so the reader cannot notice; the models compare
  UUID and history only.
* Two compiles at once over the same files: `SidlCompile` runs one at a time;
  damage happens between runs.
* Allocation failures on damaged counts (`sif.cc:1060`) and other
  `std::logic_error`s the tool does not catch: they end the process, which is
  a `Crash`. Bytes above 127 given to `isalpha` and its like.
* The text of generated files beyond the order of declarations, masks and the
  passing of parameters: names that collide (`c_header_generator.cc:116`),
  struct alignment, UUID macros, `to_c_type`.
* Include directories and object libraries in the CMake module; the Strata
  kernel.

## 6. Disagreements found

By a run of their own:

* **An enum over a bitfield of the same revision** (`call_enum_of_bitfield`).
  The server generator visits enums before bitfields
  (`c_module_source_generator.cc:290-296`), finds no size for the base, and
  dereferences the slot in which the client passed the value. The README
  lists both declarations and user-defined types as supported; the header
  generator visits bitfields first, so the C compiles.
* **Numbers in base 16, 8 and 2** (`lexer_base`). The branches of the lexer are
  marked "hexadecimal", "binary" and "octal"; the parser reads what they return
  in base 10: `0x10` is 10, `010` is 10.
* **A bitfield over an enum of the same revision** (`header_bitfield_over_enum`)
  is printed above the enum (`c_header_generator.cc:232-238`), as a typedef of a
  name C has not seen, although the source declares the enum first.

Not in a run of the project, but TLC shows it when a constant of a run is
changed, as a definition of the MC module is there for:

* **A bitfield member as wide as a word** has the mask `(1ULL << 64) - 1`
  (`c_header_generator.cc:297`): undefined, and an empty mask where the machine
  takes the count modulo 64. Run `header` with `Histories <- WholeWord`, a
  member of four bits in a word of four, violates `MasksTile`.
* **An artifact with two dots in its name**, such as the README's
  `byte_stream.next.sif`: the tool drops the last extension (`main.cc:559`),
  CMake's `NAME_WE` all of them (`UseSIDLC.cmake:132`), and the build declares
  headers nobody writes. Run `build` with `Artifact <- Dotted` violates
  `DeclaredWhole`.

Seen while modelling, and outside what the properties speak of:

* **A struct passed by value**: the wrapper takes a declared type for a scalar
  (`c_user_source_generator.cc:150`) and casts it to `unsigned long` (235),
  which is not C for a struct.

* **A structure that refers to itself** by pointer is printed as
  `typedef struct X { ... X *next; } X;` (`c_header_generator.cc:264-276`), where
  C does not know `X` before the end. Its source does not declare it above its
  use either, so the condition of `UsesDeclared` leaves it out.
* **Members that do not fit in a word** together get masks beyond its end
  (`c_header_generator.cc:295-299`); the sum is never compared with the size of
  the base type. `MasksTile` speaks of those that fit.
* **Strings are not aligned to four bytes** after a type, an expression tag or a
  direction, which take one or two bytes each (`sif.cc:424`); the README says
  they are. They are padded to four bytes, which `OneSpelling` covers.

## 7. Plan

1. Two compiles at once over the same files.
2. The text the header and source generators write beyond what is modelled:
   names that collide, struct alignment.
3. `SifLayout` without nested types, written with recursive functions, so that
   `ReadsBack` can be proved at least for declarations of built-in types.
