----------------------------- MODULE SidlHeader -----------------------------
(***************************************************************************)
(* The headers of an interface (lang/c_header_generator.cc): the types      *)
(* header lists the declarations of every revision kind by kind, whatever   *)
(* order they were written in, with a mask for every bitfield member; the   *)
(* headers of the modes include it and list the functions.                  *)
(*                                                                          *)
(* A declaration is its kind, its name, the names of the declared types it  *)
(* uses, and the widths of a bitfield's members.  A word is the set of its  *)
(* bits that are one.                                                       *)
(***************************************************************************)
EXTENDS Naturals, SequencesExt

CONSTANTS
  Names,        \* of declarations
  Histories,    \* revisions, each the list of its declarations in source order
  WordSize      \* bits of an unsigned long long, 64

Kinds == {"bitfield", "enum", "struct", "function"}

Declarations == [kind : Kinds, name : Names, uses : SUBSET Names, widths : Seq(Nat)]

ASSUME WordAssumption == WordSize \in Nat \ {0}

ASSUME HistoryAssumption == Histories \subseteq Seq(Seq(Declarations))

VARIABLES
  history,
  wide,         \* what the machine makes of a shift by a word or more
  headers       \* written so far, by mode

vars == <<history, wide, headers>>

Modes == {"types", "client", "server", "server-client"}

NotWritten == [written |-> FALSE, declares |-> <<>>, masks |-> <<>>]

(* The parser has a list for every kind, and adds to it.                    *)
OfKind(revision, kind) ==
  FoldLeft(LAMBDA list, d : IF d.kind = kind THEN Append(list, d) ELSE list, <<>>, revision)

\* Enums are listed before the bitfields they may stand on.
EnumsFirst(revision) ==
  OfKind(revision, "enum") \o OfKind(revision, "bitfield") \o OfKind(revision, "struct")

InKindOrder(revision) ==
  OfKind(revision, "bitfield") \o OfKind(revision, "enum") \o OfKind(revision, "struct")

TypesOf(h) == FlattenSeq([i \in DOMAIN h |-> InKindOrder(h[i])])

FunctionsOf(h) == FlattenSeq([i \in DOMAIN h |-> OfKind(h[i], "function")])

Word == 0 .. WordSize - 1

(* A shift by a word or more is undefined; a machine may take the count     *)
(* modulo the word's size, or shift everything out.                         *)
Shifted(word, n, how) ==
  LET by == IF n >= WordSize /\ how = "modulo" THEN n % WordSize ELSE n
  IN {b \in Word : b >= by /\ b - by \in word}

(* (1ULL << bits) - 1: all bits below the one that was set, or all.         *)
Ones(bits, how) == {b \in Word : \A top \in Shifted({0}, bits, how) : b < top}

\* Every member begins at the first bit.
OffsetNone(widths, i) == 0

Total(widths) == FoldLeft(LAMBDA n, w : n + w, 0, widths)

Offset(widths, i) == Total(SubSeq(widths, 1, i - 1))

Masks(d, how) ==
  [i \in DOMAIN d.widths |-> Shifted(Ones(d.widths[i], how), Offset(d.widths, i), how)]

Init ==
  /\ history \in Histories
  /\ wide \in {"modulo", "out"}
  /\ headers = [m \in Modes |-> NotWritten]

TypesHeader ==
  [written |-> TRUE, declares |-> TypesOf(history),
   masks |-> [i \in DOMAIN TypesOf(history) |-> Masks(TypesOf(history)[i], wide)]]

FunctionsHeader == [written |-> TRUE, declares |-> FunctionsOf(history), masks |-> <<>>]

\* The header of a mode may come before the types header.
GenerateAnyOrder(mode) ==
  /\ ~headers[mode].written
  /\ headers' = [headers EXCEPT ![mode] = IF mode = "types" THEN TypesHeader ELSE FunctionsHeader]
  /\ UNCHANGED <<history, wide>>

Generate(mode) ==
  /\ ~headers[mode].written
  /\ mode # "types" => headers["types"].written
  /\ headers' = [headers EXCEPT ![mode] = IF mode = "types" THEN TypesHeader ELSE FunctionsHeader]
  /\ UNCHANGED <<history, wide>>

Finished == (\A m \in Modes : headers[m].written) /\ UNCHANGED vars

Next == (\E mode \in Modes : Generate(mode)) \/ Finished

Spec == Init /\ [][Next]_vars

(***************************************************************************)
(* Properties.                                                              *)
(***************************************************************************)

(* The inductive invariant: a header is written whole, the types header     *)
(* first.                                                                   *)
IInv ==
  /\ history \in Seq(Seq(Declarations)) /\ wide \in {"modulo", "out"}
  /\ headers \in [Modes -> {NotWritten, TypesHeader, FunctionsHeader}]
  /\ \A m \in Modes : headers[m].written =>
       headers["types"] = TypesHeader /\ (m # "types" => headers[m] = FunctionsHeader)

(* C wants a type declared above its use.                                   *)
Above(list, n) == {list[i].name : i \in 1 .. n - 1}

DeclaredAbove(list) == \A i \in DOMAIN list : list[i].uses \subseteq Above(list, i)

(* What the order of the types header relies on: no declaration uses one of *)
(* a kind listed behind its own in the same revision, or a function.        *)
ListedFirst ==
  [bitfield |-> {"bitfield"}, enum |-> {"bitfield", "enum"},
   struct |-> {"bitfield", "enum", "struct"}, function |-> {"bitfield", "enum", "struct"}]

KindsNest ==
  \A h \in Histories : \A r, q \in DOMAIN h : \A i \in DOMAIN h[r], j \in DOMAIN h[q] :
    h[q][j].name \in h[r][i].uses =>
      h[q][j].kind # "function" /\ (q = r => h[q][j].kind \in ListedFirst[h[r][i].kind])

(* No member is as wide as a word.                                          *)
Narrow ==
  \A h \in Histories : \A r \in DOMAIN h : \A i \in DOMAIN h[r] :
    \A k \in DOMAIN h[r][i].widths : h[r][i].widths[k] < WordSize

(* When the source declares every type above its use, the headers do: the   *)
(* types header by itself, and the others once it is included               *)
(* (c_header_generator.cc:215-252).                                         *)
UsesDeclared ==
  DeclaredAbove(FlattenSeq(history)) =>
    LET types == headers["types"].declares
    IN /\ DeclaredAbove(types)
       /\ \A m \in Modes \ {"types"} : \A i \in DOMAIN headers[m].declares :
            headers[m].declares[i].uses \subseteq Above(types, Len(types) + 1)

(* The masks of a bitfield whose members fit in a word share no bit and     *)
(* leave none out (c_header_generator.cc:279-300).                          *)
MasksTile ==
  \A i \in DOMAIN headers["types"].masks :
    LET widths == headers["types"].declares[i].widths
        masks == headers["types"].masks[i]
        total == Total(widths)
    IN total <= WordSize =>
         /\ \A j, k \in DOMAIN masks : j # k => masks[j] \cap masks[k] = {}
         /\ UNION Range(masks) = 0 .. total - 1
         /\ \A j \in DOMAIN masks : Cardinality(masks[j]) = widths[j]
=============================================================================
