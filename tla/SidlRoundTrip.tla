--------------------------- MODULE SidlRoundTrip ----------------------------
(***************************************************************************)
(* A source is written, perhaps with a slip of the pen, compiled,           *)
(* decompiled (core/main.cc command_decompile), and compiled again.         *)
(***************************************************************************)
EXTENDS SidlSyntax

CONSTANTS
  Drafts,   \* kinds of text, each with
            \*   declarations: what a revision may declare, with its kind
            \*   notes: lists of annotations in front of a declaration
            \*   heads: lists of annotations in front of the interface
            \*   length: bound on the declarations of the first revision
            \*   slips: bound on the slips
  Strays    \* tokens a slip puts in

VARIABLES
  pc,
  source,   \* the declarations of each revision, in source order
  head,     \* the annotations of the interface
  text,     \* the tokens compiled last
  slips,    \* slips still to come
  tree,     \* what the first compile made of the text
  again     \* what the second made of the decompiled text

vars == <<pc, source, head, text, slips, tree, again>>

Elements(draft) ==
  {[notes |-> n, kind |-> d.kind, decl |-> d.decl] : n \in draft.notes, d \in draft.declarations}

SourceText ==
  LET element(x) == DecompileAnnotations(x.notes) \o DecompileDeclaration(x.kind, x.decl)
      revision(i) == <<Word("abirevision"), Num(i - 1), Word("{")>> \o Each(element, source[i])
                       \o <<Word("}")>>
  IN DecompileAnnotations(head) \o <<Word("interface"), Id(<<9>>), Word("{")>>
       \o FlattenSeq([i \in DOMAIN source |-> revision(i)]) \o <<Word("}")>>

Compile(T) == Normalize(ParseInterface(T, 0, 0))

Init ==
  /\ pc = "source"
  /\ \E draft \in Drafts :
       /\ \E n \in 0 .. draft.length :
          \E first \in [1 .. n -> Elements(draft)], last \in {<<>>} \cup Elements(draft) :
            source = IF last = <<>> THEN <<first>> ELSE <<first, <<last>>>>
       /\ head \in draft.heads
       /\ slips = draft.slips
  /\ text = <<>> /\ tree = Started /\ again = Started

Write ==
  /\ pc = "source"
  /\ text' = SourceText
  /\ pc' = "text"
  /\ UNCHANGED <<source, head, slips, tree, again>>

(* One token left out, repeated, replaced or put in.                        *)
Slip ==
  /\ pc = "text" /\ slips > 0
  /\ \E i \in DOMAIN text :
       text' \in {RemoveAt(text, i)} \cup {InsertAt(text, i, t) : t \in Strays \cup {text[i]}}
                   \cup {ReplaceAt(text, i, t) : t \in Strays}
  /\ slips' = slips - 1
  /\ UNCHANGED <<pc, source, head, tree, again>>

CompileText ==
  /\ pc = "text"
  /\ tree' = Compile(text)
  /\ pc' = IF Ok(tree') THEN "artifact" ELSE "failed"
  /\ UNCHANGED <<source, head, text, slips, again>>

(* command_decompile, then a compile of its output.                         *)
Recompile ==
  /\ pc = "artifact"
  /\ again' = Compile(Decompile(tree.v))
  /\ pc' = "done"
  /\ UNCHANGED <<source, head, text, slips, tree>>

Finished == pc \in {"failed", "done"} /\ UNCHANGED vars

Next == Write \/ Slip \/ CompileText \/ Recompile \/ Finished

Spec == Init /\ [][Next]_vars

(***************************************************************************)
(* Properties.                                                              *)
(***************************************************************************)

(* What the declarations of a revision mean, said without a parser: lists   *)
(* by kind in source order, each declaration with its own annotations, the  *)
(* functions numbered through the whole interface.                          *)
Functions(elements) == SelectSeq(elements, LAMBDA x : x.kind = "function")

Declared(elements, kind, first) ==
  LET own == SelectSeq(elements, LAMBDA x : x.kind = kind)
  IN [i \in DOMAIN own |->
        [notes |-> own[i].notes, decl |-> own[i].decl,
         id |-> IF kind = "function" THEN first + i - 1 ELSE 0]]

(* A text without slips is understood as it was meant, in whatever order    *)
(* declarations of different kinds are written (parser.cc:374-426).         *)
AsDeclared ==
  (pc = "artifact" /\ text = SourceText) =>
    \A i \in DOMAIN source :
      LET before == Len(Functions(FlattenSeq(SubSeq(source, 1, i - 1))))
      IN tree.v.revisions[i] =
           [version |-> i - 1,
            bitfields |-> Declared(source[i], "bitfield", 0),
            enums |-> Declared(source[i], "enum", 0),
            structs |-> Declared(source[i], "struct", 0),
            functions |-> Declared(source[i], "function", before)]

(* Whatever text compile accepts, slips included, decompile writes a text   *)
(* that compiles to the same artifact: same identity, annotations and       *)
(* numbering (sif.cc:1084-1107 against parser.cc and main.cc:112-189).      *)
RoundTrip == pc = "done" => Ok(again) /\ again.v = tree.v

(* A text that is accepted loses nothing: every name, number, string and    *)
(* keyword up to where the parser stopped is in the artifact, as often as   *)
(* in the text - except the annotations before the end of a revision, and   *)
(* the spelling of the UUID.                                                *)
Content(t) == t.kind \in {"identifier", "number", "string", "in", "out", "inout", "const", "ptr",
                          "array", "struct", "enum", "bitfield", "function", "abirevision"}

Often(t, s) == Cardinality({i \in DOMAIN s : s[i] = t})

AfterSpelling(t) ==
  IF t.kind = "string" /\ t.text \in DOMAIN Spelling THEN Str(Spelling[t.text]) ELSE t

Dangling(s) == \E i \in 1 .. Len(s) - 1 : s[i].kind = ")" /\ s[i + 1].kind = "}"

NothingLost ==
  pc = "artifact" =>
    LET read == [i \in 1 .. tree.at - 1 |-> AfterSpelling(text[i])]
        kept == Decompile(tree.v)
    IN Dangling(read) \/ \A i \in DOMAIN read :
                           Content(read[i]) => Often(read[i], read) = Often(read[i], kept)
=============================================================================
