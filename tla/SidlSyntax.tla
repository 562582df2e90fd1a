----------------------------- MODULE SidlSyntax -----------------------------
(***************************************************************************)
(* The grammar of .sidl and its inverse: Parser (lang/parser.cc) turns      *)
(* tokens into a tree, normalize_interface_metadata (core/main.cc) takes    *)
(* the identity out of the annotations, and sif_decompile (lang/sif.cc)     *)
(* turns a tree into tokens again.                                          *)
(*                                                                          *)
(* A token is a kind and a text; keywords and punctuation are kinds of      *)
(* their own.  Texts are tuples of numbers: the characters of a name or a   *)
(* string, or the one value std::stoull finds in a number, <<>> if none.    *)
(***************************************************************************)
EXTENDS Scan

CONSTANTS
  Uuid, Prefix,   \* the annotation names "uuid" and "prefix"
  Spelling        \* the UUIDs: from each way to spell one to the canonical way

ASSUME NamesDiffer == Uuid # Prefix

Word(k) == [kind |-> k, text |-> <<>>]
Id(name) == [kind |-> "identifier", text |-> name]
Num(v) == [kind |-> "number", text |-> <<v>>]
Str(s) == [kind |-> "string", text |-> s]

(***************************************************************************)
(* Parser.                                                                  *)
(***************************************************************************)
Current(T, r) == IF r.at <= Len(T) THEN T[r.at] ELSE Word("end")

IsAt(T, r, k) == Current(T, r).kind = k

Consume(T, r, k) == Advance(Unless(r, ~IsAt(T, r, k), "error"), 1)

Text(T, r, k) == Made(Consume(T, r, k), Current(T, r).text)

(* std::stoull throws std::invalid_argument, which parse() does not catch.  *)
Number(T, r) ==
  LET t == Text(T, r, "number")
  IN IF Ok(t) /\ t.v = <<>> THEN Stop(t, "abort") ELSE Shaped(t, LAMBDA v : v[1])

RECURSIVE All(_, _, _)     \* a sequence of tokens and parts, below
RECURSIVE While(_, _, _)   \* the loops of the parser, by name, below

Sequence(T, r, parts) == All(T, Made(r, <<>>), parts)

(* Items up to a closing token, a comma after each but perhaps the last.    *)
Listed(T, r, x, close) ==
  Collected(r, IF IsAt(T, x, close) THEN x ELSE Consume(T, x, ","))

ParseExpression(T, r) ==
  LET k == Current(T, r).kind
  IN IF k = "number" THEN Shaped(Number(T, r), LAMBDA n : [kind |-> k, value |-> <<n>>])
     ELSE IF k \in {"identifier", "string"}
     THEN Shaped(Text(T, r, k), LAMBDA s : [kind |-> k, value |-> s])
     ELSE Stop(r, "error")

ParseAnnotation(T, r) ==
  Shaped(Sequence(T, r, <<"@", "identifier", "(", "expressions", ")">>),
         LAMBDA v : [name |-> v[1], args |-> v[2]])

RECURSIVE ParseType(_, _)
ParseType(T, r) ==
  LET const == IsAt(T, r, "const")
      c == IF const THEN Consume(T, r, "const") ELSE r
      form == IF IsAt(T, c, "ptr") \/ IsAt(T, c, "array") THEN Current(T, c).kind ELSE "named"
      type(name, inner) == [const |-> const, form |-> form, name |-> name, inner |-> inner]
  IN IF ~Ok(r) THEN r
     ELSE IF form = "named" THEN Shaped(Text(T, c, "identifier"), LAMBDA s : type(s, <<>>))
     ELSE Shaped(Consume(T, ParseType(T, Consume(T, Consume(T, c, form), "<")), ">"),
                 LAMBDA t : type(<<>>, <<t>>))

Direction(T, r) ==
  LET dir == Current(T, r).kind
  IN Made(Advance(Unless(r, dir \notin {"in", "out", "inout"}, "error"), 1), dir)

ParseParameter(T, r) ==
  Shaped(Sequence(T, r, <<"annotations", "direction", "type", "identifier">>),
         LAMBDA v : [notes |-> v[1], dir |-> v[2], type |-> v[3], name |-> v[4]])

ParseField(T, r) ==
  Shaped(Sequence(T, r, <<"type", "identifier", ";">>), LAMBDA v : [type |-> v[1], name |-> v[2]])

ParseStruct(T, r) ==
  Shaped(Sequence(T, r, <<"struct", "identifier", "{", "fields", "}", ";">>),
         LAMBDA v : [name |-> v[1], fields |-> v[2]])

ParseBits(T, r) ==
  Shaped(Sequence(T, r, <<"identifier", ":", "number", ";">>),
         LAMBDA v : [name |-> v[1], bits |-> v[2]])

ParseBitfield(T, r) ==
  Shaped(Sequence(T, r, <<"bitfield", "<", "type", ">", "identifier", "{", "bits", "}", ";">>),
         LAMBDA v : [name |-> v[2], base |-> v[1], fields |-> v[3]])

\* The annotations of an enum's members are parsed and forgotten.
ParseMemberBare(T, r) ==
  Shaped(Sequence(T, r, <<"annotations", "identifier", "=", "number">>),
         LAMBDA v : [notes |-> <<>>, name |-> v[2], value |-> v[3]])

ParseMember(T, r) ==
  Shaped(Sequence(T, r, <<"annotations", "identifier", "=", "number">>),
         LAMBDA v : [notes |-> v[1], name |-> v[2], value |-> v[3]])

ParseEnum(T, r) ==
  Shaped(Sequence(T, r, <<"enum", "<", "type", ">", "identifier", "{", "members", "}", ";">>),
         LAMBDA v : [name |-> v[2], base |-> v[1], members |-> v[3]])

ParseFunction(T, r) ==
  Shaped(Sequence(T, r, <<"function", "identifier", "(", "parameters", ")", ";">>),
         LAMBDA v : [name |-> v[1], parameters |-> v[2]])

(***************************************************************************)
(* Revisions.  The loop's value is the revision so far, the annotations     *)
(* that wait for a declaration, and the next function id.                   *)
(***************************************************************************)
NoRevision(version) ==
  [version |-> version, bitfields |-> <<>>, enums |-> <<>>, structs |-> <<>>, functions |-> <<>>]

Kinds == {"bitfield", "enum", "struct", "function"}

ParseDeclaration(T, r, kind) ==
  CASE kind = "bitfield" -> ParseBitfield(T, r)
    [] kind = "enum" -> ParseEnum(T, r)
    [] kind = "struct" -> ParseStruct(T, r)
    [] kind = "function" -> ParseFunction(T, r)

ListOf(kind) ==
  CASE kind = "bitfield" -> "bitfields" [] kind = "enum" -> "enums"
    [] kind = "struct" -> "structs" [] kind = "function" -> "functions"

\* Annotations stay with the parser after a declaration has taken them.
AttachAndKeep(s, kind, decl) ==
  [rev |-> [s.rev EXCEPT ![ListOf(kind)] =
              Append(@, [notes |-> s.notes, id |-> IF kind = "function" THEN s.next ELSE 0,
                         decl |-> decl])],
   notes |-> s.notes,
   next |-> IF kind = "function" THEN s.next + 1 ELSE s.next]

(* A declaration joins the others of its kind, with the annotations that    *)
(* waited for it.                                                           *)
Attach(s, kind, decl) ==
  [rev |-> [s.rev EXCEPT ![ListOf(kind)] =
              Append(@, [notes |-> s.notes, id |-> IF kind = "function" THEN s.next ELSE 0,
                         decl |-> decl])],
   notes |-> <<>>,
   next |-> IF kind = "function" THEN s.next + 1 ELSE s.next]

ParseElement(T, r) ==
  LET kind == Current(T, r).kind
  IN IF kind = "@"
     THEN Shaped(ParseAnnotation(T, r), LAMBDA note : [r.v EXCEPT !.notes = Append(@, note)])
     ELSE IF kind \in Kinds
     THEN Shaped(ParseDeclaration(T, r, kind), LAMBDA decl : Attach(r.v, kind, decl))
     ELSE Stop(r, "error")

(* Annotations no declaration follows are dropped.                          *)
ParseRevision(T, r, next) ==
  LET start == Shaped(Sequence(T, r, <<"abirevision", "number", "{">>),
                      LAMBDA v : [rev |-> NoRevision(v[1]), notes |-> <<>>, next |-> next])
  IN Consume(T, While(T, start, "elements"), "}")

(* append_abiversion_or_throw.                                              *)
Appended(s, rev) ==
  Shaped(Unless(rev, Ok(rev) /\ rev.v.rev.version # s.first + Len(s.revisions), "error"),
         LAMBDA v : [first |-> s.first, revisions |-> Append(s.revisions, v.rev), next |-> v.next])

AppendRevision(T, r) == Appended(r.v, ParseRevision(T, r, r.v.next))

(* The whole of parse(); what follows the last brace is never looked at.    *)
ParseInterface(T, firstRevision, firstId) ==
  LET head == Sequence(T, Started, <<"annotations", "interface", "identifier", "{">>)
      start == Made(head, [first |-> firstRevision, revisions |-> <<>>, next |-> firstId])
  IN Shaped(Consume(T, While(T, start, "revisions"), "}"),
            LAMBDA v : [name |-> head.v[2], notes |-> head.v[1], revisions |-> v.revisions])

(* The conditions and bodies of the loops.                                  *)
Continues(T, r, loop) ==
  CASE loop = "annotations" -> IsAt(T, r, "@")
    [] loop \in {"expressions", "parameters"} -> ~IsAt(T, r, ")")
    [] OTHER -> ~IsAt(T, r, "}")

Round(T, r, loop) ==
  CASE loop = "annotations" -> Collected(r, ParseAnnotation(T, r))
    [] loop = "expressions" -> Listed(T, r, ParseExpression(T, r), ")")
    [] loop = "parameters" -> Listed(T, r, ParseParameter(T, r), ")")
    [] loop = "fields" -> Collected(r, ParseField(T, r))
    [] loop = "bits" -> Collected(r, ParseBits(T, r))
    [] loop = "members" -> Listed(T, r, ParseMember(T, r), "}")
    [] loop = "elements" -> ParseElement(T, r)
    [] loop = "revisions" -> AppendRevision(T, r)

While(T, r, loop) ==
  IF Ok(r) /\ Continues(T, r, loop) THEN While(T, Round(T, r, loop), loop) ELSE r

(* A part makes a value, a token none.                                      *)
Loops == {"annotations", "expressions", "parameters", "fields", "bits", "members"}

Part(T, r, part) ==
  CASE part = "type" -> ParseType(T, r)
    [] part = "number" -> Number(T, r)
    [] part = "identifier" -> Text(T, r, "identifier")
    [] part = "direction" -> Direction(T, r)
    [] part \in Loops -> While(T, Made(r, <<>>), part)

All(T, r, parts) ==
  IF ~Ok(r) \/ parts = <<>> THEN r
  ELSE LET part == Head(parts)
           makes == part \in Loops \cup {"type", "number", "identifier", "direction"}
       IN All(T, IF makes THEN Collected(r, Part(T, r, part)) ELSE Consume(T, r, part), Tail(parts))

(***************************************************************************)
(* normalize_interface_metadata: exactly one @uuid and one @prefix, of      *)
(* string arguments; the other annotations stay.                            *)
(***************************************************************************)
AllStrings(note, n) == Len(note.args) = n /\ \A i \in 1 .. n : note.args[i].kind = "string"

IdentityNotes(notes, name) == SelectSeq(notes, LAMBDA note : note.name = name)

\* The identity stays among the annotations it was read from.
AllNotes(notes) == notes

OtherNotes(notes) == SelectSeq(notes, LAMBDA note : note.name \notin {Uuid, Prefix})

Normalize(r) ==
  LET uuid == IdentityNotes(r.v.notes, Uuid)
      prefix == IdentityNotes(r.v.notes, Prefix)
  IN IF ~Ok(r) THEN r
     ELSE IF ~ /\ Len(uuid) = 1 /\ AllStrings(uuid[1], 2) /\ uuid[1].args[1].value \in DOMAIN Spelling
               /\ Len(prefix) = 1 /\ AllStrings(prefix[1], 1)
     THEN Stop(r, "error")
     ELSE Made(r, [name |-> r.v.name,
                   uuid |-> <<Spelling[uuid[1].args[1].value], uuid[1].args[2].value>>,
                   prefix |-> prefix[1].args[1].value,
                   notes |-> OtherNotes(r.v.notes),
                   revisions |-> r.v.revisions])

(***************************************************************************)
(* sif_decompile.                                                           *)
(***************************************************************************)
CommaSeparated(parts) ==
  FlattenSeq([i \in DOMAIN parts |->
                IF i < Len(parts) THEN Append(parts[i], Word(",")) ELSE parts[i]])

Each(Op(_), s) == FlattenSeq([i \in DOMAIN s |-> Op(s[i])])

DecompileExpression(e) == <<[kind |-> e.kind, text |-> e.value]>>

DecompileAnnotation(note) ==
  <<Word("@"), Id(note.name), Word("(")>>
    \o CommaSeparated([i \in DOMAIN note.args |-> DecompileExpression(note.args[i])])
    \o <<Word(")")>>

DecompileAnnotations(notes) == Each(DecompileAnnotation, notes)

\* const is printed in front of named types only.
RECURSIVE DecompileTypeNamedConst(_)
DecompileTypeNamedConst(t) ==
  IF t.form = "named" THEN (IF t.const THEN <<Word("const")>> ELSE <<>>) \o <<Id(t.name)>>
  ELSE <<Word(t.form), Word("<")>> \o DecompileTypeNamedConst(t.inner[1]) \o <<Word(">")>>

RECURSIVE DecompileType(_)
DecompileType(t) ==
  (IF t.const THEN <<Word("const")>> ELSE <<>>)
    \o (IF t.form = "named" THEN <<Id(t.name)>>
        ELSE <<Word(t.form), Word("<")>> \o DecompileType(t.inner[1]) \o <<Word(">")>>)

DecompileStruct(d) ==
  <<Word("struct"), Id(d.name), Word("{")>>
    \o Each(LAMBDA f : DecompileType(f.type) \o <<Id(f.name), Word(";")>>, d.fields)
    \o <<Word("}"), Word(";")>>

BaseAndName(keyword, d) ==
  <<Word(keyword), Word("<")>> \o DecompileType(d.base) \o <<Word(">"), Id(d.name), Word("{")>>

DecompileBitfield(d) ==
  BaseAndName("bitfield", d)
    \o Each(LAMBDA f : <<Id(f.name), Word(":"), Num(f.bits), Word(";")>>, d.fields)
    \o <<Word("}"), Word(";")>>

DecompileMember(m) == DecompileAnnotations(m.notes) \o <<Id(m.name), Word("="), Num(m.value)>>

DecompileEnum(d) ==
  BaseAndName("enum", d)
    \o CommaSeparated([i \in DOMAIN d.members |-> DecompileMember(d.members[i])])
    \o <<Word("}"), Word(";")>>

DecompileParameter(p) ==
  DecompileAnnotations(p.notes) \o <<Word(p.dir)>> \o DecompileType(p.type) \o <<Id(p.name)>>

DecompileFunction(d) ==
  <<Word("function"), Id(d.name), Word("(")>>
    \o CommaSeparated([i \in DOMAIN d.parameters |-> DecompileParameter(d.parameters[i])])
    \o <<Word(")"), Word(";")>>

DecompileDeclaration(kind, d) ==
  CASE kind = "bitfield" -> DecompileBitfield(d)
    [] kind = "enum" -> DecompileEnum(d)
    [] kind = "struct" -> DecompileStruct(d)
    [] kind = "function" -> DecompileFunction(d)

\* Annotations are printed behind the declaration they belong to.
DecompileKindNotesLast(kind, items) ==
  Each(LAMBDA x : DecompileDeclaration(kind, x.decl) \o DecompileAnnotations(x.notes), items)

DecompileKind(kind, items) ==
  Each(LAMBDA x : DecompileAnnotations(x.notes) \o DecompileDeclaration(kind, x.decl), items)

DecompileRevision(rev) ==
  <<Word("abirevision"), Num(rev.version), Word("{")>>
    \o DecompileKind("bitfield", rev.bitfields) \o DecompileKind("enum", rev.enums)
    \o DecompileKind("struct", rev.structs) \o DecompileKind("function", rev.functions)
    \o <<Word("}")>>

Decompile(tree) ==
  LET strings(ss) == [i \in DOMAIN ss |-> [kind |-> "string", value |-> ss[i]]]
  IN DecompileAnnotations(<<[name |-> Uuid, args |-> strings(tree.uuid)],
                            [name |-> Prefix, args |-> strings(<<tree.prefix>>)]>>)
       \o DecompileAnnotations(tree.notes)
       \o <<Word("interface"), Id(tree.name), Word("{")>>
       \o Each(DecompileRevision, tree.revisions)
       \o <<Word("}")>>
=============================================================================
