----------------------------- MODULE SifLayout ------------------------------
(***************************************************************************)
(* The bytes of a revision in a SIF artifact: what write_revision_tree and  *)
(* its helpers write (lang/sif.cc, BinaryWriter) and what                   *)
(* read_revision_tree makes of any bytes (BinaryReader).  Trees are those   *)
(* of SidlSyntax, with the annotations of the revision itself.              *)
(*                                                                          *)
(* Module Sif takes for granted that a tree which changes on disk is either *)
(* unreadable or reads as a tree with another digest.  The digest is taken  *)
(* of a tree written anew, not of the bytes that were read, so this is a    *)
(* fact about the layout; SifDamage checks it.                              *)
(***************************************************************************)
EXTENDS Scan

CONSTANT ByteBase   \* bound: values of a byte; 256 in the code

ASSUME BytesHoldTags == ByteBase \in Nat /\ ByteBase > 3

(***************************************************************************)
(* BinaryWriter.                                                            *)
(***************************************************************************)
Little(n, size) == [i \in 1 .. size |-> (n \div ByteBase ^ (i - 1)) % ByteBase]

U32(n) == Little(n, 4)
U64(n) == Little(n, 8)

Padding(size) == [i \in 1 .. (4 - (size % 4)) % 4 |-> 0]

String(s) == U32(Len(s)) \o s \o Padding(Len(s))

Counted(Write(_), items) == U32(Len(items)) \o FlattenSeq([i \in DOMAIN items |-> Write(items[i])])

Numeral(table, x) == CHOOSE n \in DOMAIN table : table[n] = x

ExprKinds == <<"string", "number", "identifier">>
TypeForms == <<"named", "ptr", "array">>
Directions == <<"in", "out", "inout">>

WriteExpression(e) ==
  <<Numeral(ExprKinds, e.kind)>> \o (IF e.kind = "number" THEN U64(e.value[1]) ELSE String(e.value))

WriteAnnotation(note) == String(note.name) \o Counted(WriteExpression, note.args)

WriteAnnotations(notes) == Counted(WriteAnnotation, notes)

RECURSIVE WriteTypeNamedConst(_)   \* const is kept of named types only
WriteTypeNamedConst(t) ==
  <<IF t.const /\ t.form = "named" THEN 1 ELSE 0, Numeral(TypeForms, t.form)>>
    \o (IF t.form = "named" THEN String(t.name) ELSE WriteTypeNamedConst(t.inner[1]))

RECURSIVE WriteType(_)
WriteType(t) ==
  <<IF t.const THEN 1 ELSE 0, Numeral(TypeForms, t.form)>>
    \o (IF t.form = "named" THEN String(t.name) ELSE WriteType(t.inner[1]))

WriteParameter(p) ==
  <<Numeral(Directions, p.dir) - 1>> \o WriteAnnotations(p.notes) \o WriteType(p.type)
    \o String(p.name)

WriteFunction(f) ==
  U32(f.id) \o String(f.decl.name) \o WriteAnnotations(f.notes)
    \o Counted(WriteParameter, f.decl.parameters)

WriteField(f) == WriteType(f.type) \o String(f.name)

WriteStruct(s) ==
  String(s.decl.name) \o WriteAnnotations(s.notes) \o Counted(WriteField, s.decl.fields)

WriteBits(f) == String(f.name) \o U64(f.bits)

WriteBitfield(b) ==
  String(b.decl.name) \o WriteAnnotations(b.notes) \o WriteType(b.decl.base)
    \o Counted(WriteBits, b.decl.fields)

WriteMember(m) == String(m.name) \o U64(m.value) \o WriteAnnotations(m.notes)

WriteEnum(e) ==
  String(e.decl.name) \o WriteAnnotations(e.notes) \o WriteType(e.decl.base)
    \o Counted(WriteMember, e.decl.members)

\* Structs are written in front of the enums they may use.
WriteTreeStructsFirst(rev, prev) ==
  U64(rev.version) \o prev \o WriteAnnotations(rev.notes)
    \o Counted(WriteBitfield, rev.bitfields) \o Counted(WriteStruct, rev.structs)
    \o Counted(WriteEnum, rev.enums) \o Counted(WriteFunction, rev.functions)

WriteTree(rev, prev) ==
  U64(rev.version) \o prev \o WriteAnnotations(rev.notes)
    \o Counted(WriteBitfield, rev.bitfields) \o Counted(WriteEnum, rev.enums)
    \o Counted(WriteStruct, rev.structs) \o Counted(WriteFunction, rev.functions)

(***************************************************************************)
(* BinaryReader.                                                            *)
(***************************************************************************)
ReadBytes(B, r, n) ==
  LET ends == r.at + n - 1 > Len(B)
  IN Advance(Made(Unless(r, ends, "error"), IF ends THEN <<>> ELSE SubSeq(B, r.at, r.at + n - 1)), n)

ReadByte(B, r) == Shaped(ReadBytes(B, r, 1), LAMBDA b : b[1])

ReadLittle(B, r, n) ==
  Shaped(ReadBytes(B, r, n), LAMBDA b : FoldRight(LAMBDA x, rest : x + ByteBase * rest, b, 0))

ReadU32(B, r) == ReadLittle(B, r, 4)
ReadU64(B, r) == ReadLittle(B, r, 8)

\* The bytes that fill up a string are skipped unseen.
ReadStringAnyPadding(B, r) ==
  LET size == ReadU32(B, r)
      s == ReadBytes(B, size, size.v)
  IN IF ~Ok(size) \/ ~Ok(s) THEN Stop(s, "error")
     ELSE Made(ReadBytes(B, s, Len(Padding(size.v))), s.v)

ReadString(B, r) ==
  LET size == ReadU32(B, r)
      s == ReadBytes(B, size, size.v)
      pad == ReadBytes(B, s, Len(Padding(size.v)))
  IN IF ~Ok(size) THEN size
     ELSE IF ~Ok(s) THEN s
     ELSE Made(Unless(pad, pad.v # Padding(size.v), "error"), s.v)

RECURSIVE All(_, _, _)   \* a sequence of parts, by name, below

Sequence(B, r, parts) == All(B, Made(r, <<>>), parts)

(* A count, and so many of a part.                                          *)
ReadCounted(B, r, part) ==
  LET n == ReadU32(B, r) IN IF Ok(n) THEN Sequence(B, n, [i \in 1 .. n.v |-> part]) ELSE n

(* One of a table's values, or the error the switch over it ends in.        *)
OneOf(r, table, n) ==
  IF ~Ok(r) THEN r
  ELSE IF n \in DOMAIN table THEN Made(r, table[n]) ELSE Stop(r, "error")

ReadExpression(B, r) ==
  LET tag == ReadByte(B, r)
      kind == OneOf(tag, ExprKinds, tag.v)
      value == IF kind.v = "number" THEN Shaped(ReadU64(B, kind), LAMBDA n : <<n>>)
               ELSE ReadString(B, kind)
  IN IF Ok(kind) THEN Shaped(value, LAMBDA v : [kind |-> kind.v, value |-> v]) ELSE kind

ReadAnnotation(B, r) ==
  Shaped(Sequence(B, r, <<"string", "expressions">>), LAMBDA v : [name |-> v[1], args |-> v[2]])

RECURSIVE ReadType(_, _)
ReadType(B, r) ==
  LET const == ReadByte(B, r)
      tag == ReadByte(B, const)
      form == OneOf(tag, TypeForms, tag.v)
      type(name, inner) ==
        [const |-> const.v # 0, form |-> form.v, name |-> name, inner |-> inner]
  IN IF ~Ok(form) THEN form
     ELSE IF form.v = "named" THEN Shaped(ReadString(B, form), LAMBDA s : type(s, <<>>))
     ELSE Shaped(ReadType(B, form), LAMBDA t : type(<<>>, <<t>>))

ReadDirection(B, r) ==
  LET tag == ReadByte(B, r) IN OneOf(tag, Directions, IF Ok(tag) THEN tag.v + 1 ELSE 0)

ReadParameter(B, r) ==
  Shaped(Sequence(B, r, <<"direction", "annotations", "type", "string">>),
         LAMBDA v : [notes |-> v[2], dir |-> v[1], type |-> v[3], name |-> v[4]])

ReadFunction(B, r) ==
  Shaped(Sequence(B, r, <<"u32", "string", "annotations", "parameters">>),
         LAMBDA v : [notes |-> v[3], id |-> v[1], decl |-> [name |-> v[2], parameters |-> v[4]]])

ReadField(B, r) ==
  Shaped(Sequence(B, r, <<"type", "string">>), LAMBDA v : [type |-> v[1], name |-> v[2]])

ReadStruct(B, r) ==
  Shaped(Sequence(B, r, <<"string", "annotations", "fields">>),
         LAMBDA v : [notes |-> v[2], id |-> 0, decl |-> [name |-> v[1], fields |-> v[3]]])

ReadBits(B, r) ==
  Shaped(Sequence(B, r, <<"string", "u64">>), LAMBDA v : [name |-> v[1], bits |-> v[2]])

ReadBitfield(B, r) ==
  Shaped(Sequence(B, r, <<"string", "annotations", "type", "bits">>),
         LAMBDA v : [notes |-> v[2], id |-> 0,
                     decl |-> [name |-> v[1], base |-> v[3], fields |-> v[4]]])

ReadMember(B, r) ==
  Shaped(Sequence(B, r, <<"string", "u64", "annotations">>),
         LAMBDA v : [notes |-> v[3], name |-> v[1], value |-> v[2]])

ReadEnum(B, r) ==
  Shaped(Sequence(B, r, <<"string", "annotations", "type", "members">>),
         LAMBDA v : [notes |-> v[2], id |-> 0,
                     decl |-> [name |-> v[1], base |-> v[3], members |-> v[4]]])

(* What each list is a list of.                                             *)
ItemOf ==
  [annotations |-> "annotation", expressions |-> "expression", parameters |-> "parameter",
   fields |-> "field", bits |-> "bit", members |-> "member", bitfields |-> "bitfield",
   enums |-> "enum", structs |-> "struct", functions |-> "function"]

Part(B, r, part) ==
  CASE part = "u32" -> ReadU32(B, r)
    [] part = "u64" -> ReadU64(B, r)
    [] part = "string" -> ReadString(B, r)
    [] part = "type" -> ReadType(B, r)
    [] part = "direction" -> ReadDirection(B, r)
    [] part = "annotation" -> ReadAnnotation(B, r)
    [] part = "expression" -> ReadExpression(B, r)
    [] part = "parameter" -> ReadParameter(B, r)
    [] part = "field" -> ReadField(B, r)
    [] part = "bit" -> ReadBits(B, r)
    [] part = "member" -> ReadMember(B, r)
    [] part = "bitfield" -> ReadBitfield(B, r)
    [] part = "enum" -> ReadEnum(B, r)
    [] part = "struct" -> ReadStruct(B, r)
    [] part = "function" -> ReadFunction(B, r)
    [] part \in DOMAIN ItemOf -> ReadCounted(B, r, ItemOf[part])

All(B, r, parts) ==
  IF ~Ok(r) \/ parts = <<>> THEN r
  ELSE All(B, Collected(r, Part(B, r, Head(parts))), Tail(parts))

(* The tree of revision `version' that follows `prev', if its digest is the *)
(* one in the table; here the digest of a tree is the tree written out.     *)
Verified(r, rev, prev, digest) ==
  Made(Unless(r, Ok(r) /\ WriteTree(rev, prev) # digest, "error"), rev)

ReadTree(B, r, version, prev, digest) ==
  LET number == ReadU64(B, r)
      stored == ReadBytes(B, number, Len(prev))
      checked == Unless(stored, number.v # version \/ stored.v # prev, "error")
      rest == Sequence(B, checked, <<"annotations", "bitfields", "enums", "structs", "functions">>)
      tree(v) == [version |-> version, notes |-> v[1], bitfields |-> v[2], enums |-> v[3],
                  structs |-> v[4], functions |-> v[5]]
  IN Verified(rest, tree(rest.v), prev, digest)
=============================================================================
