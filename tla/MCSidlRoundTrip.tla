-------------------------- MODULE MCSidlRoundTrip ---------------------------
(* A declaration of every kind with everything it can contain, one without, *)
(* and heads that are well formed, in another order, or lack the identity.  *)
EXTENDS SidlRoundTrip

MCUuid == <<1>>
MCPrefix == <<2>>
MCSpelling == (<<3>> :> <<3>>) @@ (<<4>> :> <<3>>)

Expr(kind, value) == [kind |-> kind, value |-> value]
Note(name, args) == [name |-> name, args |-> args]
MCNote == Note(<<5>>, <<Expr("number", <<7>>), Expr("string", <<6, 6>>), Expr("identifier", <<5>>)>>)

UuidNote(spelling) == Note(MCUuid, <<Expr("string", spelling), Expr("string", <<8>>)>>)
PrefixNote == Note(MCPrefix, <<Expr("string", <<8, 8>>)>>)

MCHeads ==
  {<<UuidNote(<<3>>), PrefixNote>>, <<MCNote, PrefixNote, MCNote, UuidNote(<<4>>)>>,
   <<UuidNote(<<5>>), PrefixNote>>, <<UuidNote(<<3>>), PrefixNote, UuidNote(<<3>>)>>}
GoodHead == {<<UuidNote(<<4>>), PrefixNote>>}

Type(const, form, name, inner) == [const |-> const, form |-> form, name |-> name, inner |-> inner]
U32 == Type(FALSE, "named", <<10>>, <<>>)
ConstPtr == Type(TRUE, "ptr", <<>>, <<Type(FALSE, "array", <<>>, <<Type(TRUE, "named", <<10>>, <<>>)>>)>>)
Field(type, name) == [type |-> type, name |-> name]
Parameter(notes, dir, type, name) == [notes |-> notes, dir |-> dir, type |-> type, name |-> name]

Decl(kind, decl) == [kind |-> kind, decl |-> decl]
Struct == Decl("struct", [name |-> <<11>>, fields |-> <<Field(ConstPtr, <<12>>), Field(U32, <<13>>)>>])
Bits == Decl("bitfield", [name |-> <<14>>, base |-> U32,
                          fields |-> <<[name |-> <<12>>, bits |-> 3], [name |-> <<13>>, bits |-> 0]>>])
Enum == Decl("enum", [name |-> <<15>>, base |-> U32,
                      members |-> <<[notes |-> <<MCNote>>, name |-> <<12>>, value |-> 0],
                                    [notes |-> <<>>, name |-> <<13>>, value |-> 9]>>])
Function == Decl("function", [name |-> <<16>>,
                              parameters |-> <<Parameter(<<MCNote>>, "in", ConstPtr, <<12>>),
                                               Parameter(<<>>, "out", U32, <<13>>)>>])
NoFields == Decl("struct", [name |-> <<17>>, fields |-> <<>>])
NoParameters == Decl("function", [name |-> <<18>>, parameters |-> <<>>])

Full == {Struct, Bits, Enum, Function, NoParameters}
Small == {NoFields, NoParameters, Bits, Decl("enum", [name |-> <<15>>, base |-> U32, members |-> <<>>])}

(* Every order of small declarations, and slips in larger ones.             *)
MCDrafts ==
  {[declarations |-> Small, notes |-> {<<>>, <<Note(<<5>>, <<>>)>>}, heads |-> MCHeads,
    length |-> 3, slips |-> 0],
   [declarations |-> Full, notes |-> {<<Note(<<5>>, <<>>)>>}, heads |-> GoodHead,
    length |-> 2, slips |-> 1]}
MCStrays == {Word(","), Word("}"), Word("const"), [kind |-> "number", text |-> <<>>]}
=============================================================================
