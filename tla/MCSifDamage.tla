---------------------------- MODULE MCSifDamage -----------------------------
(* A declaration of every kind, alone and together, and two revisions in a  *)
(* row.  Names have 0, 1, 3, 4 and 5 characters, the cases of padding.      *)
EXTENDS SifDamage

Expr(kind, value) == [kind |-> kind, value |-> value]
Note(name, args) == [name |-> name, args |-> args]
N1 == Note(<<3>>, <<Expr("number", <<2>>), Expr("string", <<>>), Expr("identifier", <<1, 2, 3>>)>>)
N2 == Note(<<2, 2, 2, 2>>, <<>>)

Type(const, form, name, inner) == [const |-> const, form |-> form, name |-> name, inner |-> inner]
U8 == Type(FALSE, "named", <<1>>, <<>>)
Nested == Type(TRUE, "ptr", <<>>, <<Type(FALSE, "array", <<>>, <<Type(TRUE, "named", <<1>>, <<>>)>>)>>)

Item(notes, id, decl) == [notes |-> notes, id |-> id, decl |-> decl]
Field(type, name) == [type |-> type, name |-> name]
Struct == Item(<<N2>>, 0, [name |-> <<1, 1, 1>>, fields |-> <<Field(Nested, <<1>>), Field(U8, <<>>)>>])
Bits == Item(<<>>, 0, [name |-> <<1, 2>>, base |-> U8,
                       fields |-> <<[name |-> <<1>>, bits |-> 3], [name |-> <<3>>, bits |-> 70]>>])
Enum == Item(<<N1>>, 0, [name |-> <<0, 1, 2, 3, 0>>, base |-> U8,
                         members |-> <<[notes |-> <<N2>>, name |-> <<1>>, value |-> 0],
                                       [notes |-> <<>>, name |-> <<2>>, value |-> 1]>>])
Parameter(notes, dir, type, name) == [notes |-> notes, dir |-> dir, type |-> type, name |-> name]
Function(id) ==
  Item(<<>>, id, [name |-> <<2>>, parameters |-> <<Parameter(<<N2>>, "inout", Nested, <<1>>),
                                                   Parameter(<<>>, "in", U8, <<3>>)>>])
Simple(id) == Item(<<>>, id, [name |-> <<>>, parameters |-> <<>>])

Rev(v, bitfields, enums, structs, functions) ==
  [version |-> v, notes |-> <<>>, bitfields |-> bitfields, enums |-> enums,
   structs |-> structs, functions |-> functions]

OnceDamaged ==
  {<<Rev(0, <<Bits>>, <<>>, <<>>, <<>>)>>, <<Rev(0, <<>>, <<Enum>>, <<>>, <<>>)>>,
   <<Rev(0, <<>>, <<>>, <<Struct>>, <<>>)>>, <<Rev(0, <<>>, <<>>, <<>>, <<Function(0)>>)>>,
   <<Rev(0, <<Bits, Bits>>, <<Enum>>, <<Struct>>, <<Simple(0), Function(1)>>)>>,
   <<Rev(0, <<>>, <<>>, <<>>, <<Simple(0)>>), Rev(1, <<>>, <<>>, <<>>, <<Simple(1)>>)>>}
Brief ==
  Item(<<>>, 0, [name |-> <<>>,
                 parameters |-> <<Parameter(<<>>, "in", Type(TRUE, "ptr", <<>>, <<U8>>), <<>>)>>])
Short == <<Rev(0, <<>>, <<>>, <<>>, <<Brief>>)>>

MCHistories == OnceDamaged \cup {Short}
MCDamage == [h \in MCHistories |-> IF h = Short THEN 2 ELSE 1]
=============================================================================
