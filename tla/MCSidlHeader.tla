---------------------------- MODULE MCSidlHeader ----------------------------
(* Two revisions of declarations of every kind that use each other; and     *)
(* bitfields of all shapes over a word of four bits.                        *)
EXTENDS SidlHeader

MCNames == {"b", "e", "s", "t", "f", "g"}

Decl(kind, name, uses, widths) == [kind |-> kind, name |-> name, uses |-> uses, widths |-> widths]

Widths == UNION {[1 .. n -> 0 .. 3] : n \in 0 .. 3}
Shapes == {<<<<Decl("bitfield", "b", {}, w)>>>> : w \in Widths}

Written ==
  {Decl("bitfield", "b", {}, <<1, 2>>), Decl("enum", "e", {}, <<>>), Decl("enum", "e", {"b"}, <<>>),
   Decl("struct", "s", {"b", "e"}, <<>>), Decl("struct", "t", {"s"}, <<>>),
   Decl("function", "f", {"s", "e"}, <<>>), Decl("function", "g", {"t"}, <<>>)}
Revisions == UNION {[1 .. n -> Written] : n \in 0 .. 3}

MCHistories == Shapes \cup {<<r>> : r \in Revisions}
                 \cup {<<r, <<d>>>> : r \in Revisions, d \in Written}

ASSUME InputsAreProvedAbout == Histories = MCHistories => KindsNest /\ Narrow

(* A bitfield over an enum written above it.                                *)
EnumUnderBitfield ==
  {<<<<Decl("enum", "e", {}, <<>>), Decl("bitfield", "b", {"e"}, <<1>>)>>>>}

(* A bitfield whose one member is as wide as the word.                      *)
WholeWord == {<<<<Decl("bitfield", "b", {}, <<4>>)>>>>}
=============================================================================
