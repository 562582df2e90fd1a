----------------------------- MODULE MCSidlCall -----------------------------
(* The x86_64 architecture, a one-function interface whose parameter lists  *)
(* are all the lists up to five parameters, and an interface extended in    *)
(* several ways, with a few lists.                                          *)
EXTENDS SidlCallInv

MCBuiltinSize == [u32 |-> 4, u64 |-> 8, handle |-> 4]

Func(name, id) == [name |-> name, id |-> id]
Node(v, funcs) == [version |-> v, body |-> "b", funcs |-> funcs]

OneFunction == {<<Node(0, <<Func("only", 0)>>)>>}

(* The lengths of a history, with a revision in the middle that declares no *)
(* function; and two independent extensions of its first revision, one of   *)
(* which reuses a name.                                                     *)
First == Node(0, <<Func("f", 0), Func("g", 1)>>)

ManyHistories ==
  {<<First>>, <<First, Node(1, <<>>)>>, <<First, Node(1, <<>>), Node(2, <<Func("h", 2)>>)>>,
   <<First, Node(1, <<Func("k", 2)>>)>>,
   <<First, Node(1, <<Func("k", 2), Func("h", 3)>>)>>}

MCInterfaces == {OneFunction, ManyHistories}
Simplest == {OneFunction}

(* A bitfield over a builtin, and an enum over that bitfield one revision   *)
(* later; a struct.                                                         *)
MCDecls ==
  <<[enums |-> <<>>, bitfields |-> <<[name |-> "Flags", base |-> "u32"]>>, structs |-> <<>>],
    [enums |-> <<[name |-> "Mode", base |-> "Flags"]>>, bitfields |-> <<>>,
     structs |-> <<[name |-> "Pair", base |-> ""]>>]>>

(* The same enum and bitfield in one revision.                              *)
SameRevisionDecls ==
  <<[enums |-> <<[name |-> "Mode", base |-> "Flags"]>>,
     bitfields |-> <<[name |-> "Flags", base |-> "u32"]>>, structs |-> <<>>]>>

Param(dir, type, ptr, array) == [dir |-> dir, type |-> type, ptr |-> ptr, array |-> array]

Scalar == Param("in", "Mode", FALSE, FALSE)
Kinds == {Scalar, Param("in", "u32", TRUE, FALSE), Param("in", "u32", FALSE, TRUE),
          Param("out", "u64", FALSE, FALSE), Param("out", "Pair", TRUE, FALSE),
          Param("inout", "Pair", FALSE, FALSE)}

(* Up to four parameters of any kind; of the five-parameter lists, which no *)
(* longer fit the slots, those without an array.                            *)
AllLists ==
  UNION {[1 .. n -> Kinds] : n \in 0 .. 4}
    \cup [1 .. 5 -> {p \in Kinds : ~p.array /\ p.dir # "inout"}]

FewLists ==
  {<<>>, <<Scalar>>, <<Param("out", "u64", FALSE, FALSE), Param("in", "u32", TRUE, FALSE)>>}

Lists(only) == [f \in {"only", "f", "g", "h", "k"} |-> IF f = "only" THEN only ELSE FewLists]

MCSignatures == Lists(AllLists)
ScalarLists == Lists(UNION {[1 .. n -> {Scalar}] : n \in 0 .. 2})
=============================================================================
