--------------------------- MODULE MCSidlCompile ----------------------------
(* A small workspace for SidlCompile: one interface with a second identity  *)
(* that differs in its name, sources that declare it whole, in parts, with  *)
(* other declarations, misnumbered, malformed and empty.                    *)
EXTENDS SidlCompileInv
LOCAL INSTANCE TLC

Id(name, uuid, prefix) ==
  [name |-> name, uuid |-> uuid, prefix |-> prefix, notes |-> "n"]
Stream == Id("Stream", "u1", "St")

MCIdents == {Stream, Id("Strm", "u1", "St"), Id("Stream", "u2", "St"),
             Id("Stream", Malformed, "St")}

Rev(v, b, names) == [version |-> v, body |-> b, names |-> names]
Iface(ident, revs) == [ident |-> ident, revs |-> revs]

First == Rev(0, "b0", <<"f", "g">>)
Second == Rev(1, "b0", <<"h">>)

MCText(s) ==
  CASE s = "first" -> Iface(Stream, <<First>>)
    [] s = "second" -> Iface(Stream, <<Second>>)
    [] s = "both" -> Iface(Stream, <<First, Second>>)
    [] s = "other" -> Iface(Stream, <<Rev(1, "b1", <<>>), Rev(2, "b0", <<"h">>)>>)
    [] s = "redrawn" -> Iface(Stream, <<Rev(0, "b1", <<"f", "g">>)>>)
    [] s = "renamed" -> Iface(Id("Strm", "u1", "St"), <<Second>>)
    [] s = "foreign" -> Iface(Id("Stream", "u2", "St"), <<First>>)
    [] s = "nouuid" -> Iface(Id("Stream", Malformed, "St"), <<First>>)
    [] s = "torn" -> Iface(Stream, <<First, Rev(1, Malformed, <<>>)>>)
    [] s = "empty" -> Iface(Stream, <<>>)

MCSources == {"first", "second", "both", "other", "renamed", "foreign", "nouuid",
              "torn", "empty"}

(* Two histories that part at their first revision, an extension of both,   *)
(* and sources that fail in every stage.                                    *)
LiveSources == {"first", "redrawn", "second", "torn", "empty"}

(* Nothing tells one artifact file from another.                            *)
Symmetry == Permutations(Paths)
=============================================================================
