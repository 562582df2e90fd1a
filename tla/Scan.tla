-------------------------------- MODULE Scan --------------------------------
(***************************************************************************)
(* Reading a sequence from the front, the way the parser reads tokens and   *)
(* BinaryReader reads bytes: every step takes what earlier steps have left, *)
(* and the first failure ends the whole reading, as an exception does.      *)
(*                                                                          *)
(* A reading is a record: st is "ok", "error" (std::runtime_error, caught   *)
(* and reported) or "abort" (any other exception, caught by nobody); at is  *)
(* the next position; v is what the last step made.                         *)
(***************************************************************************)
EXTENDS Naturals, SequencesExt

Started == [st |-> "ok", at |-> 1, v |-> <<>>]

Ok(r) == r.st = "ok"

(* A later failure does not replace an earlier one.                         *)
Stop(r, how) == IF Ok(r) THEN [r EXCEPT !.st = how] ELSE r

Unless(r, bad, how) == IF Ok(r) /\ bad THEN [r EXCEPT !.st = how] ELSE r

Made(r, v) == IF Ok(r) THEN [r EXCEPT !.v = v] ELSE r

Advance(r, n) == IF Ok(r) THEN [r EXCEPT !.at = @ + n] ELSE r

(* A value made of the last one.                                            *)
Shaped(r, Shape(_)) == IF Ok(r) THEN [r EXCEPT !.v = Shape(r.v)] ELSE r

(* One more element in the list under construction.                         *)
Collected(r, x) == IF Ok(x) THEN [x EXCEPT !.v = Append(r.v, x.v)] ELSE x
=============================================================================
