----------------------------- MODULE SidlLexer ------------------------------
(***************************************************************************)
(* Lexer (lang/lexer.cc): a text is cut into tokens, one call of            *)
(* next_token() after the other, blanks and comments between them skipped.  *)
(* Characters are strings of length one.                                    *)
(***************************************************************************)
EXTENDS Integers, SequencesExt

CONSTANTS
  Texts,      \* the sources that are read
  Keywords    \* reserved words, as texts

(* No character is the mark of the end.                                     *)
ASSUME TextAssumption == \A T \in Texts : T \in Seq(STRING) /\ "end" \notin Range(T)

VARIABLES
  text,
  cursor,     \* Lexer::pos, current_line, current_column; pos counts from 1
  token       \* Parser::current_token

vars == <<text, cursor, token>>

Digits == {"0", "1", "2", "3", "4", "5", "6", "7", "8", "9"}
HexDigits == Digits \cup {"a", "b", "c", "d", "e", "f", "A", "B", "C", "D", "E", "F"}
Letters == HexDigits \cup {"i", "n", "x", "X", "_"}   \* of words: isalnum and '_'
Blanks == {" ", "\n"}
Punctuation == {"@", "{", "}", "(", ")", "[", "]", "<", ">", ":", ";", ",", ".", "="}

(* The character at a place; the end of the file reads as the terminator.   *)
At(T, n) == IF n <= Len(T) THEN T[n] ELSE "end"

Here(T, c) == At(T, c.pos)

\* Columns go on counting over the end of a line.
AdvanceSameLine(T, c) ==
  IF Here(T, c) = "\n" THEN [pos |-> c.pos + 1, line |-> c.line + 1, column |-> c.column + 1]
  ELSE [pos |-> c.pos + 1, line |-> c.line, column |-> c.column + 1]

Advance(T, c) ==
  IF Here(T, c) = "\n" THEN [pos |-> c.pos + 1, line |-> c.line + 1, column |-> 1]
  ELSE [pos |-> c.pos + 1, line |-> c.line, column |-> c.column + 1]

(* One character after the other, to the first of some places.              *)
To(T, c, places) ==
  LET walk[n \in 0 .. Min(places) - c.pos] == IF n = 0 THEN c ELSE Advance(T, walk[n - 1])
  IN walk[Min(places) - c.pos]

(* Over characters of a set.                                                *)
Over(T, c, set) == To(T, c, {p \in c.pos .. Len(T) + 1 : At(T, p) \notin set})

(* Up to a character, or the end.                                           *)
UpTo(T, c, stop) == To(T, c, {p \in c.pos .. Len(T) + 1 : At(T, p) \in {stop, "end"}})

\* The star that opens a comment may be the one that closes it.
CommentEndAnywhere(T, c) ==
  LET closing == {p \in c.pos .. Len(T) : T[p] = "/" /\ T[p - 1] = "*"}
  IN To(T, c, {p + 1 : p \in closing} \cup {Len(T) + 1})

(* Behind the closing mark, or the end.                                     *)
CommentEnd(T, c) ==
  LET closing == {p \in c.pos .. Len(T) - 1 : T[p] = "*" /\ T[p + 1] = "/"}
  IN To(T, c, {p + 2 : p \in closing} \cup {Len(T) + 1})

(* A slash that opens no comment is skipped like a blank.                   *)
SkipOne(T, c) ==
  LET next == Advance(T, c)
  IN IF Here(T, c) \in Blanks THEN next
     ELSE IF Here(T, c) # "/" THEN c
     ELSE IF Here(T, next) = "/" THEN UpTo(T, next, "\n")
     ELSE IF Here(T, next) = "*" THEN CommentEnd(T, Advance(T, next))
     ELSE next

(* No more can be skipped, one by one, than characters are left.            *)
Skip(T, c) ==
  LET left == Len(T) + 1 - c.pos
      skipped[n \in 0 .. left] == IF n = 0 THEN c ELSE SkipOne(T, skipped[n - 1])
  IN IF left < 0 THEN c ELSE skipped[left]

(* A token from `from' up to `to', at the column of `start' and the line    *)
(* the lexer has reached.                                                   *)
TokenOf(T, kind, start, from, to, after) ==
  [token |-> [kind |-> kind, text |-> SubSeq(T, from.pos, to.pos - 1),
              line |-> after.line, column |-> start.column, at |-> start.pos],
   after |-> after]

Word(T, c) ==
  LET end == Over(T, c, Letters)
      isKeyword == SubSeq(T, c.pos, end.pos - 1) \in Keywords
  IN TokenOf(T, IF isKeyword THEN "keyword" ELSE "identifier", c, c, end, end)

(* The prefix of a hexadecimal, binary or octal number is not in its text.  *)
Number(T, c) ==
  LET next == Advance(T, c)
      prefixed(set) ==
        LET from == Advance(T, next) end == Over(T, from, set)
        IN TokenOf(T, "number", c, from, end, end)
      octal == Over(T, next, Digits)
      decimal == Over(T, c, Digits)
  IN IF Here(T, c) # "0" THEN TokenOf(T, "number", c, c, decimal, decimal)
     ELSE IF Here(T, next) \in {"x", "X"} THEN prefixed(HexDigits)
     ELSE IF Here(T, next) \in {"b", "B"} THEN prefixed({"0", "1"})
     ELSE IF Here(T, next) \in Digits THEN TokenOf(T, "number", c, next, octal, octal)
     ELSE TokenOf(T, "number", c, c, next, next)

(* With both quotes; one that is never closed goes to the end of the file,  *)
(* and the lexer one past it.                                               *)
Quoted(T, c) ==
  LET end == UpTo(T, Advance(T, c), "\"")
      after == Advance(T, end)
      to == IF Here(T, end) = "end" THEN end ELSE after
  IN TokenOf(T, "string", c, c, to, after)

\* A character of no meaning is not passed over.
MarkStays(T, c) ==
  LET known == Here(T, c) \in Punctuation
  IN TokenOf(T, IF known THEN "mark" ELSE "unknown", c, c, Advance(T, c),
             IF known THEN Advance(T, c) ELSE c)

Mark(T, c) ==
  TokenOf(T, IF Here(T, c) \in Punctuation THEN "mark" ELSE "unknown", c, c,
          Advance(T, c), Advance(T, c))

Lexed(T, cursor0) ==
  LET c == Skip(T, cursor0)
      first == Here(T, c)
  IN IF first = "end" THEN TokenOf(T, "end", c, c, c, c)
     ELSE IF first \in Letters \ Digits THEN Word(T, c)
     ELSE IF first \in Digits THEN Number(T, c)
     ELSE IF first = "\"" THEN Quoted(T, c)
     ELSE Mark(T, c)

Begin == [pos |-> 1, line |-> 1, column |-> 1]

NoToken == [kind |-> "none", text |-> <<>>, line |-> 0, column |-> 0, at |-> 0]

Init ==
  /\ text \in Texts
  /\ cursor = Begin
  /\ token = NoToken

AtEnd == token.kind = "end"

NextToken ==
  /\ ~AtEnd
  /\ cursor' = Lexed(text, cursor).after
  /\ token' = Lexed(text, cursor).token
  /\ UNCHANGED text

Finished == AtEnd /\ UNCHANGED vars

Next == NextToken \/ Finished

Spec == Init /\ [][Next]_vars

(***************************************************************************)
(* What the parser makes of a number: std::stoull reads the digits of base  *)
(* ten in front, and throws if there is none.                               *)
(***************************************************************************)
DigitValue == [d \in HexDigits |->
  CHOOSE n \in 0 .. 15 : d \in << {"0"}, {"1"}, {"2"}, {"3"}, {"4"}, {"5"}, {"6"}, {"7"}, {"8"},
    {"9"}, {"a", "A"}, {"b", "B"}, {"c", "C"}, {"d", "D"}, {"e", "E"}, {"f", "F"} >>[n + 1]]

InBase(digits, base) == FoldLeft(LAMBDA n, d : base * n + DigitValue[d], 0, digits)

Stoull(t) ==
  LET decimals == {n \in 0 .. Len(t) : \A i \in 1 .. n : t[i] \in Digits}
  IN InBase(SubSeq(t, 1, CHOOSE n \in decimals : \A m \in decimals : m <= n), 10)

Throws(t) == t = <<>> \/ t[1] \notin Digits

(***************************************************************************)
(* Properties.                                                              *)
(***************************************************************************)
Decimal[n \in Nat] ==
  LET digit(d) == CHOOSE c \in Digits : DigitValue[c] = d
  IN IF n < 10 THEN <<digit(n)>> ELSE Append(Decimal[n \div 10], digit(n % 10))

(* Every text comes to its end, with unclosed strings and comments too: no  *)
(* call returns without having passed something over, and none goes on      *)
(* behind the end, but for the one character an unclosed string costs       *)
(* (lexer.cc:16-183).                                                       *)
TextEnds ==
  [][(token'.kind # "end" => cursor'.pos > cursor.pos) /\ cursor'.pos <= Len(text) + 2]_vars

(* What the parser sees does not depend on what separates the tokens: the   *)
(* tokens printed the way decompile prints them, with any blank or comment  *)
(* in between, are the same kinds, words and values again                   *)
(* (lexer.cc:16-43, 62-153 against sif.cc:778-978).                         *)
Printed(t) == IF t.kind = "number" THEN Decimal[Stoull(t.text)] ELSE t.text

Meaning(t) ==
  [kind |-> t.kind, value |-> IF t.kind = "number" THEN Stoull(t.text) ELSE 0,
   text |-> IF t.kind = "number" THEN <<>> ELSE t.text]

Separators == {<<" ">>, <<"\n">>, <<"/", "/", "\"", "\n">>, <<"/", "*", "/", "*", "*", "/">>, <<"/", " ">>}

(* All tokens: there are no more than characters.                           *)
LexAll(T) ==
  FoldLeft(LAMBDA read, char :
             LET l == Lexed(T, read.cursor)
             IN IF l.token.kind = "end" THEN read
                ELSE [tokens |-> Append(read.tokens, l.token), cursor |-> l.after],
           [tokens |-> <<>>, cursor |-> Begin], T).tokens

Meanings(ts) == [i \in DOMAIN ts |-> Meaning(ts[i])]

Join(parts, s) ==
  FlattenSeq([i \in DOMAIN parts |-> IF i = 1 THEN parts[i] ELSE s \o parts[i]])

SeparatorsIrrelevant ==
  AtEnd =>
    LET read == LexAll(text)
    IN \/ \E i \in DOMAIN read : read[i].kind = "number" /\ Throws(read[i].text)
       \/ \A s \in Separators :
            LET printed == Join([i \in DOMAIN read |-> Printed(read[i])], s)
            IN Meanings(LexAll(printed)) = Meanings(read)

(* The place an error message names is where the token begins, but that a   *)
(* string over several lines is said to be on its last (lexer.cc:5-14).     *)
Newlines(T, n) == {i \in 1 .. n : At(T, i) = "\n"}

PlacesRight ==
  LET before == Newlines(text, token.at - 1)
      inside == {j \in DOMAIN token.text : token.text[j] = "\n"}
  IN token.at \in DOMAIN text =>
       /\ token.line = 1 + Cardinality(before) + Cardinality(inside)
       /\ token.column = token.at - Max(before \cup {0})

(* The inductive invariant: wherever the lexer stands, its line is one more *)
(* than the line ends behind it, and its column counts from the last.       *)
Placed(T, c) ==
  /\ c.line = 1 + Cardinality(Newlines(T, c.pos - 1))
  /\ c.column = c.pos - Max(Newlines(T, c.pos - 1) \cup {0})

IInv ==
  /\ text \in Texts
  /\ cursor \in [pos : 1 .. Len(text) + 2, line : Nat, column : Nat]
  /\ Placed(text, cursor)
  /\ PlacesRight

(* The branches of the number scanner are marked "hexadecimal", "binary"    *)
(* and "octal" (lexer.cc:103,112,121).                                      *)
Base ==
  LET next == At(text, token.at + 1)
  IN IF text[token.at] # "0" THEN 10
     ELSE IF next \in {"x", "X"} THEN 16 ELSE IF next \in {"b", "B"} THEN 2 ELSE 8

NumbersInTheirBase ==
  (token.kind = "number" /\ ~Throws(token.text)) => Stoull(token.text) = InBase(token.text, Base)
=============================================================================
