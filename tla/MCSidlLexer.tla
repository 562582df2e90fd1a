---------------------------- MODULE MCSidlLexer -----------------------------
(* All short texts of two alphabets: what words and numbers are made of,    *)
(* and what strings and comments are made of.                               *)
EXTENDS SidlLexer

MCKeywords == {<<"i", "n">>}

WordTexts == SeqOf({"i", "n", "0", "1", "x", "a", " ", "="}, 5)
MarkTexts == SeqOf({"/", "*", "\"", "\n", "i", "@"}, 5)
MCTexts == WordTexts \cup MarkTexts
NumberTexts == SeqOf({"0", "1", "x", "b"}, 4)
=============================================================================
