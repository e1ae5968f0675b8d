--------------------------------- MODULE MCLexer ---------------------------------
(***************************************************************************)
(* Short texts over the characters that branches of the lexer name.         *)
(***************************************************************************)
EXTENDS Lexer, TLC

MCNul == "\\0"

MCDigits == {"0", "1"}
MCHexLetters == {"b", "e"}
MCLetters == {"b", "e", "i", "n", "s", "u", "x"}
MCKeywords == {<<"i", "n">>, <<"i", "s">>}

\* Every character that a branch of the lexer names, and others of no branch.
AllChars == MCDigits \cup MCLetters \cup {
  "(", ")", "{", "}", "[", "]", ";", ",", ":", ".", "+", "-", "*", "/", "@", "%", "=", "!", "?",
  "<", ">", "&", "|", "^", "~", "_", "'", "\"", "\\", "\n", " ", "#", "\\0"}

\* Long enough for a block string with text, and for what follows it.
QuoteChars == {"\"", "\\", "\n"}

LiteralChars == QuoteChars \cup {"n", "/", "\\0"}

NumberChars == {"0", "1", ".", "e", "x", "b", "_", "-", "u"}

OperatorChars == {"<", ">", "=", "?", ".", " "}

MCSources ==
  UNION {BoundedSeq(AllChars, 2), BoundedSeq(QuoteChars, 8), BoundedSeq(LiteralChars, 4),
         BoundedSeq(NumberChars, 4), BoundedSeq(OperatorChars, 4)}
=============================================================================
