---------------------------------- MODULE Lexer ----------------------------------
(***************************************************************************)
(* The lexer (lexer/Lexer.cpp, Lexer.h, Token.h): tokenize() turns a source  *)
(* text into tokens. A text is a sequence of characters, each a string of    *)
(* length one; pos counts the characters passed, as in the code. One step is *)
(* one round of the loop that decides something: a run of characters of one  *)
(* class is passed at once, a string literal one element at a time.          *)
(***************************************************************************)
EXTENDS Naturals, Sequences, FiniteSets, SequencesExt, FiniteSetsExt

CONSTANTS
  Digits,        \* isdigit
  HexLetters,    \* isxdigit, beyond the digits
  Letters,       \* isalpha
  Keywords,      \* the words of the keyword table
  NUL,           \* '\0', in a text or past its end
  Sources        \* the texts that are lexed

ASSUME LettersAssumption ==
  /\ HexLetters \subseteq Letters /\ Digits \cap Letters = {}
  /\ NUL \notin Digits \cup Letters
  /\ \A w \in Keywords : w # <<>> /\ ToSet(w) \subseteq Letters

\* '\0' is none of the characters that the lexer asks for by name.
ASSUME NulAssumption ==
  NUL \notin {"\n", "/", "\"", "\\", ".", "_", "'", "+", "-", "x", "X", "b", "B", "e", "E",
              "u", "i", "w", "t", "s", "c"}

\* A text is a sequence of characters.
ASSUME SourcesAssumption == \A text \in Sources : text \in Seq(ToSet(text))

VARIABLES
  source,        \* the text
  pos,           \* characters passed
  place,         \* the line and the column of pos
  tokens,        \* the tokens made
  open,          \* the string literal being read: its value so far and its start
  status         \* "tokens", "string", "block", "done" or "aborted"

vars == <<source, pos, place, tokens, open, status>>

----------------------------------------------------------------------------
(* The text *)

Size == Len(source)

At(p) == IF p >= Size THEN NUL ELSE source[p + 1]

peek == At(pos)

peekNext == At(pos + 1)

Slice(p, q) == SubSeq(source, p + 1, Min({q, Size}))

\* Where a run of characters of C that begins at p ends.
RunEnd(p, C) == CHOOSE q \in p..Size : /\ \A i \in p..(q - 1) : At(i) \in C
                                       /\ q = Size \/ At(q) \notin C

PassedInLine(at, c) == [at EXCEPT !.column = @ + 1]

Passed(at, c) ==
  IF c = "\n" THEN [line |-> at.line + 1, column |-> 1] ELSE [at EXCEPT !.column = @ + 1]

\* The place of q, character by character; past the end of the text there are '\0's.
PlaceAfter(q) ==
  LET after[p \in pos..q] == IF p = pos THEN place ELSE Passed(after[p - 1], At(p - 1))
  IN after[q]

\* advance(), as often as needed to come to q.
AdvanceTo(q) == pos' = q /\ place' = PlaceAfter(q)

\* A token with the place it records. from and to delimit it in the text.
Token(type, value, at, from, to) ==
  [type |-> type, value |-> value, line |-> at.line, column |-> at.column, from |-> from, to |-> to]

----------------------------------------------------------------------------
(* Numbers: where the literal at pos ends, and its type *)

Separators == {"_", "'"}

Suffix(p, C) == IF At(p) \in C THEN p + 1 ELSE p

HexEnd == Suffix(RunEnd(pos + 2, Digits \cup HexLetters \cup Separators), {"u", "i", "w", "t", "s"})

BinaryEnd == Suffix(RunEnd(pos + 2, {"0", "1"} \cup Separators), {"u", "i", "w", "t", "s", "c"})

WholeEnd == RunEnd(pos, Digits \cup Separators)

FractionEnd ==
  IF At(WholeEnd) = "." /\ At(WholeEnd + 1) \in Digits
  THEN RunEnd(WholeEnd + 1, Digits \cup Separators)
  ELSE WholeEnd

HasExponent == At(FractionEnd) \in {"e", "E"}

ExponentDigits == Suffix(FractionEnd + 1, {"+", "-"})

\* An exponent without a digit: the lexer throws std::runtime_error.
BadExponent == HasExponent /\ At(ExponentDigits) \notin Digits

DecimalNumber ==
  IF HasExponent THEN [type |-> "FLOAT_LITERAL", end |-> RunEnd(ExponentDigits, Digits)]
  ELSE IF FractionEnd > WholeEnd THEN [type |-> "FLOAT_LITERAL", end |-> FractionEnd]
  ELSE [type |-> "INTEGER_LITERAL", end |-> Suffix(WholeEnd, {"u", "i", "w", "t", "s", "c"})]

IsHex == peek = "0" /\ peekNext \in {"x", "X"}

IsBinary == peek = "0" /\ peekNext \in {"b", "B"}

Number ==
  IF IsHex THEN [type |-> "INTEGER_LITERAL", end |-> HexEnd]
  ELSE IF IsBinary THEN [type |-> "INTEGER_LITERAL", end |-> BinaryEnd]
  ELSE DecimalNumber

----------------------------------------------------------------------------
(* Operators: type and characters, in the order in which the switch tries them *)

Brackets == <<
  <<"LPAREN", <<"(">>>>, <<"RPAREN", <<")">>>>, <<"LBRACE", <<"{">>>>, <<"RBRACE", <<"}">>>>,
  <<"LBRACKET", <<"[">>>>, <<"RBRACKET", <<"]">>>>, <<"SEMICOLON", <<";">>>>, <<"COMMA", <<",">>>> >>

PathsShortFirst == <<
  <<"COLON_COLON", <<":", ":">>>>, <<"COLON", <<":">>>>,
  <<"DOT_DOT", <<".", ".">>>>, <<"DOT_DOT_DOT", <<".", ".", ".">>>>,
  <<"DOT_DOT_EQUAL", <<".", ".", "=">>>>, <<"DOT", <<".">>>> >>

Paths == <<
  <<"COLON_COLON", <<":", ":">>>>, <<"COLON", <<":">>>>,
  <<"DOT_DOT_DOT", <<".", ".", ".">>>>, <<"DOT_DOT_EQUAL", <<".", ".", "=">>>>,
  <<"DOT_DOT", <<".", ".">>>>, <<"DOT", <<".">>>> >>

Arithmetic == <<
  <<"PLUS_EQUAL", <<"+", "=">>>>, <<"PLUS_PLUS", <<"+", "+">>>>, <<"PLUS", <<"+">>>>,
  <<"THIN_ARROW", <<"-", ">">>>>, <<"MINUS_EQUAL", <<"-", "=">>>>,
  <<"MINUS_MINUS", <<"-", "-">>>>, <<"MINUS", <<"-">>>>,
  <<"STAR_EQUAL", <<"*", "=">>>>, <<"STAR", <<"*">>>>,
  <<"SLASH_EQUAL", <<"/", "=">>>>, <<"SLASH", <<"/">>>>, <<"AT", <<"@">>>>,
  <<"PERCENT_EQUAL", <<"%", "=">>>>, <<"PERCENT", <<"%">>>> >>

Comparison == <<
  <<"EQUAL_EQUAL", <<"=", "=">>>>, <<"ARROW", <<"=", ">">>>>, <<"EQUAL", <<"=">>>>,
  <<"BANG_EQUAL", <<"!", "=">>>>, <<"BANG_DOT", <<"!", ".">>>>, <<"BANG", <<"!">>>>,
  <<"QUESTION_QUESTION_EQUAL", <<"?", "?", "=">>>>, <<"QUESTION_QUESTION", <<"?", "?">>>>,
  <<"QUESTION_DOT", <<"?", ".">>>>, <<"QUESTION", <<"?">>>>,
  <<"LESS_EQUAL", <<"<", "=">>>>, <<"LESS_LESS_EQUAL", <<"<", "<", "=">>>>,
  <<"LESS_LESS", <<"<", "<">>>>, <<"LESS", <<"<">>>>,
  <<"GREATER_EQUAL", <<">", "=">>>>, <<"GREATER_GREATER_EQUAL", <<">", ">", "=">>>>,
  <<"GREATER_GREATER", <<">", ">">>>>, <<"GREATER", <<">">>>> >>

Logic == <<
  <<"AND_AND", <<"&", "&">>>>, <<"AMPERSAND_EQUAL", <<"&", "=">>>>, <<"AMPERSAND", <<"&">>>>,
  <<"OR_OR", <<"|", "|">>>>, <<"PIPE_EQUAL", <<"|", "=">>>>, <<"PIPE", <<"|">>>>,
  <<"CARET_EQUAL", <<"^", "=">>>>, <<"CARET", <<"^">>>>, <<"TILDE", <<"~">>>> >>

Operators == Brackets \o Paths \o Arithmetic \o Comparison \o Logic

Fits(operator) == operator[2][1] = peek /\ Slice(pos, pos + Len(operator[2])) = operator[2]

\* The branch the switch takes: 0 is default.
Branch == SelectInSeq(Operators, Fits)

\* The branches that pass two characters before they make the token.
MadeLate == {"QUESTION_QUESTION_EQUAL", "QUESTION_QUESTION", "LESS_LESS_EQUAL", "LESS_LESS",
             "GREATER_GREATER_EQUAL", "GREATER_GREATER"}

----------------------------------------------------------------------------
(* Steps *)

NoString == [value |-> <<>>, at |-> [line |-> 0, column |-> 0], from |-> 0]

Init ==
  /\ source \in Sources
  /\ pos = 0
  /\ place = [line |-> 1, column |-> 1]
  /\ tokens = <<>>
  /\ open = NoString
  /\ status = "tokens"

Lexing == status = "tokens" /\ pos < Size

Blanks == {" ", "\t", "\n", "\r"}

IsComment == peek = "/" /\ peekNext = "/"

CommentEndAtSlash == RunEnd(pos, ToSet(source) \ {"\n", "/", NUL})

CommentEnd == RunEnd(pos, ToSet(source) \ {"\n", NUL})

SkipWhitespace ==
  /\ Lexing
  /\ \/ peek \in Blanks /\ AdvanceTo(pos + 1)
     \/ IsComment /\ AdvanceTo(CommentEnd)
  /\ UNCHANGED <<source, tokens, open, status>>

\* read_string(): """ opens a block, anything else an ordinary literal.
OpenString ==
  /\ Lexing /\ peek = "\""
  /\ open' = [value |-> <<>>, at |-> place, from |-> pos]
  /\ IF Slice(pos + 1, pos + 3) = <<"\"", "\"">>
     THEN AdvanceTo(pos + 3) /\ status' = "block"
     ELSE AdvanceTo(pos + 1) /\ status' = "string"
  /\ UNCHANGED <<source, tokens>>

CloseAt(q) ==
  /\ AdvanceTo(q)
  /\ tokens' = Append(tokens, Token("STRING_LITERAL", open.value, open.at, open.from, q))
  /\ open' = NoString
  /\ status' = "tokens"
  /\ UNCHANGED source

AtTerminator == Slice(pos, pos + 3) = <<"\"", "\"", "\"">>

CloseBlock ==
  /\ status = "block"
  /\ \/ AtTerminator /\ CloseAt(pos + 3)
     \/ pos >= Size /\ CloseAt(pos)

Extend(value, q) ==
  /\ open' = [open EXCEPT !.value = @ \o value]
  /\ AdvanceTo(q)
  /\ UNCHANGED <<source, tokens, status>>

BlockText == status = "block" /\ pos < Size /\ ~AtTerminator /\ Extend(<<peek>>, pos + 1)

CloseString ==
  /\ status = "string" /\ peek \in {"\"", NUL}
  /\ CloseAt(IF peek = "\"" THEN pos + 1 ELSE pos)

Unescaped(c) == CASE c = "n" -> "\n" [] c = "t" -> "\t" [] OTHER -> c

StringText ==
  /\ status = "string" /\ peek \notin {"\"", NUL}
  /\ IF peek = "\\" THEN Extend(<<Unescaped(peekNext)>>, pos + 2) ELSE Extend(<<peek>>, pos + 1)

MakeTo(type, at, q) ==
  /\ tokens' = Append(tokens, Token(type, Slice(pos, q), at, pos, q))
  /\ AdvanceTo(q)
  /\ UNCHANGED <<source, open, status>>

ReadNumber ==
  /\ Lexing /\ peek \in Digits
  /\ IF ~IsHex /\ ~IsBinary /\ BadExponent
     THEN status' = "aborted" /\ UNCHANGED <<source, pos, place, tokens, open>>
     ELSE MakeTo(Number.type, place, Number.end)

WordEnd == RunEnd(pos, Letters \cup Digits \cup {"_"})

WordType(word) == IF word \in Keywords THEN "KEYWORD" ELSE "IDENTIFIER"

ReadIdentifier ==
  /\ Lexing /\ peek \in Letters \cup {"_"}
  /\ MakeTo(WordType(Slice(pos, WordEnd)), place, WordEnd)

StartsWord(c) == c = "\"" \/ c \in Digits \/ c \in Letters \cup {"_"}

Place(type) == IF type \in MadeLate THEN [place EXCEPT !.column = @ + 2] ELSE place

ReadOperator ==
  /\ Lexing /\ ~StartsWord(peek) /\ peek \notin Blanks /\ ~IsComment /\ Branch # 0
  /\ LET operator == Operators[Branch]
     IN MakeTo(operator[1], Place(operator[1]), pos + Len(operator[2]))

ReadUnknown ==
  /\ Lexing /\ ~StartsWord(peek) /\ peek \notin Blanks /\ Branch = 0
  /\ MakeTo("UNKNOWN", place, pos + 1)

Finish ==
  /\ status = "tokens" /\ pos >= Size
  /\ tokens' = Append(tokens, Token("END_OF_FILE", <<>>, place, pos, pos))
  /\ status' = "done"
  /\ UNCHANGED <<source, pos, place, open>>

Returned == status \in {"done", "aborted"} /\ UNCHANGED vars

Next ==
  \/ SkipWhitespace \/ OpenString \/ BlockText \/ CloseBlock \/ StringText \/ CloseString
  \/ ReadNumber \/ ReadIdentifier \/ ReadOperator \/ ReadUnknown \/ Finish
  \/ Returned

Spec == Init /\ [][Next]_vars /\ WF_vars(Next)

----------------------------------------------------------------------------
(* Properties *)

Made == {tokens[i] : i \in DOMAIN tokens}

\* The characters of [p, q) are blanks and comments: read from the left, every
\* character is a blank or inside a // that no line end has closed.
Ignorable(p, q) ==
  \A i \in p..(q - 1) :
    \/ At(i) \in Blanks
    \/ \E j \in p..i : /\ At(j) = "/" /\ At(j + 1) = "/"
                       /\ \A k \in j..i : At(k) \notin {"\n", NUL}

Text(o) == o[2]

\* The longest operator that the text has at p.
LongestAt(p) ==
  LET there == {Text(Operators[i]) : i \in {j \in DOMAIN Operators :
                  Slice(p, p + Len(Text(Operators[j]))) = Text(Operators[j])}}
  IN CHOOSE t \in there : \A u \in there : Len(u) <= Len(t)

IsOperator(t) == \E i \in DOMAIN Operators : Operators[i][1] = t.type

QuotesAt(p) == Slice(p, p + 3) = <<"\"", "\"", "\"">>

\* The character at i is escaped: an odd number of backslashes, all of them in the
\* literal that begins at p, come before it.
IsEscaped(p, i) ==
  \E n \in 1..(i - p - 1) :
    /\ n % 2 = 1
    /\ \A k \in (i - n)..(i - 1) : At(k) = "\\"
    /\ i - n - 1 = p \/ At(i - n - 1) # "\\"

\* Where a literal that begins at p ends: behind the first """ after its own, or
\* behind the first quote, or at the first '\0', that is not escaped. A backslash
\* as the last character takes one position more than the text has.
LiteralEnd(p) ==
  IF QuotesAt(p)
  THEN LET ends == {i \in (p + 3)..(Size - 1) : QuotesAt(i)}
       IN IF ends = {} THEN Size ELSE Min(ends) + 3
  ELSE LET ends == {i \in (p + 1)..(Size + 1) : At(i) \in {"\"", NUL} /\ ~IsEscaped(p, i)}
       IN IF At(Min(ends)) = "\"" THEN Min(ends) + 1 ELSE Min(ends)

\* Lexer::tokenize: no character is lost, read twice or put in the wrong token.
\* Between two tokens there are only blanks and comments, a string literal ends at
\* its own quotes, and an operator is the longest one the language has at that
\* place, whatever branch comes first.
TokensExact ==
  /\ \A i \in DOMAIN tokens :
       Ignorable(IF i = 1 THEN 0 ELSE tokens[i - 1].to, tokens[i].from)
  /\ \A t \in Made : t.type = "STRING_LITERAL" => t.to = LiteralEnd(t.from)
  /\ \A t \in Made : IsOperator(t) => /\ t.value = LongestAt(t.from)
                                      /\ <<t.type, t.value>> \in ToSet(Operators)

\* The line and the column of the character after the first p.
PlaceOf(p) ==
  LET ends == {i \in 0..(p - 1) : At(i) = "\n"}
  IN [line |-> Cardinality(ends) + 1, column |-> IF ends = {} THEN p + 1 ELSE p - Max(ends)]

\* Lexer::advance and make_token: a token records where it begins, also after
\* literals and comments over several lines and after escapes at the end of the
\* text. << >> ?? and their assignments record the place two characters on.
PlacesExact ==
  \A t \in Made :
    LET begins == PlaceOf(t.from)
    IN /\ t.line = begins.line
       /\ t.column = begins.column + (IF t.type \in MadeLate THEN 2 ELSE 0)

\* Lexer::tokenize: the loop ends for every text, with '\0' characters and
\* literals that are never closed too.
Terminates == <>(status \in {"done", "aborted"})
=============================================================================
