-------------------------------- MODULE MCParser --------------------------------
(***************************************************************************)
(* The parser on files written from the grammar of GRAMMAR.md: a phrase is  *)
(* a pair of its tokens and of the nodes that it means.                      *)
(***************************************************************************)
EXTENDS Parser

LOCAL INSTANCE SequencesExt

Phrase(t, n) == [t |-> t, n |-> n]
Word1(w) == Phrase(<<w>>, <<w>>)

RECURSIVE Munch(_)
Munch(t) ==
  IF Len(t) < 2 THEN t
  ELSE IF t[1] = ">" /\ t[2] = ">" THEN <<">>">> \o Munch(Tail(Tail(t)))
  ELSE <<t[1]>> \o Munch(Tail(t))

Commas(ps) == FlattenSeq([i \in DOMAIN ps |-> IF i = 1 THEN ps[i].t ELSE <<",">> \o ps[i].t])
CommaNodes(ps) == FlattenSeq([i \in DOMAIN ps |-> IF i = 1 THEN ps[i].n ELSE <<",">> \o ps[i].n])

(* Types. *)
Of(a, ps) == Phrase(<<a, "<">> \o Commas(ps) \o <<">">>, <<a, "<">> \o CommaNodes(ps) \o <<">">>)
Star(p) == Phrase(p.t \o <<"*">>, p.n \o <<"*">>)
Many(p) == Phrase(p.t \o <<"[", "]">>, p.n \o <<"[]">>)
Opt(p) == Phrase(p.t \o <<"?">>, p.n \o <<"?">>)
Ptr(p) == Phrase(<<"ptr", "<">> \o p.t \o <<">">>, p.n \o <<"*">>)

I == Word1("i32")
A == Word1("A")
Suffixed(p) == {p, Star(p), Many(p), Opt(p), Many(Star(p)), Opt(Many(p))}
Types1 == {Of("A", <<p>>) : p \in Suffixed(I)} \cup {Of("A", <<I, A>>), Ptr(A)} \cup Suffixed(A)
Types2 == {Of("A", <<p>>) : p \in Types1} \cup {Of("A", <<I, p>>) : p \in Types1} \cup {Of("A", <<p, I>>) : p \in Types1}
Types3 == {Of("A", <<Of("A", <<Of("A", <<I>>)>>)>>), Of("A", <<Of("A", <<Of("A", <<Of("A", <<I>>)>>)>>)>>)}
Types == Types1 \cup Types2 \cup UNION {Suffixed(p) : p \in {Of("A", <<Of("A", <<I>>)>>)}} \cup Types3

(* Expressions: two binary operators, with the parentheses precedence needs. *)
Precedence ==
  <<{"??"}, {"?:"}, {"||"}, {"&&"}, {"|"}, {"^"}, {"&"}, {"==", "!="}, {"<", "<=", ">", ">="}, {"<<", ">>"}, {"+", "-"}, {"*", "/", "%"}>>
Level(op) == CHOOSE i \in DOMAIN Precedence : op \in Precedence[i]
Binary == {"??", "||", "&&", "|", "^", "&", "==", "<", ">", ">>", "-", "*"}
Paren(p) == Phrase(<<"(">> \o p.t \o <<")">>, p.n)
Bin(op, l, r) == Phrase(l.t \o <<op>> \o r.t, l.n \o r.n \o <<op>>)
X == Word1("x")
One == Word1("1")
Left(op, inner, p) == IF Level(inner) < Level(op) THEN Paren(p) ELSE p
Right(op, inner, p) == IF Level(inner) <= Level(op) THEN Paren(p) ELSE p
Exprs2 ==
  {Bin(op, Left(op, in, Bin(in, X, One)), X) : op \in Binary, in \in Binary}
    \cup {Bin(op, X, Right(op, in, Bin(in, One, X))) : op \in Binary, in \in Binary}

Function(body) == Phrase(<<"void", "f", "(", "i32", "x", ")", "{">> \o body.t \o <<"}">>,
                         <<"void", "f", "(", "i32", "x", ")", "{">> \o body.n \o <<"}", "function">>)
Return(e) == Phrase(<<"return">> \o e.t \o <<";">>, e.n \o <<"return">>)
FieldOf(ty) == Phrase(<<"struct", "S", "{">> \o Munch(ty.t) \o <<"g", ";", "}">>,
                      <<"S", "members">> \o ty.n \o <<"g", "field", "struct">>)

StatementPhrases == {
  Phrase(<<"return", ";">>,
         <<"return nothing">>),
  Phrase(<<"yield", "x", ";">>,
         <<"x", "yield">>),
  Phrase(<<"throw", ";">>,
         <<"throw nothing">>),
  Phrase(<<"spawn", "g", "(", ")", ";">>,
         <<"g", "(", ")", "call", "spawn">>),
  Phrase(<<"while", "(", "x", ")", "{", "break", ";", "}">>,
         <<"x", "{", "break", "}", "while">>),
  Phrase(<<"do", "{", "continue", ";", "}", "while", "(", "x", ")", ";">>,
         <<"{", "continue", "}", "x", "do">>),
  Phrase(<<"if", "(", "x", ")", "return", "x", ";", "else", "if", "x", "{", "}", "else", "{", "x", "=", "1", ";", "}">>,
         <<"x", "{", "x", "return", "}", "{", "x", "static", "{", "}", "{", "x", "1", "=", "statement", "}", "if else", "}", "if else">>),
  Phrase(<<"if", "constexpr", "x", "{", "}">>,
         <<"x", "static", "{", "}", "if">>),
  Phrase(<<"for", "(", "i32", "y", "=", "1", ";", "y", "<", "x", ";", "y", "++", ")", "{", "}">>,
         <<"i32", "y", "1", "variable", "y", "x", "<", "y", "++", "{", "}", "for">>),
  Phrase(<<"for", "(", "i32", "y", "=", "1", ";", ";", ")", "{", "}">>,
         <<"i32", "y", "1", "variable", "none", "none", "{", "}", "for">>),
  Phrase(<<"for", "(", "i32", "y", "in", "1", "..", "x", ")", "{", "}">>,
         <<"i32", "y", "1", "x", "..", "{", "}", "range for">>),
  Phrase(<<"for", "(", "i32", "y", "in", "[", "1", "..", "x", "]", ")", "{", "}">>,
         <<"i32", "y", "1", "x", "..=", "{", "}", "range for">>),
  Phrase(<<"for", "(", "[", "1", "..", "x", ")", ")", "{", "}">>,
         <<"anon", "1", "x", "..", "{", "}", "range for">>),
  Phrase(<<"for", "(", "1", "..=", "x", ")", "{", "}">>,
         <<"anon", "1", "x", "..=", "{", "}", "range for">>),
  Phrase(<<"switch", "(", "x", ")", "{", "case", "1", ":", "x", "++", ";", "break", ";", "default", ":", "{", "}", "}">>,
         <<"x", "cases", "1", "case", "{", "x", "++", "statement", "break", "}", "default", "{", "{", "}", "}", "switch">>),
  Phrase(<<"switch", "x", "{", "A", "y", "->", "y", ",", "g", "->", "{", "return", "1", ";", "}", "}", ";">>,
         <<"x", "arms", "A", "y", "y", "arm", "g", "{", "1", "return", "}", "arm", "switch expression", "statement">>),
  Phrase(<<"unsafe", "{", "x", "+=", "1", ";", "}">>,
         <<"{", "x", "1", "+", "=", "statement", "}">>),
  Phrase(<<"auto", "{", "y", ",", "g", "}", "=", "x", ";">>,
         <<"names", "y", ",", "g", "x", "destructure">>),
  Phrase(<<"i32", "*", "?", "y", "=", "x", ";">>,
         <<"*", "?", "i32", "y", "x", "variable", "statement">>),
  Phrase(<<"i32", "[", "]", "?", "y", ";">>,
         <<"[]", "?", "i32", "y", "declaration", "statement">>),
  Phrase(<<"auto", "mut", "y", "=", "1", ";", "y", ".", "g", "=", "y", "[", "1", "]", ";">>,
         <<"y", "1", "variable", "statement", "y", "g", "y", "1", "index", "field =", "statement">>),
  Phrase(<<"A", "<", "i32", ">", "y", ";", "y", "?.", "g", "(", "x", ")", ".", "q", "[", "x", "]", "=", "1", ";">>,
         <<"<", "i32", ">", "A", "y", "declaration", "statement", "y", "g", "(", "x", ")", "call", "q", ".", "x", "1", "index =", "statement">>),
  Phrase(<<"ptr", "<", "i32", ">", "y", ";", "y", "??=", "x", ";">>,
         <<"i32", "*", "y", "declaration", "statement", "y", "x", "??", "=", "statement">>),
  Phrase(<<"constexpr", "i32", "y", "=", "1", ";", "y", "==", "x", ";">>,
         <<"i32", "y", "1", "variable", "statement", "y", "x", "==", "statement">>),
  Phrase(<<"i32", "[", "1", ",", "x", "]", ";", "i32", "[", "x", "]", ";">>,
         <<"1", ",", "x", "i32", "array", "statement", "x", "i32", "fixed array", "statement">>),
  Phrase(<<"x", "=", "await", "g", "(", "...", ")", ";", "x", "=", "try", "g", "(", "x", ")", "?", ":", "1", ";">>,
         <<"x", "g", "(", "...", ")", "call", "await", "=", "statement", "x", "g", "(", "x", ")", "call", "1", "try else", "=", "statement">>),
  Phrase(<<"x", "=", "new", "A", "(", "x", ")", ";", "x", "=", "new", "[", "1", "]", ";">>,
         <<"x", "A", "(", "x", ")", "call", "new", "=", "statement", "x", "[", "1", "array", "new", "=", "statement">>),
  Phrase(<<"x", "=", "{", "1", ",", ".", "g", "=", "x", "}", ";">>,
         <<"x", "init{", "1", ",", "g", "x", ".=", "init}", "=", "statement">>),
  Phrase(<<"x", "=", "(", "i32", ")", "-", "x", "?", "1", ":", "!", "x", "is", "A", "y", ";">>,
         <<"x", "i32", "x", "prefix", "-", "cast", "1", "x", "prefix", "!", "A", "y", "is", "?:", "=", "statement">>),
  Phrase(<<"g", "<", "i32", ">", "(", "\"\"", ",", "1", ")", ";", "A", "::", "g", "(", "\"{x}\"", ",", "1", ")", ";">>,
         <<"<", "i32", ">", "g", "(", "\"\"", ",", "1", ")", "call", "statement", "A", "g", "::", "(", "\"{x}\"", ",", "1", ",", "x", ")", "call", "statement">>),
  Phrase(<<"return", "(", "x", ")", ".", "g", ";">>,
         <<"x", "g", ".", "return">>) }

DeclarationPhrases == {
  Phrase(<<"import", "A", "::", "g", ";">>,
         <<"A", "g", "::", "import">>),
  Phrase(<<"extern", "\"\"", "i32", "f", "(", "i32", "x", ",", "...", ")", ";">>,
         <<"i32", "f", "(", "i32", "x", ",", "...", "extern">>),
  Phrase(<<"extern", "{", "void", "f", "(", ")", ";", "void", "g", "(", "A", "*", "x", "mut", ")", ";", "}">>,
         <<"void", "f", "(", "extern", "void", "g", "(", "A", "*", "x", "mut", "extern">>),
  Phrase(<<"namespace", "A", "::", "g", ";">>,
         <<"A", "g", "::", "file namespace">>),
  Phrase(<<"namespace", "A", "{", "struct", "S", "{", "i32", "x", ";", "}", "i32", "f", "(", ")", "{", "}", "namespace", "g", "{", "}", "}">>,
         <<"A", "members", "S", "members", "i32", "x", "field", "struct", "i32", "f", "(", ")", "{", "}", "function", "g", "members", "namespace", "namespace">>),
  Phrase(<<"enum", "A", "<", "T", ">", "where", "T", ":", "S", "{", "f", "(", "T", ",", "i32", ")", ",", "g", "}">>,
         <<"A", "members", "f", "(", "T", ",", "i32", ")", "g", "enum">>),
  Phrase(<<"enum", "A", "(", "i32", "x", ")", "{", "f", "(", "1", ")", "g", "(", "x", ")", "}">>,
         <<"A", "(", "i32", "x", ")", "members", "f", "(", "1", ")", "g", "(", "x", ")", "enum">>),
  Phrase(<<"interface", "S", "<", "T", ">", "{", "operator", "==", "(", "T", "x", ")", "->", "i32", ";", "static", "T", "f", "<", "i32", ">", "(", ")", ";", "}">>,
         <<"S", "==", "(", "T", "x", ")", "i32", "signature", "T", "f", "(", ")", "signature", "interface">>),
  Phrase(<<"impl", "A", ",", "S", "for", "i32", ",", "T", "{", "operator", "get", "[", "]", "(", "i32", "x", ")", "->", "i32", "=>", "x", ";", "const", "i32", "g", "=", "1", ";", "i32", "q", ";", "public", "i32", "f", "(", "i32", "y", ")", "throws", "=>", "y", ";", "}">>,
         <<"A", ",", "S", "for", "i32", ",", "T", "members", "get", "(", "i32", "x", ")", "i32", "x", "operator", "i32", "g", "1", "impl field", "i32", "q", "impl field", "i32", "f", "(", "i32", "y", ")", "throws", "y", "method", "impl">>),
  Phrase(<<"[", "g", "-", "f", "(", "x", "=", "1", ",", "S", ".", "T", "|", "S", ".", "A", ")", "]", "struct", "S", ":", "A", ",", "T", "{", "public", "const", "i32", "g", "=", "1", ";", "S", "(", "i32", "x", ")", "{", "}", "i32", "q", "{", "get", ";", "set", "=>", "x", ";", "}", "public", "async", "i32", "f", "(", "...", "y", ")", ";", "i32", "x", ";", "}">>,
         <<"attribute", "S", "members", "i32", "g", "1", "const field", "S", "(", "i32", "x", ")", "{", "}", "constructor", "i32", "q", "get", "set", "x", "property", "async", "i32", "f", "(", "y", ")", "method", "i32", "x", "field", "struct">>),
  Phrase(<<"struct", "S", ":", "i32", ";", "S", "f", "(", ")", "{", "return", "S", "{", ".", "g", "=", "1", "}", ";", "}">>,
         <<"S", "i32", "struct", "S", "f", "(", ")", "{", "S", "init{", "g", "1", ".=", "init}", "return", "}", "function">>),
  Phrase(<<"{", "i32", "x", ";", "}", "f", "(", "i32", "x", ")", "throws", "(", "A", ",", "S", ")", "require", "(", "x", ">", "1", ")", "ensure", "{", "return", "return", "==", "x", ";", "}", "{", "}">>,
         <<"anon", "members", "i32", "x", "field", "struct", "returns", "f", "(", "i32", "x", ")", "A", "S", "x", "1", ">", "contract", "{", "return", "x", "==", "return", "}", "contract", "{", "}", "function">>),
  Phrase(<<"consteval", "i32", "f", "(", "i32", "x", ")", "{", "return", "x", ";", "}", "[", "intrinsic", "]", "const", "i32", "g", ";", "const", "i32", "q", "=", "1", ";">>,
         <<"i32", "f", "(", "i32", "x", ")", "{", "x", "return", "}", "const function", "attribute", "i32", "g", "intrinsic", "i32", "q", "1", "constant">>),
  Phrase(<<"if", "consteval", "x", "{", "i32", "f", "(", ")", "{", "}", "}", "else", "if", "x", "{", "}", "else", "{", "enum", "A", "{", "}", "}">>,
         <<"x", "then", "i32", "f", "(", ")", "{", "}", "function", "else", "x", "then", "else", "A", "members", "enum", "compile-time if", "compile-time if">>),
  Phrase(<<"unsafe", "static", "mut", "i32", "g", "=", "1", ";", "static", "i32", "q", "=", "x", ";">>,
         <<"i32", "g", "1", "static", "i32", "q", "x", "static">>),
  Phrase(<<"attribute", "A", "(", "S", ".", "T", "|", "S", ".", "f", ")", "{", "i32", "x", ";", "}", "unsafe", "i32", "f", "(", ")", "{", "}", "async", "i32", "g", "(", ")", "{", "}">>,
         <<"A", "i32", "x", "attribute declaration", "i32", "f", "(", ")", "{", "}", "function", "i32", "g", "(", ")", "{", "}", "function">>),
  Phrase(<<"macro", "m", "{", "(", ")", "=>", "void", "(", "expression", "a", ")", "=>", "{", "a", "*", "a", "}", "(", "local", "expression", "a", ",", "identifier", "b", ")", "=>", "{", "b", "+", "a", "+", "a", "}", "}", "i32", "f", "(", "i32", "x", ")", "{", "return", "m", "(", ")", "+", "m", "(", "x", "+", "1", ")", "-", "m", "(", "x", ",", "x", ")", ";", "}">>,
         <<"macro", "i32", "f", "(", "i32", "x", ")", "{", "0", "x", "1", "+", "x", "1", "+", "*", "+", "x", "x", "$3", "+", "$3", "+", "expansion", "-", "return", "}", "function">>) }


Q == Phrase(<<"struct", "Q", "<", "T", ">", "{", "T", "q", ";", "}">>,
            <<"Q", "members", "T", "q", "field", "struct">>)

Sound(p) == [tokens |-> p.t \o Q.t \o <<"EOF">>, nodes |-> p.n \o Q.n, sound |-> TRUE]

Without(t, k) == SubSeq(t, 1, k - 1) \o SubSeq(t, k + 1, Len(t))
Twice(t, k) == SubSeq(t, 1, k) \o SubSeq(t, k, Len(t))
Broken(t) == [tokens |-> t \o Q.t \o <<"EOF">>, nodes |-> Q.n, sound |-> FALSE]
BrokenInputs == UNION {{Broken(Without(d.t, k)) : k \in DOMAIN d.t} \cup {Broken(Twice(d.t, k)) : k \in DOMAIN d.t} : d \in DeclarationPhrases}

MCInputs == {Sound(FieldOf(ty)) : ty \in Types} \cup {Sound(Function(Return(e))) : e \in Exprs2}
  \cup BrokenInputs \cup {Sound(Function(s)) : s \in StatementPhrases} \cup {Sound(d) : d \in DeclarationPhrases}

MCIdents == {"i32", "f32w", "ptr", "A", "Q", "S", "T", "f", "g", "q", "x", "y", "m", "a", "b",
  "get", "set", "attribute", "intrinsic", "local", "expression", "identifier", "$1", "$2", "$3", "$4"}
MCPrimitives == {"i32"}
MCBadFloats == {"f32w"}
MCInts == {"1", "0"}
MCInterpolated == ("\"\"" :> <<>>) @@ ("\"{x}\"" :> <<<<"x">>>>)
MCLocalNames == <<"$1", "$2", "$3", "$4">>
==============================================================================
