--------------------------------- MODULE Parser ---------------------------------
(***************************************************************************)
(* The parser (parser/Parser.cpp, parser/parser.h, parser/ast/Scope.h): the *)
(* productions of module Grammar executed one step at a time, with the      *)
(* state the parser keeps between steps, and parse(), which catches a       *)
(* CompileError, looks for a token that may begin a declaration and goes on. *)
(*                                                                         *)
(* The syntax tree is the sequence out of its nodes, children first.         *)
(***************************************************************************)
EXTENDS Grammar, Naturals, FiniteSets

LOCAL INSTANCE SequencesExt
LOCAL INSTANCE FiniteSetsExt

CONSTANTS
  Idents,        \* identifier tokens
  Primitives,    \* those of them that name a built-in type
  BadFloats,     \* float type names with an integer suffix
  Ints,          \* integer literals
  Interpolated,  \* string literals: to the token sequences between their braces
  LocalNames,    \* the names made for the local parameters of macro expansions
  Inputs         \* what is parsed: [tokens, nodes, sound]

ASSUME TokensAssumption ==
  /\ Primitives \subseteq Idents /\ BadFloats \subseteq Idents /\ Range(LocalNames) \subseteq Idents
  /\ \A i \in Inputs : i.tokens # <<>> /\ Last(i.tokens) = "EOF"

VARIABLES
  input,         \* the file being parsed
  parser,        \* the fields of the Parser object
  suspended,     \* parsers put aside while a macro or an interpolation is parsed
  todo,          \* the call stack: the steps still to be done
  marks,         \* saved positions of functions that look ahead
  noted,         \* what a function remembers: parameters, generics, its name
  out,           \* the nodes built
  kept,          \* how many of them belong to declarations already in the program
  failed,        \* a diagnostic has been emitted
  status         \* "parsing", "done" or "aborted"

vars == <<input, parser, suspended, todo, marks, noted, out, kept, failed, status>>

EmptyScope == [structs |-> {}, variables |-> {}]

NewParser(tokens) ==
  [tokens |-> tokens, current |-> 1, pendingGreater |-> 0, scope |-> <<EmptyScope>>,
   macros |-> <<>>, expansions |-> 0]

Kind(t) == CASE t \in Idents -> "id" [] t \in Ints -> "int" [] t \in DOMAIN Interpolated -> "str" [] OTHER -> t

Peek == parser.tokens[parser.current]
PeekNext == IF parser.current < Len(parser.tokens) THEN parser.tokens[parser.current + 1] ELSE "EOF"
Previous == parser.tokens[parser.current - 1]
IsAtEnd == Peek = "EOF"

(* A '>' may be pending from a '>>' that was split. *)
Check(k) ==
  \/ k = ">" /\ parser.pendingGreater > 0
  \/ ~IsAtEnd /\ Kind(Peek) = k

Advanced(p) == IF p.tokens[p.current] = "EOF" THEN p ELSE [p EXCEPT !.current = @ + 1]

(* Mutant: a matched '>' always counts as a pending one. *)
MatchedPending(k) ==
  IF k = ">" THEN [parser EXCEPT !.pendingGreater = @ - 1] ELSE Advanced(parser)

Matched(k) ==
  IF k = ">" /\ parser.pendingGreater > 0 THEN [parser EXCEPT !.pendingGreater = @ - 1] ELSE Advanced(parser)

HasStruct(n) == \E i \in DOMAIN parser.scope : n \in parser.scope[i].structs
HasVariable(n) == \E i \in DOMAIN parser.scope : n \in parser.scope[i].variables
IsPrimitive(n) == n \in Primitives \cup {"void", "auto"}
IsTypeToken(t) ==
  \/ t \in {"auto", "void", "ptr"} \cup Primitives \cup BadFloats
  \/ Kind(t) = "id" /\ HasStruct(t)

------------------------------------------------------------------------------
(* The conditions of the productions that are more than one check(). *)

Top == Last(marks)
Since(m) == {parser.tokens[i] : i \in m.at .. parser.current - 1}
LastNode == IF out = <<>> THEN "" ELSE Last(out)

(* The kind of the type just parsed is STRUCT; a trailing '?' does not change it. *)
StructType ==
  LET n == IF LastNode = "?" THEN Len(out) - 1 ELSE Len(out)
  IN  out[n] = ">" \/ (Kind(out[n]) = "id" /\ out[n] \notin Primitives)

(* The block just parsed has a `return value;' among its own statements. *)
ReturnsValue ==
  \E i \in Top.len + 1 .. Len(out) :
    /\ out[i] = "return"
    /\ Cardinality({j \in Top.len + 1 .. i : out[j] = "{"})
         = Cardinality({j \in Top.len + 1 .. i : out[j] = "}"}) + 1

(* The word being classified, after `auto' and `mut'. *)
IsAuto == parser.tokens[Top.at] = "auto"
WordAt ==
  LET afterAuto == IF IsAuto THEN Top.at + 1 ELSE Top.at
  IN  IF parser.tokens[afterAuto] = "mut" THEN afterAuto + 1 ELSE afterAuto
Word == parser.tokens[WordAt]
IsKnownType == IsPrimitive(Word) \/ HasStruct(Word)

Nullable == Len(out) > Top.len /\ (LastNode = "?" \/ (LastNode = "[]" /\ out[Len(out) - 1] = "?"))

Intrinsic ==
  \E i \in Top.at .. parser.current - 3 :
    parser.tokens[i] = "[" /\ parser.tokens[i + 1] = "intrinsic" /\ parser.tokens[i + 2] # "-"

RuleLocal(m) == parser.tokens[m.at] = "local"
Fragments == {"expression", "identifier", "literal", "type", "block"}
Signature(r) == [i \in DOMAIN r.parameters |-> r.parameters[i].fragment]

Holds(p) ==
  CASE p = "isType" -> IsTypeToken(Peek)
    [] p = "floatWithIntSuffix" -> Previous \in BadFloats
    [] p = "ptrName" -> Previous = "ptr"
    [] p = "structName" -> Kind(Previous) = "id" /\ ~IsPrimitive(Previous)
    [] p = "structType" -> StructType
    [] p = "isGenericParam" -> Previous \in noted.generics
    [] p = "returnsValue" -> ReturnsValue
    [] p = "getOrSet" -> Peek \in {"get", "set"}
    [] p = "emptyProperty" -> parser.tokens[parser.current - 2] = "{"
    [] p = "mutAndConst" -> {"mut", "const"} \subseteq Since(Top)
    [] p = "constQualified" -> "const" \in Since(Top)
    [] p = "qualified" -> {"mut", "const"} \cap Since(Top) # {}
    [] p = "modified" -> {"public", "private", "static"} \cap Since(Top) # {}
    [] p = "constructor" -> StructType /\ out[Top.len + 1] = noted.struct /\ Check("(")
    [] p = "namedArgument" -> Check("id") /\ PeekNext = "="
    [] p = "constFunction" -> Check("(") /\ Since(Top) \cap {"constexpr", "consteval"} # {}
    [] p = "intrinsicConstant" -> Intrinsic /\ Check(";")
    [] p = "staticAhead" -> Check("static") \/ (Check("unsafe") /\ PeekNext = "static")
    [] p = "attributeAhead" -> Peek = "attribute"
    [] p = "anonymousThenName" -> noted.struct = "anon" /\ Check("id")
    [] p = "nameNotType" -> Check("id") /\ ~IsTypeToken(Peek)
    [] p = "localRule" -> Peek = "local"
    [] p = "local" -> Peek = "local" /\ ~RuleLocal(marks[Len(marks) - 1])
    [] p = "firstParameter" -> noted.rule.parameters = <<>>
    [] p = "invalidLocal" -> (RuleLocal(marks[Len(marks) - 1]) \/ RuleLocal(Top)) /\ Previous # "expression"
    [] p = "fragment" -> Previous \in Fragments
    [] p = "ambiguousRule" -> \E r \in Range(noted.macro.rules) : Signature(r) = Signature(noted.rule)
    [] p = "unsafeBlock" -> Check("unsafe") /\ PeekNext = "{"
    [] p = "destructuring" -> Check("auto") /\ PeekNext = "{"
    [] p = "switchExpression" -> Check("switch") /\ PeekNext # "("
    [] p = "fallbackAhead" -> Check("?") /\ PeekNext = ":"
    [] p = "constructs" -> LastNode \in {"call", "array"}
    [] p = "pointerDeclaration" ->
         ~IsAuto /\ Peek = "ptr" /\ ~HasVariable("ptr") /\ Kind(PeekNext) \in {"<", "id"}
    [] p = "mutable" -> "mut" \in {parser.tokens[i] : i \in Top.at .. WordAt - 1}
    [] p = "floatDeclaration" -> ~IsAuto /\ ~HasVariable(Word) /\ Word \in BadFloats /\ Check("id")
    [] p = "maybeGeneric" -> ~IsAuto /\ (HasStruct(Word) \/ (~HasVariable(Word) /\ ~IsPrimitive(Word)))
    [] p = "knownType" -> ~IsAuto /\ IsKnownType /\ ~HasVariable(Word)
    [] p = "lateNullable" ->
         ~IsAuto /\ IsKnownType /\ ~HasVariable(Word) /\ ~Nullable /\ Len(out) > Top.len /\ LastNode \in {"*", "[]"}
    [] p = "nullable" -> Nullable
    [] p = "infersType" -> IsAuto /\ ~HasVariable(Word) /\ (Check("=") \/ Check(";"))
    [] p = "explicitType" -> ~HasVariable(Word) /\ Check("id")
    [] p = "isMacro" -> Word \in DOMAIN parser.macros /\ "::" \notin Since(Top)
    [] p = "structLiteral" -> Check("{") /\ HasStruct(Word) /\ ~HasVariable(Word)

------------------------------------------------------------------------------
(* The state at the start: Init of the Parser object, and parse() called. *)

NotNoted == [parameters |-> {}, generics |-> {}, struct |-> "", macro |-> [name |-> "", rules |-> <<>>],
             rule |-> [parameters |-> <<>>, void |-> FALSE, body |-> <<>>]]

Init ==
  /\ input \in Inputs
  /\ parser = NewParser(input.tokens)
  /\ suspended = <<>> /\ todo = <<>> /\ marks = <<>> /\ noted = NotNoted
  /\ out = <<>> /\ kept = 0 /\ failed = FALSE /\ status = "parsing"

(* The loop of parse(): one declaration after another until the end. *)
ParseLoop ==
  /\ status = "parsing" /\ todo = <<>>
  /\ kept' = Len(out)
  /\ IF IsAtEnd THEN status' = "done" /\ todo' = todo
     ELSE todo' = <<Call("topLevel")>> /\ status' = status
  /\ UNCHANGED <<input, parser, suspended, marks, noted, out, failed>>

(* Mutant: synchronize() also stops at the end of a block. *)
SyncTokensAndBrace == {"import", "extern", "namespace", "enum", "interface", "struct", "[", "}", "EOF"}

(* synchronize(): to the next token that may begin a declaration. *)
SyncTokens == {"import", "extern", "namespace", "enum", "interface", "struct", "[", "EOF"}


Synchronized(p) ==
  [p EXCEPT !.current = Min({i \in p.current .. Len(p.tokens) :
     \/ p.tokens[i] \in SyncTokens \cup {"auto", "void", "ptr"} \cup Primitives \cup BadFloats
     \/ \E s \in Range(p.scope) : p.tokens[i] \in s.structs})]

(* A CompileError: what the current declaration has built is lost.  A macro    *)
(* expansion is not put back; an interpolation had a parser of its own.          *)
Survives(p) ==
  LET own == {i \in DOMAIN suspended : suspended[i].kind = "interpolation"}
  IN  IF own = {} THEN p ELSE suspended[Min(own)].parser

ThrowFrom(p) ==
  /\ failed' = TRUE
  /\ parser' = Synchronized(Survives(p))
  /\ suspended' = <<>> /\ todo' = <<>> /\ marks' = <<>>
  /\ out' = SubSeq(out, 1, kept)
  /\ UNCHANGED <<input, noted, kept, status>>

Throw == ThrowFrom(parser)

------------------------------------------------------------------------------
(* The steps. *)

Step == Head(todo)
Doing(what) == status = "parsing" /\ todo # <<>> /\ Step[1] = what
Then(steps) == todo' = steps \o Tail(todo)
OnlySteps == UNCHANGED <<input, suspended, marks, noted, out, kept, failed, status>>

(* expect(): a pending '>' first, then the token, then a '>>' split in two. *)
ExpectStep ==
  /\ Doing("expect")
  /\ LET expected == Step[2]
         pending == expected = {">"} /\ parser.pendingGreater > 0
         split == expected = {">"} /\ Peek = ">>"
     IN  IF pending \/ split \/ \E k \in expected : Check(k)
         THEN /\ parser' = (CASE pending -> [parser EXCEPT !.pendingGreater = @ - 1]
                              [] split /\ ~pending -> [Advanced(parser) EXCEPT !.pendingGreater = @ + 1]
                              [] OTHER -> Advanced(parser))
              /\ Then(<<>>) /\ OnlySteps
         ELSE Throw

(* if (match(k)) ... else ...;  while (match(k)) ... *)
MatchStep ==
  /\ Doing("match") \/ Doing("while")
  /\ LET found == {k \in DOMAIN Step[2] : Check(k)}
     IN  IF found = {} THEN Then(IF Step[1] = "match" THEN Step[3] ELSE <<>>) /\ parser' = parser
         ELSE LET k == IF ">" \in found /\ found \subseteq {">", ">="} THEN ">" ELSE CHOOSE k \in found \ {">"} : TRUE
              IN  /\ parser' = Matched(k)
                  /\ IF Step[1] = "match" THEN Then(Step[2][k]) ELSE Then(Step[2][k] \o <<Step>>)
  /\ OnlySteps

(* A branch of the code that consumes nothing: a check or another condition. *)
BranchStep ==
  /\ \/ /\ Doing("check")
        /\ LET found == {k \in DOMAIN Step[2] : Check(k)}
           IN  Then(IF found = {} THEN Step[3] ELSE Step[2][CHOOSE k \in found : TRUE])
     \/ Doing("test") /\ Then(IF Holds(Step[2]) THEN Step[3] ELSE Step[4])
     \/ Doing("until") /\ Then(IF IsAtEnd \/ \E k \in Step[2] : Check(k) THEN <<>> ELSE Step[3] \o <<Step>>)
     \/ Doing("loop") /\ Then(IF \E k \in Step[2] : Check(k) THEN Step[3] \o <<Step>> ELSE <<>>)
     \/ Doing("call") /\ Then(Rules[Step[2]])
  /\ UNCHANGED parser /\ OnlySteps

PutStep ==
  /\ Doing("put") /\ Then(<<>>) /\ out' = Append(out, Step[2])
  /\ UNCHANGED <<input, parser, suspended, marks, noted, kept, failed, status>>

(* Mutant: the position is not put back. *)
BackToNothing(m) == parser

(* Looking ahead: only the position is saved and put back, and what was built  *)
(* on the way is dropped.                                                        *)
BackTo(m) == [parser EXCEPT !.current = m.at]

MarkStep ==
  /\ \/ /\ Doing("mark") /\ marks' = Append(marks, [at |-> parser.current, len |-> Len(out)])
        /\ UNCHANGED <<parser, out>>
     \/ Doing("keep") /\ marks' = Front(marks) /\ UNCHANGED <<parser, out>>
     \/ Doing("back") /\ marks' = Front(marks) /\ parser' = BackTo(Top) /\ out' = SubSeq(out, 1, Top.len)
  /\ Then(<<>>)
  /\ UNCHANGED <<input, suspended, noted, kept, failed, status>>

DoStep(a) == Doing("do") /\ Step[2] = a

AdvanceStep ==
  /\ DoStep("advance") /\ parser' = Advanced(parser) /\ Then(<<>>) /\ OnlySteps

ErrorStep == (DoStep("fail") \/ DoStep("failHere")) /\ Throw

(* std::runtime_error leaves parse() and the compiler. *)
AbortStep ==
  /\ DoStep("abort") /\ status' = "aborted" /\ todo' = <<>>
  /\ UNCHANGED <<input, parser, suspended, marks, noted, out, kept, failed>>

(* A node for the token just consumed, or for the word being classified. *)
NodeStep ==
  /\ \/ DoStep("putPrevious") /\ out' = Append(out, Previous) /\ kept' = kept
     \/ DoStep("putWord") /\ out' = Append(out, Word) /\ kept' = kept
     \/ DoStep("added") /\ out' = out /\ kept' = Len(out)
  /\ Then(<<>>)
  /\ UNCHANGED <<input, parser, suspended, marks, noted, failed, status>>

NoteStep ==
  /\ \/ DoStep("clearGenerics") /\ noted' = [noted EXCEPT !.generics = {}]
     \/ DoStep("noteGeneric") /\ noted' = [noted EXCEPT !.generics = @ \cup {Previous}]
     \/ DoStep("clearParameters") /\ noted' = [noted EXCEPT !.parameters = {}]
     \/ DoStep("noteParameter") /\ noted' = [noted EXCEPT !.parameters = @ \cup {Previous}]
     \/ DoStep("noteStruct") /\ noted' = [noted EXCEPT !.struct = Previous]
     \/ DoStep("noteAnonymous") /\ noted' = [noted EXCEPT !.struct = "anon"]
  /\ Then(<<>>)
  /\ UNCHANGED <<input, parser, suspended, marks, out, kept, failed, status>>

(* Scope.h: names are defined in the innermost scope.  Blocks and function      *)
(* bodies push one and pop it, an error in between leaves it.                     *)
WithStructs(p, S) == [p EXCEPT !.scope[Len(p.scope)].structs = @ \cup S]
WithVariables(p, S) == [p EXCEPT !.scope[Len(p.scope)].variables = @ \cup S]

ScopeStep ==
  /\ \/ DoStep("pushScope") /\ parser' = [parser EXCEPT !.scope = Append(@, EmptyScope)] /\ marks' = marks
     \/ DoStep("popScope") /\ parser' = [parser EXCEPT !.scope = Front(@)] /\ marks' = marks
     \/ DoStep("defineParameters") /\ parser' = WithVariables(parser, noted.parameters) /\ marks' = marks
     \/ DoStep("defineGenerics") /\ parser' = WithStructs(parser, noted.generics) /\ marks' = marks
     \/ DoStep("defineStruct") /\ parser' = WithStructs(parser, {noted.struct}) /\ marks' = marks
     \/ DoStep("defineName") /\ parser' = WithVariables(parser, {Previous}) /\ marks' = marks
     \/ DoStep("defineWord") /\ parser' = WithVariables(parser, {Word}) /\ marks' = marks
     \/ /\ DoStep("defineMarked")
        /\ parser' = WithVariables(parser, {parser.tokens[Top.at]}) /\ marks' = Front(marks)
  /\ Then(<<>>)
  /\ UNCHANGED <<input, suspended, noted, out, kept, failed, status>>

------------------------------------------------------------------------------
(* Macros.  A declaration keeps its rules; a call replaces the token list by   *)
(* the expansion, parses one expression of it, and puts the list back.           *)

Count(t, S) == Cardinality({i \in S : parser.tokens[i] = t})

(* The first index from the current one where the scan of a bracket ends. *)
ClosedAt(open, close) ==
  Min({i \in parser.current .. Len(parser.tokens) :
     \/ parser.tokens[i] = "EOF"
     \/ /\ parser.tokens[i] = close
        /\ Count(open, parser.current .. i - 1) = Count(close, parser.current .. i - 1)})

MacroParameter ==
  LET fragment == parser.tokens[IF RuleLocal(Top) /\ ~RuleLocal(marks[Len(marks) - 1]) THEN Top.at + 1 ELSE Top.at]
  IN  [fragment |-> fragment, name |-> Previous,
       local |-> RuleLocal(Top) \/ RuleLocal(marks[Len(marks) - 1])]

MacroStep ==
  /\ \/ /\ DoStep("startMacro") /\ noted' = [noted EXCEPT !.macro = [name |-> Previous, rules |-> <<>>]]
        /\ UNCHANGED <<parser, marks>>
     \/ /\ DoStep("startRule") /\ noted' = [noted EXCEPT !.rule = NotNoted.rule]
        /\ UNCHANGED <<parser, marks>>
     \/ /\ DoStep("addMacroParameter")
        /\ noted' = [noted EXCEPT !.rule.parameters = Append(@, MacroParameter)]
        /\ marks' = Front(marks) /\ UNCHANGED parser
     \/ DoStep("voidBody") /\ noted' = [noted EXCEPT !.rule.void = TRUE] /\ UNCHANGED <<parser, marks>>
     \/ /\ DoStep("collectBody")
        /\ LET end == ClosedAt("{", "}")
           IN  /\ noted' = [noted EXCEPT !.rule.body = SubSeq(parser.tokens, parser.current, end - 1)]
               /\ parser' = [parser EXCEPT !.current = end]
        /\ UNCHANGED marks
     \/ /\ DoStep("addRule") /\ noted' = [noted EXCEPT !.macro.rules = Append(@, noted.rule)]
        /\ UNCHANGED <<parser, marks>>
     \/ /\ DoStep("defineMacro")
        /\ parser' = [parser EXCEPT !.macros = (noted.macro.name :> noted.macro.rules) @@ @]
        /\ UNCHANGED <<noted, marks>>
  /\ Then(<<>>)
  /\ UNCHANGED <<input, suspended, out, kept, failed, status>>

(* collect_macro_arg_tokens: the arguments end at the commas outside brackets. *)
MacroArguments(end) ==
  LET outside(i) == \A b \in {<<"(", ")">>, <<"[", "]">>, <<"{", "}">>} :
                      Count(b[1], parser.current .. i - 1) = Count(b[2], parser.current .. i - 1)
      commas == {i \in parser.current .. end - 1 : parser.tokens[i] = "," /\ outside(i)}
      ends == SetToSortSeq(commas \cup {end}, <)
  IN  IF parser.current = end THEN <<>>
      ELSE [n \in DOMAIN ends |-> SubSeq(parser.tokens, IF n = 1 THEN parser.current ELSE ends[n - 1] + 1, ends[n] - 1)]

Fits(p, argument) ==
  CASE p.fragment = "identifier" -> Len(argument) = 1 /\ Kind(argument[1]) = "id"
    [] p.fragment = "literal" -> Len(argument) = 1 /\ Kind(argument[1]) \in {"int", "float", "str"}
    [] p.fragment = "block" -> argument # <<>> /\ argument[1] = "{"
    [] p.fragment \in {"expression", "type"} -> TRUE
    [] OTHER -> argument = <<p.fragment>>

RuleMatches(r, arguments) ==
  Len(r.parameters) = Len(arguments) /\ \A i \in DOMAIN arguments : Fits(r.parameters[i], arguments[i])

LocalName(i) == LocalNames[2 * parser.expansions + i]

(* A body token that names a parameter: its argument, in parentheses when it *)
(* is an expression, or the variable made for a local one.                    *)
Substitute(r, arguments, t) ==
  LET named == {i \in DOMAIN r.parameters : r.parameters[i].name = t /\ r.parameters[i].fragment \in Fragments}
      i == Min(named)
      p == r.parameters[i]
  IN  CASE Kind(t) # "id" \/ named = {} -> <<t>>
        [] p.fragment # "expression" -> arguments[i]
        [] p.local -> <<LocalName(i)>>
        [] OTHER -> <<"(">> \o arguments[i] \o <<")">>

Expansion(r, arguments) ==
  FlattenSeq([i \in DOMAIN r.body |-> Substitute(r, arguments, r.body[i])])

(* The argument of each local parameter, then the body, each parsed as one     *)
(* expression of a token list of its own.                                        *)
ExpansionSteps(r, arguments) ==
  LET locals == SelectSeq([i \in DOMAIN r.parameters |-> i], LAMBDA i : r.parameters[i].local)
  IN  FlattenSeq([n \in DOMAIN locals |-> << <<"load", arguments[locals[n]]>>, Expr >>])
        \o << <<"load", Expansion(r, arguments)>>, Expr, <<"resume">> >>
        \o (IF locals = <<>> THEN <<>> ELSE <<Put("expansion")>>)

ExpandMacro ==
  /\ DoStep("expandMacro")
  /\ LET rules == parser.macros[Word]
         end == ClosedAt("(", ")")
         arguments == MacroArguments(end)
         matching == {n \in DOMAIN rules : RuleMatches(rules[n], arguments)}
         after == [parser EXCEPT !.current = end + 1, !.expansions = @ + 1]
     IN  IF rules = <<>> THEN Throw
         ELSE IF parser.tokens[end] = "EOF" THEN ThrowFrom([parser EXCEPT !.current = end])
         ELSE IF matching = {} THEN ThrowFrom([parser EXCEPT !.current = end + 1])
         ELSE LET r == rules[Min(matching)]
              IN  /\ IF r.void
                     THEN /\ parser' = [parser EXCEPT !.current = end + 1] /\ Then(<<Put("0")>>)
                          /\ UNCHANGED suspended
                     ELSE /\ parser' = after /\ Then(ExpansionSteps(r, arguments))
                          /\ suspended' = Append(suspended, [kind |-> "macro", parser |-> after])
                  /\ out' = SubSeq(out, 1, Top.len)
                  /\ UNCHANGED <<input, marks, noted, kept, failed, status>>

LoadStep ==
  /\ Doing("load") /\ Then(<<>>)
  /\ parser' = [parser EXCEPT !.tokens = Append(Step[2], "EOF"), !.current = 1]
  /\ OnlySteps

(* expand_interpolation_args: when the first argument is a string literal, each *)
(* {expression} in it is parsed by a new parser and becomes another argument.     *)
FirstArgument == IF Len(out) = Top.len + 2 \/ (Len(out) > Top.len + 2 /\ out[Top.len + 3] = ",")
                 THEN out[Top.len + 2] ELSE "none"

InterpolateStep ==
  /\ DoStep("interpolate")
  /\ Then(IF Kind(FirstArgument) = "str"
          THEN FlattenSeq([n \in DOMAIN Interpolated[FirstArgument] |->
                  <<Put(","), <<"interpolation", Interpolated[FirstArgument][n]>>, Expr, <<"resume">>>>])
          ELSE <<>>)
  /\ UNCHANGED parser /\ OnlySteps

InterpolationStep ==
  /\ Doing("interpolation") /\ Then(<<>>)
  /\ suspended' = Append(suspended, [kind |-> "interpolation", parser |-> parser])
  /\ parser' = NewParser(Append(Step[2], "EOF"))
  /\ UNCHANGED <<input, marks, noted, out, kept, failed, status>>

ResumeStep ==
  /\ Doing("resume") /\ Then(<<>>)
  /\ LET s == Last(suspended)
     IN  parser' = IF s.kind = "interpolation" THEN s.parser
                   ELSE [parser EXCEPT !.tokens = s.parser.tokens, !.current = s.parser.current]
  /\ suspended' = Front(suspended)
  /\ UNCHANGED <<input, marks, noted, out, kept, failed, status>>

Finished == status # "parsing" /\ UNCHANGED vars

Next ==
  \/ ParseLoop \/ ExpectStep \/ MatchStep \/ BranchStep \/ PutStep \/ MarkStep \/ AdvanceStep \/ ErrorStep
  \/ AbortStep \/ NodeStep \/ NoteStep \/ ScopeStep \/ MacroStep \/ ExpandMacro \/ LoadStep
  \/ InterpolateStep \/ InterpolationStep \/ ResumeStep \/ Finished

(* The parser is one thread that runs until parse() returns. *)
Spec == Init /\ [][Next]_vars /\ WF_vars(Next)
------------------------------------------------------------------------------
(* Properties. *)

(* TypeOK: the position stays inside the token list, some scope is always open, *)
(* and what belongs to finished declarations is never taken back.                *)
TypeOK ==
  /\ parser.current \in DOMAIN parser.tokens /\ Last(parser.tokens) = "EOF"
  /\ parser.pendingGreater \in Nat /\ parser.expansions \in Nat
  /\ parser.scope # <<>>
  /\ kept <= Len(out) /\ failed \in BOOLEAN
  /\ \A m \in Range(marks) : m.len <= Len(out)
  /\ status \in {"parsing", "done", "aborted"}

(* A '>>' closing two argument lists is followed by more of the type only in     *)
(* files TreeExact is not about: the second '>' is then taken too late.          *)
Plain == ~\E i \in 1 .. Len(input.tokens) - 1 :
           input.tokens[i] = ">>" /\ input.tokens[i + 1] \in {"*", "[", "?", ","}

(* TreeExact: a file of the grammar becomes its syntax tree without a diagnostic, *)
(* with the precedence the grammar gives, whatever the parser guessed and took     *)
(* back on the way; no scope, pending '>' or suspended token list is left over for  *)
(* the next file.                                                                  *)
TreeExact ==
  status # "parsing" /\ input.sound /\ Plain =>
    /\ status = "done" /\ ~failed /\ out = input.nodes
    /\ Len(parser.scope) = 1 /\ parser.pendingGreater = 0 /\ marks = <<>> /\ suspended = <<>>

(* An unclosed namespace or compile-time block takes the rest of the file, and an *)
(* error in a macro call the rest of the expansion's token list.                  *)
Balanced ==
  \A b \in {<<"(", ")">>, <<"{", "}">>} :
    Cardinality({i \in DOMAIN input.tokens : input.tokens[i] = b[1]})
      = Cardinality({i \in DOMAIN input.tokens : input.tokens[i] = b[2]})
Recoverable ==
  /\ "macro" \notin Range(input.tokens)
  /\ {"namespace", "if"} \cap Range(input.tokens) # {} => Balanced

(* parse_property reports what does not belong into `{ get; set; }' with a         *)
(* std::runtime_error, which parse() does not catch: a property without accessors,  *)
(* another token where an accessor should begin, or `get' without a body.           *)
Accessors(p) ==
  p > 2 /\ {Kind(input.tokens[p - 2]), Kind(input.tokens[p - 1])} = {"id"} /\ input.tokens[p] = "{"
WrongAfter(p, i) ==
  \/ input.tokens[i] \in {"{", ";"}
     /\ input.tokens[i + 1] \notin {"get", "set"} \cup (IF i = p THEN {} ELSE {"}"})
  \/ input.tokens[i] \in {"get", "set"} /\ input.tokens[i + 1] \notin {";", "=>", "{"}
BrokenAccessors ==
  \E p \in DOMAIN input.tokens : Accessors(p) /\
    \E i \in p .. Len(input.tokens) - 1 : "}" \notin Range(SubSeq(input.tokens, p + 1, i)) /\ WrongAfter(p, i)


(* Terminates: parse() returns on every file: after an error it always gets past   *)
(* the token it stopped at.                                                        *)
Terminates == <>(status # "parsing")
==============================================================================
