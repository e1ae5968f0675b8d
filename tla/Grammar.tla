-------------------------------- MODULE Grammar --------------------------------
(***************************************************************************)
(* The productions of parser/Parser.cpp.  The parser is a recursive       *)
(* descent: each of its functions is a sequence of steps, and its call     *)
(* stack is a sequence of steps still to be done.  A production below is    *)
(* the sequence of one function; module Parser executes it.                 *)
(*                                                                         *)
(* A step is a pair or a tuple whose first element says what it does:      *)
(*   expect S     expect(...): the next token is one of S, or an error;    *)
(*   match f      if (match(k)) f[k] ... else the steps that follow `else'; *)
(*   while f      while (match(k)) f[k];                                    *)
(*   check f      the same as match, with check(k): nothing is consumed;    *)
(*   until S b    while (!check(S) && !isAtEnd()) b;                        *)
(*   loop S b     while (check(S)) b;                                       *)
(*   test p       a condition that is more than one check, module Parser;   *)
(*   call p       a call of another production;                             *)
(*   put n        the syntax-tree node n, whose children come before it;    *)
(*   mark, keep, back   `saved = current', forget it, `current = saved';    *)
(*   do a         advance, a scope operation, an error: module Parser.      *)
(* A token is a string; identifiers and literals have the kinds "id",      *)
(* "int", "float" and "str", any other token is its own kind.              *)
(***************************************************************************)
EXTENDS Sequences, TLC

Expect(k) == <<"expect", {k}>>
ExpectOne(S) == <<"expect", S>>
Call(p) == <<"call", p>>
Put(n) == <<"put", n>>
Do(a) == <<"do", a>>
Mark == <<"mark">>
Keep == <<"keep">>
Back == <<"back">>
If(k, yes, no) == <<"match", k :> yes, no>>
IfAny(S, yes, no) == <<"match", [k \in S |-> yes], no>>
Each(k, body) == <<"while", k :> body>>
Choice(f, other) == <<"check", f, other>>
At(S, yes, no) == <<"check", [k \in S |-> yes], no>>
Until(S, body) == <<"until", S, body>>
Loop(S, body) == <<"loop", S, body>>
Test(p, yes, no) == <<"test", p, yes, no>>

Advance == Do("advance")
Fail == Do("fail")          \* PARSER_ERROR: a CompileError, caught by parse()
Abort == Do("abort")        \* std::runtime_error: nobody in the parser catches it
Name == <<Expect("id"), Do("putPrevious")>>
Token(k, n) == <<Expect(k), Put(n)>>
Expr == Call("expression")
Type == Call("type")

CommaList(item) == item \o <<Each(",", <<Put(",")>> \o item)>>

------------------------------------------------------------------------------
(* Types. *)

ParseType ==
  << ExpectOne({"id", "void", "auto"}), Test("floatWithIntSuffix", <<Fail>>, <<>>),
     Test("ptrName",
          <<If("<", <<Type, Expect(">"), Put("*")>>, <<Put("void"), Put("*")>>)>>,
          <<Do("putPrevious"),
            Test("structName", <<If("<", <<Put("<")>> \o CommaList(<<Type>>)
                                          \o <<Expect(">"), Put(">")>>, <<>>)>>, <<>>)>>),
     Each("*", <<Put("*")>>),
     If("[", <<Expect("]"), Put("[]")>>, <<>>),
     If("?", <<Put("?")>>, <<>>) >>

Modifiers == {"public", "private", "static", "unsafe"}

ParseModifiers == << <<"while", [k \in Modifiers |-> <<>>]>> >>

GenericParams ==
  << Do("clearGenerics"),
     If("<", <<Expect("id"), Do("noteGeneric"),
               Each(",", <<Expect("id"), Do("noteGeneric")>>), Expect(">")>>, <<>>) >>

WhereClauses == << Loop({"where"}, <<Call("where")>>) >>

ParseWhereClause ==
  << Expect("where"), Expect("id"), Test("isGenericParam", <<>>, <<Fail>>), Expect(":"),
     Expect("id"), Each(",", <<Expect("id")>>), If(";", <<>>, <<>>) >>

------------------------------------------------------------------------------
(* Members of structs, interfaces and impls. *)

Parameter == <<Call("attributes"), Type>> \o Name \o <<Do("noteParameter"), If("mut", <<Put("mut")>>, <<>>)>>

ParseParameters ==
  << Expect("("), Do("clearParameters"), Put("("),
     At({")"}, <<>>, CommaList(Parameter)), Expect(")"), Put(")") >>

ParseThrowsClause ==
  << If("throws", <<If("(", <<Type, Each(",", <<Type>>), Expect(")")>>, <<Put("throws")>>)>>, <<>>) >>

ParseContractClauses ==
  << Loop({"require", "ensure"},
          <<Advance,
            If("(", <<Expr, Expect(")"), Put("contract")>>,
               <<At({"{"}, <<Mark, Call("block"), Test("returnsValue", <<Keep>>, <<Fail>>),
                             Put("contract")>>, <<Fail>>)>>)>>) >>

(* The body of a method or an operator: => expression; or a block, in a scope *)
(* that holds the parameters.                                                  *)
MemberBody(none) ==
  << Do("pushScope"), Do("defineParameters"),
     If("=>", <<Expr, Expect(";")>>, <<At({"{"}, <<Call("block")>>, none)>>), Do("popScope") >>

MethodParameters ==
  << Expect("("), Do("clearParameters"), Put("("),
     At({")"}, <<>>, <<Call("methodParameter")>>), Expect(")"), Put(")") >>

ParseMethodParameter ==
  << If("...", Name, Parameter \o <<If(",", <<Put(","), Call("methodParameter")>>, <<>>)>>) >>

MethodHead ==
  << Call("modifiers"), If("async", <<Put("async")>>, <<>>), Type >> \o Name \o GenericParams
     \o WhereClauses \o MethodParameters \o <<Call("throws")>>

ParseMethodSignature == MethodHead \o <<Expect(";"), Put("signature")>>

ParseMethod ==
  MethodHead \o <<Call("contracts")>> \o MemberBody(<<Expect(";")>>) \o <<Put("method")>>

Operators == {"+", "-", "*", "/", "%", "==", "!=", "<", "<=", ">", ">=", "&", "|", "^", "~",
              "<<", ">>", "&&", "||", "!"}

OperatorHead ==
  << Test("getOrSet", <<Advance, Do("putPrevious"), Expect("["), Expect("]")>>,
          <<ExpectOne(Operators), Do("putPrevious")>>),
     Expect("("), Do("clearParameters"), Put("("),
     At({")"}, <<>>, CommaList(Parameter)), Expect(")"), Put(")"), Expect("->"), Type >>

ParseOperatorSignature == OperatorHead \o <<Expect(";"), Put("signature")>>

ParseOperator == OperatorHead \o MemberBody(<<Expect("{")>>) \o <<Put("operator")>>

Accessor ==
  << Advance, Do("putPrevious"),
     If(";", <<>>, <<If("=>", <<Expr, Expect(";")>>, <<At({"{"}, <<Call("block")>>, <<Abort>>)>>)>>) >>

ParseProperty ==
  << Expect("{"), Until({"}"}, <<Test("getOrSet", Accessor, <<Abort>>)>>), Expect("}"),
     Test("emptyProperty", <<Abort>>, <<Put("property")>>) >>

ParseInterface ==
  << Expect("interface") >> \o Name \o GenericParams \o WhereClauses \o
  << Do("defineGenerics"), Expect("{"),
     Until({"}"}, <<If("operator", <<Call("operatorSignature")>>, <<Call("methodSignature")>>)>>),
     Expect("}"), Put("interface") >>

Implements == << If("interface", <<>>, <<>>), Expect("id"),
                 Each(",", <<If("interface", <<>>, <<>>), Expect("id")>>) >>

ParseStruct ==
  << Call("attributes"), If("struct", <<>>, <<>>),
     If("id", <<Do("putPrevious"), Do("noteStruct")>>, <<Put("anon"), Do("noteAnonymous")>>) >>
  \o GenericParams \o WhereClauses \o
  << If(":", <<Test("isType",
                    <<Mark, Type, Test("structType", <<Back>> \o Implements, <<Keep>>)>>,
                    Implements)>>, <<>>) >> \o WhereClauses \o
  << Do("defineStruct"), Do("defineGenerics"),
     If("{", <<Put("members"), Until({"}"}, <<Call("member")>>), Expect("}")>>, <<Expect(";")>>),
     Put("struct") >>

ConstField == <<Type>> \o Name \o <<Expect("="), Expr, Expect(";"), Put("const field")>>

ParseMember ==
  << Call("attributes"),
     If("operator", <<Call("operator")>>,
        <<At(Modifiers,
             <<Mark, Call("modifiers"),
               At({"const"}, <<Keep, Advance>> \o ConstField, <<Back, Call("method")>>)>>,
             <<Call("field")>>)>>) >>

Qualifiers == << If("mut", <<>>, <<>>), If("const", <<>>, <<>>), If("mut", <<>>, <<>>), If("const", <<>>, <<>>) >>

ParseField ==
  << Mark >> \o Qualifiers \o
  << Test("mutAndConst", <<Fail>>, <<>>), Type,
     Test("constructor", <<Keep, Call("constructor")>>,
       <<At({"id"},
          Name \o
          <<Choice(("(" :> <<Back, Call("method")>>) @@ ("<" :> <<Back, Call("method")>>)
                     @@ ("{" :> <<Keep, Call("property")>>),
                   <<Test("constQualified",
                          <<Keep, At({"="}, <<Advance, Expr, Expect(";"), Put("const field")>>, <<Fail>>)>>,
                          <<Keep, Expect(";"), Put("field")>>)>>)>>,
          <<Back, Call("method")>>)>>) >>

ParseConstructor ==
  << Expect("("), Put("("),
     At({")"}, <<>>, CommaList(<<Type>> \o Name \o <<If("mut", <<Put("mut")>>, <<>>)>>)),
     Expect(")"), Put(")"), At({"{"}, <<Call("block")>>, <<Expect("{")>>), Put("constructor") >>

ImplField == <<Type>> \o Name \o <<Call("implInit")>>

ImplInit == <<If("=", <<Expr>>, <<>>), Expect(";"), Put("impl field")>>

ParseImplMember ==
  << Call("attributes"),
     If("operator", <<Call("operator")>>,
        <<Mark, Call("modifiers")>> \o Qualifiers \o
        <<Test("qualified", <<Keep>> \o ImplField,
            <<Test("modified", <<Back, Call("method")>>,
               <<Type, At({"id"}, Name \o <<At({";", "="}, <<Keep, Call("implInit")>>,
                                                <<Back, Call("method")>>)>>,
                          <<Back, Call("method")>>)>>)>>)>>) >>

ParseImpl ==
  << Expect("impl"), Type,
     At({",", "for"}, <<Each(",", <<Put(","), Type>>), Expect("for"), Put("for")>>
                        \o CommaList(<<Type>>), <<>>),
     Expect("{"), Put("members"), Until({"}"}, <<Call("implMember")>>), Expect("}"), Put("impl") >>

------------------------------------------------------------------------------
(* Declarations. *)

Dotted == <<Expect("id"), Each(".", <<Expect("id")>>)>>
TargetFlags == Dotted \o <<Each("|", Dotted)>>
AttributeArg ==
  << Test("namedArgument", <<Advance, Advance>>, <<>>),
     IfAny({"int", "float", "str", "true", "false"}, <<>>, TargetFlags) >>

ParseAttributes ==
  << Loop({"["},
          <<Expect("["), Expect("id"), Each("-", <<Expect("id")>>),
            If("(", <<At({")"}, <<>>, AttributeArg \o <<Each(",", AttributeArg)>>), Expect(")")>>, <<>>),
            Expect("]"), Put("attribute")>>) >>

ParseAttributeDeclaration ==
  << Advance >> \o Name \o
  << Expect("("), At({")"}, <<>>, TargetFlags \o <<Each(",", TargetFlags)>>), Expect(")"),
     If(";", <<>>, <<Expect("{"), Until({"}"}, <<Type>> \o Name \o <<Expect(";")>>), Expect("}")>>),
     Put("attribute declaration") >>

ParseCompileTimeBlock ==
  << Expect("if"), IfAny({"constexpr", "consteval"}, <<>>, <<>>), Expr, Expect("{"), Put("then"),
     Call("declarations"), Expect("}"),
     If("else", <<Put("else"),
                  At({"if"}, <<Call("compileTimeBlock")>>,
                     <<Expect("{"), Call("declarations"), Expect("}")>>)>>, <<>>),
     Put("compile-time if") >>

ConstKinds == {"const", "constexpr", "consteval"}

(* parse_constexpr_declaration; the mark is where the attributes began. *)
ParseConstexprDeclaration ==
  << Advance,
     At({"struct", "{"}, <<Call("struct")>>,
        <<Type>> \o Name \o
        <<Test("constFunction", <<Call("constFunction")>>,
               <<Test("intrinsicConstant", <<Advance, Put("intrinsic")>>,
                      <<Expect("="), Expr, Expect(";"), Put("constant")>>)>>)>>),
     Keep >>

FunctionBody == <<Call("throws"), Call("contracts"), Call("block"), Do("popScope")>>

ConstFunction == <<Do("pushScope"), Call("parameters"), Do("defineParameters")>> \o FunctionBody \o <<Put("const function")>>

ParseFunctionWithType ==
  Name \o <<Do("pushScope"), Call("parameters"), Do("defineParameters")>> \o FunctionBody \o <<Put("function")>>

ParseFunction == <<Type, Call("functionWithType")>>

ParseStaticVar ==
  << If("unsafe", <<Expect("static"), At({"mut"}, <<Advance>>, <<Fail>>)>>,
                  <<Expect("static"), At({"mut"}, <<Advance, Fail>>, <<>>)>>),
     Type >> \o Name \o <<Expect("="), Expr, Expect(";"), Put("static") >>

ExternParameter == << At({")", "..."}, <<>>, <<Type>> \o Name \o <<If("mut", <<Put("mut")>>, <<>>)>>) >>

ParseExternFunction ==
  << Type >> \o Name \o
  << Expect("("), Put("(") >> \o CommaList(ExternParameter) \o
  << If("...", <<Put("...")>>, <<>>), Expect(")"), Expect(";"), Put("extern") >>

(* Each function is added to the program as soon as it is parsed. *)
ParseExtern(added) ==
  << Expect("extern"), If("str", <<>>, <<>>),
     If("{", <<Until({"}"}, <<Call("externFunction")>> \o added), Expect("}")>>,
        <<Call("externFunction")>> \o added) >>

(* One declaration; parse() and parse_top_level_declarations() differ in the *)
(* namespaces and in the function after an anonymous struct.                 *)
Declaration(struct, others) ==
  << Test("staticAhead", <<Call("staticVar")>>,
       <<Test("attributeAhead", <<Call("attributeDeclaration")>>,
         <<Choice(others @@ ("import" :> <<Call("import")>>)
             @@ ("enum" :> <<Call("enum")>>)
             @@ ("interface" :> <<Call("interface")>>)
             @@ ("impl" :> <<Call("impl")>>)
             @@ ("[" :> <<Mark, Call("attributes"),
                          At(ConstKinds, <<Call("constexprDeclaration")>>, <<Back>> \o struct)>>)
             @@ [k \in {"struct", "{"} |-> struct]
             @@ [k \in ConstKinds |-> <<Mark, Call("constexprDeclaration")>>]
             @@ ("if" :> <<Call("compileTimeBlock")>>)
             @@ ("macro" :> <<Call("macro")>>)
             @@ [k \in {"unsafe", "async"} |-> <<Advance, Call("function")>>],
             <<Call("function")>>)>>)>>) >>

ParseDeclarations == << Until({"}"}, Declaration(<<Call("struct")>>, "extern" :> ParseExtern(<<>>))) >>

(* One iteration of the loop of parse(). *)
ParseTopLevel ==
  Declaration(
    <<Call("struct"), Do("added"),
      Test("anonymousThenName", <<Put("returns"), Call("functionWithType")>>, <<>>)>>,
    ("extern" :> ParseExtern(<<Do("added")>>)) @@
    ("namespace" :>
      <<Mark, Advance,
        At({"id"}, <<Call("qualifiedName"),
                     If(";", <<Keep, Put("file namespace")>>, <<Back, Call("namespace")>>)>>,
           <<Back, Call("namespace")>>)>>))

ParseNamespace ==
  << Expect("namespace") >> \o Name \o
  << Expect("{"), Do("pushScope"), Put("members"),
     Until({"}"}, <<Choice(("namespace" :> <<Call("namespace")>>) @@
         ("struct" :> <<Expect("struct"), Call("struct"),
                        Test("nameNotType", <<Put("returns"), Call("functionWithType")>>, <<>>)>>),
         <<Call("function")>>)>>),
     Do("popScope"), Expect("}"), Put("namespace") >>

EnumPayload(item) == << If("(", <<If(")", <<>>, <<Put("(")>> \o CommaList(item) \o <<Expect(")"), Put(")")>>)>>, <<>>) >>

EnumRest(item) ==
  GenericParams \o WhereClauses \o
  << Do("defineGenerics"),
     If("{", <<Put("members"),
               Loop({"id"}, Name \o EnumPayload(item) \o <<At({"}"}, <<>>, <<If(",", <<>>, <<>>)>>)>>),
               Expect("}")>>, <<>>),
     Put("enum") >>

(* Variants hold constants when the enum has fields, and types when not. *)
ParseEnum ==
  << Expect("enum") >> \o Name \o
  << If("(", <<Put("(")>> \o CommaList(<<Type>> \o Name) \o <<Expect(")"), Put(")")>> \o EnumRest(<<Expr>>),
             EnumRest(<<Type>>)) >>

ParseQualifiedName == Name \o <<Each("::", Name \o <<Put("::")>>)>>

ParseImport == <<Expect("import"), Call("qualifiedName"), Expect(";"), Put("import")>>

(* parse_macro: the fragments and the body tokens are kept, not parsed. *)
MacroRule ==
  << Mark, Test("localRule", <<Advance>>, <<>>), Expect("("), Do("startRule"),
     Until({")"},
        <<Test("firstParameter", <<>>, <<Expect(",")>>), Mark, Test("local", <<Advance>>, <<>>), Expect("id"),
          Test("invalidLocal", <<Fail>>, <<>>), Test("fragment", <<Expect("id")>>, <<>>),
          Do("addMacroParameter")>>),
     Expect(")"), Expect("=>"),
     If("void", <<Do("voidBody")>>, <<Expect("{"), Do("collectBody"), Expect("}")>>),
     Test("ambiguousRule", <<Fail>>, <<Keep, Do("addRule")>>) >>

ParseMacro ==
  << Expect("macro"), Expect("id"), Do("startMacro"), Expect("{"), Until({"}"}, MacroRule), Expect("}"),
     Do("defineMacro"), Put("macro") >>

------------------------------------------------------------------------------
(* Statements. *)

ParseBlock ==
  << Expect("{"), Put("{"), Do("pushScope"), Until({"}"}, <<Call("statement")>>), Do("popScope"),
     Expect("}"), Put("}") >>

(* A branch without braces becomes a block of one statement. *)
Branch == << At({"{"}, <<Call("block")>>, <<Put("{"), Call("statement"), Put("}")>>) >>

Ended(steps, n) == steps \o <<Expect(";"), Put(n)>>
OptionalValue(n, none) == << At({";"}, <<Advance, Put(none)>>, <<Expr, Expect(";"), Put(n)>>) >>

Destructuring ==
  << Advance, Advance, Put("names"), At({"}"}, <<>>, CommaList(Name)), Expect("}"), Expect("=") >>
  \o Ended(<<Expr>>, "destructure")

ParseStatement ==
  << Test("unsafeBlock", <<Advance, Call("block")>>,
      <<Test("destructuring", Destructuring,
        <<Test("switchExpression", Ended(<<Expr>>, "statement"),
          <<Choice(("return" :> <<Advance>> \o OptionalValue("return", "return nothing"))
              @@ ("if" :> <<Call("if")>>)
              @@ ("for" :> <<Call("for")>>)
              @@ ("while" :> <<Call("while")>>)
              @@ ("do" :> <<Call("do")>>)
              @@ ("switch" :> <<Call("switch")>>)
              @@ ("break" :> Ended(<<Advance>>, "break"))
              @@ ("continue" :> Ended(<<Advance>>, "continue"))
              @@ ("spawn" :> Ended(<<Advance, Expr>>, "spawn"))
              @@ ("yield" :> <<Advance>> \o OptionalValue("yield", "yield nothing"))
              @@ ("throw" :> <<Advance>> \o OptionalValue("throw", "throw nothing"))
              @@ ("{" :> <<Call("block")>>),
             Ended(<<Expr>>, "statement"))>>)>>)>>) >>

ParseIf ==
  << Expect("if"),
     IfAny({"constexpr", "consteval"}, <<Expr, Put("static")>>,
           <<If("(", <<Expr, Expect(")")>>, <<Expr, Put("static")>>)>>) >>
  \o Branch \o
  << If("else", <<At({"if"}, <<Put("{"), Call("if"), Put("}")>>, Branch), Put("if else")>>, <<Put("if")>>) >>

(* A range-for over a named variable, else over an expression, is found by     *)
(* parsing ahead; then the position goes back to the mark and nothing else.  *)
ParseFor ==
  << Expect("for"), Expect("("), Mark,
     Test("isType",
          <<Type, At({"id"}, <<Advance, At({"in"}, <<Back, Call("namedRange")>>, <<Back, Call("unnamedFor")>>)>>,
                     <<Back, Call("unnamedFor")>>)>>,
          <<Back, Call("unnamedFor")>>) >>

UnnamedFor ==
  << Mark, If("[", <<Expr>>, <<Expr>>),
     At({"..", "..="}, <<Back, Call("anonymousRange")>>, <<Back, Call("classicFor")>>) >>

NamedRange == <<Do("pushScope"), Type>> \o Name \o <<Expect("in"), Call("range")>>

AnonymousRange == <<Do("pushScope"), Put("anon"), Call("range")>>

RangeBounds ==
  << If("[", <<Expr, If("..=", <<>>, <<Expect("..")>>), Expr,
               If("]", <<Put("..=")>>, <<If(")", <<Put("..")>>, <<Expect("]")>>)>>)>>,
             <<Expr, If("..=", <<Expr, Put("..=")>>, <<Expect(".."), Expr, Put("..")>>)>>),
     Expect(")"), Call("block"), Do("popScope"), Put("range for") >>

OptionalExpr(k) == <<At({k}, <<Put("none")>>, <<Expr>>), Expect(k)>>

ClassicFor ==
  << Do("pushScope") >> \o OptionalExpr(";") \o OptionalExpr(";") \o OptionalExpr(")") \o
  << Call("block"), Do("popScope"), Put("for") >>

ParseWhile == <<Expect("while"), Expect("("), Expr, Expect(")"), Call("block"), Put("while")>>

ParseDoWhile ==
  << Expect("do"), Call("block"), Expect("while"), Expect("("), Expr, Expect(")"), Expect(";"), Put("do") >>

ParseSwitch ==
  << Expect("switch"), Expect("("), Expr, Expect(")"), Expect("{"), Put("cases"),
     Until({"}"},
        <<If("case", <<Expr, Expect(":"), Put("case")>>,
             <<If("default", <<Expect(":"), Put("default")>>, <<Fail>>)>>),
          Put("{"), Until({"case", "default", "}"}, <<Call("statement")>>), Put("}")>>),
     Expect("}"), Put("switch") >>

------------------------------------------------------------------------------
(* Expressions.  One production for each binary level: the next level, then   *)
(* while (match(op)) the next level again.                                     *)

BinaryLevel(ops, next) == << Call(next), <<"while", [op \in ops |-> <<Call(next), Put(op)>>]>> >>

ParseExpression == << Call("ternary"), Each("??", <<Call("ternary"), Put("??")>>) >>

ParseTernary ==
  << Call("or"), If("?", <<Call("ternary"), Expect(":"), Call("ternary"), Put("?:")>>, <<>>) >>

ParseOr == BinaryLevel({"||"}, "and")
ParseAnd == BinaryLevel({"&&"}, "bitor")
ParseBitor == BinaryLevel({"|"}, "bitxor")
ParseBitxor == BinaryLevel({"^"}, "bitand")
ParseBitand == BinaryLevel({"&"}, "equality")
ParseEquality ==
  BinaryLevel({"==", "!="}, "comparison") \o 
  << If("is", <<Type, At({"id"}, <<Advance, Do("putPrevious")>>, <<>>), Put("is")>>, <<>>) >>
ParseComparison == BinaryLevel({"<", "<=", ">", ">="}, "shift")
ParseShift == BinaryLevel({"<<", ">>"}, "term")
ParseTerm == BinaryLevel({"+", "-"}, "factor")
ParseFactor == BinaryLevel({"*", "/", "%"}, "unary")

UnaryOperators == {"!", "-", "&", "*", "~"}

(* (Type)operand is a cast when a type is followed by ')'. *)
ParseUnary ==
  << At({"("},
        <<Mark, Advance,
          Test("isType", <<Type, If(")", <<Keep, Call("unary"), Put("cast")>>, <<Back, Call("prefix")>>)>>,
               <<Back, Call("prefix")>>)>>,
        <<Call("prefix")>>) >>

ParsePrefix ==
  << Choice(("await" :> <<Advance, Call("unary"), Put("await")>>)
       @@ ("try" :> <<Advance, Call("unary"),
                      Test("fallbackAhead", <<Advance, Advance, Call("ternary"), Put("try else")>>,
                           <<Put("try")>>)>>)
       @@ ("new" :> <<Advance, Call("postfix"), Test("constructs", <<Put("new")>>, <<Abort>>)>>)
       @@ [op \in UnaryOperators |-> <<Advance, Call("unary"), Put("prefix"), Put(op)>>],
       <<Call("postfix")>>) >>

Arguments ==
  << Mark, Put("("), At({")"}, <<>>, CommaList(<<Expr>>)), Expect(")"), Do("interpolate"), Keep, Put(")") >>

MemberKeywords == {"break", "continue", "return", "if", "else", "for", "while", "do", "switch", "case",
                   "default", "static", "public", "private"}

ParsePostfix == <<Call("primary"), Call("suffixes")>>

ParseSuffixes ==
  << Choice([k \in {"?.", "!."} |->
               <<Advance>> \o Name \o
               <<If("(", Arguments \o <<Put("call")>>, <<Put(k)>>), Call("suffixes")>>]
       @@ ("." :> <<Advance, At(MemberKeywords \cup {"id"}, <<Advance, Do("putPrevious")>>, <<Abort>>),
                    If("(", Arguments \o <<Put("call"), Call("suffixes")>>,
                       <<If("=", <<Expr, Put("field =")>>, <<Put("."), Call("suffixes")>>)>>)>>)
       @@ [k \in {"++", "--"} |-> <<Advance, Put(k), Call("suffixes")>>]
       @@ ("[" :> <<Advance, Expr, Expect("]"),
                    If("=", <<Expr, Put("index =")>>, <<Put("index")>>), Call("suffixes")>>),
       <<>>) >>

Literals == {"int", "float", "true", "false", "null", "str", "this", "return"}

ParsePrimary ==
  << Choice(("switch" :> <<Call("switchExpression")>>)
       @@ ("..." :> <<Advance, Put("...")>>)
       @@ [k \in Literals |-> <<Advance, Do("putPrevious")>>]
       @@ [k \in {"constexpr", "consteval"} |-> <<Call("localConst")>>]
       @@ [k \in {"auto", "mut", "void", "id"} |-> <<Call("named")>>]
       @@ ("[" :> <<Call("arrayLiteral")>>)
       @@ ("{" :> <<Call("braceInitializer")>>)
       @@ ("(" :> <<Advance, Expr, Expect(")")>>),
       <<Do("failHere")>>) >>

(* The name is in scope only after its value. *)
LocalConst ==
  << Advance, Type, Mark >> \o Name \o <<Expect("="), Expr, Do("defineMarked"), Put("variable")>>

LateMut == << Test("mutable", <<>>, <<If("mut", <<>>, <<>>)>>) >>

Initializer == << If("=", <<Expr, Put("variable")>>, <<Put("declaration")>>), Keep >>

(* A word in expression position: a declaration, a call, an assignment, a     *)
(* struct literal or a name, decided from what the scope knows of the word.   *)
ParseNamed ==
  << Mark, If("auto", <<>>, <<>>), If("mut", <<>>, <<>>),
     Test("pointerDeclaration",
          <<Type>> \o LateMut \o Name \o <<Do("defineName")>> \o Initializer,
          <<Advance, Call("classify")>>) >>

Classify ==
  << Test("floatDeclaration", <<Fail>>, <<>>),
     Test("maybeGeneric", <<If("<", <<Put("<")>> \o CommaList(<<Type>>) \o <<Expect(">"), Put(">")>>, <<>>)>>, <<>>),
     Test("knownType",
          <<Each("*", <<Put("*")>>), If("?", <<Put("?")>>, <<>>),
            If("[", <<At({"]"}, <<Advance, Put("[]"), Call("declares")>>, <<Call("elements")>>)>>,
                    <<Call("declares")>>)>>,
          <<Call("declares")>>) >>

(* type[e, e...] is an array, type[e] one of that length. *)
Elements ==
  << Expr,
     At({","}, <<Each(",", <<Put(","), Expr>>), Expect("]"), Do("putWord"), Put("array")>>,
        <<Expect("]"), Do("putWord"), Put("fixed array")>>),
     Keep >>

VariableName == << Do("putWord"), Advance, Do("putPrevious"), Do("defineName") >>

Declares ==
  LateMut \o << Test("lateNullable", <<If("?", <<Put("?")>>, <<>>)>>, <<>>),
     Test("infersType", <<Do("putWord"), Do("defineWord")>> \o Initializer,
       <<Test("explicitType",
              <<Test("nullable", VariableName, VariableName \o <<If("?", <<Put("?")>>, <<>>)>>)>> \o Initializer,
              <<Call("word")>>)>>) >>

CompoundOperators ==
  ("??=" :> "??") @@ ("+=" :> "+") @@ ("-=" :> "-") @@ ("*=" :> "*") @@ ("/=" :> "/") @@ ("%=" :> "%")
    @@ ("&=" :> "&") @@ ("|=" :> "|") @@ ("^=" :> "^") @@ ("<<=" :> "<<") @@ (">>=" :> ">>")

ParseWord ==
  << Do("putWord"), Each("::", Name \o <<Put("::")>>),
     If("(", <<Test("isMacro", <<Do("expandMacro")>>, Arguments \o <<Put("call")>>)>>,
        << <<"match",
             ("=" :> <<Expr, Put("=")>>)
               @@ [k \in DOMAIN CompoundOperators |-> <<Expr, Put(CompoundOperators[k]), Put("=")>>],
             <<Test("structLiteral", <<Call("braceInitializer")>>, <<>>)>> >> >>),
     Keep >>

BraceElement == << If(".", Name \o <<Expect("="), Expr, Put(".=")>>, <<Expr>>) >>

ParseBraceInitializer ==
  << Expect("{"), Put("init{"), At({"}"}, <<>>, CommaList(BraceElement)), Expect("}"), Put("init}") >>

ParseArrayLiteral ==
  << Expect("["), Put("["), At({"]"}, <<>>, CommaList(<<Expr>>)), Expect("]"), Put("array") >>

ParseSwitchExpression ==
  << Expect("switch"), Expr, Expect("{"), Put("arms"),
     Until({"}"},
        Name \o <<At({"id"}, <<Advance, Do("putPrevious")>>, <<>>), Expect("->"),
                  At({"{"}, <<Call("block")>>, <<Expr>>), Put("arm"),
                  At({"}"}, <<>>, <<If(",", <<>>, <<>>)>>)>>),
     Expect("}"), Put("switch expression") >>

Rules == [
  type |-> ParseType, modifiers |-> ParseModifiers, where |-> ParseWhereClause, parameters |-> ParseParameters,
  throws |-> ParseThrowsClause, contracts |-> ParseContractClauses, methodParameter |-> ParseMethodParameter,
  methodSignature |-> ParseMethodSignature, method |-> ParseMethod, operatorSignature |-> ParseOperatorSignature,
  operator |-> ParseOperator, property |-> ParseProperty, interface |-> ParseInterface, struct |-> ParseStruct,
  member |-> ParseMember, field |-> ParseField, constructor |-> ParseConstructor, implInit |-> ImplInit,
  implMember |-> ParseImplMember, impl |-> ParseImpl, attributes |-> ParseAttributes,
  attributeDeclaration |-> ParseAttributeDeclaration, compileTimeBlock |-> ParseCompileTimeBlock,
  constexprDeclaration |-> ParseConstexprDeclaration, constFunction |-> ConstFunction,
  functionWithType |-> ParseFunctionWithType, function |-> ParseFunction, staticVar |-> ParseStaticVar,
  declarations |-> ParseDeclarations, topLevel |-> ParseTopLevel, namespace |-> ParseNamespace,
  externFunction |-> ParseExternFunction, enum |-> ParseEnum,
  qualifiedName |-> ParseQualifiedName, import |-> ParseImport, macro |-> ParseMacro,
  block |-> ParseBlock, statement |-> ParseStatement, if |-> ParseIf, for |-> ParseFor,
  unnamedFor |-> UnnamedFor, namedRange |-> NamedRange, anonymousRange |-> AnonymousRange, range |-> RangeBounds,
  classicFor |-> ClassicFor, while |-> ParseWhile, do |-> ParseDoWhile, switch |-> ParseSwitch,
  expression |-> ParseExpression, ternary |-> ParseTernary, or |-> ParseOr, and |-> ParseAnd,
  bitor |-> ParseBitor, bitxor |-> ParseBitxor, bitand |-> ParseBitand, equality |-> ParseEquality,
  comparison |-> ParseComparison, shift |-> ParseShift, term |-> ParseTerm, factor |-> ParseFactor,
  unary |-> ParseUnary, prefix |-> ParsePrefix, postfix |-> ParsePostfix, suffixes |-> ParseSuffixes,
  primary |-> ParsePrimary, localConst |-> LocalConst, named |-> ParseNamed, classify |-> Classify,
  elements |-> Elements, declares |-> Declares, word |-> ParseWord, braceInitializer |-> ParseBraceInitializer,
  arrayLiteral |-> ParseArrayLiteral, switchExpression |-> ParseSwitchExpression ]
==============================================================================
