-------------------------------- MODULE MCLibrary --------------------------------
(***************************************************************************)
(* Libraries of one or two files, each with the declarations of one concern, *)
(* and clients that stay apart from them, call them, extend them or declare  *)
(* the same names.                                                           *)
(***************************************************************************)
EXTENDS Library

I32 == Integer(32, TRUE)

Param(name, type) == [name |-> name, type |-> type, attributes |-> <<>>]

FunctionDecl(name, params) ==
  [name |-> name, returnType |-> I32, parameters |-> params, isAsync |-> FALSE,
   constEval |-> FALSE, constExpr |-> FALSE, throwsAny |-> FALSE, throwsTypes |-> <<>>,
   contracts |-> <<>>, calls |-> <<>>]

MethodDecl(name, returnType) ==
  [name |-> name, returnType |-> returnType, parameters |-> <<>>, isAbstract |-> FALSE,
   isStatic |-> FALSE, isConstructor |-> FALSE, isAsync |-> FALSE, isOperatorMethod |-> FALSE,
   operatorCanonicalName |-> "", variadic |-> "", throwsAny |-> FALSE, throwsTypes |-> <<>>,
   contracts |-> <<>>, attributes |-> <<>>, genericParams |-> <<>>, calls |-> <<>>]

FieldDecl(name, type) == [name |-> name, type |-> type, isConstant |-> FALSE, initializer |-> "none"]

StructDecl(name) ==
  [name |-> name, genericParams |-> <<>>, fields |-> <<>>, properties |-> <<>>, methods |-> <<>>,
   implements |-> <<>>, attributes |-> <<>>, baseType |-> <<>>, isConstExpr |-> FALSE]

EnumDecl(name, values) ==
  [name |-> name, genericParams |-> <<>>, fields |-> <<>>, isUnion |-> FALSE, values |-> values]

Variant(name) == [name |-> name, types |-> <<>>, constants |-> <<>>]

InterfaceDecl(name, methods) == [name |-> name, genericParams |-> <<>>, methods |-> methods]

ImplDecl(type, interfaces, methods) ==
  [targetTypes |-> <<type>>, interfaceNames |-> interfaces, fields |-> <<>>, methods |-> methods]

ExternDecl(name) ==
  [name |-> name, returnType |-> I32, parameters |-> <<Param("n", I32)>>, isVariadic |-> FALSE,
   abi |-> "C"]

Program(namespace) ==
  [name |-> "file", fileNamespace |-> namespace, imports |-> <<>>, externFunctions |-> <<>>,
   interfaces |-> <<>>, enums |-> <<>>, structs |-> <<>>, impls |-> <<>>, functions |-> <<>>,
   namespaces |-> <<>>, constExprs |-> <<>>, staticVars |-> <<>>, attributeDecls |-> <<>>,
   macros |-> <<>>]

Call(name, arguments, handled) == [name |-> name, arguments |-> arguments, handled |-> handled]

Attribute(name) == [name |-> name, args |-> <<>>]

T == [name |-> "T", constraints |-> <<>>]

Token(type) ==
  [type |-> type, value |-> type, position |-> [fileId |-> "file", line |-> 3, column |-> 1, index |-> 20]]

----------------------------------------------------------------------------
(* Libraries *)

\* A parameter the compiler fills in, a contract, a function outside any namespace.
Functions ==
  LET where == [Param("where", I32) EXCEPT !.attributes = <<Attribute("Location")>>]
      contract == [kind |-> "require", nonZero |-> "n"]
  IN <<[Program(<<"lib", "sys", "io">>) EXCEPT
          !.functions = <<FunctionDecl("log", <<Param("n", I32), where>>),
                          [FunctionDecl("div", <<Param("n", I32)>>) EXCEPT !.contracts = <<contract>>]>>,
          !.externFunctions = <<ExternDecl("puts")>>]>>

\* Structs with members, impl blocks, an interface; all known by plain names.
Types ==
  LET show == MethodDecl("show", I32)
      self == StructType(<<"Point">>)
      point == [StructDecl("Point") EXCEPT
                  !.fields = <<FieldDecl("x", I32)>>, !.attributes = <<Attribute("Reflect")>>,
                  !.properties = <<[name |-> "y", type |-> I32, hasGetter |-> TRUE,
                                    hasSetter |-> FALSE, isAutoProperty |-> TRUE]>>,
                  !.methods = <<MethodDecl("Point", Void), MethodDecl("same", self)>>]
  IN <<[Program(<<"lib", "geo">>) EXCEPT
          !.interfaces = <<InterfaceDecl("Show", <<show>>)>>,
          !.structs = <<point>>,
          !.impls = <<ImplDecl(self, <<<<"Show">>>>, <<show>>), ImplDecl(I32, <<>>, <<show>>)>>]>>

\* A generic struct beside a plain one, with a constraint.
Generics ==
  <<[Program(<<"lib">>) EXCEPT
       !.interfaces = <<InterfaceDecl("Show", <<>>)>>,
       !.structs = <<[StructDecl("Box") EXCEPT
                        !.genericParams = <<[T EXCEPT !.constraints = <<<<"Show">>>>]>>,
                        !.fields = <<FieldDecl("value", StructType(<<"T">>))>>],
                     StructDecl("Unit")>>]>>

\* Error types, one derived from the other, and enums.
ErrorsAndEnums ==
  LET flags == [EnumDecl("Level", <<[Variant("Low") EXCEPT !.constants = <<[integer |-> TRUE, value |-> 7]>>]>>)
                  EXCEPT !.fields = <<[name |-> "flag", type |-> I32]>>]
  IN <<[Program(<<"lib">>) EXCEPT
          !.structs = <<[StructDecl("IoError") EXCEPT !.implements = <<<<"Exception">>>>],
                        [StructDecl("Closed") EXCEPT !.implements = <<<<"IoError">>>>]>>,
          !.enums = <<flags, EnumDecl("Color", <<Variant("Red"), Variant("Blue")>>)>>]>>

\* Constants, static variables, macros and attributes in the prelude; a namespace block.
Rest ==
  LET rule == [parameters |-> <<[fragmentType |-> "type", name |-> "t", isLocal |-> FALSE,
                                 literalToken |-> ""]>>,
               bodyTokens |-> <<Token("TRY"), Token("IDENTIFIER")>>, isVoid |-> FALSE]
      Target(t) == [name |-> <<>>, type |-> "string", value |-> <<t>>]
  IN <<[Program(Prelude) EXCEPT
          !.constExprs = <<[name |-> "Max", type |-> I32]>>,
          !.staticVars = <<[name |-> "count", type |-> I32, isMutable |-> TRUE]>>,
          !.macros = <<[name |-> "twice", rules |-> <<rule>>]>>,
          !.attributeDecls = <<[name |-> "Reflect", fields |-> <<>>,
                                targetArgs |-> <<Target("Struct"), Target("Field")>>]>>],
       [Program(<<>>) EXCEPT
          !.namespaces = <<[name |-> "util", structs |-> <<>>, namespaces |-> <<>>,
                            functions |-> <<FunctionDecl("log", <<Param("n", I32)>>)>>]>>,
          !.functions = <<FunctionDecl("log", <<>>)>>]>>

\* Two namespaces with a function of the same plain name.
Twins ==
  <<[Program(<<"a">>) EXCEPT !.functions = <<FunctionDecl("run", <<>>)>>],
    [Program(<<"b">>) EXCEPT !.functions = <<FunctionDecl("run", <<>>)>>, !.imports = <<<<"a">>>>]>>

\* A call of a function nobody declares: an error is reported and no file is written.
Broken ==
  <<[Program(<<"lib">>) EXCEPT
       !.functions = <<[FunctionDecl("run", <<>>) EXCEPT !.calls = <<Call("gone", 0, "none")>>]>>]>>

Throwing ==
  <<[Program(<<"lib">>) EXCEPT
       !.functions = <<[FunctionDecl("open", <<>>) EXCEPT !.throwsAny = TRUE]>>]>>

MCLibraries == {Functions, Types, Generics, ErrorsAndEnums, Rest, Twins, Broken}

MCThrowingLibraries == {Throwing}

----------------------------------------------------------------------------
(* Clients *)

Main(calls) == [FunctionDecl("main", <<>>) EXCEPT !.calls = calls]

Plainest == <<[Program(<<>>) EXCEPT !.functions = <<Main(<<>>)>>]>>

Caller == <<[Program(<<"app">>) EXCEPT
               !.functions = <<Main(<<Call("log", 1, "none"), Call("puts", 1, "none")>>)>>]>>

\* It has a struct and an error of its own and adds a method to the library's struct.
Extender ==
  <<[Program(<<"app">>) EXCEPT
       !.structs = <<[StructDecl("Point") EXCEPT !.methods = <<MethodDecl("same", I32)>>],
                     [StructDecl("Failure") EXCEPT !.implements = <<<<"Generic">>>>]>>,
       !.impls = <<ImplDecl(StructType(<<"Unit">>), <<>>, <<MethodDecl("id", I32)>>)>>,
       !.attributeDecls = <<[name |-> "Mark", fields |-> <<FieldDecl("text", I32)>>, targetArgs |-> <<>>]>>]>>

\* It is in the library's namespace and declares a function the library has, too.
Clashing == <<[Program(<<"lib", "sys", "io">>) EXCEPT !.functions = <<FunctionDecl("div", <<>>)>>]>>

\* It implements the library's interface.
Implementer ==
  <<[Program(<<"app">>) EXCEPT
       !.structs = <<[StructDecl("Dot") EXCEPT !.implements = <<<<"Show">>>>,
                                               !.methods = <<MethodDecl("show", I32)>>]>>]>>

\* It derives from the library's error type.
Deriver ==
  <<[Program(<<"app">>) EXCEPT !.structs = <<[StructDecl("Failure") EXCEPT !.implements = <<<<"IoError">>>>]>>]>>

MCClients == {Plainest, Caller, Extender, Implementer, Deriver, Clashing}

MCCallingClients ==
  {<<[Program(<<>>) EXCEPT !.functions = <<Main(<<Call("open", 0, handled)>>)>>]>> :
     handled \in {"none", "fallback", "switch"}}
=============================================================================
