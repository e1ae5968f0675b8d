---------------------------------- MODULE Binder ----------------------------------
(***************************************************************************)
(* Binding the programs of one compilation (Binder::bindAll): the passes     *)
(* over all programs, the aliases between them, and the binding of           *)
(* functions and methods (binder/statements/FunctionBinder.cpp).             *)
(*                                                                         *)
(* Of a body only the calls of functions are kept. A call has a name, its    *)
(* number of arguments and how it is handled: "none", "try" (propagate),     *)
(* "fallback" (try f() ?: x) or "switch". Arguments are no constants, so     *)
(* that nothing is proved of a call at compile time.                         *)
(***************************************************************************)
EXTENDS Declarations

LOCAL INSTANCE SequencesExt
LOCAL INSTANCE FiniteSetsExt

CONSTANT Enforcement    \* "Off", "Runtime", "CompileTime" or "Strict"

ASSUME EnforcementAssumption == Enforcement \in {"Off", "Runtime", "CompileTime", "Strict"}

\* The namespace whose declarations come first and are visible everywhere.
Prelude == <<"std", "types">>

----------------------------------------------------------------------------
(* Aliases *)

\* Define every key wanted that is missing. The table is iterated in no order: of several
\* symbols wanted under one key any may come first.
Aliasings(b, wanted) ==
  FoldSet(LAMBDA key, results : {DefineAlias(c, key, w.id) : c \in results,
                                                            w \in {v \in wanted : v.key = key}},
          {b}, {w.key : w \in wanted} \ Keys(b))

\* Every name in a namespace is also known by its last part, interfaces as a plain name.
GlobalAliasings(b) ==
  Aliasings(b, {[key |-> Plain(ShortName(e.key.path)), id |-> e.id] :
                e \in {e \in ToSet(b.order) : Len(e.key.path) > 1}})

InterfaceAliasings(b) ==
  Aliasings(b, {[key |-> InterfaceKey(ShortName(b.symbols[e.id].name)), id |-> e.id] :
                e \in {e \in ToSet(b.order) : e.key.interface /\ Len(b.symbols[e.id].name) > 1}})

\* The names directly in a namespace; different ones have different last parts.
AliasNamespace(b, snapshot, path) ==
  LET Inside(e) == /\ ~e.key.interface /\ Len(e.key.path) = Len(path) + 1
                   /\ IsPrefix(path, e.key.path)
  IN FoldLeft(LAMBDA c, e : DefineAlias(c, Plain(ShortName(e.key.path)), e.id), b,
              SelectSeq(snapshot, Inside))

\* processImports: the file's own namespace, the prelude and the imports.
ProcessImports(b, program) ==
  LET own == IF program.fileNamespace = <<>> THEN <<>> ELSE <<program.fileNamespace>>
  IN FoldLeft(LAMBDA c, path : AliasNamespace(c, b.order, path), b,
              own \o <<Prelude>> \o program.imports)

----------------------------------------------------------------------------
(* Attributes, constants, static variables *)

\* An attribute with fields is a struct too; targets are kept by the plain name.
DeclareAttribute(b, decl, prefix) ==
  LET struct == [NewStruct(Append(prefix, decl.name)) EXCEPT
                   !.fields = [i \in DOMAIN decl.fields |->
                                 NewField(decl.fields[i].name, decl.fields[i].type)]]
      defined == IF decl.fields = <<>> THEN b ELSE Define(b, struct)
      mask == UNION {ResolveAttributeTargetString(decl.targetArgs[i].value) :
                     i \in {i \in DOMAIN decl.targetArgs : decl.targetArgs[i].type = "string"}}
  IN [defined EXCEPT !.targets =
        AddEntry(@, [name |-> decl.name, mask |-> IF mask = {} THEN AllTargets ELSE mask])]

\* A constant or static variable gets its qualified name and, in a namespace, its plain one.
NamesIn(decl, prefix) ==
  IF prefix = <<>> THEN <<<<decl.name>>>> ELSE <<Append(prefix, decl.name), <<decl.name>>>>

DeclareConstExpr(b, decl, prefix) ==
  FoldLeft(LAMBDA c, name : Define([c EXCEPT !.consts = AddEntry(@, [name |-> name, type |-> decl.type])],
                                   NewVariable(name, decl.type, FALSE)),
           b, NamesIn(decl, prefix))

DeclareStaticVar(b, decl, prefix) ==
  FoldLeft(LAMBDA c, name :
             Define([c EXCEPT !.statics = AddEntry(@, [name |-> name, type |-> decl.type,
                                                       isMutable |-> decl.isMutable])],
                    NewVariable(name, decl.type, decl.isMutable)),
           b, NamesIn(decl, prefix))

----------------------------------------------------------------------------
(* Types *)

\* isTypeDefined. generics are the type parameters of the struct around.
RECURSIVE IsTypeDefined(_, _, _)
IsTypeDefined(b, type, generics) ==
  CASE type.kind = "STRUCT" -> \/ IsGenericName(type, generics)
                               \/ LookupInterface(b, type.structName) # 0
                               \/ LookupStruct(b, type.structName) # 0
                               \/ LookupEnum(b, type.structName) # 0
    [] type.kind \in {"ARRAY", "POINTER"} ->
         type.elementType # <<>> /\ IsTypeDefined(b, type.elementType[1], generics)
    [] OTHER -> TRUE

UndefinedStruct(b, type, generics) ==
  type.kind = "STRUCT" /\ ~IsTypeDefined(b, type, generics)

\* isTypeDefined also writes the qualified name of a struct or enum into the type.
RECURSIVE Normalized(_, _, _)
Normalized(b, type, generics) ==
  LET struct == LookupStruct(b, type.structName)
      id == IF struct # 0 THEN struct ELSE LookupEnum(b, type.structName)
      Inner(types) == [i \in DOMAIN types |-> Normalized(b, types[i], generics)]
  IN CASE type.kind = "STRUCT" ->
            IF IsGenericName(type, generics) \/ LookupInterface(b, type.structName) # 0 \/ id = 0
            THEN type
            ELSE [type EXCEPT !.structName = b.symbols[id].name, !.genericArgs = Inner(@)]
       [] type.kind \in {"ARRAY", "POINTER"} -> [type EXCEPT !.elementType = Inner(@)]
       [] OTHER -> type

----------------------------------------------------------------------------
(* Functions and methods *)

\* The callee is a function that takes as many arguments.
ArityError(b, id, call) ==
  LET arity == CallerArity(b.symbols[id])
  IN \/ id = 0
     \/ b.symbols[id].isVariadic /\ call.arguments < arity
     \/ ~b.symbols[id].isVariadic /\ call.arguments # arity

\* check_throwing_call: without try and outside switch a callee that throws needs a caller
\* that throws.
UnhandledError(callerThrows, call, throwing) ==
  call.handled = "none" /\ throwing /\ ~(callerThrows /\ Enforcement # "Strict")

\* try needs something that throws, and a fallback or a caller that throws.
TryError(callerThrows, call, throwing) ==
  \/ call.handled \in {"try", "fallback"} /\ ~throwing
  \/ call.handled = "try" /\ ~callerThrows

CallError(b, callerThrows, call) ==
  LET id == LookupFunction(b, <<call.name>>)
      throwing == id # 0 /\ IsThrowing(b.symbols[id]) /\ Enforcement # "Off"
  IN \/ ArityError(b, id, call)
     \/ UnhandledError(callerThrows, call, throwing)
     \/ TryError(callerThrows, call, throwing)

\* These errors are reported and binding goes on.
BindCalls(b, callerThrows, calls) ==
  IF \E i \in DOMAIN calls : CallError(b, callerThrows, calls[i])
  THEN [b EXCEPT !.status = "error"]
  ELSE b

\* apply_non_zero_contract_upgrades: require(p # 0) and ensure(return # 0) show in the types.
NonZeroUpgrades(f) ==
  LET Proved(kind, name) == \E i \in DOMAIN f.contracts :
                              f.contracts[i].kind = kind /\ f.contracts[i].nonZero = name
      Upgrade(type, proved) ==
        IF proved /\ type.kind = "INTEGER" THEN [type EXCEPT !.nonZero = TRUE] ELSE type
  IN [f EXCEPT !.params = [i \in DOMAIN f.params |->
                             [f.params[i] EXCEPT
                                !.type = Upgrade(@, Proved("require", f.params[i].name))]],
               !.returnType = Upgrade(@, Proved("ensure", "return"))]

ApplyUpgrades(b, decl, prefix) ==
  LET id == LookupFunction(b, QualifiedFunction(decl, prefix))
  IN IF id = 0 THEN b ELSE [b EXCEPT !.symbols[id] = NonZeroUpgrades(@)]

UndefinedParameter(b, decl, generics) ==
  \E i \in DOMAIN decl.parameters : UndefinedStruct(b, decl.parameters[i].type, generics)

BindFunction(b, decl, prefix) ==
  LET id == LookupFunction(b, QualifiedFunction(decl, prefix))
  IN IF \/ UndefinedParameter(b, decl, {})
        \/ RepeatedName(decl.parameters)
        \/ UndefinedStruct(b, decl.returnType, {})
     THEN Throw(b)
     ELSE BindCalls(ApplyUpgrades(b, decl, prefix), id # 0 /\ IsThrowing(b.symbols[id]), decl.calls)

\* The resolved return type goes to the first method of that name in the struct that the
\* plain name of the struct leads to.
BindMethod(b, method, struct) ==
  LET owner == LookupStruct(b, <<struct.name>>)
      generics == NamesOf(struct.genericParams)
                  \cup IF owner = 0 THEN {} ELSE NamesOf(b.symbols[owner].genericParams)
      throws == method.throwsAny \/ method.throwsTypes # <<>>
      bound == BindCalls(b, throws, method.calls)
      at == SelectInSeq(bound.symbols[owner].methods, LAMBDA m : m.name = method.name)
      upgraded == NonZeroUpgrades([params |-> <<>>, contracts |-> method.contracts,
                                   returnType |-> Normalized(b, method.returnType, generics)])
  IN IF \/ UndefinedParameter(b, method, generics)
        \/ RepeatedName(method.parameters)
        \/ UndefinedStruct(b, method.returnType, generics)
     THEN Throw(b)
     ELSE IF owner = 0 \/ at = 0 THEN bound
     ELSE [bound EXCEPT !.symbols[owner].methods[at].returnType = upgraded.returnType]

\* validateStructFieldTypes, then the methods.
BindStruct(b, decl) ==
  IF \E i \in DOMAIN decl.fields :
       UndefinedStruct(b, decl.fields[i].type, NamesOf(decl.genericParams))
  THEN Throw(b)
  ELSE FoldLeft(LAMBDA c, method : IF c.status = "thrown" THEN c ELSE BindMethod(c, method, decl),
                b, decl.methods)

\* validateExternFunctionTypes
BindExtern(b, decl) ==
  IF UndefinedStruct(b, decl.returnType, {}) \/ UndefinedParameter(b, decl, {}) THEN Throw(b) ELSE b

Bind(b, step) ==
  CASE step.kind = "extern" -> BindExtern(b, step.decl)
    [] step.kind = "struct" -> BindStruct(b, step.decl)
    [] step.kind = "function" -> BindFunction(b, step.decl, step.prefix)

\* bindProgram
BindProgram(program) ==
  LET Of(kind, decls) == Each("bind", kind, decls, program.fileNamespace)
  IN Of("extern", program.externFunctions) \o Of("struct", program.structs)
     \o Of("function", program.functions) \o Namespaces("bind", program.namespaces)

----------------------------------------------------------------------------
(* The passes *)

ForEach(programs, Steps(_)) == FlattenSeq([i \in DOMAIN programs |-> Steps(programs[i])])

Pass(op) == <<[op |-> op]>>

\* Only the first program of the prelude is collected, and none of them later.
PreludeSteps(programs) ==
  LET first == SelectInSeq(programs, LAMBDA p : p.fileNamespace = Prelude)
  IN IF first = 0 THEN <<>> ELSE AcceptAll(programs[first]) \o Pass("prelude")

\* bindAll, one step per declaration and pass.
BindAll(programs) ==
  LET Rest(p) == IF p.fileNamespace = Prelude THEN <<>> ELSE AcceptAll(p)
      Of(op, decls, p) == Each(op, op, decls, p.fileNamespace)
  IN Pass("alias")
     \o ForEach(programs, LAMBDA p : Each("collect", "interface", p.interfaces, p.fileNamespace))
     \o Pass("interfaces")
     \o PreludeSteps(programs)
     \o ForEach(programs, LAMBDA p : Of("attribute", p.attributeDecls, p))
     \o ForEach(programs, Rest)
     \o ForEach(programs, LAMBDA p : <<[op |-> "imports", program |-> p]>>)
     \o Pass("alias")
     \o ForEach(programs, LAMBDA p : Of("constexpr", p.constExprs, p))
     \o ForEach(programs, LAMBDA p : Of("static", p.staticVars, p))
     \o ForEach(programs, LAMBDA p : Of("upgrade", p.functions, p))
     \o ForEach(programs, BindProgram)

\* The binders a step may leave.
Perform(b, step) ==
  CASE step.op = "alias" -> GlobalAliasings(b)
    [] step.op = "interfaces" -> InterfaceAliasings(b)
    [] step.op = "prelude" -> {AliasNamespace(b, b.order, Prelude)}
    [] step.op = "collect" -> {Visit(b, step)}
    [] step.op = "attribute" -> {DeclareAttribute(b, step.decl, step.prefix)}
    [] step.op = "imports" -> {ProcessImports(b, step.program)}
    [] step.op = "constexpr" -> {DeclareConstExpr(b, step.decl, step.prefix)}
    [] step.op = "static" -> {DeclareStaticVar(b, step.decl, step.prefix)}
    [] step.op = "upgrade" -> {ApplyUpgrades(b, step.decl, step.prefix)}
    [] step.op = "bind" -> {Bind(b, step)}
=============================================================================
