------------------------------ MODULE Declarations ------------------------------
(***************************************************************************)
(* The collectors of the binder (binder/declarations/ and                    *)
(* binder/visitors/): how each kind of declaration becomes a symbol.         *)
(*                                                                         *)
(* A collector takes the binder, a declaration and the path of the           *)
(* namespace around it and returns the binder afterwards. The binder is the  *)
(* global scope of Symbols with the tags of error types, the targets of      *)
(* attributes, the warnings and status: "ok", "error" once an error was      *)
(* reported and binding went on, "thrown" once one ended it.                 *)
(***************************************************************************)
EXTENDS Symbols

LOCAL INSTANCE SequencesExt
LOCAL INSTANCE FiniteSetsExt
LOCAL INSTANCE TLC

\* BINDER_ERROR reports and throws.
Throw(b) == [b EXCEPT !.status = "thrown"]

\* BINDER_WARNING
Warn(b, what) == [b EXCEPT !.warnings = @ \cup {what}]

\* The builtin errors are in the table from the start.
NewBinder ==
  LET Error(i) == [NewStruct(<<BuiltinErrors[i]>>) EXCEPT
                     !.isErrorType = TRUE, !.errorTag = i,
                     !.errorBase = IF i = 1 THEN <<>> ELSE <<BuiltinErrors[1]>>]
      empty == [symbols |-> <<>>, order |-> <<>>, consts |-> <<>>, statics |-> <<>>,
                targets |-> <<>>, nextErrorTag |-> FirstUserErrorTag, warnings |-> {},
                status |-> "ok"]
  IN FoldLeft(LAMBDA b, i : Define(b, Error(i)), empty, [i \in DOMAIN BuiltinErrors |-> i])

DefineOrThrow(b, symbol) ==
  IF IsDefined(b, KeyOf(symbol)) THEN Throw(b) ELSE Define(b, symbol)

----------------------------------------------------------------------------
(* Functions *)

Parameters(decls) == [i \in DOMAIN decls |-> NewParameter(decls[i].name, decls[i].type)]

ParametersWithAttributes(decls) ==
  [i \in DOMAIN decls |->
     [NewParameter(decls[i].name, decls[i].type) EXCEPT !.attributes = decls[i].attributes]]

\* A function with contracts also throws ContractViolation.
ThrowsOf(decl) ==
  LET violation == <<"ContractViolation">>
      named == \E i \in DOMAIN decl.throwsTypes :
                 /\ decl.throwsTypes[i].kind = "STRUCT"
                 /\ decl.throwsTypes[i].structName = violation
  IN IF decl.contracts # <<>> /\ ~decl.throwsAny /\ ~named
     THEN Append(decl.throwsTypes, StructType(violation))
     ELSE decl.throwsTypes

\* The C name is global; a second declaration of it is dropped with a warning.
CollectExternFunction(b, decl, prefix) ==
  LET f == [NewExternFunction(<<decl.name>>, decl.returnType) EXCEPT
              !.isVariadic = decl.isVariadic, !.abi = decl.abi, !.params = Parameters(decl.parameters)]
      defined == Define(b, f)
  IN IF IsDefined(b, KeyOf(f)) THEN Warn(b, [what |-> "duplicate", name |-> decl.name])
     ELSE IF prefix = <<>> THEN defined
     ELSE DefineAlias(defined, Plain(Append(prefix, decl.name)), Len(defined.symbols))

\* main is never in a namespace.
QualifiedFunction(decl, prefix) ==
  IF decl.name = "main" THEN <<decl.name>> ELSE Append(prefix, decl.name)

CollectFunctionWithPrefix(b, decl, prefix) ==
  LET f == [NewFunction(QualifiedFunction(decl, prefix), decl.returnType) EXCEPT
              !.isAsync = decl.isAsync, !.constEval = decl.constEval, !.constExpr = decl.constExpr,
              !.throwsAny = decl.throwsAny, !.throwsTypes = ThrowsOf(decl),
              !.contracts = decl.contracts, !.params = ParametersWithAttributes(decl.parameters)]
  IN IF f.isAsync /\ (f.constEval \/ f.constExpr) THEN Throw(b) ELSE DefineOrThrow(b, f)

----------------------------------------------------------------------------
(* Methods, structs *)

KnownAttributes == {
  "intrinsic", "no_mangle", "attribute", "sync", "ForceInline", "NoInline", "NoReturn", "Hot",
  "Cold", "NoSync", "NoUnwind", "WillReturn", "NoRecurse", "Align", "Volatile", "Restrict",
  "NoCapture", "ReadOnly", "WriteOnly", "NonNull", "NoMangle", "Deprecated", "Llvm", "Location",
  "Reflect"}

AllTargets == {"Function", "Method", "Struct", "Field", "Parameter", "ReturnValue", "Variable"}

\* resolveAttributeTargetString: the targets joined by | in one string.
ResolveAttributeTargetString(parts) ==
  UNION {IF parts[i] = "All" THEN AllTargets ELSE {parts[i]} \cap AllTargets : i \in DOMAIN parts}

\* The targets an attribute was declared with, the empty set for an unknown attribute.
TargetsOf(targets, name) ==
  IF Named(targets, name) THEN targets[SelectInSeq(targets, LAMBDA t : t.name = name)].mask ELSE {}

\* validateAttributeTarget only warns.
ValidateAttributeTarget(b, name, context) ==
  IF Named(b.targets, name) /\ context \notin TargetsOf(b.targets, name)
  THEN Warn(b, [what |-> "target", name |-> name])
  ELSE b

CheckAttributes(b, attributes, context) ==
  IF \E i \in DOMAIN attributes : attributes[i].name \notin KnownAttributes THEN Throw(b)
  ELSE FoldLeft(LAMBDA c, a : ValidateAttributeTarget(c, a.name, context), b, attributes)

\* A variadic method takes its rest as one more parameter, an array of objects.
MethodParameters(decl) ==
  ParametersWithAttributes(decl.parameters)
  \o IF decl.variadic = "" THEN <<>>
     ELSE <<NewParameter(decl.variadic, ArrayOf(StructType(<<"object">>)))>>

MethodOf(decl, returnType) ==
  [NewMethod(decl.name, returnType) EXCEPT
     !.isAbstract = decl.isAbstract, !.isStatic = decl.isStatic \/ decl.isOperatorMethod,
     !.variadicName = decl.variadic, !.isAsync = decl.isAsync,
     !.isOperator = decl.isOperatorMethod, !.operatorName = decl.operatorCanonicalName,
     !.throwsAny = decl.throwsAny, !.throwsTypes = ThrowsOf(decl), !.attributes = decl.attributes,
     !.params = MethodParameters(decl), !.genericParams = decl.genericParams]

\* In a struct, a method of the struct's own name is a constructor.
StructMethod(decl, struct, qualified) ==
  LET method == MethodOf(decl, decl.returnType)
  IN IF decl.isConstructor \/ decl.name = struct.name
     THEN [method EXCEPT !.returnType = StructType(qualified), !.isConstructor = TRUE,
                         !.structName = qualified]
     ELSE method

\* Mutant: the next tag stays.
Inherit_SameTag(b, struct, base) ==
  LET id == LookupStruct(b, base)
  IN IF id # 0 /\ b.symbols[id].isErrorType
     THEN [binder |-> b,
           struct |-> [struct EXCEPT !.isErrorType = TRUE, !.errorBase = b.symbols[id].name,
                                     !.errorTag = b.nextErrorTag]]
     ELSE [binder |-> b, struct |-> [struct EXCEPT !.implements = Append(@, base)]]

\* A base that is an error type makes the struct an error type with a tag of its own;
\* any other base is an interface to implement.
Inherit(b, struct, base) ==
  LET id == LookupStruct(b, base)
  IN IF id # 0 /\ b.symbols[id].isErrorType
     THEN [binder |-> [b EXCEPT !.nextErrorTag = @ + 1],
           struct |-> [struct EXCEPT !.isErrorType = TRUE, !.errorBase = b.symbols[id].name,
                                     !.errorTag = b.nextErrorTag]]
     ELSE [binder |-> b, struct |-> [struct EXCEPT !.implements = Append(@, base)]]

InheritAll(b, struct, bases) ==
  FoldLeft(LAMBDA r, base : Inherit(r.binder, r.struct, base), [binder |-> b, struct |-> struct], bases)

\* A struct has to have a method of each name its interfaces list.
ImplementsAll(b, struct) ==
  \A i \in DOMAIN struct.implements :
    LET id == LookupInterface(b, struct.implements[i])
    IN id # 0 /\ \A k \in DOMAIN b.symbols[id].methods :
                   Named(struct.methods, b.symbols[id].methods[k].name)

RepeatedName(decls) == \E i, j \in DOMAIN decls : i < j /\ decls[i].name = decls[j].name

StructFields(decl) ==
  [i \in DOMAIN decl.fields |->
     [NewField(decl.fields[i].name, decl.fields[i].type) EXCEPT
        !.isConstant = decl.fields[i].isConstant \/ decl.isConstExpr,
        !.initializer = decl.fields[i].initializer]]

StructProperties(decl) ==
  [i \in DOMAIN decl.properties |->
     [NewProperty(decl.properties[i].name, decl.properties[i].type) EXCEPT
        !.hasGetter = decl.properties[i].hasGetter, !.hasSetter = decl.properties[i].hasSetter]]

\* A property with a body may not have the name of a member declared before it.
PropertyClash(decl) ==
  \E i \in DOMAIN decl.properties :
    /\ ~decl.properties[i].isAutoProperty
    /\ \/ Named(decl.fields, decl.properties[i].name)
       \/ Named(SubSeq(decl.properties, 1, i - 1), decl.properties[i].name)

UndefinedConstraint(b, genericParams) ==
  \E i \in DOMAIN genericParams : \E c \in ToSet(genericParams[i].constraints) :
    LookupInterface(b, c) = 0

AttributesOfMethods(methods) == FlattenSeq([i \in DOMAIN methods |-> methods[i].attributes])

CollectStruct(b, decl, prefix) ==
  LET qualified == Append(prefix, decl.name)
      members == [NewStruct(qualified) EXCEPT
                    !.genericParams = decl.genericParams, !.fields = StructFields(decl),
                    !.properties = StructProperties(decl), !.attributes = decl.attributes,
                    !.baseType = decl.baseType,
                    !.methods = [i \in DOMAIN decl.methods |->
                                   StructMethod(decl.methods[i], decl, qualified)]]
      checked == CheckAttributes(CheckAttributes(b, AttributesOfMethods(decl.methods), "Method"),
                                 decl.attributes, "Struct")
      inherited == InheritAll(checked, members, decl.implements)
  IN IF \/ UndefinedConstraint(b, decl.genericParams)
        \/ RepeatedName(decl.fields)
        \/ PropertyClash(decl)
        \/ checked.status = "thrown"
        \/ ~ImplementsAll(inherited.binder, inherited.struct)
     THEN Throw(b)
     ELSE DefineOrThrow(inherited.binder, inherited.struct)

----------------------------------------------------------------------------
(* Enums, interfaces *)

\* The flag of a variant is its first constant, a (negated) integer literal.
Flag(variant) == variant.constants[1].value

\* A variant of an enum with fields gives each field a constant and has the first as its tag.
VariantOf(decl, i) ==
  LET v == decl.values[i]
  IN IF decl.fields = <<>> THEN NewVariant(v.name, v.types, i - 1)
     ELSE [NewVariant(v.name, v.types, Flag(v)) EXCEPT !.constants = v.constants]

InvalidVariant(decl, v) ==
  \/ ~decl.isUnion /\ v.types # <<>>
  \/ /\ decl.fields # <<>>
     /\ \/ v.types # <<>>
        \/ Len(v.constants) # Len(decl.fields)
        \/ ~v.constants[1].integer

InvalidEnum(decl) ==
  \/ decl.fields # <<>> /\ (decl.fields[1].type.kind # "INTEGER" \/ decl.isUnion)
  \/ RepeatedName(decl.values)
  \/ \E i \in DOMAIN decl.values : InvalidVariant(decl, decl.values[i])
  \/ decl.fields # <<>> /\ \E i, j \in DOMAIN decl.values :
       i < j /\ Flag(decl.values[i]) = Flag(decl.values[j])

CollectEnumWithPrefix(b, decl, prefix) ==
  IF InvalidEnum(decl) THEN Throw(b)
  ELSE DefineOrThrow(b, [NewEnum(Append(prefix, decl.name)) EXCEPT
                           !.genericParams = decl.genericParams, !.isUnion = decl.isUnion,
                           !.fields = decl.fields,
                           !.variants = [i \in DOMAIN decl.values |-> VariantOf(decl, i)]])

\* An interface that is there already is left alone.
CollectInterfaceWithPrefix(b, decl, prefix) ==
  LET Method(m) == [NewMethod(m.name, m.returnType) EXCEPT
                      !.isAbstract = TRUE, !.isOperator = m.isOperatorMethod,
                      !.operatorName = m.operatorCanonicalName,
                      !.params = Parameters(m.parameters), !.genericParams = m.genericParams]
  IN IF LookupInterface(b, Append(prefix, decl.name)) # 0 THEN b
     ELSE Define(b, [NewInterface(Append(prefix, decl.name)) EXCEPT
                       !.genericParams = decl.genericParams,
                       !.methods = [i \in DOMAIN decl.methods |-> Method(decl.methods[i])]])

----------------------------------------------------------------------------
(* Impl blocks *)

TargetTypeName(type) == IF type.kind = "STRUCT" THEN type.structName ELSE <<ToString(HumanString(type))>>

\* The struct an impl block adds to: in the namespace, anywhere, or else a new one for a
\* primitive type.
ImplTarget(b, type, prefix) ==
  LET name == TargetTypeName(type)
      local == LookupStruct(b, prefix \o name)
      any == LookupStruct(b, name)
      synthetic == Define(b, [NewStruct(name) EXCEPT !.baseType = <<type>>])
  IN IF local # 0 THEN [binder |-> b, id |-> local]
     ELSE IF any # 0 THEN [binder |-> b, id |-> any]
     ELSE IF IsDefined(b, Plain(name)) THEN [binder |-> Throw(b), id |-> 0]
     ELSE [binder |-> synthetic, id |-> Len(synthetic.symbols)]

IsGenericName(type, names) == type.kind = "STRUCT" /\ \E n \in names : type.structName = <<n>>

NamesOf(members) == {members[i].name : i \in DOMAIN members}

\* The first method that answers to a method of the interface, 0 for none.
Answering(struct, wanted) ==
  SelectInSeq(struct.methods, LAMBDA m :
    IF wanted.isOperator /\ m.isOperator THEN m.operatorName = wanted.operatorName
    ELSE m.name = wanted.name)

\* Return type and parameters agree as texts; a type parameter stands for the target.
SignatureMatches(method, wanted, generics, target) ==
  /\ \/ IsGenericName(wanted.returnType, generics)
     \/ HumanString(wanted.returnType) = HumanString(method.returnType)
  /\ Len(wanted.params) = Len(method.params)
  /\ \A p \in DOMAIN wanted.params :
       HumanString(IF IsGenericName(wanted.params[p].type, generics) THEN target
                   ELSE wanted.params[p].type) = HumanString(method.params[p].type)

Satisfies(struct, interface, target) ==
  \A k \in DOMAIN interface.methods :
    LET wanted == interface.methods[k]
        at == Answering(struct, wanted)
    IN at # 0 /\ SignatureMatches(struct.methods[at], wanted,
                                  NamesOf(interface.genericParams) \cup NamesOf(wanted.genericParams),
                                  target)

ImplementFor(b, decl, prefix, target) ==
  LET found == ImplTarget(b, target, prefix)
      checked == CheckAttributes(found.binder, AttributesOfMethods(decl.methods), "Method")
      old == checked.symbols[found.id]
      struct == [old EXCEPT
                   !.fields = @ \o StructFields([fields |-> decl.fields, isConstExpr |-> FALSE]),
                   !.methods = @ \o [i \in DOMAIN decl.methods |->
                                       MethodOf(decl.methods[i], decl.methods[i].returnType)],
                   !.implements = @ \o decl.interfaceNames]
      satisfied == \A i \in DOMAIN decl.interfaceNames :
                     LET id == LookupInterface(b, decl.interfaceNames[i])
                     IN id # 0 /\ Satisfies(struct, b.symbols[id], target)
  IN IF checked.status = "thrown" \/ ~satisfied THEN Throw(b)
     ELSE [checked EXCEPT !.symbols[found.id] = struct]

CollectImpl(b, decl, prefix) ==
  FoldLeft(LAMBDA c, target : IF c.status = "thrown" THEN c ELSE ImplementFor(c, decl, prefix, target),
           b, decl.targetTypes)

----------------------------------------------------------------------------
(* Programs *)

\* The visitor: one collector per kind of declaration.
Visit(b, step) ==
  CASE step.kind = "extern" -> CollectExternFunction(b, step.decl, step.prefix)
    [] step.kind = "interface" -> CollectInterfaceWithPrefix(b, step.decl, step.prefix)
    [] step.kind = "enum" -> CollectEnumWithPrefix(b, step.decl, step.prefix)
    [] step.kind = "struct" -> CollectStruct(b, step.decl, step.prefix)
    [] step.kind = "impl" -> CollectImpl(b, step.decl, step.prefix)
    [] step.kind = "function" -> CollectFunctionWithPrefix(b, step.decl, step.prefix)

\* One step of a pass, op, for each declaration.
Each(op, kind, decls, prefix) ==
  [i \in DOMAIN decls |-> [op |-> op, kind |-> kind, decl |-> decls[i], prefix |-> prefix]]

\* collectNamespace, bindNamespace: structs, functions and the namespaces inside.
RECURSIVE NamespaceSteps(_, _, _)
NamespaceSteps(op, decl, prefix) ==
  LET path == Append(prefix, decl.name)
  IN Each(op, "struct", decl.structs, path) \o Each(op, "function", decl.functions, path)
     \o FlattenSeq([i \in DOMAIN decl.namespaces |-> NamespaceSteps(op, decl.namespaces[i], path)])

\* A namespace block is not inside the namespace of the file.
Namespaces(op, decls) ==
  FlattenSeq([i \in DOMAIN decls |-> NamespaceSteps(op, decls[i], <<>>)])

\* acceptAll: the declarations of a program in the order of their kinds.
AcceptAll(program) ==
  LET Of(kind, decls) == Each("collect", kind, decls, program.fileNamespace)
  IN Of("extern", program.externFunctions) \o Of("interface", program.interfaces)
     \o Of("enum", program.enums) \o Of("struct", program.structs) \o Of("impl", program.impls)
     \o Of("function", program.functions) \o Namespaces("collect", program.namespaces)
=============================================================================
