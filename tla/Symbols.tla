--------------------------------- MODULE Symbols ---------------------------------
(***************************************************************************)
(* Types, symbols and the global symbol table (parser/ast/Type.h,            *)
(* binder/Symbol.h, binder/SymbolTable.h, binder/ErrorTypes.h) as operators. *)
(*                                                                         *)
(* A name is a path: a::b::c is <<"a", "b", "c">>. A key of the table is a   *)
(* path, or a path under "interface:". Symbols are shared objects: the table *)
(* maps keys to indices of the sequence symbols, so that two keys may lead   *)
(* to one symbol. scope is a record with symbols, order (the keys in the     *)
(* order of their definition, each with its index) and more.                 *)
(***************************************************************************)
EXTENDS Integers, Sequences, FiniteSets

LOCAL INSTANCE SequencesExt
LOCAL INSTANCE FiniteSetsExt

----------------------------------------------------------------------------
(* Types *)

Void ==
  [kind |-> "VOID", size |-> 0, sign |-> FALSE, nullable |-> FALSE, readOnly |-> FALSE,
   isTransparent |-> FALSE, native |-> FALSE, overflowMode |-> "None", nonZero |-> FALSE,
   elementType |-> <<>>, structName |-> <<>>, genericArgs |-> <<>>]

Integer(bits, sign) == [Void EXCEPT !.kind = "INTEGER", !.size = bits, !.sign = sign]

StructType(name) == [Void EXCEPT !.kind = "STRUCT", !.structName = name]

ArrayOf(type) == [Void EXCEPT !.kind = "ARRAY", !.elementType = <<type>>]

\* What toHumanString shows of a type. Two types with the same text are equal to
\* the checks that compare texts.
RECURSIVE HumanString(_)
HumanString(t) ==
  LET Each(types) == [i \in DOMAIN types |-> HumanString(types[i])]
  IN CASE t.kind = "INTEGER" /\ t.native -> <<"nint">>
       [] t.kind = "INTEGER" /\ ~t.native ->
            <<t.kind, t.sign, t.size, t.nonZero, t.overflowMode>>
       [] t.kind \in {"F32", "F64"} -> <<t.kind, t.native>>
       [] t.kind \in {"ARRAY", "POINTER"} -> <<t.kind, Each(t.elementType)>>
       [] t.kind = "STRUCT" -> <<t.kind, t.structName, Each(t.genericArgs)>>
       [] OTHER -> <<t.kind>>

----------------------------------------------------------------------------
(* Symbols, as their constructors leave them *)

NewParameter(name, type) == [name |-> name, type |-> type, mut |-> FALSE, attributes |-> <<>>]

NewVariable(name, type, mutable) ==
  [kind |-> "variable", name |-> name, type |-> type, isMutable |-> mutable,
   isFromLibrary |-> FALSE]

NewFunction(name, returnType) ==
  [kind |-> "function", name |-> name, returnType |-> returnType, params |-> <<>>,
   isVariadic |-> FALSE, isAsync |-> FALSE, constEval |-> FALSE, constExpr |-> FALSE,
   throwsAny |-> FALSE, throwsTypes |-> <<>>, contracts |-> <<>>, abi |-> "C",
   isFromLibrary |-> FALSE]

\* constEval and constExpr are not initialized and nothing sets them.
NewExternFunction(name, returnType) ==
  [NewFunction(name, returnType) EXCEPT !.kind = "extern", !.constEval = "any", !.constExpr = "any"]

NewMethod(name, returnType) ==
  [name |-> name, returnType |-> returnType, params |-> <<>>, genericParams |-> <<>>,
   variadicName |-> "", isAbstract |-> FALSE, isStatic |-> FALSE, isConstructor |-> FALSE,
   isAsync |-> FALSE, isOperator |-> FALSE, operatorName |-> "", structName |-> <<>>,
   attributes |-> <<>>, throwsAny |-> FALSE, throwsTypes |-> <<>>]

NewField(name, type) == [name |-> name, type |-> type, isMutable |-> FALSE, isConstant |-> FALSE,
                         initializer |-> "none"]

NewProperty(name, type) == [name |-> name, type |-> type, hasGetter |-> FALSE, hasSetter |-> FALSE]

NewStruct(name) ==
  [kind |-> "struct", name |-> name, fields |-> <<>>, methods |-> <<>>, properties |-> <<>>,
   genericParams |-> <<>>, implements |-> <<>>, attributes |-> <<>>, baseType |-> <<>>,
   isErrorType |-> FALSE, errorTag |-> -1, errorBase |-> <<>>, isFromLibrary |-> FALSE]

NewInterface(name) ==
  [kind |-> "interface", name |-> name, methods |-> <<>>, genericParams |-> <<>>,
   isFromLibrary |-> FALSE]

NewVariant(name, types, tag) ==
  [name |-> name, associatedTypes |-> types, tag |-> tag, constants |-> <<>>]

NewEnum(name) ==
  [kind |-> "enum", name |-> name, variants |-> <<>>, fields |-> <<>>, isUnion |-> FALSE,
   genericParams |-> <<>>, isFromLibrary |-> FALSE]

IsGeneric(symbol) == symbol.genericParams # <<>>

Named(members, name) == \E i \in DOMAIN members : members[i].name = name

IsThrowing(f) == f.throwsAny \/ f.throwsTypes # <<>>

\* The parameters a caller passes: a [Location] parameter is filled in.
CallerArity(f) ==
  Cardinality({i \in DOMAIN f.params : ~Named(f.params[i].attributes, "Location")})

----------------------------------------------------------------------------
(* The table *)

Plain(path) == [interface |-> FALSE, path |-> path]

InterfaceKey(path) == [interface |-> TRUE, path |-> path]

KeyOf(symbol) == [interface |-> symbol.kind = "interface", path |-> symbol.name]

\* Mutant: the name after the first separator.
ShortName_AfterFirst(path) == Tail(path)

ShortName(path) == <<Last(path)>>

Keys(scope) == {e.key : e \in ToSet(scope.order)}

IsDefined(scope, key) == key \in Keys(scope)

\* The index of the symbol a key leads to, 0 for none.
Find(scope, key) ==
  IF IsDefined(scope, key)
  THEN (CHOOSE e \in ToSet(scope.order) : e.key = key).id
  ELSE 0

\* defineAlias, defineInterfaceAlias: a key already taken stays as it is.
DefineAlias(scope, key, id) ==
  IF IsDefined(scope, key) THEN scope
  ELSE [scope EXCEPT !.order = Append(@, [key |-> key, id |-> id])]

\* define and its variants.
Define(scope, symbol) ==
  IF IsDefined(scope, KeyOf(symbol)) THEN scope
  ELSE [scope EXCEPT !.symbols = Append(@, symbol),
                     !.order = Append(@, [key |-> KeyOf(symbol), id |-> Len(scope.symbols) + 1])]

IsKind(scope, id, kinds) == id # 0 /\ scope.symbols[id].kind \in kinds

\* lookupFunction
LookupFunction(scope, name) ==
  LET id == Find(scope, Plain(name)) IN IF IsKind(scope, id, {"function", "extern"}) THEN id ELSE 0

\* lookupStruct, lookupEnum: the key itself, or else the first key ending in ::name.
LookupKind(scope, name, kind) ==
  LET id == Find(scope, Plain(name))
      Ends(e) == /\ Len(e.key.path) > Len(name) /\ IsSuffix(name, e.key.path)
                 /\ scope.symbols[e.id].kind = kind
      first == SelectInSeq(scope.order, Ends)
  IN IF IsKind(scope, id, {kind}) THEN id ELSE IF first = 0 THEN 0 ELSE scope.order[first].id

LookupStruct(scope, name) == LookupKind(scope, name, "struct")

LookupEnum(scope, name) == LookupKind(scope, name, "enum")

LookupInterface(scope, name) == Find(scope, InterfaceKey(name))

\* orderedSymbols: one index per key, in the order of definition.
Ordered(scope) == [i \in DOMAIN scope.order |-> scope.order[i].id]

RECURSIVE Distinct(_)
Distinct(ids) ==
  IF ids = <<>> THEN <<>>
  ELSE LET rest == Distinct(Front(ids))
       IN IF Contains(rest, Last(ids)) THEN rest ELSE Append(rest, Last(ids))

OfKind(scope, ids, kind) ==
  SelectSeq([i \in DOMAIN ids |-> scope.symbols[ids[i]]], LAMBDA s : s.kind = kind)

\* get_all_functions, get_all_enums, get_all_interfaces: a symbol once per key.
GetAll(scope, kind) == OfKind(scope, Ordered(scope), kind)

\* get_all_extern_functions: each symbol once.
GetAllExternFunctions(scope) == OfKind(scope, Distinct(Ordered(scope)), "extern")

\* get_all_structs: each symbol once, without the error types.
GetAllStructs(scope) ==
  SelectSeq(OfKind(scope, Distinct(Ordered(scope)), "struct"), LAMBDA s : ~s.isErrorType)

\* addConstExpr, addStaticVar: a second entry of a name replaces the first.
AddEntry(entries, entry) ==
  IF Named(entries, entry.name)
  THEN [i \in DOMAIN entries |-> IF entries[i].name = entry.name THEN entry ELSE entries[i]]
  ELSE Append(entries, entry)

----------------------------------------------------------------------------
(* Error types *)

BuiltinErrors == <<"Exception", "Generic", "DivisionByZero", "Argument", "Overflow",
                   "OutOfBounds", "InvalidArgument", "ContractViolation">>

FirstUserErrorTag == 100

\* The errors that structs name as their base, one after the other.
RECURSIVE Bases(_, _, _)
Bases(scope, id, seen) ==
  IF id = 0 \/ id \in seen THEN seen
  ELSE LET s == scope.symbols[id]
       IN IF ~s.isErrorType \/ s.errorBase = <<>> THEN seen \cup {id}
          ELSE Bases(scope, LookupStruct(scope, s.errorBase), seen \cup {id})

\* is_error_derived_from
IsErrorDerivedFrom(scope, name, baseName) ==
  LET base == LookupStruct(scope, baseName)
  IN /\ base # 0 /\ scope.symbols[base].isErrorType
     /\ base \in Bases(scope, LookupStruct(scope, name), {})
=============================================================================
