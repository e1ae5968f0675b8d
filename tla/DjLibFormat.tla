------------------------------- MODULE DjLibFormat -------------------------------
(***************************************************************************)
(* The metadata of a .djlib file (lib/DjLibFormat.h): how symbols become     *)
(* JSON objects and symbols again.                                           *)
(*                                                                         *)
(* A JSON object is a function on the set of its keys; a key is called after *)
(* the member it holds. Members of scalar value are written as they are,     *)
(* types and lists of parts are converted. A member that no key holds is     *)
(* read back as the constructor leaves it.                                   *)
(***************************************************************************)
EXTENDS Symbols

LOCAL INSTANCE Functions
LOCAL INSTANCE TLC

\* always are the members written in any case, optional the ones left out when they are
\* as in a new object.
Encode(object, new, always, optional) ==
  Restrict(object, always \cup {m \in optional : object[m] # new[m]})

\* The members read are taken from the JSON object where it has them.
Decode(json, new, read) ==
  [m \in DOMAIN new |-> IF m \in read \cap DOMAIN json THEN json[m] ELSE new[m]]

Map(Op(_), list) == [i \in DOMAIN list |-> Op(list[i])]

----------------------------------------------------------------------------
(* Tokens and macros *)

\* The kinds serializeTokenType has no case for.
UnwrittenKinds == {"NULL_KW", "QUESTION", "QUESTION_DOT", "QUESTION_QUESTION",
                   "QUESTION_QUESTION_EQUAL", "BANG_DOT", "THROW", "THROWS", "TRY", "REQUIRE",
                   "ENSURE"}

SerializeTokenType(kind) == IF kind \in UnwrittenKinds THEN "UNKNOWN" ELSE kind

\* Its table has each text that is written.
DeserializeTokenType(text) == text

FragmentTypes == {"expression", "identifier", "literal", "type", "block", "literal_token"}

StringToFragmentType(text) == IF text \in FragmentTypes THEN text ELSE "expression"

NewPosition == [fileId |-> "", line |-> 0, column |-> 0, index |-> 0]

EncodePosition(p) == Encode(p, NewPosition, {"line", "column"}, {})

DecodePosition(j) == Decode(j, NewPosition, {"line", "column"})

NewToken == [type |-> "UNKNOWN", value |-> "", position |-> NewPosition]

\* The place is left out on line 0.
EncodeToken(t) ==
  [type |-> SerializeTokenType(t.type), value |-> t.value]
  @@ IF t.position.line = 0 THEN <<>> ELSE [position |-> EncodePosition(t.position)]

DecodeToken(j) ==
  [NewToken EXCEPT !.type = DeserializeTokenType(j.type), !.value = j.value,
                   !.position = IF "position" \in DOMAIN j THEN DecodePosition(j.position) ELSE @]

NewMacroParameter == [fragmentType |-> "expression", name |-> "", isLocal |-> FALSE,
                      literalToken |-> ""]

EncodeMacroParameter(p) ==
  Encode(p, NewMacroParameter, {"fragmentType", "name"}, {"isLocal", "literalToken"})

DecodeMacroParameter(j) ==
  [Decode(j, NewMacroParameter, {"name", "isLocal", "literalToken"}) EXCEPT
     !.fragmentType = StringToFragmentType(j.fragmentType)]

NewMacroRule == [parameters |-> <<>>, bodyTokens |-> <<>>, isVoid |-> FALSE]

EncodeMacroRule(r) ==
  Encode([r EXCEPT !.parameters = Map(EncodeMacroParameter, @), !.bodyTokens = Map(EncodeToken, @)],
         NewMacroRule, {"parameters", "bodyTokens"}, {"isVoid"})

DecodeMacroRule(j) ==
  [Decode(j, NewMacroRule, {"isVoid"}) EXCEPT
     !.parameters = Map(DecodeMacroParameter, j.parameters),
     !.bodyTokens = Map(DecodeToken, j.bodyTokens)]

----------------------------------------------------------------------------
(* Types and the parts of symbols *)

\* nonZero is not among the members.
TypeMembers == {"size", "sign", "nullable", "readOnly", "isTransparent", "native", "overflowMode",
                "structName", "genericArgs", "elementType"}

RECURSIVE EncodeType(_)
EncodeType(t) ==
  Encode([t EXCEPT !.genericArgs = Map(EncodeType, @), !.elementType = Map(EncodeType, @)],
         Void, {"kind"}, TypeMembers)

RECURSIVE DecodeType(_)
DecodeType(j) ==
  [Decode(j, Void, {"kind"} \cup TypeMembers) EXCEPT
     !.genericArgs = Map(DecodeType, @), !.elementType = Map(DecodeType, @)]

NewGenericParam == [name |-> "", constraints |-> <<>>]

EncodeGenericParam(g) == Encode(g, NewGenericParam, {"name"}, {"constraints"})

DecodeGenericParam(j) == Decode(j, NewGenericParam, {"name", "constraints"})

\* name is a sequence of at most one name; type is the alternative that value holds.
NewAttributeArg == [name |-> <<>>, type |-> "int", value |-> 0]

EncodeAttributeArg(a) == Encode(a, NewAttributeArg, {"type", "value"}, {"name"})

DecodeAttributeArg(j) == Decode(j, NewAttributeArg, {"name", "type", "value"})

NewAttribute == [name |-> "", args |-> <<>>]

EncodeAttribute(a) ==
  Encode([a EXCEPT !.args = Map(EncodeAttributeArg, @)], NewAttribute, {"name"}, {"args"})

DecodeAttribute(j) ==
  [Decode(j, NewAttribute, {"name", "args"}) EXCEPT !.args = Map(DecodeAttributeArg, @)]

\* The constants are not written.
EncodeVariant(v) ==
  Encode([v EXCEPT !.associatedTypes = Map(EncodeType, @)], NewVariant("", <<>>, 0),
         {"name", "tag"}, {"associatedTypes"})

DecodeVariant(j) ==
  [Decode(j, NewVariant("", <<>>, 0), {"name", "tag", "associatedTypes"}) EXCEPT
     !.associatedTypes = Map(DecodeType, @)]

EncodeProperty(p) ==
  Encode([p EXCEPT !.type = EncodeType(@)], NewProperty("", Void), {"name", "type"},
         {"hasGetter", "hasSetter"})

DecodeProperty(j) ==
  [Decode(j, NewProperty("", Void), {"name", "type", "hasGetter", "hasSetter"}) EXCEPT
     !.type = DecodeType(@)]

\* The initializer is not written.
EncodeField(f) ==
  Encode([f EXCEPT !.type = EncodeType(@)], NewField("", Void), {"name", "type"},
         {"isMutable", "isConstant"})

DecodeField(j) ==
  [Decode(j, NewField("", Void), {"name", "type", "isMutable", "isConstant"}) EXCEPT
     !.type = DecodeType(@)]

\* The parameters of functions and methods; those of methods are never mut.
EncodeParameter(p) ==
  Encode([p EXCEPT !.type = EncodeType(@), !.attributes = Map(EncodeAttribute, @)],
         NewParameter("", Void), {"name", "type"}, {"mut", "attributes"})

\* Mutant: the attributes of parameters are not read.
DecodeParameter_NoAttributes(j) ==
  [Decode(j, NewParameter("", Void), {"name", "type", "mut"}) EXCEPT !.type = DecodeType(@)]

DecodeParameter(j) ==
  [Decode(j, NewParameter("", Void), {"name", "type", "mut", "attributes"}) EXCEPT
     !.type = DecodeType(@), !.attributes = Map(DecodeAttribute, @)]

----------------------------------------------------------------------------
(* Symbols *)

\* What a method throws is not written.
SerializeMethod(m) ==
  Encode([m EXCEPT !.returnType = EncodeType(@), !.params = Map(EncodeParameter, @),
                   !.genericParams = Map(EncodeGenericParam, @),
                   !.attributes = Map(EncodeAttribute, @)],
         NewMethod("", Void), {"name", "returnType", "structName", "params"},
         {"genericParams", "attributes", "isAbstract", "isStatic", "isConstructor", "isAsync",
          "isOperator", "variadicName"} \cup IF m.isOperator THEN {"operatorName"} ELSE {})

DeserializeMethod(j) ==
  [Decode(j, NewMethod("", Void),
          {"name", "structName", "genericParams", "attributes", "isAbstract", "isStatic",
           "isConstructor", "isAsync", "isOperator", "operatorName", "variadicName"}) EXCEPT
     !.returnType = DecodeType(j.returnType), !.params = Map(DecodeParameter, j.params),
     !.genericParams = Map(DecodeGenericParam, @), !.attributes = Map(DecodeAttribute, @)]

\* Neither are the throws clause and the contracts of a function.
SerializeFunction(f) ==
  Encode([f EXCEPT !.returnType = EncodeType(@), !.params = Map(EncodeParameter, @)],
         NewFunction("", Void), {"name", "returnType", "params"},
         {"isVariadic", "isAsync", "constEval", "constExpr"})

DeserializeFunction(j) ==
  [Decode(j, NewFunction("", Void), {"name", "isVariadic", "isAsync", "constEval", "constExpr"})
     EXCEPT !.returnType = DecodeType(j.returnType), !.params = Map(DecodeParameter, j.params)]

\* flags are the ones of consteval and constexpr that happen to be set in the extern function.
SerializeExternFunction(f, flags) ==
  [abi |-> f.abi, extern |-> TRUE]
  @@ SerializeFunction([f EXCEPT !.constEval = "consteval" \in flags,
                                 !.constExpr = "constexpr" \in flags])

DeserializeExternFunction(j) ==
  [Decode(j, NewExternFunction("", Void), {"name", "isVariadic", "abi"}) EXCEPT
     !.returnType = DecodeType(j.returnType), !.params = Map(DecodeParameter, j.params)]

\* Error types are never serialized: isErrorType, errorTag and errorBase are not written.
SerializeStruct(s) ==
  Encode([s EXCEPT !.fields = Map(EncodeField, @), !.genericParams = Map(EncodeGenericParam, @),
                   !.attributes = Map(EncodeAttribute, @), !.baseType = Map(EncodeType, @),
                   !.methods = Map(SerializeMethod, @), !.properties = Map(EncodeProperty, @)],
         NewStruct(<<>>), {"name", "fields"},
         {"genericParams", "implements", "attributes", "baseType", "methods", "properties"})

DeserializeStruct(j) ==
  [Decode(j, NewStruct(<<>>), {"name", "fields", "genericParams", "implements", "attributes",
                               "baseType", "methods", "properties"}) EXCEPT
     !.fields = Map(DecodeField, @), !.genericParams = Map(DecodeGenericParam, @),
     !.attributes = Map(DecodeAttribute, @), !.baseType = Map(DecodeType, @),
     !.methods = Map(DeserializeMethod, @), !.properties = Map(DecodeProperty, @)]

\* The fields of an enum and whether it is a union are not written.
SerializeEnum(e) ==
  Encode([e EXCEPT !.variants = Map(EncodeVariant, @), !.genericParams = Map(EncodeGenericParam, @)],
         NewEnum(<<>>), {"name", "variants"}, {"genericParams"})

DeserializeEnum(j) ==
  [Decode(j, NewEnum(<<>>), {"name", "variants", "genericParams"}) EXCEPT
     !.variants = Map(DecodeVariant, @), !.genericParams = Map(DecodeGenericParam, @)]

SerializeInterface(i) ==
  Encode([i EXCEPT !.genericParams = Map(EncodeGenericParam, @), !.methods = Map(SerializeMethod, @)],
         NewInterface(<<>>), {"name"}, {"genericParams", "methods"})

DeserializeInterface(j) ==
  [Decode(j, NewInterface(<<>>), {"name", "genericParams", "methods"}) EXCEPT
     !.genericParams = Map(DecodeGenericParam, @), !.methods = Map(DeserializeMethod, @)]
=============================================================================
