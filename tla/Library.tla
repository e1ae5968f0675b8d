--------------------------------- MODULE Library ---------------------------------
(***************************************************************************)
(* A library and its client: one compilation binds the library's programs    *)
(* and writes a .djlib file (lib/DjLibWriter.cpp), another reads it twice,   *)
(* for the sources of generic declarations and for the symbols               *)
(* (lib/DjLibReader.cpp, DjinnCompiler.cpp), and binds the client's programs *)
(* on top.                                                                   *)
(*                                                                         *)
(* The two are processes that share the file. The file is written in place,  *)
(* piece by piece, and the client may read it at any time: after the writer  *)
(* is done, while it writes, or after it died half way.                      *)
(***************************************************************************)
EXTENDS Binder, DjLibFormat

LOCAL INSTANCE SequencesExt
LOCAL INSTANCE FiniteSetsExt
LOCAL INSTANCE TLC

CONSTANTS
  Libraries,    \* the sequences of programs a library is compiled from
  Clients       \* the sequences of programs of a client

\* The size of the parts of a file, in pieces that are written at once.
HeaderSize == 1

MetadataSize == 2

\* A later build of the library has other function bodies and the same declarations.
BitcodeSize(build) == build

FileSize(build) == HeaderSize + MetadataSize + BitcodeSize(build)

\* Bound: how often the library is built.
MaxBuilds == 2

VARIABLES
  library,    \* the compilation of the library
  file,       \* the .djlib file: the build it is of, and how much of it is written
  builds,     \* the metadata of each build that opened the file
  client,     \* the compilation of the client
  reader,     \* the client's DjLibReader at work: the size it saw, the build of each piece it read
  sources     \* what the client's first read found: "unread", "invalid" or "valid"

vars == <<library, file, builds, client, reader, sources>>

\* A compilation: the programs, the binder, the steps ahead and the stage.
Compilation(programs, stage) ==
  [programs |-> programs, binder |-> NewBinder, todo |-> BindAll(programs), stage |-> stage]

NoFile == [build |-> 0, written |-> -1]

NotReading == [size |-> -1, pieces |-> <<>>]

\* The client's binder is created once the library is loaded.
Init ==
  /\ \E programs \in Libraries : library = Compilation(programs, "bind")
  /\ \E programs \in Clients : client = [Compilation(programs, "start") EXCEPT !.todo = <<>>]
  /\ file = NoFile /\ builds = <<>>
  /\ reader = NotReading /\ sources = "unread"

----------------------------------------------------------------------------
(* Binding *)

\* One step of bindAll, for either compilation c.
Bound(c, b) ==
  IF b.status = "thrown" THEN [c EXCEPT !.binder = b, !.todo = <<>>, !.stage = "failed"]
  ELSE [c EXCEPT !.binder = b, !.todo = Tail(@)]

LibraryStep ==
  /\ library.stage = "bind" /\ library.todo # <<>>
  /\ \E b \in Perform(library.binder, Head(library.todo)) : library' = Bound(library, b)
  /\ UNCHANGED <<file, builds, client, reader, sources>>

ClientStep ==
  /\ client.stage = "bind" /\ client.todo # <<>>
  /\ \E b \in Perform(client.binder, Head(client.todo)) : client' = Bound(client, b)
  /\ UNCHANGED <<library, file, builds, reader, sources>>

\* An error reported on the way fails the compilation in the end.
ClientDone ==
  /\ client.stage = "bind" /\ client.todo = <<>>
  /\ client' = [client EXCEPT !.stage = IF client.binder.status = "ok" THEN "ok" ELSE "failed"]
  /\ UNCHANGED <<library, file, builds, reader, sources>>

----------------------------------------------------------------------------
(* Writing *)

Prefixed(program, name) == Append(program.fileNamespace, name)

CollectMacros(programs) ==
  ForEach(programs, LAMBDA p : [i \in DOMAIN p.macros |->
    [name |-> Prefixed(p, p.macros[i].name), rules |-> Map(EncodeMacroRule, p.macros[i].rules)]])

CollectAttributeDecls(programs) ==
  ForEach(programs, LAMBDA p : [i \in DOMAIN p.attributeDecls |->
    [name |-> Prefixed(p, p.attributeDecls[i].name),
     targetArgs |-> Map(EncodeAttributeArg, p.attributeDecls[i].targetArgs)]])

CollectConstExprs(b) ==
  Map(LAMBDA e : [name |-> e.name, type |-> EncodeType(e.type)], b.consts)

CollectStaticVars(b) ==
  Map(LAMBDA e : [name |-> e.name, type |-> EncodeType(e.type), isMutable |-> e.isMutable], b.statics)

HasGenerics(program) ==
  \E decl \in ToSet(program.structs) \cup ToSet(program.enums) : decl.genericParams # <<>>

\* The whole source of each program with a generic struct or enum.
CollectGenericSources(programs) == SelectSeq(programs, HasGenerics)

CollectSymbols(b, flags) ==
  [structs |-> Map(SerializeStruct, GetAllStructs(b)),
   functions |-> Map(SerializeFunction, GetAll(b, "function")),
   externFunctions |-> Map(LAMBDA f : SerializeExternFunction(f, flags), GetAllExternFunctions(b)),
   enums |-> Map(SerializeEnum, GetAll(b, "enum")),
   interfaces |-> Map(SerializeInterface, GetAll(b, "interface"))]

\* serializeMetadata. Nothing reads the impl blocks: they are left out.
SerializeMetadata(b, programs, flags) ==
  CollectSymbols(b, flags) @@
  [macros |-> CollectMacros(programs),
   attributeDecls |-> CollectAttributeDecls(programs),
   constExprs |-> CollectConstExprs(b),
   staticVars |-> CollectStaticVars(b)]
  @@ (IF CollectGenericSources(programs) = <<>> THEN <<>>
      ELSE [genericSources |-> CollectGenericSources(programs)])

\* Opening the file empties it, whatever an earlier build left there and whoever reads it. The
\* flags of extern functions are whatever memory held. A later build binds the same
\* declarations: its binding is not repeated.
OpenFile ==
  /\ \/ library.stage = "bind" /\ library.todo = <<>> /\ library.binder.status = "ok"
     \/ library.stage = "ok" /\ file.build < MaxBuilds
  /\ \E flags \in IF GetAllExternFunctions(library.binder) = <<>> THEN {{}}
                  ELSE SUBSET {"consteval", "constexpr"} :
       builds' = Append(builds, SerializeMetadata(library.binder, library.programs, flags))
  /\ file' = [build |-> file.build + 1, written |-> 0]
  /\ library' = [library EXCEPT !.stage = "write"]
  /\ UNCHANGED <<client, reader, sources>>

LibraryFails ==
  /\ library.stage = "bind" /\ library.todo = <<>> /\ library.binder.status # "ok"
  /\ library' = [library EXCEPT !.stage = "failed"]
  /\ UNCHANGED <<file, builds, client, reader, sources>>

\* Header, metadata and bitcode, one after the other.
WritePiece ==
  /\ library.stage = "write"
  /\ file' = [file EXCEPT !.written = @ + 1]
  /\ library' = [library EXCEPT !.stage = IF file'.written = FileSize(file.build) THEN "ok" ELSE @]
  /\ UNCHANGED <<builds, client, reader, sources>>

----------------------------------------------------------------------------
(* Reading *)

\* DjLibReader::read takes the size of the file, then the header, then as much as the header
\* announces, each from the file as it is by then.

\* What the header that was read announces.
Announced == FileSize(reader.pieces[1])

AllRead == reader.pieces # <<>> /\ Len(reader.pieces) = Announced

\* Mutant: neither the size of the file nor the state of the stream is looked at.
TurnedDown_Unchecked == reader = NotReading /\ file.written < HeaderSize

\* There is no file, or it is shorter than a header; the header is not there any more; the file
\* was shorter than the header announces; it ends before all of that is read (in.good()).
TurnedDown ==
  \/ reader = NotReading /\ file.written < HeaderSize
  \/ reader # NotReading /\ reader.pieces # <<>> /\ reader.size < Announced
  \/ reader # NotReading /\ ~AllRead /\ file.written <= Len(reader.pieces)

BeginRead ==
  /\ client.stage \in {"start", "load"} /\ reader = NotReading /\ ~TurnedDown
  /\ reader' = [size |-> file.written, pieces |-> <<>>]
  /\ UNCHANGED <<library, file, builds, client, sources>>

ReadPiece ==
  /\ reader # NotReading /\ ~TurnedDown /\ ~AllRead
  /\ reader' = [reader EXCEPT !.pieces = Append(@, file.build)]
  /\ UNCHANGED <<library, file, builds, client, sources>>

\* json::parse: the metadata of a build; pieces of two builds make sense or they do not.
Parsed == {builds[reader.pieces[i]] : i \in HeaderSize + 1 .. HeaderSize + MetadataSize}
MayNotParse == Cardinality({reader.pieces[i] : i \in HeaderSize + 1 .. HeaderSize + MetadataSize}) > 1

Accepts == reader # NotReading /\ ~TurnedDown /\ AllRead
Refuses == TurnedDown \/ (Accepts /\ MayNotParse)

Holds(metadata, key) == key \in DOMAIN metadata /\ metadata[key] # <<>>

\* The file name of a program that was parsed again.
LibrarySource == "[djlib]"

\* What is left of a generic source that was parsed again.
KeepGenerics(program) ==
  LET Generic(decl) == decl.genericParams # <<>>
  IN [program EXCEPT !.name = LibrarySource, !.structs = SelectSeq(@, Generic), 
                     !.enums = SelectSeq(@, Generic), !.functions = <<>>, !.externFunctions = <<>>,
                     !.staticVars = <<>>, !.constExprs = <<>>]

\* The first read, for the parser, which also learns the names of types.
ReadSources ==
  /\ client.stage = "start" /\ Accepts
  /\ \E meta \in Parsed :
       client' = [client EXCEPT !.stage = "load",
                    !.programs = IF Holds(meta, "genericSources")
                                 THEN Map(KeepGenerics, meta.genericSources) \o @ ELSE @]
  /\ sources' = "valid" /\ reader' = NotReading
  /\ UNCHANGED <<library, file, builds>>

\* A file that is not valid is passed over.
PassOver ==
  /\ client.stage = "start" /\ Refuses
  /\ client' = [client EXCEPT !.stage = "load"]
  /\ sources' = "invalid" /\ reader' = NotReading
  /\ UNCHANGED <<library, file, builds>>

FromLibrary(symbol) == [symbol EXCEPT !.isFromLibrary = TRUE]

\* define, then the plain name as an alias unless it is taken. A symbol that define refuses
\* is still what its plain name leads to.
DefineWithAlias(b, symbol) ==
  LET known == IsDefined(b, KeyOf(symbol))
      extended == IF known THEN [b EXCEPT !.symbols = Append(@, symbol)] ELSE Define(b, symbol)
      short == Plain(ShortName(symbol.name))
  IN IF Len(symbol.name) = 1 THEN Define(b, symbol)
     ELSE IF known /\ IsDefined(b, short) THEN b
     ELSE DefineAlias(extended, short, Len(extended.symbols))

\* The plain name of an interface is a symbol of its own.
DefineInterface(b, symbol) ==
  LET defined == Define(b, symbol)
  IN IF Len(symbol.name) = 1 THEN defined
     ELSE Define(defined, [NewInterface(ShortName(symbol.name)) EXCEPT
                             !.methods = symbol.methods, !.genericParams = symbol.genericParams])


\* Generic declarations come from their sources when there are sources.
Skipped(metadata, symbol) == Holds(metadata, "genericSources") /\ IsGeneric(symbol)

Injected(metadata, Decode1(_), list) ==
  SelectSeq(Map(LAMBDA j : FromLibrary(Decode1(j)), list), LAMBDA s : ~Skipped(metadata, s))

PopulateSymbolTable(b, metadata) ==
  LET withInterfaces == FoldLeft(DefineInterface, b,
        Map(LAMBDA j : FromLibrary(DeserializeInterface(j)), metadata.interfaces))
      withStructs == FoldLeft(DefineWithAlias, withInterfaces,
        Injected(metadata, DeserializeStruct, metadata.structs))
      withEnums == FoldLeft(DefineWithAlias, withStructs,
        Injected(metadata, DeserializeEnum, metadata.enums))
      withFunctions == FoldLeft(DefineWithAlias, withEnums,
        Map(LAMBDA j : FromLibrary(DeserializeFunction(j)), metadata.functions))
  IN FoldLeft(Define, withFunctions,
        Map(LAMBDA j : FromLibrary(DeserializeExternFunction(j)), metadata.externFunctions))

\* populateAttributeTargets looks for one target in each string. Attributes are used by their
\* plain names: the entry of the qualified name is left out.
OneTarget(parts) ==
  LET order == <<"Function", "Method", "Struct", "Field", "Parameter", "ReturnValue", "Variable">>
      first == SelectInSeq(order, LAMBDA t : t \in ToSet(parts))
  IN IF first # 0 THEN {order[first]} ELSE IF "All" \in ToSet(parts) THEN AllTargets ELSE {}

PopulateAttributeTargets(b, metadata) ==
  LET Mask(j) == UNION {OneTarget(j.targetArgs[i].value) :
                        i \in {i \in DOMAIN j.targetArgs : j.targetArgs[i].type = "string"}}
      Entry(j) == [name |-> Last(j.name), mask |-> IF Mask(j) = {} THEN AllTargets ELSE Mask(j)]
  IN [b EXCEPT !.targets = FoldLeft(AddEntry, @, Map(Entry, metadata.attributeDecls))]

\* The qualified name and the plain one.
BothNames(path) == IF Len(path) = 1 THEN <<path>> ELSE <<path, ShortName(path)>>

PopulateConstExprs(b, metadata) ==
  LET Add(c, j) == FoldLeft(LAMBDA d, name :
        Define([d EXCEPT !.consts = AddEntry(@, [name |-> name, type |-> DecodeType(j.type)])],
               NewVariable(name, DecodeType(j.type), FALSE)), c, BothNames(j.name))
  IN FoldLeft(Add, b, metadata.constExprs)

\* Static variables stay in the bitcode: only their symbols are defined.
PopulateStaticVars(b, metadata) ==
  LET Add(c, j) == FoldLeft(LAMBDA d, name :
        Define(d, FromLibrary(NewVariable(name, DecodeType(j.type), j.isMutable))), c, BothNames(j.name))
  IN FoldLeft(Add, b, metadata.staticVars)

PopulateMacros(program, metadata) ==
  [program EXCEPT !.macros = @ \o Map(LAMBDA j : [name |-> j.name,
                                                  rules |-> Map(DecodeMacroRule, j.rules)],
                                      metadata.macros)]

\* injectLibrarySymbols
InjectLibrarySymbols(b, metadata) ==
  PopulateStaticVars(
    PopulateConstExprs(
      PopulateAttributeTargets(PopulateSymbolTable(b, metadata), metadata), metadata), metadata)

\* The second read, for the symbols.
LoadLibrary ==
  /\ client.stage = "load" /\ Accepts
  /\ \E meta \in Parsed :
       LET programs == Map(LAMBDA p : PopulateMacros(p, meta), client.programs)
       IN client' = [client EXCEPT !.stage = "bind", !.programs = programs,
                                   !.todo = BindAll(programs),
                                   !.binder = InjectLibrarySymbols(@, meta)]
  /\ reader' = NotReading
  /\ UNCHANGED <<library, file, builds, sources>>

\* It fails the compilation where the file is not valid.
LoadFails ==
  /\ client.stage = "load" /\ Refuses
  /\ client' = [client EXCEPT !.stage = "failed"]
  /\ reader' = NotReading
  /\ UNCHANGED <<library, file, builds, sources>>

----------------------------------------------------------------------------

Next ==
  \/ LibraryStep \/ OpenFile \/ LibraryFails \/ WritePiece
  \/ BeginRead \/ ReadPiece \/ ReadSources \/ PassOver \/ LoadLibrary \/ LoadFails \/ ClientStep \/ ClientDone

Spec == Init /\ [][Next]_vars

----------------------------------------------------------------------------
(* Properties *)

\* The client has taken symbols from the file.
Loaded == client.binder # NewBinder

\* What the format promises of a type, a part and a symbol: all but the members it has no
\* key for.
RECURSIVE PromisedType(_)
PromisedType(t) ==
  [t EXCEPT !.nonZero = FALSE, !.elementType = Map(PromisedType, @), !.genericArgs = Map(PromisedType, @)]

Typed(part) == [part EXCEPT !.type = PromisedType(@)]

PromisedMethod(m) ==
  [m EXCEPT !.returnType = PromisedType(@), !.params = Map(Typed, @), !.throwsAny = FALSE,
            !.throwsTypes = <<>>]

PromisedFunction(f) ==
  [f EXCEPT !.returnType = PromisedType(@), !.params = Map(Typed, @), !.throwsAny = FALSE,
            !.throwsTypes = <<>>, !.contracts = <<>>, !.isFromLibrary = TRUE]

PromisedStruct(s) ==
  [s EXCEPT !.fields = Map(LAMBDA f : [Typed(f) EXCEPT !.initializer = "none"], @),
            !.methods = Map(PromisedMethod, @), !.properties = Map(Typed, @),
            !.baseType = Map(PromisedType, @), !.isFromLibrary = TRUE]

PromisedEnum(e) ==
  [e EXCEPT !.variants = Map(LAMBDA v : [v EXCEPT !.constants = <<>>,
                                           !.associatedTypes = Map(PromisedType, @)], @),
            !.fields = <<>>, !.isUnion = FALSE, !.isFromLibrary = TRUE]

PromisedInterface(i) == [i EXCEPT !.methods = Map(PromisedMethod, @), !.isFromLibrary = TRUE]

\* s is the client's symbol for t. Impl blocks of the client may have added to a struct.
Represents(s, t) ==
  CASE t.kind \in {"function", "extern"} -> s = PromisedFunction(t)
    [] t.kind = "struct" ->
         LET p == PromisedStruct(t)
         IN /\ s.kind = "struct"
            /\ \A part \in {"fields", "methods", "implements"} : IsPrefix(p[part], s[part])
            /\ \A part \in {"name", "properties", "genericParams", "attributes", "baseType",
                            "isErrorType", "isFromLibrary"} : s[part] = p[part]
    [] t.kind = "enum" -> s = PromisedEnum(t)
    [] t.kind = "interface" -> s = PromisedInterface(t)
    [] t.kind = "variable" -> /\ s.kind = "variable" /\ s.type = PromisedType(t.type)
                             /\ s.isMutable = t.isMutable

LibrarySymbols == ToSet(library.binder.symbols)

OwnPrograms == {p \in ToSet(client.programs) : p.name # LibrarySource}

\* A global symbol whose name another one of the library has in a namespace, or a struct that
\* the client has a struct of the same plain name of: the plain name may lead to either.
Homonymous(symbol) ==
  \/ /\ Len(symbol.name) = 1 /\ symbol.kind # "variable"
     /\ \E other \in LibrarySymbols : other.name # symbol.name /\ Last(other.name) = symbol.name[1]
  \/ symbol.kind = "struct" /\ \E p \in OwnPrograms : Named(p.structs, Last(symbol.name))

\* Error types are not written; generic declarations come from their source.
Promised(symbol) ==
  /\ symbol.kind = "struct" => ~symbol.isErrorType
  /\ symbol.kind \in {"struct", "enum"} => ~IsGeneric(symbol)
  /\ ~Homonymous(symbol)

\* The kinds of tokens without a text and the files of places are lost.
PromisedToken(t) ==
  [t EXCEPT !.type = IF @ \in UnwrittenKinds THEN "UNKNOWN" ELSE @, !.position.fileId = "",
            !.position.index = 0, !.position.column = IF t.position.line = 0 THEN 0 ELSE @]

PromisedMacro(p, macro) ==
  [name |-> Prefixed(p, macro.name),
   rules |-> Map(LAMBDA r : [r EXCEPT !.bodyTokens = Map(PromisedToken, @)], macro.rules)]

\* Each string names one target, and the client does not declare the attribute itself.
PromisedTargets(decl) ==
  /\ \A i \in DOMAIN decl.targetArgs :
       decl.targetArgs[i].type = "string" => Len(decl.targetArgs[i].value) = 1
  /\ ~ \E p \in OwnPrograms : Named(p.attributeDecls, decl.name)

\* Every function, extern function, struct, enum, interface, constant and static variable of
\* the library is in the client's table under its own name with the signature it was compiled
\* with, up to the members the format has no key for, and stays so while the client is bound:
\* DjLibWriter::collectSymbols and DjLibReader::populateSymbolTable agree member by member.
\* So are the macros in its programs and the targets of attributes in its binder.
RoundTrip ==
  Loaded =>
    /\ \A symbol \in LibrarySymbols :
         Promised(symbol) =>
           LET id == Find(client.binder, KeyOf(symbol))
           IN id # 0 /\ Represents(client.binder.symbols[id], symbol)
    /\ \A p \in ToSet(library.programs) :
         /\ \A i \in DOMAIN p.macros : \A q \in ToSet(client.programs) :
              PromisedMacro(p, p.macros[i]) \in ToSet(q.macros)
         /\ \A i \in DOMAIN p.attributeDecls :
              LET decl == p.attributeDecls[i]
              IN PromisedTargets(decl) => TargetsOf(client.binder.targets, decl.name)
                                          = TargetsOf(library.binder.targets, decl.name)

\* A client that accepts the file, at either read, has all of it from one build that is done,
\* though the writer works beside it, piece by piece, and may have died half way: what
\* DjLibReader::read takes first (the size), then (the header) and last (the rest) belongs
\* together, unless the library was built again after the client had read the header.
TornRejected ==
  [][Accepts /\ reader' = NotReading /\ reader.pieces[1] = file.build =>
       /\ Range(reader.pieces) = {file.build}
       /\ file.written = FileSize(file.build) /\ Len(reader.pieces) = file.written]_vars

AliasesExactIn(b, done) ==
  /\ \A e \in ToSet(b.order) : Last(e.key.path) = Last(b.symbols[e.id].name)
  /\ done => \A key \in Keys(b) : Len(key.path) > 1 => IsDefined(b, Plain(<<Last(key.path)>>))

\* Binder::bindAll and DjLibReader::populateSymbolTable: a key always leads to a symbol of its
\* last name, and once the programs are bound every name in a namespace is also known by its
\* last part alone, whether it was declared, imported or read from the library.
AliasesExact ==
  /\ AliasesExactIn(library.binder, library.stage \in {"write", "ok"})
  /\ AliasesExactIn(client.binder, client.stage = "ok")

ErrorTagsExactIn(b) ==
  LET errors == {id \in DOMAIN b.symbols : b.symbols[id].kind = "struct" /\ b.symbols[id].isErrorType}
  IN /\ \A i, j \in errors : b.symbols[i].errorTag = b.symbols[j].errorTag => i = j
     /\ \A i \in errors : IsErrorDerivedFrom(b, b.symbols[i].name, <<BuiltinErrors[1]>>)

\* Binder::collectStruct: within one compilation no two error types have the same tag, which is
\* all that tells a caught error's type apart, and the bases of each lead to Exception.
ErrorTagsExact == ErrorTagsExactIn(library.binder) /\ ErrorTagsExactIn(client.binder)

DeclaredKeys(program) == {KeyOf(symbol) : symbol \in
  {[kind |-> step.kind, name |-> Append(step.prefix, step.decl.name)] :
     step \in {step \in ToSet(AcceptAll(program)) : step.kind # "impl"}}}

CallsOf(program) ==
  UNION {ToSet(step.decl.calls) : step \in {step \in ToSet(BindProgram(program)) : step.kind = "function"}}

\* Whatever function a plain name leads to takes the call.
Suits(call) ==
  LET callees == {symbol \in LibrarySymbols : Last(symbol.name) = call.name}
  IN call.handled = "none" /\ callees # {} /\ \A symbol \in callees :
       /\ symbol.kind \in {"function", "extern"} /\ ~symbol.isVariadic
       /\ CallerArity(symbol) = call.arguments /\ ~IsThrowing(symbol)

\* What a struct may derive from: a builtin error, an interface of the library it has the
\* methods of. The library's error types are not written into the file.
Offered(base, struct) ==
  \/ \E i \in DOMAIN BuiltinErrors : base = <<BuiltinErrors[i]>>
  \/ \E symbol \in LibrarySymbols :
       /\ symbol.kind = "interface" /\ base \in {symbol.name, ShortName(symbol.name)}
       /\ \A i \in DOMAIN symbol.methods : Named(struct.methods, symbol.methods[i].name)

\* The client declares nothing that the library has, derives from what there is and calls what
\* there is. A library with a namespace block beside a generic declaration is left out: its
\* block is declared twice.
Compatible ==
  /\ \A p \in OwnPrograms :
       /\ DeclaredKeys(p) \cap Keys(library.binder) = {}
       /\ \A struct \in ToSet(p.structs) : \A base \in ToSet(struct.implements) : Offered(base, struct)
       /\ \A call \in CallsOf(p) : Suits(call)
  /\ \A p \in ToSet(library.programs) : HasGenerics(p) => p.namespaces = <<>>


\* examples/error_handling.md: a call to a throwing function must be handled. A client that
\* compiles has no unhandled call, outside functions that throw, of a library function that
\* throws.
CallsHandled ==
  client.stage = "ok" => \A p \in OwnPrograms : \A i \in DOMAIN p.functions :
    LET f == p.functions[i]
    IN ~f.throwsAny /\ f.throwsTypes = <<>> => \A call \in ToSet(f.calls) :
         LET callee == client.binder.symbols[LookupFunction(client.binder, <<call.name>>)]
         IN call.handled = "none" => ~ \E symbol \in LibrarySymbols :
              symbol.kind = "function" /\ symbol.name = callee.name /\ IsThrowing(symbol)
=============================================================================
