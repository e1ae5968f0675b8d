------------------------------- MODULE Build -------------------------------
(***************************************************************************)
(* Incremental builds (DjinnCompiler::compileFromDirectory).  The output   *)
(* directory holds executables and .djinn.cache, which remembers the       *)
(* hashes of the source files, of the generated IR and the optimization    *)
(* level of the last build.  A build whose sources match the cache does    *)
(* nothing; one whose IR matches does not run clang.                       *)
(*                                                                         *)
(* The source files change between builds and during builds: the compiler  *)
(* lists the directory, reads the listed files one after the other to hash *)
(* them, lists the directory again, reads the files for the types that     *)
(* they declare and reads them once more to parse them.  It may be killed  *)
(* at any step.  Hashes are taken to be injective.                         *)
(***************************************************************************)
EXTENDS Integers, FiniteSets, FiniteSetsExt

CONSTANTS
    NPaths,     \* source files 1 .. NPaths, in the order of their paths
    Added,      \* those that do not exist in the beginning
    Output,     \* output file names, in one output directory
    Level,      \* optimization levels
    Flag,       \* the values of an option that the cache does not record
    MaxEdits,   \* bound: changes of source files
    MaxBuilds,  \* bound: builds started
    FeatureSets \* what may happen:
                \* "samename"    all source files have the same file name
                \* "levels"      builds differ in the optimization level
                \* "outputs"     builds differ in the output name
                \* "frontflags"  builds differ in an option that changes the
                \*               IR (build mode, reflection mode, -g)
                \* "linkflags"   builds differ in an option for the link only
                \*               (native libraries)
                \* "compileonly" builds without generateBinary
                \* "clangfails"  clang fails
                \* "revert"      a source file gets its first content back
                \* "race"        a source file changes during a build
                \* "crash"       the compiler is killed

ASSUME BuildAssumption ==
    /\ NPaths \in Nat \ {0} /\ Added \subseteq 2 .. NPaths
    /\ \A s \in {Output, Level, Flag} : s \subseteq Nat /\ s # {}
    /\ MaxEdits \in Nat /\ MaxBuilds \in Nat
    /\ \A fs \in FeatureSets :
          fs \subseteq {"samename", "levels", "outputs", "frontflags",
                        "linkflags", "compileonly", "clangfails", "revert",
                        "race", "crash"}

Path == 1 .. NPaths

None == -1

\* The meaning of a file that does not compile.
Broken == -2

\* A file: its text, and what it means; an edit of a comment changes the first
\* only.
Content == [text : 0 .. MaxEdits, code : 0 .. MaxEdits \cup {Broken}]

Absent == [text |-> None, code |-> None]

Sources == [Path -> Content \cup {Absent}]

VARIABLES
    features, \* of this execution
    src,      \* the source files
    edits,
    exe,      \* exe[o]: what the executable was built from
    cache,    \* the contents of .djinn.cache
    pc,       \* of the compiler
    opts,     \* its CompilerOptions
    left,     \* the files that the present pass has not come to
    listed,   \* the files that it found in the directory
    hashed,   \* the files as it hashed them,
    named,    \* as it collected the types that they declare,
    parsed,   \* and as it parsed them (Absent: not read)
    loaded,   \* the cache it loaded
    seen,     \* seen[p]: what file p has been during the build (history)
    builds

reads == <<left, listed, hashed, named, parsed>>

vars == <<features, src, edits, exe, cache, pc, opts, reads, loaded, seen,
          builds>>

\* A choice that builds make only with the feature.
Choice(feature, set) ==
    IF feature \in features THEN set ELSE {CHOOSE x \in set : TRUE}

\* noCache is ~cached; generateBinary is binary.
Options ==
    [out : Choice("outputs", Output), level : Choice("levels", Level),
     front : Choice("frontflags", Flag), link : Choice("linkflags", Flag),
     binary : IF "compileonly" \in features THEN BOOLEAN ELSE {TRUE},
     cached : BOOLEAN]

Present(s) == {p \in Path : s[p] # Absent}

\* f.filename()
NameOf(p) == IF "samename" \in features THEN 1 ELSE p

\* The result of hash_source_files: later files replace earlier ones of the
\* same name.
Hashes(s) ==
    [b \in {NameOf(p) : p \in Present(s)} |->
        s[Max({p \in Present(s) : NameOf(p) = b})].text]

\* The generated module; its name is the output file name.  It depends on the
\* files as they were parsed, s, and, since a name that is a type is parsed in
\* another way, on the files that the types were collected from, t.
Ir(s, t, o) ==
    [code |-> [p \in Present(s) |-> s[p].code],
     types |-> [p \in Present(t) |-> t[p].code],
     front |-> o.front, out |-> o.out]

\* What clang makes of it.
Product(s, t, o) == [ir |-> Ir(s, t, o), level |-> o.level, link |-> o.link]

NoHashes == [b \in {} |-> None]

NoIr == [code |-> NoHashes, types |-> NoHashes, front |-> None, out |-> None]

NoExe == [ir |-> NoIr, level |-> None, link |-> None]

\* BuildCache::load without a file
NoCache == [hashes |-> NoHashes, ir |-> NoIr, level |-> None]

\* BuildCache::matches
Matches(c, h, level) == c.level = level /\ c.hashes = h

Idle == [out |-> None, level |-> None, front |-> None, link |-> None,
         binary |-> FALSE, cached |-> FALSE]

Nothing == [p \in Path |-> Absent]

First == [p \in Path |-> IF p \in Added THEN Absent
                         ELSE [text |-> 0, code |-> 0]]

TypeOK ==
    /\ features \in FeatureSets
    /\ src \in Sources
    /\ \A o \in Output : exe[o] # NoExe =>
          \A p \in DOMAIN exe[o].ir.code : exe[o].ir.code[p] \in 0 .. MaxEdits
    /\ cache.level \in Level \cup {None}
    /\ pc \in {"idle", "list", "hash", "match", "relist", "names", "parse",
              "verify", "clang", "save", "done"}
    /\ left \subseteq Path /\ left # {} /\ listed \subseteq Path
    /\ {hashed, named, parsed} \subseteq Sources
    /\ IF pc = "idle" THEN opts = Idle /\ seen = [p \in Path |-> {}]
       ELSE opts \in Options /\ \A p \in Path : src[p] \in seen[p]

Init ==
    /\ features \in FeatureSets
    /\ src = First
    /\ edits = 0
    /\ exe = [o \in Output |-> NoExe]
    /\ cache = NoCache
    /\ pc = "idle"
    /\ opts = Idle
    /\ left = Path /\ listed = {}
    /\ hashed = Nothing /\ named = Nothing /\ parsed = Nothing
    /\ loaded = NoCache
    /\ seen = [p \in Path |-> {}]
    /\ builds = 0

-----------------------------------------------------------------------------
(***************************************************************************)
(* The programmer.                                                         *)
(***************************************************************************)

Write(p, content) ==
    /\ pc # "idle" => "race" \in features
    /\ edits < MaxEdits
    /\ edits' = edits + 1
    /\ src' = [src EXCEPT ![p] = content]
    /\ seen' = IF pc = "idle" THEN seen
               ELSE [seen EXCEPT ![p] = @ \cup {content}]
    /\ UNCHANGED <<features, exe, cache, pc, opts, reads, loaded, builds>>

\* The text is new; the code is new, unchanged or wrong.
Edit(p) ==
    \E code \in {edits + 1, Broken} \cup ({src[p].code} \ {None}) :
        Write(p, [text |-> edits + 1, code |-> code])

Revert(p) ==
    /\ "revert" \in features /\ src[p] # First[p]
    /\ Write(p, First[p])

-----------------------------------------------------------------------------
(***************************************************************************)
(* The compiler.                                                           *)
(***************************************************************************)

\* Without a cache the sources are not hashed.
Start(o) ==
    /\ pc = "idle" /\ builds < MaxBuilds
    /\ builds' = builds + 1
    /\ opts' = o
    /\ seen' = [p \in Path |-> {src[p]}]
    /\ pc' = IF o.cached THEN "list" ELSE "relist"
    /\ UNCHANGED <<features, src, edits, exe, cache, reads, loaded>>

\* A pass over the files comes to file p; the last one ends it.
Visit(p, pass, next) ==
    /\ pc = pass /\ p \in left
    /\ IF left = {p} THEN left' = Path /\ pc' = next
       ELSE left' = left \ {p} /\ pc' = pass

\* Files are read in the order of their paths.
InOrder(p) == \A q \in left : p <= q

\* The recursive_directory_iterator gives the files in any order.
List(p) ==
    /\ Visit(p, "list", "hash") \/ Visit(p, "relist", "names")
    /\ listed' = IF src[p] = Absent THEN listed ELSE listed \cup {p}
    /\ UNCHANGED <<features, src, edits, exe, cache, opts, hashed, named,
                   parsed, loaded, seen, builds>>

\* A listed file as it is now; one that has gone is passed over.
Read(p) == IF p \in listed THEN src[p] ELSE Absent

\* An iteration of hash_source_files
HashFile(p) ==
    /\ Visit(p, "hash", "match") /\ InOrder(p)
    /\ hashed' = [hashed EXCEPT ![p] = Read(p)]
    /\ UNCHANGED <<features, src, edits, exe, cache, opts, listed, named,
                   parsed, loaded, seen, builds>>

\* Load the cache, and skip everything if it knows the hashes.
Check ==
    /\ pc = "match"
    /\ loaded' = cache
    /\ pc' = IF /\ Matches(cache, Hashes(hashed), opts.level)
                /\ exe[opts.out] # NoExe
             THEN "done" ELSE "relist"
    /\ listed' = {}
    /\ UNCHANGED <<features, src, edits, exe, cache, opts, left, hashed, named,
                   parsed, seen, builds>>

\* collect_declared_type_names
CollectTypes(p) ==
    /\ Visit(p, "names", "parse") /\ InOrder(p)
    /\ named' = [named EXCEPT ![p] = Read(p)]
    /\ UNCHANGED <<features, src, edits, exe, cache, opts, listed, hashed,
                   parsed, loaded, seen, builds>>

\* parseFile
ParseFile(p) ==
    /\ Visit(p, "parse", "verify") /\ InOrder(p)
    /\ parsed' = [parsed EXCEPT ![p] = Read(p)]
    /\ UNCHANGED <<features, src, edits, exe, cache, opts, listed, hashed,
                   named, loaded, seen, builds>>

Compiles(s) == \A p \in Present(s) : s[p].code # Broken

\* The compiler returns, or ends, with nothing more to do.
Leave ==
    /\ pc' = "idle"
    /\ opts' = Idle
    /\ left' = Path /\ listed' = {}
    /\ hashed' = Nothing /\ named' = Nothing /\ parsed' = Nothing
    /\ loaded' = NoCache
    /\ seen' = [p \in Path |-> {}]

\* Bind, generate and verify, unless a file has errors.
Verify ==
    /\ pc = "verify"
    /\ IF Compiles(parsed)
       THEN pc' = "clang" /\ UNCHANGED <<opts, reads, loaded, seen>>
       ELSE Leave
    /\ UNCHANGED <<features, src, edits, exe, cache, builds>>

\* skipClang
SkipClang ==
    /\ opts.cached
    /\ loaded.ir = Ir(parsed, named, opts) /\ loaded.level = opts.level
    /\ exe[opts.out] # NoExe

\* clang links the executable, or fails, with the old one in place or gone.
\* Its exit status is not looked at.
Clang ==
    /\ pc = "clang"
    /\ IF SkipClang \/ ~opts.binary THEN UNCHANGED exe
       ELSE \/ exe' = [exe EXCEPT ![opts.out] = Product(parsed, named, opts)]
            \/ /\ "clangfails" \in features
               /\ \E e \in {exe[opts.out], NoExe} :
                     exe' = [exe EXCEPT ![opts.out] = e]
    /\ pc' = "save"
    /\ UNCHANGED <<features, src, edits, cache, opts, reads, loaded, seen,
                   builds>>

\* Mutant: the sources are hashed when the cache is saved.
SaveLate ==
    /\ pc = "save"
    /\ cache' = [hashes |-> Hashes(src), ir |-> Ir(parsed, named, opts),
                 level |-> opts.level]
    /\ pc' = "done"
    /\ UNCHANGED <<features, src, edits, exe, opts, reads, loaded, seen,
                   builds>>

\* Mutant: the hashes are those of the cache that was loaded.
SaveOld ==
    /\ pc = "save"
    /\ cache' = [hashes |-> loaded.hashes, ir |-> Ir(parsed, named, opts),
                 level |-> opts.level]
    /\ pc' = "done"
    /\ UNCHANGED <<features, src, edits, exe, opts, reads, loaded, seen,
                   builds>>

Save ==
    /\ pc = "save"
    /\ cache' = [hashes |-> Hashes(hashed), ir |-> Ir(parsed, named, opts),
                 level |-> opts.level]
    /\ pc' = "done"
    /\ UNCHANGED <<features, src, edits, exe, opts, reads, loaded, seen,
                   builds>>

\* The executable is run, if asked for, and the build returns.
Return ==
    /\ pc = "done"
    /\ Leave
    /\ UNCHANGED <<features, src, edits, exe, cache, builds>>

\* While it saves the cache, the compiler may leave an empty file.
Crash ==
    /\ "crash" \in features /\ pc # "idle"
    /\ cache' \in {cache} \cup (IF pc = "save" THEN {NoCache} ELSE {})
    /\ Leave
    /\ UNCHANGED <<features, src, edits, exe, builds>>

Terminated ==
    /\ pc = "idle" /\ builds = MaxBuilds /\ edits = MaxEdits
    /\ UNCHANGED vars

Next ==
    \/ \E p \in Path : Edit(p) \/ Revert(p)
    \/ \E o \in Options : Start(o)
    \/ \E p \in Path : List(p) \/ HashFile(p) \/ CollectTypes(p) \/ ParseFile(p)
    \/ Check \/ Verify \/ Clang \/ Save \/ Return \/ Crash
    \/ Terminated

Spec == Init /\ [][Next]_vars

-----------------------------------------------------------------------------

\* Sources of which each file has existed during the build: the sources of
\* one moment, if no file changes in it.
SeenSources ==
    {s \in [Path -> UNION {seen[p] : p \in Path}] :
        \A p \in Path : s[p] \in seen[p]}

\* A build that has not failed leaves an executable made from sources s, with
\* the types of sources t, in which each file is as it has been at some moment
\* during the build.
UpToDate ==
    pc = "done" /\ opts.binary =>
        \E s, t \in SeenSources : exe[opts.out] = Product(s, t, opts)

\* That is so as long as builds differ in the optimization level only, file
\* names differ and clang succeeds.  The files are read one at a time, so that
\* edits during a build can give a program that no moment had; but each file
\* is hashed before it is parsed and the cache is written last, so that what
\* such a build leaves is never taken for up to date later on, even if the
\* compiler is killed in it, unless the sources, or the level, of an earlier
\* build come back.
ExeFresh ==
    /\ features \cap {"samename", "outputs", "frontflags", "linkflags",
                      "compileonly", "clangfails"} = {}
    /\ "revert" \in features => features \cap {"race", "crash"} = {}
    /\ "levels" \in features => "crash" \notin features
    => UpToDate

\* A build that has just been made is not made again: with the sources
\* unchanged since it began, the next one with its options finds everything
\* in the cache ("if no source file changed, skip everything").
SecondBuildSkips ==
    /\ pc = "done" /\ opts.cached /\ opts.binary
    /\ \A p \in Path : seen[p] = {src[p]}
    /\ "clangfails" \notin features
    => /\ Matches(cache, Hashes(src), opts.level)
       /\ exe[opts.out] # NoExe
=============================================================================
