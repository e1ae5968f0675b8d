---------------------------- MODULE BuildProofs ----------------------------
(***************************************************************************)
(* Proofs about incremental builds, for any number of source files, edits  *)
(* and builds.                                                             *)
(*                                                                         *)
(* A build may skip clang, or everything, because of what the cache        *)
(* remembers of the sources.  That is right because every edit makes a     *)
(* text that no file has had before: if the text of a file, or its code,   *)
(* is the recorded one, then the file has kept its code since it was read, *)
(* and everything read from it in between agrees with it.  The files are   *)
(* read one at a time, so this is said of each file apart.  If a file can  *)
(* get its first content back this fails, and the executable and the cache *)
(* must have been made from the same sources; then no source may change    *)
(* during a build, and no build may end in the middle.                     *)
(***************************************************************************)
EXTENDS Build, TLAPS

\* What builds use that do not differ in the option.
TheOut == CHOOSE o \in Output : TRUE

TheFlag == CHOOSE f \in Flag : TRUE

TheLevel == CHOOSE l \in Level : TRUE

-----------------------------------------------------------------------------
(***************************************************************************)
(* The inductive invariant                                                 *)
(***************************************************************************)

\* Contents are numbered by the edits that made them.
ContentOK(c, n) ==
    \/ c = Absent
    \/ /\ c.text \in 0 .. n /\ c.code \in 0 .. n \cup {Broken}
       /\ c = [text |-> c.text, code |-> c.code]
       /\ c.text = 0 => c.code = 0

SourcesOK(s, n) ==
    /\ s \in Sources
    /\ \A p \in Path : ContentOK(s[p], n)

\* The passes over the files.
Passes == {"list", "hash", "relist", "names", "parse"}

Base ==
    /\ features \in FeatureSets
    /\ edits \in 0 .. MaxEdits
    /\ SourcesOK(src, edits) /\ src[1] # Absent
    /\ SourcesOK(hashed, edits) /\ SourcesOK(named, edits)
    /\ SourcesOK(parsed, edits)
    /\ DOMAIN exe = Output
    /\ DOMAIN seen = Path
    /\ pc \in Passes \cup {"idle", "match", "verify", "clang", "save", "done"}
    /\ pc # "idle" => opts \in Options /\ \A p \in Path : src[p] \in seen[p]
    /\ pc \notin Passes => left = Path
    /\ pc \in {"list", "hash", "match"} => opts.cached
    /\ pc = "idle" \/ ~opts.cached => hashed = Nothing

\* The build is past file p in the pass, or in a later step.
Past(p, pass, later) == pc \in later \/ (pc = pass /\ p \notin left)

\* File p is missing from the list that was made last.
Unlisted(p) ==
    /\ \/ Past(p, "list", {"hash", "match"})
       \/ Past(p, "relist", {"names", "parse"})
    /\ p \notin listed

\* The sources have been hashed, if they are.
AfterHash == {"relist", "names", "parse", "verify", "clang", "save", "done"}

IsHashed(p) == opts.cached /\ Past(p, "hash", {"match"} \cup AfterHash)

IsNamed(p) == Past(p, "names", {"parse", "verify", "clang", "save"})

IsParsed(p) == Past(p, "parse", {"verify", "clang", "save"})

\* What has been read of a file existed during the build.
ReadInv ==
    \A p \in Path :
        /\ Unlisted(p) => Absent \in seen[p]
        /\ IsHashed(p) => hashed[p] \in seen[p]
        /\ IsNamed(p) => named[p] \in seen[p]
        /\ IsParsed(p) => parsed[p] \in seen[p]

\* What the build leaves for the next one.
SkipInv ==
    /\ pc \in {"save", "done"} /\ opts.binary /\ "clangfails" \notin features
          => exe[opts.out] # NoExe
    /\ pc = "done" /\ opts.cached
          => cache.hashes = Hashes(hashed) /\ cache.level = opts.level

-----------------------------------------------------------------------------
(***************************************************************************)
(* Contents and options                                                    *)
(***************************************************************************)

LEMMA ContentGrows ==
    ASSUME NEW s, NEW n \in Nat, NEW m \in Nat, n <= m, SourcesOK(s, n)
    PROVE  SourcesOK(s, m)
BY DEF SourcesOK, ContentOK

\* What is known of a content, without its alternatives.
LEMMA ContentFacts ==
    ASSUME NEW s, NEW n \in Nat, SourcesOK(s, n), NEW p \in Path
    PROVE  /\ p \in Present(s) =>
                 /\ s[p].text \in 0 .. n
                 /\ s[p].code \in 0 .. n \cup {Broken}
                 /\ s[p].text = 0 => s[p].code = 0
           /\ p \notin Present(s) => s[p].text = None /\ s[p].code = None
<1>1. ContentOK(s[p], n) /\ (p \in Present(s) <=> s[p] # Absent)
  BY DEF SourcesOK, Present
<1>2. Absent.text = None /\ Absent.code = None
  BY DEF Absent
<1> QED
  BY <1>1, <1>2 DEF ContentOK

LEMMA NothingOK ==
    ASSUME NEW n
    PROVE  SourcesOK(Nothing, n)
BY DEF SourcesOK, Sources, ContentOK, Nothing

LEMMA Defaults ==
    /\ Level # {} /\ Output # {} /\ Flag # {}
    /\ TheLevel \in Level /\ TheOut \in Output /\ TheFlag \in Flag
<1>1. Level # {} /\ Output # {} /\ Flag # {}
  BY BuildAssumption
<1>2. TheLevel \in Level
  BY <1>1 DEF TheLevel
<1>3. TheOut \in Output
  BY <1>1 DEF TheOut
<1>4. TheFlag \in Flag
  BY <1>1 DEF TheFlag
<1> QED
  BY <1>1, <1>2, <1>3, <1>4

LEMMA OptionTypes ==
    ASSUME opts \in Options
    PROVE  opts.level \in Level /\ opts.level \in Nat /\ opts.out \in Output
<1>1. TheLevel \in Level /\ TheOut \in Output
  BY Defaults
<1>2. /\ opts.level \in Choice("levels", Level)
      /\ opts.out \in Choice("outputs", Output)
  BY DEF Options
<1>3. /\ Choice("levels", Level) \in {Level, {TheLevel}}
      /\ Choice("outputs", Output) \in {Output, {TheOut}}
  BY DEF Choice, TheLevel, TheOut
<1>4. opts.level \in Level /\ opts.out \in Output
  BY <1>1, <1>2, <1>3
<1>5. Level \subseteq Nat
  BY BuildAssumption
<1> QED
  BY <1>4, <1>5

-----------------------------------------------------------------------------
(***************************************************************************)
(* Passes over the files                                                   *)
(***************************************************************************)

\* The pass comes to file q: that is one file more, and for the other passes
\* nothing changes.
LEMMA Visits ==
    ASSUME NEW q \in Path, NEW pass, NEW next, Visit(q, pass, next),
           next # pass, NEW p \in Path
    PROVE  /\ \A later : pass \notin later /\ next \in later
                 => (Past(p, pass, later)' <=> Past(p, pass, later) \/ p = q)
           /\ \A other, later : other # pass
                 /\ (pass \in later <=> next \in later)
                 => (Past(p, other, later)' <=> Past(p, other, later))
BY DEF Visit, Past

-----------------------------------------------------------------------------
(***************************************************************************)
(* The second build                                                        *)
(***************************************************************************)

\* A file gets a new content, or its first one back.
LEMMA WritesBase ==
    ASSUME Base, NEW p \in Path, NEW c, Write(p, c),
           c \in Content \cup {Absent}, ContentOK(c, edits + 1),
           c = Absent => p # 1
    PROVE  Base'
<1>1. edits \in Nat /\ MaxEdits \in Nat /\ edits' = edits + 1
      /\ edits < MaxEdits
  BY BuildAssumption DEF Base, Write
<1>2. edits' \in 0 .. MaxEdits
  BY <1>1
<1>3. /\ SourcesOK(src, edits + 1) /\ SourcesOK(hashed, edits + 1)
      /\ SourcesOK(named, edits + 1) /\ SourcesOK(parsed, edits + 1)
  BY <1>1, ContentGrows DEF Base
<1>4. src' = [src EXCEPT ![p] = c]
  BY DEF Write
<1>5. /\ src' \in [Path -> Content \cup {Absent}]
      /\ src'[p] = c
      /\ \A q \in Path \ {p} : src'[q] = src[q]
  BY <1>3, <1>4 DEF SourcesOK, Sources
<1>6. 1 \in Path
  BY BuildAssumption DEF Path
<1>7. SourcesOK(src', edits + 1)
  BY <1>3, <1>5 DEF SourcesOK, Sources
<1>8. src'[1] # Absent
  BY <1>5, <1>6 DEF Base
<1>9. /\ DOMAIN seen' = Path
      /\ pc # "idle" => \A q \in Path : src'[q] \in seen'[q]
  BY <1>5 DEF Base, Write
<1>10. Options' = Options
  BY DEF Options, Choice, Write
<1>11. UNCHANGED <<features, exe, pc, opts, left, hashed, named, parsed>>
  BY DEF Write, reads
<1>12. /\ SourcesOK(src, edits)' /\ SourcesOK(hashed, edits)'
       /\ SourcesOK(named, edits)' /\ SourcesOK(parsed, edits)'
  BY <1>1, <1>3, <1>7, <1>11
<1> QED
  BY <1>1, <1>2, <1>8, <1>9, <1>10, <1>11, <1>12 DEF Base

LEMMA EditsBase ==
    ASSUME Base, NEW p \in Path, Edit(p)
    PROVE  Base'
<1>1. PICK code \in {edits + 1, Broken} \cup ({src[p].code} \ {None}) :
          Write(p, [text |-> edits + 1, code |-> code])
  BY DEF Edit
<1> DEFINE c == [text |-> edits + 1, code |-> code]
<1>2. edits \in Nat /\ MaxEdits \in Nat /\ edits < MaxEdits
  BY <1>1, BuildAssumption DEF Base, Write
<1>3. src[p].code \in 0 .. edits \cup {Broken, None}
  BY <1>2, ContentFacts DEF Base
<1>4. code \in 0 .. edits + 1 \cup {Broken}
  BY <1>2, <1>3
<1>5. c.text = edits + 1 /\ c.code = code
  OBVIOUS
<1>6. c \in Content /\ ContentOK(c, edits + 1) /\ c # Absent
  BY <1>2, <1>4 DEF Content, ContentOK, Absent, None, Broken
<1> QED
  BY <1>1, <1>6, WritesBase

LEMMA RevertsBase ==
    ASSUME Base, NEW p \in Path, Revert(p)
    PROVE  Base'
<1>1. Write(p, First[p])
  BY DEF Revert
<1>2. edits \in Nat /\ MaxEdits \in Nat /\ 1 \notin Added
  BY BuildAssumption DEF Base
<1>3. \/ First[p] = Absent /\ p # 1
      \/ First[p] = [text |-> 0, code |-> 0]
  BY <1>2 DEF First
<1>4. [text |-> 0, code |-> 0] \in Content
      /\ ContentOK([text |-> 0, code |-> 0], edits + 1)
      /\ [text |-> 0, code |-> 0] # Absent
  BY <1>2 DEF Content, ContentOK, Absent, None, Broken
<1>5. ContentOK(Absent, edits + 1)
  BY DEF ContentOK
<1> QED
  BY <1>1, <1>3, <1>4, <1>5, WritesBase

\* A file is read.
LEMMA ReadsOK ==
    ASSUME Base, NEW p \in Path, NEW s, SourcesOK(s, edits)
    PROVE  SourcesOK([s EXCEPT ![p] = Read(p)], edits)
<1>1. Read(p) \in Content \cup {Absent} /\ ContentOK(Read(p), edits)
  BY DEF Read, Base, SourcesOK, Sources, ContentOK
<1> QED
  BY <1>1 DEF SourcesOK, Sources

\* A build leaves the programmer's files alone.
LEMMA CompilerBase ==
    ASSUME Base, UNCHANGED <<features, src, edits, opts, seen>>, pc # "idle",
           DOMAIN exe' = Output,
           pc' \in Passes \cup {"match", "verify", "clang", "save", "done"},
           pc' \notin Passes => left' = Path,
           pc' \in {"list", "hash", "match"} => opts.cached,
           SourcesOK(hashed', edits), SourcesOK(named', edits),
           SourcesOK(parsed', edits), ~opts.cached => hashed' = hashed
    PROVE  Base'
<1>1. Options' = Options
  BY DEF Options, Choice
<1>2. /\ SourcesOK(src, edits)' /\ SourcesOK(hashed, edits)'
      /\ SourcesOK(named, edits)' /\ SourcesOK(parsed, edits)'
  BY DEF Base
<1>3. pc' # "idle"
  BY DEF Passes
<1> QED
  BY <1>1, <1>2, <1>3 DEF Base

LEMMA StepsBase ==
    ASSUME Base, Next
    PROVE  Base'
<1> USE DEF Passes
<1>1. CASE \E p \in Path : Edit(p) \/ Revert(p)
  BY <1>1, EditsBase, RevertsBase
<1>2. /\ SourcesOK(hashed, edits) /\ SourcesOK(named, edits)
      /\ SourcesOK(parsed, edits) /\ DOMAIN exe = Output
      /\ pc \notin Passes => left = Path
      /\ ~opts.cached => hashed = Nothing
  BY DEF Base
<1>3. ASSUME NEW o \in Options, Start(o) PROVE Base'
  <2>1. Options' = Options
    BY <1>3 DEF Options, Choice, Start
  <2>2. UNCHANGED <<features, src, edits, exe, left, hashed, named, parsed>>
    BY <1>3 DEF Start, reads
  <2>3. /\ SourcesOK(src, edits)' /\ SourcesOK(hashed, edits)'
        /\ SourcesOK(named, edits)' /\ SourcesOK(parsed, edits)'
    BY <2>2 DEF Base
  <2>4. /\ pc' = IF o.cached THEN "list" ELSE "relist"
        /\ opts' = o /\ hashed = Nothing
        /\ seen' = [p \in Path |-> {src[p]}]
    BY <1>3 DEF Start, Base
  <2> QED
    BY <1>3, <2>1, <2>2, <2>3, <2>4 DEF Base
<1>4. ASSUME NEW p \in Path, List(p) PROVE Base'
  <2>1. /\ UNCHANGED <<features, src, edits, exe, opts, seen, hashed, named,
                       parsed>>
        /\ pc \in {"list", "relist"} /\ pc' \in {"list", "hash", "relist", "names"}
        /\ pc' \in {"list", "hash"} => pc = "list"
    BY <1>4 DEF List, Visit
  <2>2. pc = "list" => opts.cached
    BY DEF Base
  <2> QED
    BY <1>2, <2>1, <2>2, CompilerBase
<1>5. ASSUME NEW p \in Path, HashFile(p) PROVE Base'
  <2>1. /\ UNCHANGED <<features, src, edits, exe, opts, seen, named, parsed>>
        /\ pc = "hash" /\ pc' \in {"hash", "match"}
        /\ pc' = "match" => left' = Path
        /\ hashed' = [hashed EXCEPT ![p] = Read(p)]
    BY <1>5 DEF HashFile, Visit
  <2>2. opts.cached
    BY <2>1 DEF Base
  <2>3. SourcesOK(hashed', edits)
    BY <1>2, <2>1, ReadsOK
  <2> QED
    BY <1>2, <2>1, <2>2, <2>3, CompilerBase
<1>6. ASSUME NEW p \in Path, CollectTypes(p) PROVE Base'
  <2>1. /\ UNCHANGED <<features, src, edits, exe, opts, seen, hashed, parsed>>
        /\ pc = "names" /\ pc' \in {"names", "parse"}
        /\ named' = [named EXCEPT ![p] = Read(p)]
    BY <1>6 DEF CollectTypes, Visit
  <2>2. SourcesOK(named', edits)
    BY <1>2, <2>1, ReadsOK
  <2> QED
    BY <1>2, <2>1, <2>2, CompilerBase
<1>7. ASSUME NEW p \in Path, ParseFile(p) PROVE Base'
  <2>1. /\ UNCHANGED <<features, src, edits, exe, opts, seen, hashed, named>>
        /\ pc = "parse" /\ pc' \in {"parse", "verify"}
        /\ pc' = "verify" => left' = Path
        /\ parsed' = [parsed EXCEPT ![p] = Read(p)]
    BY <1>7 DEF ParseFile, Visit
  <2>2. SourcesOK(parsed', edits)
    BY <1>2, <2>1, ReadsOK
  <2> QED
    BY <1>2, <2>1, <2>2, CompilerBase
<1>8. CASE Check
  <2>1. /\ UNCHANGED <<features, src, edits, exe, opts, seen, left, hashed,
                       named, parsed>>
        /\ pc = "match" /\ pc' \in {"relist", "done"}
    BY <1>8 DEF Check
  <2> QED
    BY <1>2, <2>1, CompilerBase
<1>9. ASSUME Clang \/ Save \/ (Verify /\ pc' = "clang") PROVE Base'
  <2>1. /\ UNCHANGED <<features, src, edits, opts, seen, left, hashed, named,
                       parsed>>
        /\ pc \in {"verify", "clang", "save"} /\ pc' \in {"clang", "save", "done"}
        /\ DOMAIN exe' = Output
    BY <1>2, <1>9 DEF Clang, Save, Verify, Leave, reads
  <2> QED
    BY <1>2, <2>1, CompilerBase
<1>10. ASSUME Return \/ Crash \/ (Verify /\ pc' = "idle") PROVE Base'
  <2>1. /\ UNCHANGED <<features, src, edits, exe>> /\ Leave
    BY <1>10 DEF Return, Crash, Verify, Leave
  <2>2. /\ SourcesOK(src, edits)' /\ SourcesOK(hashed, edits)'
        /\ SourcesOK(named, edits)' /\ SourcesOK(parsed, edits)'
    BY <2>1, NothingOK DEF Base, Leave
  <2> QED
    BY <2>1, <2>2 DEF Base, Leave
<1>11. CASE Terminated
  <2>1. UNCHANGED <<features, src, edits, exe, pc, opts, seen, left, hashed,
                    named, parsed>>
    BY <1>11 DEF Terminated, vars, reads
  <2>2. Options' = Options
    BY <2>1 DEF Options, Choice
  <2>3. /\ SourcesOK(src, edits)' /\ SourcesOK(hashed, edits)'
        /\ SourcesOK(named, edits)' /\ SourcesOK(parsed, edits)'
    BY <2>1 DEF Base
  <2> QED
    BY <2>1, <2>2, <2>3 DEF Base
<1>12. CASE Verify
  <2>1. pc' = "idle" \/ pc' = "clang"
    BY <1>12 DEF Verify, Leave
  <2> QED
    BY <1>9, <1>10, <1>12, <2>1
<1>13. CASE \E o \in Options : Start(o)
  BY <1>3, <1>13
<1>14. CASE \E p \in Path :
             List(p) \/ HashFile(p) \/ CollectTypes(p) \/ ParseFile(p)
  BY <1>4, <1>5, <1>6, <1>7, <1>14
<1>15. CASE Clang \/ Save
  BY <1>9, <1>15
<1>16. CASE Return \/ Crash
  BY <1>10, <1>16
<1> QED
  BY <1>1, <1>8, <1>11, <1>12, <1>13, <1>14, <1>15, <1>16 DEF Next

\* What a file is read as.
LEMMA ReadSeen ==
    ASSUME Base, ReadInv, NEW p \in Path, pc \in {"hash", "names", "parse"}
    PROVE  Read(p) \in seen[p]
<1>1. src[p] \in seen[p]
  BY DEF Base
<1>2. p \notin listed => Unlisted(p)
  BY DEF Unlisted, Past
<1> QED
  BY <1>1, <1>2 DEF ReadInv, Read

\* Which files have been read, after a step of a pass.
LEMMA ListFacts ==
    ASSUME NEW q \in Path, List(q), NEW p \in Path
    PROVE  /\ Unlisted(p)' => Unlisted(p) \/ (p = q /\ src[q] = Absent)
           /\ IsHashed(p)' <=> IsHashed(p)
           /\ IsNamed(p)' <=> IsNamed(p)
           /\ IsParsed(p)' <=> IsParsed(p)
<1>1. /\ opts' = opts
      /\ listed' = IF src[q] = Absent THEN listed ELSE listed \cup {q}
  BY DEF List
<1>2. CASE Visit(q, "list", "hash")
  <2>1. /\ Past(p, "list", {"hash", "match"})'
              <=> Past(p, "list", {"hash", "match"}) \/ p = q
        /\ Past(p, "relist", {"names", "parse"})'
              <=> Past(p, "relist", {"names", "parse"})
    BY <1>2, Visits
  <2>2. IsHashed(p)' <=> IsHashed(p)
    BY <1>1, <1>2, Visits DEF IsHashed, AfterHash
  <2>3. IsNamed(p)' <=> IsNamed(p)
    BY <1>2, Visits DEF IsNamed
  <2>4. IsParsed(p)' <=> IsParsed(p)
    BY <1>2, Visits DEF IsParsed
  <2> QED
    BY <1>1, <2>1, <2>2, <2>3, <2>4 DEF Unlisted
<1>3. CASE Visit(q, "relist", "names")
  <2>1. /\ Past(p, "list", {"hash", "match"})'
              <=> Past(p, "list", {"hash", "match"})
        /\ Past(p, "relist", {"names", "parse"})'
              <=> Past(p, "relist", {"names", "parse"}) \/ p = q
    BY <1>3, Visits
  <2>2. IsHashed(p)' <=> IsHashed(p)
    BY <1>1, <1>3, Visits DEF IsHashed, AfterHash
  <2>3. IsNamed(p)' <=> IsNamed(p)
    BY <1>3, Visits DEF IsNamed
  <2>4. IsParsed(p)' <=> IsParsed(p)
    BY <1>3, Visits DEF IsParsed
  <2> QED
    BY <1>1, <2>1, <2>2, <2>3, <2>4 DEF Unlisted
<1> QED
  BY <1>2, <1>3 DEF List

LEMMA HashFacts ==
    ASSUME Base, NEW q \in Path, HashFile(q), NEW p \in Path
    PROVE  /\ Unlisted(p)' <=> Unlisted(p)
           /\ IsHashed(p)' <=> IsHashed(p) \/ p = q
           /\ IsNamed(p)' <=> IsNamed(p)
           /\ IsParsed(p)' <=> IsParsed(p)
           /\ hashed'[p] = IF p = q THEN Read(q) ELSE hashed[p]
<1>1. /\ opts' = opts /\ listed' = listed /\ Visit(q, "hash", "match")
      /\ hashed' = [hashed EXCEPT ![q] = Read(q)] /\ pc = "hash"
  BY DEF HashFile, Visit
<1>2. opts.cached /\ DOMAIN hashed = Path
  BY <1>1 DEF Base, SourcesOK, Sources
<1>3. /\ Past(p, "list", {"hash", "match"})'
            <=> Past(p, "list", {"hash", "match"})
      /\ Past(p, "relist", {"names", "parse"})'
            <=> Past(p, "relist", {"names", "parse"})
  BY <1>1, Visits
<1>4. IsHashed(p)' <=> IsHashed(p) \/ p = q
  BY <1>1, <1>2, Visits DEF IsHashed, AfterHash
<1>5. IsNamed(p)' <=> IsNamed(p)
  BY <1>1, Visits DEF IsNamed
<1>6. IsParsed(p)' <=> IsParsed(p)
  BY <1>1, Visits DEF IsParsed
<1> QED
  BY <1>1, <1>2, <1>3, <1>4, <1>5, <1>6 DEF Unlisted

LEMMA CollectFacts ==
    ASSUME Base, NEW q \in Path, CollectTypes(q), NEW p \in Path
    PROVE  /\ Unlisted(p)' <=> Unlisted(p)
           /\ IsHashed(p)' <=> IsHashed(p)
           /\ IsNamed(p)' <=> IsNamed(p) \/ p = q
           /\ IsParsed(p)' <=> IsParsed(p)
           /\ named'[p] = IF p = q THEN Read(q) ELSE named[p]
<1>1. /\ opts' = opts /\ listed' = listed /\ Visit(q, "names", "parse")
      /\ named' = [named EXCEPT ![q] = Read(q)]
  BY DEF CollectTypes
<1>2. DOMAIN named = Path
  BY DEF Base, SourcesOK, Sources
<1>3. /\ Past(p, "list", {"hash", "match"})'
            <=> Past(p, "list", {"hash", "match"})
      /\ Past(p, "relist", {"names", "parse"})'
            <=> Past(p, "relist", {"names", "parse"})
  BY <1>1, Visits
<1>4. IsHashed(p)' <=> IsHashed(p)
  BY <1>1, Visits DEF IsHashed, AfterHash
<1>5. IsNamed(p)' <=> IsNamed(p) \/ p = q
  BY <1>1, Visits DEF IsNamed
<1>6. IsParsed(p)' <=> IsParsed(p)
  BY <1>1, Visits DEF IsParsed
<1> QED
  BY <1>1, <1>2, <1>3, <1>4, <1>5, <1>6 DEF Unlisted

LEMMA ParseFacts ==
    ASSUME Base, NEW q \in Path, ParseFile(q), NEW p \in Path
    PROVE  /\ Unlisted(p)' => Unlisted(p)
           /\ IsHashed(p)' <=> IsHashed(p)
           /\ IsNamed(p)' <=> IsNamed(p)
           /\ IsParsed(p)' <=> IsParsed(p) \/ p = q
           /\ parsed'[p] = IF p = q THEN Read(q) ELSE parsed[p]
<1>1. /\ opts' = opts /\ listed' = listed /\ Visit(q, "parse", "verify")
      /\ parsed' = [parsed EXCEPT ![q] = Read(q)]
  BY DEF ParseFile
<1>2. DOMAIN parsed = Path
  BY DEF Base, SourcesOK, Sources
<1>3. Unlisted(p)' => Unlisted(p)
  BY <1>1 DEF Unlisted, Past, Visit
<1>4. IsHashed(p)' <=> IsHashed(p)
  BY <1>1, Visits DEF IsHashed, AfterHash
<1>5. IsNamed(p)' <=> IsNamed(p)
  BY <1>1, Visits DEF IsNamed
<1>6. IsParsed(p)' <=> IsParsed(p) \/ p = q
  BY <1>1, Visits DEF IsParsed
<1> QED
  BY <1>1, <1>2, <1>3, <1>4, <1>5, <1>6

LEMMA CheckFacts ==
    ASSUME Base, Check, NEW p \in Path
    PROVE  /\ ~Unlisted(p)' /\ ~IsNamed(p)' /\ ~IsParsed(p)'
           /\ IsHashed(p)' <=> IsHashed(p)
<1>1. /\ pc = "match" /\ pc' \in {"relist", "done"} /\ left' = left
      /\ opts' = opts /\ left = Path
  BY DEF Check, Base, Passes
<1> QED
  BY <1>1 DEF Unlisted, IsHashed, IsNamed, IsParsed, Past, AfterHash

\* Later steps.
LEMMA LaterFacts ==
    ASSUME (Verify /\ pc' = "clang") \/ Clang \/ Save, NEW p \in Path
    PROVE  /\ ~Unlisted(p)'
           /\ IsHashed(p)' <=> IsHashed(p)
           /\ IsNamed(p)' => IsNamed(p)
           /\ IsParsed(p)' => IsParsed(p)
<1>1. /\ opts' = opts
      /\ \/ pc = "verify" /\ pc' = "clang"
         \/ pc = "clang" /\ pc' = "save"
         \/ pc = "save" /\ pc' = "done"
  BY DEF Verify, Leave, Clang, Save
<1> QED
  BY <1>1 DEF Unlisted, IsHashed, IsNamed, IsParsed, Past, AfterHash

\* Nothing has been read in the beginning.
LEMMA StartFacts ==
    ASSUME left = Path, NEW p \in Path,
           \/ pc = "idle"
           \/ pc = IF opts.cached THEN "list" ELSE "relist"
    PROVE  ~Unlisted(p) /\ ~IsHashed(p) /\ ~IsNamed(p) /\ ~IsParsed(p)
BY DEF Unlisted, IsHashed, IsNamed, IsParsed, Past, AfterHash

\* A write leaves them as they are.
LEMMA WriteFacts ==
    ASSUME NEW q, NEW c, Write(q, c), NEW p \in Path
    PROVE  /\ Unlisted(p)' <=> Unlisted(p)
           /\ IsHashed(p)' <=> IsHashed(p)
           /\ IsNamed(p)' <=> IsNamed(p)
           /\ IsParsed(p)' <=> IsParsed(p)
           /\ UNCHANGED <<features, exe, cache, pc, opts, left, listed, hashed,
                          named, parsed, loaded>>
<1>1. UNCHANGED <<features, exe, cache, pc, opts, left, listed, hashed, named,
                  parsed, loaded>>
  BY DEF Write, reads
<1> QED
  BY <1>1 DEF Unlisted, IsHashed, IsNamed, IsParsed, Past

LEMMA WritesRead ==
    ASSUME Base, ReadInv, NEW q \in Path, NEW c, Write(q, c)
    PROVE  ReadInv' /\ \A p \in Path : seen[p] \subseteq seen'[p]
<1>1. \A p \in Path : seen[p] \subseteq seen'[p]
  BY DEF Base, Write
<1>2. ASSUME NEW p \in Path
      PROVE  /\ Unlisted(p)' => Absent \in seen'[p]
             /\ IsHashed(p)' => hashed'[p] \in seen'[p]
             /\ IsNamed(p)' => named'[p] \in seen'[p]
             /\ IsParsed(p)' => parsed'[p] \in seen'[p]
  <2>1. /\ Unlisted(p)' <=> Unlisted(p)
        /\ IsHashed(p)' <=> IsHashed(p)
        /\ IsNamed(p)' <=> IsNamed(p)
        /\ IsParsed(p)' <=> IsParsed(p)
        /\ UNCHANGED <<hashed, named, parsed>>
    BY WriteFacts
  <2> QED
    BY <1>1, <2>1 DEF ReadInv
<1> QED
  BY <1>1, <1>2 DEF ReadInv

\* Every read is of a moment of the build.
LEMMA StepsRead ==
    ASSUME Base, Base', ReadInv, Next
    PROVE  ReadInv'
<1>1. CASE \E p \in Path : Edit(p) \/ Revert(p)
  BY <1>1, WritesRead DEF Edit, Revert
<1>2. ASSUME \A p \in Path :
                /\ Unlisted(p)' => Absent \in seen'[p]
                /\ IsHashed(p)' => hashed'[p] \in seen'[p]
                /\ IsNamed(p)' => named'[p] \in seen'[p]
                /\ IsParsed(p)' => parsed'[p] \in seen'[p]
      PROVE  ReadInv'
  BY <1>2 DEF ReadInv
<1>3. ASSUME NEW o \in Options, Start(o) PROVE ReadInv'
  <2>1. left' = Path /\ pc' = IF opts'.cached THEN "list" ELSE "relist"
    BY <1>3 DEF Start, Base, Passes, reads
  <2>2. \A p \in Path : (~Unlisted(p) /\ ~IsHashed(p) /\ ~IsNamed(p) /\ ~IsParsed(p))'
    BY <2>1 DEF Unlisted, IsHashed, IsNamed, IsParsed, Past, AfterHash
  <2> QED
    BY <1>2, <2>2
<1>4. ASSUME NEW q \in Path, List(q) PROVE ReadInv'
  <2>1. UNCHANGED <<seen, hashed, named, parsed>> /\ pc # "idle"
    BY <1>4 DEF List, Visit
  <2>2. src[q] \in seen[q]
    BY <2>1 DEF Base
  <2> QED
    BY <1>2, <1>4, <2>1, <2>2, ListFacts DEF ReadInv
<1>5. ASSUME NEW q \in Path, HashFile(q) PROVE ReadInv'
  <2>1. UNCHANGED <<seen, named, parsed>> /\ pc = "hash"
    BY <1>5 DEF HashFile, Visit
  <2>2. Read(q) \in seen[q]
    BY <2>1, ReadSeen
  <2> QED
    BY <1>2, <1>5, <2>1, <2>2, HashFacts DEF ReadInv
<1>6. ASSUME NEW q \in Path, CollectTypes(q) PROVE ReadInv'
  <2>1. UNCHANGED <<seen, hashed, parsed>> /\ pc = "names"
    BY <1>6 DEF CollectTypes, Visit
  <2>2. Read(q) \in seen[q]
    BY <2>1, ReadSeen
  <2> QED
    BY <1>2, <1>6, <2>1, <2>2, CollectFacts DEF ReadInv
<1>7. ASSUME NEW q \in Path, ParseFile(q) PROVE ReadInv'
  <2>1. UNCHANGED <<seen, hashed, named>> /\ pc = "parse"
    BY <1>7 DEF ParseFile, Visit
  <2>2. Read(q) \in seen[q]
    BY <2>1, ReadSeen
  <2> QED
    BY <1>2, <1>7, <2>1, <2>2, ParseFacts DEF ReadInv
<1>8. CASE Check
  <2>1. UNCHANGED <<seen, hashed>>
    BY <1>8 DEF Check
  <2> QED
    BY <1>2, <1>8, <2>1, CheckFacts DEF ReadInv
<1>9. ASSUME (Verify /\ pc' = "clang") \/ Clang \/ Save PROVE ReadInv'
  <2>1. UNCHANGED <<seen, hashed, named, parsed>>
    BY <1>9 DEF Verify, Leave, Clang, Save, reads
  <2>2. ASSUME NEW p \in Path
        PROVE  /\ ~Unlisted(p)'
               /\ IsHashed(p)' <=> IsHashed(p)
               /\ IsNamed(p)' => IsNamed(p)
               /\ IsParsed(p)' => IsParsed(p)
    BY <1>9, LaterFacts
  <2> QED
    BY <1>2, <2>1, <2>2 DEF ReadInv
<1>10. ASSUME pc' = "idle" PROVE ReadInv'
  <2>1. \A p \in Path : (~Unlisted(p) /\ ~IsHashed(p) /\ ~IsNamed(p) /\ ~IsParsed(p))'
    BY <1>10 DEF Unlisted, IsHashed, IsNamed, IsParsed, Past, AfterHash
  <2> QED
    BY <1>2, <2>1
<1>11. CASE Return \/ Crash \/ Terminated
  BY <1>10, <1>11 DEF Return, Crash, Terminated, Leave, vars
<1>12. CASE Verify
  <2>1. pc' = "idle" \/ pc' = "clang"
    BY <1>12 DEF Verify, Leave
  <2> QED
    BY <1>9, <1>10, <1>12, <2>1
<1>13. CASE \E o \in Options : Start(o)
  BY <1>3, <1>13
<1>14. CASE \E p \in Path :
             List(p) \/ HashFile(p) \/ CollectTypes(p) \/ ParseFile(p)
  BY <1>4, <1>5, <1>6, <1>7, <1>14
<1>15. CASE Clang \/ Save
  BY <1>9, <1>15
<1> QED
  BY <1>1, <1>8, <1>11, <1>12, <1>13, <1>14, <1>15 DEF Next

\* Hashes are taken in the same way throughout an execution.
LEMMA SameHashes ==
    ASSUME features' = features, hashed' = hashed
    PROVE  Hashes(hashed)' = Hashes(hashed)
BY DEF Hashes, NameOf, Present

\* clang makes something.
LEMMA Products ==
    ASSUME NEW s, NEW t, NEW o, o.level \in Nat
    PROVE  Product(s, t, o) # NoExe
<1>1. Product(s, t, o).level = o.level /\ NoExe.level = None
  BY DEF Product, NoExe
<1> QED
  BY <1>1 DEF None

LEMMA StepsSkip ==
    ASSUME Base, SkipInv, Next
    PROVE  SkipInv'
<1>1. ASSUME UNCHANGED <<features, exe, cache, pc, opts, hashed>>
      PROVE  SkipInv'
  BY <1>1, SameHashes DEF SkipInv
<1>2. ASSUME pc' \notin {"save", "done"} PROVE SkipInv'
  BY <1>2 DEF SkipInv
<1>3. CASE \E p \in Path : Edit(p) \/ Revert(p)
  BY <1>1, <1>3 DEF Edit, Revert, Write, reads
<1>4. CASE \E o \in Options : Start(o)
  BY <1>2, <1>4 DEF Start
<1>5. CASE \E p \in Path :
             List(p) \/ HashFile(p) \/ CollectTypes(p) \/ ParseFile(p)
  BY <1>2, <1>5 DEF List, HashFile, CollectTypes, ParseFile, Visit
<1>6. CASE Check
  <2>1. Hashes(hashed)' = Hashes(hashed)
    BY <1>6, SameHashes DEF Check
  <2> QED
    BY <1>6, <2>1 DEF SkipInv, Check, Matches
<1>7. CASE Verify \/ Return \/ Crash
  BY <1>2, <1>7 DEF Verify, Return, Crash, Leave
<1>8. CASE Clang
  <2>1. opts \in Options /\ DOMAIN exe = Output
    BY <1>8 DEF Clang, Base
  <2>2. Product(parsed, named, opts) # NoExe /\ opts.out \in Output
    BY <2>1, OptionTypes, Products
  <2>3. opts.binary /\ "clangfails" \notin features => exe'[opts.out] # NoExe
    BY <1>8, <2>1, <2>2 DEF Clang, SkipClang
  <2> QED
    BY <1>8, <2>3 DEF SkipInv, Clang
<1>9. CASE Save
  <2>1. Hashes(hashed)' = Hashes(hashed)
    BY <1>9, SameHashes DEF Save, reads
  <2> QED
    BY <1>9, <2>1 DEF SkipInv, Save
<1>10. CASE Terminated
  BY <1>1, <1>10 DEF Terminated, vars, reads
<1> QED
  BY <1>3, <1>4, <1>5, <1>6, <1>7, <1>8, <1>9, <1>10 DEF Next

LEMMA Starts ==
    ASSUME Init
    PROVE  Base /\ ReadInv /\ SkipInv
<1>1. MaxEdits \in Nat /\ 1 \in Path /\ 1 \notin Added
  BY BuildAssumption DEF Path
<1>2. [text |-> 0, code |-> 0] \in Content
      /\ ContentOK([text |-> 0, code |-> 0], 0)
      /\ [text |-> 0, code |-> 0] # Absent
  BY <1>1 DEF Content, ContentOK, Absent, None, Broken
<1>3. \A p \in Path :
          First[p] \in {Absent, [text |-> 0, code |-> 0]}
  BY DEF First
<1>4. First[1] = [text |-> 0, code |-> 0]
  BY <1>1 DEF First
<1>5. ContentOK(Absent, 0)
  BY DEF ContentOK
<1>6. First \in [Path -> Content \cup {Absent}]
  BY <1>2 DEF First
<1>7. SourcesOK(First, 0)
  BY <1>3, <1>2, <1>5, <1>6 DEF SourcesOK, Sources
<1>8. Base
  BY <1>1, <1>2, <1>4, <1>7, NothingOK DEF Init, Base, Passes
<1>9. pc = "idle" /\ left = Path
  BY DEF Init
<1>10. ReadInv
  BY <1>9, StartFacts DEF ReadInv
<1> QED
  BY <1>8, <1>9, <1>10 DEF SkipInv

\* Nothing happens.
LEMMA Stutters ==
    ASSUME Base, ReadInv, UNCHANGED vars
    PROVE  Base' /\ ReadInv' /\ (SkipInv => SkipInv')
<1>1. UNCHANGED <<features, src, edits, exe, cache, pc, opts, left, listed,
                  hashed, named, parsed, loaded, seen>>
  BY DEF vars, reads
<1>2. Options' = Options
  BY <1>1 DEF Options, Choice
<1>3. /\ SourcesOK(src, edits)' /\ SourcesOK(hashed, edits)'
      /\ SourcesOK(named, edits)' /\ SourcesOK(parsed, edits)'
  BY <1>1 DEF Base
<1>4. Base'
  BY <1>1, <1>2, <1>3 DEF Base
<1>5. ReadInv'
  BY <1>1 DEF ReadInv, Unlisted, IsHashed, IsNamed, IsParsed, Past
<1>6. SkipInv => SkipInv'
  BY <1>1, SameHashes DEF SkipInv
<1> QED
  BY <1>4, <1>5, <1>6

\* A build that has just been made is not made again: with the sources
\* unchanged since it began, the next build with its options finds the hashes
\* and the level in the cache and the executable in its place, whatever else
\* happened before (compileFromDirectory).
THEOREM SecondBuildsSkip == Spec => []SecondBuildSkips
<1>1. Init => Base /\ ReadInv /\ SkipInv
  BY Starts
<1>2. Base /\ ReadInv /\ SkipInv /\ [Next]_vars
         => (Base /\ ReadInv /\ SkipInv)'
  BY StepsBase, StepsRead, StepsSkip, Stutters
<1>3. Base /\ ReadInv /\ SkipInv => SecondBuildSkips
  <2>1. SUFFICES ASSUME Base, ReadInv, SkipInv, pc = "done", opts.cached,
                        opts.binary, \A p \in Path : seen[p] = {src[p]},
                        "clangfails" \notin features
                 PROVE  /\ Matches(cache, Hashes(src), opts.level)
                        /\ exe[opts.out] # NoExe
    BY DEF SecondBuildSkips
  <2>2. \A p \in Path : hashed[p] = src[p]
    BY <2>1 DEF ReadInv, IsHashed, Past, AfterHash
  <2>3. hashed = src
    BY <2>1, <2>2 DEF Base, SourcesOK, Sources
  <2> QED
    BY <2>1, <2>3 DEF SkipInv, Matches
<1> QED
  BY <1>1, <1>2, <1>3, PTL DEF Spec

-----------------------------------------------------------------------------
(***************************************************************************)
(* The invariant of fresh executables                                      *)
(***************************************************************************)

\* The executions that ExeFresh is about.
Plain ==
    features \cap {"samename", "outputs", "frontflags", "linkflags",
                   "compileonly", "clangfails"} = {}

Careful ==
    /\ "revert" \in features => features \cap {"race", "crash"} = {}
    /\ "levels" \in features => "crash" \notin features

\* The hashes of sources s in such an execution.
HashesOf(s) == [p \in Present(s) |-> s[p].text]

Codes(s) == [p \in Present(s) |-> s[p].code]

\* The IR of sources s, with the types of sources t; executable e was made
\* from it.
IrOf(s, t) ==
    [code |-> Codes(s), types |-> Codes(t), front |-> TheFlag, out |-> TheOut]

Made(e, ir) == e = [ir |-> ir, level |-> e.level, link |-> TheFlag]

\* What is recorded of file p: None if it is not there.
At(f, p) == IF p \in DOMAIN f THEN f[p] ELSE None

Built == exe[TheOut] # NoExe

\* Executable e has code k of file p, and its types.
ExeHas(e, p, k) == At(e.ir.code, p) = k /\ At(e.ir.types, p) = k

\* Recorded hashes and code are of contents made by earlier edits; code that
\* does not compile is never recorded.
Recorded(h, ir, n) ==
    /\ \A p \in DOMAIN h : h[p] \in 0 .. n
    /\ \A p \in Path : At(ir.code, p) \in 0 .. n \cup {None}

\* What the compiler knows in the middle of a build.
BuildInv ==
    /\ Built => \E s, t \in Sources : Made(exe[TheOut], IrOf(s, t))
    /\ pc \in AfterHash \ {"done"} /\ opts.cached => loaded = cache
    /\ pc \in {"clang", "save"} => Compiles(parsed)
    /\ pc = "save" => exe[TheOut] = Product(parsed, named, opts)
    /\ pc = "done" => \E s, t \in SeenSources :
                          exe[TheOut] = Product(s, t, opts)

\* The optimization level of the executable is the one that the cache knows.
LevelInv ==
    /\ "crash" \in features /\ Built => exe[TheOut].level = TheLevel
    /\ "crash" \notin features /\ pc # "save" /\ Built
          => exe[TheOut].level = cache.level

\* If cache k has the text of content c of file p, executable e has its code;
\* if it has the code then so does the executable, unless it is the one that
\* the cache was saved with.
GoodFor(e, k, p, c) ==
    e # NoExe => /\ At(k.hashes, p) = c.text => ExeHas(e, p, c.code)
                 /\ At(k.ir.code, p) = c.code
                       => e.ir = k.ir \/ ExeHas(e, p, c.code)

\* The content of file p is one that has been recorded before it was read.
Known(p) ==
    \/ src[p] = Absent
    \/ At(cache.hashes, p) = src[p].text
    \/ At(cache.ir.code, p) = src[p].code
    \/ pc \in AfterHash /\ hashed[p].text = src[p].text

\* What has been read of file p for the IR agrees with it.
ReadsAgree(p) ==
    /\ Unlisted(p) /\ pc \in AfterHash => src[p] = Absent
    /\ IsNamed(p) => named[p].code = src[p].code
    /\ IsParsed(p) => parsed[p].code = src[p].code

\* Without "revert", of file p.
ForwardAt(p) ==
    /\ GoodFor(exe[TheOut], cache, p, src[p])
    /\ src[p] = Absent /\ Built => ExeHas(exe[TheOut], p, None)
    /\ Unlisted(p) => GoodFor(exe[TheOut], cache, p, Absent)
    /\ pc \in {"hash", "match"} /\ IsHashed(p)
          => GoodFor(exe[TheOut], cache, p, hashed[p])
    /\ pc # "save" /\ IsParsed(p)
          => GoodFor(exe[TheOut], cache, p, parsed[p])
    /\ Known(p) => ReadsAgree(p)
    /\ IsNamed(p) /\ Unlisted(p) => named[p] = Absent
    /\ IsParsed(p) /\ At(cache.ir.code, p) = parsed[p].code
          => named[p].code = parsed[p].code

ForwardInv == \A p \in Path : ForwardAt(p)

\* Hashes h and IR ir are of the same sources, and of sources s if the hashes
\* say so.
Agree(h, ir, s) ==
    /\ ir = [code |-> ir.code, types |-> ir.code, front |-> TheFlag,
             out |-> TheOut]
    /\ ir.code = [p \in DOMAIN h |-> ir.code[p]]
    /\ \A p \in DOMAIN h :
          /\ p \in Path
          /\ h[p] = 0 => ir.code[p] = 0
          /\ s[p].text = h[p] => s[p].code = ir.code[p]

\* With "revert": no file changes during a build, and the executable, the
\* hashes and the IR belong together.
RevertInv ==
    /\ pc # "idle" => \A p \in Path : seen[p] = {src[p]}
    /\ pc # "save" /\ Built => Made(exe[TheOut], cache.ir)
    /\ cache.hashes # NoHashes => Agree(cache.hashes, cache.ir, src)

FreshInv ==
    /\ Recorded(cache.hashes, cache.ir, edits)
    /\ BuildInv
    /\ LevelInv
    /\ "revert" \notin features => ForwardInv
    /\ "revert" \in features => RevertInv

Inv ==
    /\ Base /\ ReadInv
    /\ Plain /\ Careful => FreshInv

-----------------------------------------------------------------------------
(***************************************************************************)
(* Hashes, IR and executables of plain executions                          *)
(***************************************************************************)

\* Each file has a hash of its own.
LEMMA PlainHashes ==
    ASSUME Plain, NEW s
    PROVE  Hashes(s) = HashesOf(s)
<1>1. \A p : NameOf(p) = p
  BY DEF NameOf, Plain
<1>2. {NameOf(p) : p \in Present(s)} = Present(s)
  BY <1>1
<1>3. \A b \in Present(s) : Max({p \in Present(s) : NameOf(p) = b}) = b
  <2> TAKE b \in Present(s)
  <2>1. {p \in Present(s) : NameOf(p) = b} = {b}
    BY <1>1
  <2>2. b \in Int
    BY BuildAssumption DEF Present, Path
  <2> QED
    BY <2>1, <2>2 DEF Max
<1> QED
  BY <1>2, <1>3 DEF Hashes, HashesOf

LEMMA PlainOptions ==
    ASSUME Base, Plain, pc # "idle"
    PROVE  /\ opts.out = TheOut /\ opts.binary = TRUE
           /\ opts.level \in Nat
           /\ "levels" \notin features => opts.level = TheLevel
           /\ \A s, t : Ir(s, t, opts) = IrOf(s, t)
           /\ \A s, t : Product(s, t, opts)
                           = [ir |-> IrOf(s, t), level |-> opts.level,
                              link |-> TheFlag]
<1>1. opts \in Options
  BY DEF Base
<1>2. /\ opts.out \in Choice("outputs", Output)
      /\ opts.level \in Choice("levels", Level)
      /\ opts.front \in Choice("frontflags", Flag)
      /\ opts.link \in Choice("linkflags", Flag)
      /\ "compileonly" \notin features => opts.binary = TRUE
  BY <1>1 DEF Options
<1>3. /\ Choice("outputs", Output) = {TheOut}
      /\ Choice("frontflags", Flag) = {TheFlag}
      /\ Choice("linkflags", Flag) = {TheFlag}
      /\ "levels" \notin features => Choice("levels", Level) = {TheLevel}
  BY DEF Plain, Choice, TheOut, TheFlag, TheLevel
<1>4. opts.out = TheOut /\ opts.front = TheFlag /\ opts.link = TheFlag
      /\ opts.binary = TRUE
      /\ ("levels" \notin features => opts.level = TheLevel)
  BY <1>2, <1>3 DEF Plain
<1>5. \A s, t : Ir(s, t, opts) = IrOf(s, t)
  BY <1>4 DEF Ir, IrOf, Codes
<1> QED
  BY <1>1, <1>4, <1>5, OptionTypes DEF Product

\* Hashes and codes of files that are not there are not recorded.
LEMMA Texts ==
    ASSUME NEW s, NEW p \in Path
    PROVE  /\ At(HashesOf(s), p) = s[p].text
           /\ At(Codes(s), p) = s[p].code
<1>1. Absent.text = None /\ Absent.code = None
  BY DEF Absent
<1> QED
  BY <1>1 DEF At, HashesOf, Codes, Present

\* A file is absent if its code, or its text, is.
LEMMA AbsentFacts ==
    ASSUME NEW s \in Sources, NEW p \in Path
    PROVE  s[p].code = None <=> s[p] = Absent
<1>1. \A c \in Content : c.code # None
  BY BuildAssumption DEF Content, None, Broken
<1>2. Absent.code = None
  BY DEF Absent
<1> QED
  BY <1>1, <1>2 DEF Sources

LEMMA AbsentTexts ==
    ASSUME NEW s \in Sources, NEW p \in Path
    PROVE  s[p].text = None <=> s[p] = Absent
<1>1. \A c \in Content : c.text # None
  BY BuildAssumption DEF Content, None
<1>2. Absent.text = None
  BY DEF Absent
<1> QED
  BY <1>1, <1>2 DEF Sources

LEMMA SameCodes ==
    ASSUME NEW s \in Sources, NEW t \in Sources,
           \A p \in Path : s[p].code = t[p].code
    PROVE  Codes(s) = Codes(t)
<1>1. Present(s) = Present(t)
  BY AbsentFacts DEF Present
<1> QED
  BY <1>1 DEF Codes, Present

\* What the executable has, file by file.
LEMMA HasCodes ==
    ASSUME NEW s \in Sources, NEW t \in Sources, Made(exe[TheOut], IrOf(s, t))
    PROVE  /\ \A p \in Path :
                 /\ At(exe[TheOut].ir.code, p) = s[p].code
                 /\ At(exe[TheOut].ir.types, p) = t[p].code
           /\ exe[TheOut].ir = IrOf(s, t)
<1>1. exe[TheOut].ir = IrOf(s, t)
  BY DEF Made
<1>2. IrOf(s, t).code = Codes(s) /\ IrOf(s, t).types = Codes(t)
  BY DEF IrOf
<1> QED
  BY <1>1, <1>2, Texts

LEMMA Assembled ==
    ASSUME BuildInv, Built, NEW s \in Sources, NEW t \in Sources,
           \A p \in Path : /\ At(exe[TheOut].ir.code, p) = s[p].code
                           /\ At(exe[TheOut].ir.types, p) = t[p].code
    PROVE  Made(exe[TheOut], IrOf(s, t))
<1>1. PICK u \in Sources, v \in Sources : Made(exe[TheOut], IrOf(u, v))
  BY DEF BuildInv
<1>2. \A p \in Path : u[p].code = s[p].code /\ v[p].code = t[p].code
  BY <1>1, HasCodes
<1>3. Codes(u) = Codes(s) /\ Codes(v) = Codes(t)
  BY <1>2, SameCodes
<1> QED
  BY <1>1, <1>3 DEF IrOf

\* What a build makes.
LEMMA Makes ==
    ASSUME Base, Plain, pc # "idle", NEW s, NEW t
    PROVE  /\ Made(Product(s, t, opts), IrOf(s, t))
           /\ Product(s, t, opts).level = opts.level
           /\ \A e : Made(e, IrOf(s, t)) /\ e.level = opts.level
                        => e = Product(s, t, opts)
BY PlainOptions DEF Made

\* What has been read are sources that the build has seen.
LEMMA Seen ==
    ASSUME NEW s \in Sources, \A p \in Path : s[p] \in seen[p]
    PROVE  s \in SeenSources
BY DEF SeenSources, Sources

\* The main file is there: the hashes of sources are never empty.
LEMMA NotEmpty ==
    ASSUME Base
    PROVE  HashesOf(src) # NoHashes
<1>1. 1 \in Present(src)
  BY BuildAssumption DEF Base, Present, Path
<1>2. DOMAIN HashesOf(src) = Present(src) /\ DOMAIN NoHashes = {}
  BY DEF HashesOf, NoHashes
<1> QED
  BY <1>1, <1>2

\* A build without a cache hashes nothing.
LEMMA HashesNothing == HashesOf(Nothing) = NoHashes
<1>1. Present(Nothing) = {}
  BY DEF Present, Nothing
<1> QED
  BY <1>1 DEF HashesOf, NoHashes

\* With "revert", everything is read as it is.
LEMMA ReadsRevert ==
    ASSUME Base, ReadInv, RevertInv, pc # "idle"
    PROVE  /\ (\A p \in Path : IsHashed(p)) => hashed = src
           /\ (\A p \in Path : IsNamed(p)) => named = src
           /\ (\A p \in Path : IsParsed(p)) => parsed = src
<1>1. \A p \in Path : seen[p] = {src[p]}
  BY DEF RevertInv
<1> QED
  BY <1>1 DEF ReadInv, Base, SourcesOK, Sources

-----------------------------------------------------------------------------
(***************************************************************************)
(* What the cache tells                                                    *)
(***************************************************************************)

\* If the hashes are those of the files as they were hashed, the executable
\* is made from them.
LEMMA MatchMakes ==
    ASSUME Base, ReadInv, FreshInv, pc = "match", Built,
           cache.hashes = HashesOf(hashed)
    PROVE  Made(exe[TheOut], IrOf(hashed, hashed))
<1>1. opts.cached /\ \A p \in Path : IsHashed(p)
  BY DEF Base, IsHashed, Past
<1>2. CASE "revert" \notin features
  <2>1. ASSUME NEW p \in Path PROVE ExeHas(exe[TheOut], p, hashed[p].code)
    <3>1. GoodFor(exe[TheOut], cache, p, hashed[p])
      BY <1>1, <1>2 DEF FreshInv, ForwardInv, ForwardAt
    <3> QED
      BY <3>1, Texts DEF GoodFor, Built
  <2>2. hashed \in Sources
    BY DEF Base, SourcesOK
  <2> QED
    BY <2>1, <2>2, Assembled DEF FreshInv, ExeHas
<1>3. CASE "revert" \in features
  <2>1. hashed = src
    BY <1>1, <1>3, ReadsRevert DEF FreshInv
  <2>2. Made(exe[TheOut], cache.ir)
    BY <1>3 DEF FreshInv, RevertInv
  <2>3. Agree(cache.hashes, cache.ir, src)
    BY <1>3, <2>1, NotEmpty DEF FreshInv, RevertInv
  <2>4. DOMAIN cache.hashes = Present(src)
        /\ \A p \in Present(src) : cache.hashes[p] = src[p].text
    BY <2>1 DEF HashesOf
  <2>5. /\ cache.ir = [code |-> cache.ir.code, types |-> cache.ir.code,
                       front |-> TheFlag, out |-> TheOut]
        /\ cache.ir.code = [p \in Present(src) |-> cache.ir.code[p]]
        /\ \A p \in Present(src) : src[p].code = cache.ir.code[p]
    BY <2>3, <2>4 DEF Agree
  <2>6. cache.ir.code = Codes(src)
    BY <2>5 DEF Codes
  <2>7. cache.ir = IrOf(src, src)
    BY <2>5, <2>6 DEF IrOf
  <2> QED
    BY <2>1, <2>2, <2>7
<1> QED
  BY <1>2, <1>3

\* If the IR is the new one, the executable is made from it.
LEMMA SkipMakes ==
    ASSUME Base, FreshInv, pc = "clang", Built, cache.ir = IrOf(parsed, named)
    PROVE  Made(exe[TheOut], IrOf(parsed, named))
<1>1. CASE "revert" \in features
  BY <1>1 DEF FreshInv, RevertInv
<1>2. CASE "revert" \notin features
  <2>1. parsed \in Sources /\ named \in Sources
    BY DEF Base, SourcesOK
  <2>2. \A p \in Path : IsParsed(p)
    BY DEF IsParsed, Past
  <2>3. cache.ir.code = Codes(parsed)
    BY DEF IrOf
  <2>4. ASSUME NEW p \in Path, exe[TheOut].ir # cache.ir
        PROVE  ExeHas(exe[TheOut], p, parsed[p].code) /\ named[p].code = parsed[p].code
    <3>1. At(cache.ir.code, p) = parsed[p].code
      BY <2>3, Texts
    <3>2. /\ GoodFor(exe[TheOut], cache, p, parsed[p])
          /\ At(cache.ir.code, p) = parsed[p].code
                => named[p].code = parsed[p].code
      BY <1>2, <2>2 DEF FreshInv, ForwardInv, ForwardAt
    <3> QED
      BY <2>4, <3>1, <3>2 DEF GoodFor, Built
  <2>5. CASE exe[TheOut].ir # cache.ir
    BY <2>1, <2>4, <2>5, Assembled DEF FreshInv, ExeHas
  <2>6. CASE exe[TheOut].ir = cache.ir
    <3>1. PICK u \in Sources, v \in Sources : Made(exe[TheOut], IrOf(u, v))
      BY DEF FreshInv, BuildInv
    <3>2. exe[TheOut].ir = IrOf(u, v)
      BY <3>1, HasCodes
    <3> QED
      BY <2>6, <3>1, <3>2
  <2> QED
    BY <2>5, <2>6
<1> QED
  BY <1>1, <1>2

\* A level that the cache knows is the level of the executable.
LEMMA LevelKnown ==
    ASSUME Base, Plain, Careful, LevelInv, pc \notin {"idle", "save"},
           Built, cache.level = opts.level
    PROVE  exe[TheOut].level = opts.level
BY PlainOptions DEF LevelInv, Careful

-----------------------------------------------------------------------------
(***************************************************************************)
(* The steps of the programmer                                             *)
(***************************************************************************)

\* An edit makes a text that nobody has recorded; if its code has been
\* recorded then only a comment was edited.
LEMMA EditIsNew ==
    ASSUME Base, NEW q \in Path, Edit(q)
    PROVE  /\ src'[q] # Absent /\ src'[q].text = edits + 1
           /\ \A p \in Path \ {q} : src'[p] = src[p]
           /\ src'[q].code \in 0 .. edits \cup {None}
                 => src[q] # Absent /\ src'[q].code = src[q].code
<1>1. PICK code \in {edits + 1, Broken} \cup ({src[q].code} \ {None}) :
          Write(q, [text |-> edits + 1, code |-> code])
  BY DEF Edit
<1>2. edits \in Nat /\ SourcesOK(src, edits) /\ DOMAIN src = Path
  BY BuildAssumption DEF Base, SourcesOK, Sources
<1>3. /\ src'[q] = [text |-> edits + 1, code |-> code]
      /\ \A p \in Path \ {q} : src'[p] = src[p]
  BY <1>1, <1>2 DEF Write
<1>4. src'[q].text = edits + 1 /\ src'[q].code = code
  BY <1>3
<1>5. src'[q] # Absent
  BY <1>2, <1>4 DEF Absent, None
<1>6. ASSUME code \in 0 .. edits \cup {None}
      PROVE  src[q] # Absent /\ code = src[q].code
  <2>1. code = src[q].code /\ code # None
    BY <1>2, <1>6 DEF Broken, None
  <2>2. Absent.code = None
    BY DEF Absent
  <2> QED
    BY <2>1, <2>2
<1> QED
  BY <1>3, <1>4, <1>5, <1>6

LEMMA EditUnknown ==
    ASSUME Base, FreshInv, NEW q \in Path, Edit(q)
    PROVE  /\ At(cache.hashes, q) # src'[q].text
           /\ hashed[q].text # src'[q].text
           /\ At(cache.ir.code, q) = src'[q].code
                 => src[q] # Absent /\ src'[q].code = src[q].code
<1>1. edits \in Nat
  BY BuildAssumption DEF Base
<1>2. /\ At(cache.hashes, q) \in 0 .. edits \cup {None}
      /\ At(cache.ir.code, q) \in 0 .. edits \cup {None}
  BY DEF FreshInv, Recorded, At
<1>3. hashed[q].text \in 0 .. edits \cup {None}
  BY <1>1, ContentFacts DEF Base
<1>4. edits + 1 \notin 0 .. edits \cup {None}
  BY <1>1 DEF None
<1> QED
  BY <1>2, <1>3, <1>4, EditIsNew

\* The parts that no write disturbs.
LEMMA WritesFresh ==
    ASSUME Base, ReadInv, FreshInv, NEW q \in Path, NEW c, Write(q, c)
    PROVE  /\ Recorded(cache.hashes, cache.ir, edits)'
           /\ BuildInv'
           /\ LevelInv'
<1>1. edits \in Nat /\ edits' = edits + 1
  BY BuildAssumption DEF Base, Write
<1>2. UNCHANGED <<features, exe, cache, pc, opts, hashed, named, parsed, loaded>>
  BY DEF Write, reads
<1>3. \A n \in 0 .. edits : n \in 0 .. edits + 1
  BY <1>1
<1>4. Recorded(cache.hashes, cache.ir, edits + 1)
  BY <1>3 DEF FreshInv, Recorded
<1>5. Recorded(cache.hashes, cache.ir, edits)'
  BY <1>1, <1>2, <1>4 DEF Recorded
<1>6. SeenSources \subseteq SeenSources'
  <2>1. \A p \in Path : seen[p] \subseteq seen'[p]
    BY WritesRead
  <2> QED
    BY <2>1 DEF SeenSources
<1>7. pc = "done" => \E s, t \in SeenSources' : exe[TheOut] = Product(s, t, opts)
  BY <1>6 DEF FreshInv, BuildInv
<1>8. (pc = "done" => \E s, t \in SeenSources : exe[TheOut] = Product(s, t, opts))'
  BY <1>2, <1>7 DEF Product, Ir
<1>9. Compiles(parsed)' <=> Compiles(parsed)
  BY <1>2 DEF Compiles, Present
<1>10. Product(parsed, named, opts)' = Product(parsed, named, opts)
  BY <1>2 DEF Product, Ir, Present
<1>11. /\ Built => \E s, t \in Sources : Made(exe[TheOut], IrOf(s, t))
       /\ pc \in AfterHash \ {"done"} /\ opts.cached => loaded = cache
       /\ pc \in {"clang", "save"} => Compiles(parsed)
       /\ pc = "save" => exe[TheOut] = Product(parsed, named, opts)
  BY DEF FreshInv, BuildInv
<1>12. (Built => \E s, t \in Sources : Made(exe[TheOut], IrOf(s, t)))'
  BY <1>2, <1>11 DEF Built, Made, IrOf, Codes
<1>13. BuildInv'
  BY <1>2, <1>8, <1>9, <1>10, <1>11, <1>12 DEF BuildInv
<1>14. LevelInv'
  BY <1>2 DEF FreshInv, LevelInv, Built
<1> QED
  BY <1>5, <1>13, <1>14

\* An edit, forwards.
LEMMA EditsForward ==
    ASSUME Base, FreshInv, ForwardInv, NEW q \in Path, Edit(q)
    PROVE  ForwardInv'
<1>1. PICK c : Write(q, c)
  BY DEF Edit
<1>2. SUFFICES ASSUME NEW p \in Path PROVE ForwardAt(p)'
  BY DEF ForwardInv
<1>3. /\ Unlisted(p)' <=> Unlisted(p)
      /\ IsHashed(p)' <=> IsHashed(p)
      /\ IsNamed(p)' <=> IsNamed(p)
      /\ IsParsed(p)' <=> IsParsed(p)
      /\ UNCHANGED <<exe, cache, pc, hashed, named, parsed>>
  BY <1>1, WriteFacts
<1>4. ForwardAt(p)
  BY DEF ForwardInv
<1>5. CASE p # q
  <2>1. src'[p] = src[p]
    BY <1>5, EditIsNew
  <2>2. Known(p)' <=> Known(p)
    BY <1>3, <2>1 DEF Known
  <2>3. ReadsAgree(p)' <=> ReadsAgree(p)
    BY <1>3, <2>1 DEF ReadsAgree
  <2> QED
    BY <1>3, <1>4, <2>1, <2>2, <2>3 DEF ForwardAt, Built
<1>6. CASE p = q
  <2>1. /\ src'[p] # Absent
        /\ At(cache.hashes, p) # src'[p].text
        /\ hashed[p].text # src'[p].text
        /\ At(cache.ir.code, p) = src'[p].code
              => src[p] # Absent /\ src'[p].code = src[p].code
    BY <1>6, EditIsNew, EditUnknown
  <2>2. GoodFor(exe[TheOut], cache, p, src'[p])
    BY <1>4, <2>1 DEF ForwardAt, GoodFor
  <2>3. ASSUME Known(p)' PROVE ReadsAgree(p)'
    <3>1. At(cache.ir.code, p) = src'[p].code
      BY <1>3, <2>1, <2>3 DEF Known
    <3>2. src[p] # Absent /\ src'[p].code = src[p].code
      BY <2>1, <3>1
    <3>3. ReadsAgree(p)
      BY <1>4, <3>1, <3>2 DEF ForwardAt, Known
    <3> QED
      BY <1>3, <3>2, <3>3 DEF ReadsAgree
  <2> QED
    BY <1>3, <1>4, <2>1, <2>2, <2>3 DEF ForwardAt, Built
<1> QED
  BY <1>5, <1>6

\* A write, if contents come back: it happens between builds only.
LEMMA WritesRevert ==
    ASSUME Base, FreshInv, RevertInv, Careful, "revert" \in features,
           NEW q \in Path, NEW c, Write(q, c),
           \/ c.text = edits + 1
           \/ c.text = 0 /\ c.code = 0
           \/ c.text = None
    PROVE  RevertInv'
<1>1. cache' = cache /\ exe' = exe /\ pc' = pc /\ pc = "idle"
  BY DEF Write, Careful
<1>2. edits \in Nat /\ DOMAIN src = Path
  BY BuildAssumption DEF Base, SourcesOK, Sources
<1>3. src'[q] = c /\ \A p \in Path \ {q} : src'[p] = src[p]
  BY <1>2 DEF Write
<1>4. ASSUME cache.hashes # NoHashes
      PROVE  Agree(cache.hashes, cache.ir, src')
  <2>1. Agree(cache.hashes, cache.ir, src)
    BY <1>4 DEF RevertInv
  <2>2. \A p \in DOMAIN cache.hashes :
           cache.hashes[p] \in 0 .. edits
    BY DEF FreshInv, Recorded
  <2>3. edits + 1 \notin 0 .. edits /\ None \notin 0 .. edits
    BY <1>2 DEF None
  <2>4. ASSUME NEW p \in DOMAIN cache.hashes,
               src'[p].text = cache.hashes[p]
        PROVE  src'[p].code = cache.ir.code[p]
    <3>1. CASE p = q
      <4>1. c.text = cache.hashes[p] /\ cache.hashes[p] \in 0 .. edits
        BY <1>3, <2>2, <2>4, <3>1
      <4>2. c.text = 0 /\ c.code = 0
        BY <2>3, <4>1
      <4> QED
        BY <1>3, <2>1, <3>1, <4>1, <4>2 DEF Agree
    <3>2. CASE p # q
      BY <1>3, <2>1, <2>4, <3>2 DEF Agree
    <3> QED
      BY <3>1, <3>2
  <2> QED
    BY <2>1, <2>4 DEF Agree
<1>5. pc # "save" /\ Built => Made(exe[TheOut], cache.ir)
  BY DEF RevertInv
<1>6. (cache.hashes # NoHashes => Agree(cache.hashes, cache.ir, src))'
  BY <1>1, <1>4 DEF Agree
<1> QED
  BY <1>1, <1>5, <1>6 DEF RevertInv, Built

LEMMA EditsFresh ==
    ASSUME Base, ReadInv, Careful, FreshInv, NEW p \in Path,
           Edit(p) \/ Revert(p)
    PROVE  FreshInv'
<1>1. PICK c : Write(p, c) /\ (\/ c.text = edits + 1
                               \/ c.text = 0 /\ c.code = 0
                               \/ c.text = None)
  <2>1. CASE Edit(p)
    <3>1. PICK code : Write(p, [text |-> edits + 1, code |-> code])
      BY <2>1 DEF Edit
    <3>2. [text |-> edits + 1, code |-> code].text = edits + 1
      OBVIOUS
    <3> QED
      BY <3>1, <3>2
  <2>2. CASE Revert(p)
    <3>1. Write(p, First[p])
      BY <2>2 DEF Revert
    <3>2. \/ First[p].text = 0 /\ First[p].code = 0
          \/ First[p].text = None
      BY DEF First, Absent
    <3> QED
      BY <3>1, <3>2
  <2> QED
    BY <2>1, <2>2
<1>2. features' = features
  BY <1>1 DEF Write
<1>3. Recorded(cache.hashes, cache.ir, edits)' /\ BuildInv' /\ LevelInv'
  BY <1>1, WritesFresh
<1>4. "revert" \notin features => ForwardInv'
  <2>1. "revert" \notin features => Edit(p)
    BY DEF Revert
  <2> QED
    BY <2>1, EditsForward DEF FreshInv
<1>5. "revert" \in features => RevertInv'
  BY <1>1, WritesRevert DEF FreshInv
<1> QED
  BY <1>2, <1>3, <1>4, <1>5 DEF FreshInv

-----------------------------------------------------------------------------
(***************************************************************************)
(* The compiler reads                                                      *)
(***************************************************************************)

\* The parts that reading does not disturb.
LEMMA ReadingFresh ==
    ASSUME FreshInv, UNCHANGED <<features, src, edits, exe, cache>>,
           pc # "save", pc' \notin {"clang", "save", "done"},
           \/ pc = "idle" /\ seen' = [p \in Path |-> {src[p]}]
           \/ pc # "idle" /\ seen' = seen,
           pc' \in AfterHash /\ opts'.cached => loaded' = cache,
           "revert" \notin features => ForwardInv'
    PROVE  FreshInv'
<1>1. features' = features /\ src' = src /\ edits' = edits /\ exe' = exe
      /\ cache' = cache
  OBVIOUS
<1>2. Recorded(cache.hashes, cache.ir, edits)' /\ LevelInv'
  BY <1>1 DEF FreshInv, Recorded, LevelInv, Built, At
<1>3. Built => \E s, t \in Sources : Made(exe[TheOut], IrOf(s, t))
  BY DEF FreshInv, BuildInv
<1>4. (Built => \E s, t \in Sources : Made(exe[TheOut], IrOf(s, t)))'
  BY <1>1, <1>3 DEF Built, Made, IrOf, Codes
<1>5. BuildInv'
  BY <1>1, <1>4 DEF BuildInv
<1>6. "revert" \in features => RevertInv'
  <2>1. Agree(cache.hashes, cache.ir, src)' <=> Agree(cache.hashes, cache.ir, src)
    BY <1>1 DEF Agree
  <2> QED
    BY <1>1, <2>1 DEF FreshInv, RevertInv, Built
<1> QED
  BY <1>1, <1>2, <1>5, <1>6 DEF FreshInv

\* Between builds only the files matter.
LEMMA StartsFresh ==
    ASSUME Base, FreshInv, NEW o, Start(o)
    PROVE  FreshInv'
<1>1. /\ UNCHANGED <<features, src, edits, exe, cache, hashed>> /\ pc = "idle"
      /\ left' = Path /\ pc' = IF opts'.cached THEN "list" ELSE "relist"
      /\ seen' = [p \in Path |-> {src[p]}]
      /\ hashed = Nothing
  BY DEF Start, Base, Passes, reads
<1>2. ASSUME "revert" \notin features, NEW p \in Path
      PROVE  ForwardAt(p)'
  <2>1. ForwardAt(p)
    BY <1>2 DEF FreshInv, ForwardInv
  <2>2. (~Unlisted(p) /\ ~IsHashed(p) /\ ~IsNamed(p) /\ ~IsParsed(p))'
    BY <1>1 DEF Unlisted, IsHashed, IsNamed, IsParsed, Past, AfterHash
  <2>3. ReadsAgree(p)'
    BY <2>2 DEF ReadsAgree
  <2> QED
    BY <1>1, <2>1, <2>2, <2>3 DEF ForwardAt, Built
<1>3. "revert" \notin features => ForwardInv'
  BY <1>2 DEF ForwardInv
<1> QED
  BY <1>1, <1>3, ReadingFresh DEF AfterHash

\* A file that is not listed is absent.
LEMMA ListsFresh ==
    ASSUME Base, FreshInv, NEW q \in Path, List(q)
    PROVE  FreshInv'
<1>1. /\ UNCHANGED <<features, src, edits, exe, cache, opts, hashed, named,
                     parsed, loaded, seen>>
      /\ \/ pc = "list" /\ pc' \in {"list", "hash"}
         \/ pc = "relist" /\ pc' \in {"relist", "names"}
  BY DEF List, Visit
<1>2. ASSUME "revert" \notin features, NEW p \in Path
      PROVE  ForwardAt(p)'
  <2>1. ForwardAt(p)
    BY <1>2 DEF FreshInv, ForwardInv
  <2>2. /\ Unlisted(p)' => Unlisted(p) \/ src[p] = Absent
        /\ IsHashed(p)' <=> IsHashed(p)
        /\ IsNamed(p)' <=> IsNamed(p)
        /\ IsParsed(p)' <=> IsParsed(p)
    BY ListFacts
  <2>3. ~IsNamed(p) /\ ~IsParsed(p) /\ (pc = "list" => ~IsHashed(p))
    BY <1>1 DEF IsNamed, IsParsed, IsHashed, Past, AfterHash
  <2>4. Known(p)' <=> Known(p)
    BY <1>1 DEF Known, AfterHash
  <2>5. Unlisted(p)' => GoodFor(exe[TheOut], cache, p, Absent)
    BY <2>1, <2>2 DEF ForwardAt
  <2>6. ReadsAgree(p) => ReadsAgree(p)'
    BY <1>1, <2>2, <2>3 DEF ReadsAgree, AfterHash
  <2> QED
    BY <1>1, <2>1, <2>2, <2>3, <2>4, <2>5, <2>6 DEF ForwardAt, Built
<1>3. "revert" \notin features => ForwardInv'
  BY <1>2 DEF ForwardInv
<1>4. pc' \in AfterHash /\ opts.cached => loaded = cache
  BY <1>1 DEF FreshInv, BuildInv, AfterHash
<1> QED
  BY <1>1, <1>3, <1>4, ReadingFresh

\* What a file is read as has what holds of what it is.
LEMMA ReadGood ==
    ASSUME NEW p \in Path, ForwardAt(p), pc \in {"hash", "names", "parse"}
    PROVE  GoodFor(exe[TheOut], cache, p, Read(p))
<1>1. p \notin listed => Unlisted(p)
  BY DEF Unlisted, Past
<1> QED
  BY <1>1 DEF ForwardAt, Read

LEMMA HashesFresh ==
    ASSUME Base, FreshInv, NEW q \in Path, HashFile(q)
    PROVE  FreshInv'
<1>1. /\ UNCHANGED <<features, src, edits, exe, cache, opts, named, parsed,
                     loaded, seen>>
      /\ pc = "hash" /\ pc' \in {"hash", "match"}
  BY DEF HashFile, Visit
<1>2. ASSUME "revert" \notin features, NEW p \in Path
      PROVE  ForwardAt(p)'
  <2>1. ForwardAt(p)
    BY <1>2 DEF FreshInv, ForwardInv
  <2>2. /\ Unlisted(p)' <=> Unlisted(p)
        /\ IsHashed(p)' <=> IsHashed(p) \/ p = q
        /\ IsNamed(p)' <=> IsNamed(p)
        /\ IsParsed(p)' <=> IsParsed(p)
        /\ hashed'[p] = IF p = q THEN Read(q) ELSE hashed[p]
    BY HashFacts
  <2>3. ~IsNamed(p) /\ ~IsParsed(p)
    BY <1>1 DEF IsNamed, IsParsed, Past
  <2>4. IsHashed(p)' => GoodFor(exe[TheOut], cache, p, hashed'[p])
    BY <1>1, <2>1, <2>2, ReadGood DEF ForwardAt
  <2>5. ReadsAgree(p)'
    BY <1>1, <2>2, <2>3 DEF ReadsAgree, AfterHash
  <2> QED
    BY <1>1, <2>1, <2>2, <2>3, <2>4, <2>5 DEF ForwardAt, Built
<1>3. "revert" \notin features => ForwardInv'
  BY <1>2 DEF ForwardInv
<1> QED
  BY <1>1, <1>3, ReadingFresh DEF AfterHash

LEMMA CollectsFresh ==
    ASSUME Base, FreshInv, NEW q \in Path, CollectTypes(q)
    PROVE  FreshInv'
<1>1. /\ UNCHANGED <<features, src, edits, exe, cache, opts, listed, hashed,
                     parsed, loaded, seen>>
      /\ pc = "names" /\ pc' \in {"names", "parse"}
  BY DEF CollectTypes, Visit
<1>2. ASSUME "revert" \notin features, NEW p \in Path
      PROVE  ForwardAt(p)'
  <2>1. ForwardAt(p)
    BY <1>2 DEF FreshInv, ForwardInv
  <2>2. /\ Unlisted(p)' <=> Unlisted(p)
        /\ IsHashed(p)' <=> IsHashed(p)
        /\ IsNamed(p)' <=> IsNamed(p) \/ p = q
        /\ IsParsed(p)' <=> IsParsed(p)
        /\ named'[p] = IF p = q THEN Read(q) ELSE named[p]
    BY CollectFacts
  <2>3. ~IsParsed(p) /\ (p \notin listed <=> Unlisted(p))
    BY <1>1 DEF IsParsed, Unlisted, Past
  <2>4. Known(p)' <=> Known(p)
    BY <1>1 DEF Known, AfterHash
  <2>5. ReadsAgree(p) => (Unlisted(p) => src[p] = Absent)
    BY <1>1 DEF ReadsAgree, AfterHash
  <2>6. ReadsAgree(p) => Read(p).code = src[p].code
    BY <2>3, <2>5 DEF Read
  <2>7. ReadsAgree(p) => ReadsAgree(p)'
    BY <1>1, <2>2, <2>3, <2>6 DEF ReadsAgree, AfterHash
  <2>8. (IsNamed(p) /\ Unlisted(p) => named[p] = Absent)'
    BY <2>1, <2>2, <2>3 DEF ForwardAt, Read
  <2> QED
    BY <1>1, <2>1, <2>2, <2>3, <2>4, <2>7, <2>8 DEF ForwardAt, Built
<1>3. "revert" \notin features => ForwardInv'
  BY <1>2 DEF ForwardInv
<1>4. opts.cached => loaded = cache
  BY <1>1 DEF FreshInv, BuildInv, AfterHash
<1> QED
  BY <1>1, <1>3, <1>4, ReadingFresh

LEMMA ParsesFresh ==
    ASSUME Base, FreshInv, NEW q \in Path, ParseFile(q)
    PROVE  FreshInv'
<1>1. /\ UNCHANGED <<features, src, edits, exe, cache, opts, listed, hashed,
                     named, loaded, seen>>
      /\ pc = "parse" /\ pc' \in {"parse", "verify"}
  BY DEF ParseFile, Visit
<1>2. ASSUME "revert" \notin features, NEW p \in Path
      PROVE  ForwardAt(p)'
  <2>1. ForwardAt(p)
    BY <1>2 DEF FreshInv, ForwardInv
  <2>2. /\ Unlisted(p)' => Unlisted(p)
        /\ IsHashed(p)' <=> IsHashed(p)
        /\ IsNamed(p)' <=> IsNamed(p)
        /\ IsParsed(p)' <=> IsParsed(p) \/ p = q
        /\ parsed'[p] = IF p = q THEN Read(q) ELSE parsed[p]
    BY ParseFacts
  <2>3. IsNamed(p) /\ (p \notin listed <=> Unlisted(p))
    BY <1>1 DEF IsNamed, Unlisted, Past
  <2>4. Known(p)' <=> Known(p)
    BY <1>1 DEF Known, AfterHash
  <2>5. ReadsAgree(p) => (Unlisted(p) => src[p] = Absent)
    BY <1>1 DEF ReadsAgree, AfterHash
  <2>6. ReadsAgree(p) => Read(p).code = src[p].code
    BY <2>3, <2>5 DEF Read
  <2>7. ReadsAgree(p) => ReadsAgree(p)'
    BY <1>1, <2>2, <2>5, <2>6 DEF ReadsAgree, AfterHash
  <2>8. IsParsed(p)' => GoodFor(exe[TheOut], cache, p, parsed'[p])
    BY <1>1, <2>1, <2>2, ReadGood DEF ForwardAt
  <2>9. At(cache.ir.code, p) = Read(p).code => named[p].code = Read(p).code
    <3>1. CASE p \in listed
      <4>1. Read(p) = src[p]
        BY <3>1 DEF Read
      <4>2. At(cache.ir.code, p) = src[p].code => ReadsAgree(p)
        BY <2>1 DEF ForwardAt, Known
      <4> QED
        BY <2>3, <4>1, <4>2 DEF ReadsAgree
    <3>2. CASE p \notin listed
      BY <2>1, <2>3, <3>2 DEF ForwardAt, Read
    <3> QED
      BY <3>1, <3>2
  <2>10. (IsParsed(p) /\ At(cache.ir.code, p) = parsed[p].code
             => named[p].code = parsed[p].code)'
    BY <1>1, <2>1, <2>2, <2>9 DEF ForwardAt
  <2> QED
    BY <1>1, <2>1, <2>2, <2>3, <2>4, <2>7, <2>8, <2>10 DEF ForwardAt, Built
<1>3. "revert" \notin features => ForwardInv'
  BY <1>2 DEF ForwardInv
<1>4. opts.cached => loaded = cache
  BY <1>1 DEF FreshInv, BuildInv, AfterHash
<1> QED
  BY <1>1, <1>3, <1>4, ReadingFresh

-----------------------------------------------------------------------------
(***************************************************************************)
(* The compiler decides and writes                                         *)
(***************************************************************************)

\* A build that skips everything has an executable of the files as they were
\* hashed.
LEMMA ChecksFresh ==
    ASSUME Base, Plain, Careful, ReadInv, FreshInv, Check
    PROVE  FreshInv'
<1>1. /\ UNCHANGED <<features, src, edits, exe, cache, opts, hashed, seen>>
      /\ pc = "match" /\ pc' \in {"relist", "done"} /\ loaded' = cache
  BY DEF Check
<1>2. ASSUME pc' = "done"
      PROVE  \E s, t \in SeenSources : exe[TheOut] = Product(s, t, opts)
  <2>1. cache.hashes = HashesOf(hashed) /\ cache.level = opts.level /\ Built
    BY <1>1, <1>2, PlainHashes, PlainOptions DEF Check, Matches, Built
  <2>2. Made(exe[TheOut], IrOf(hashed, hashed))
    BY <1>1, <2>1, MatchMakes
  <2>3. exe[TheOut].level = opts.level
    BY <1>1, <2>1, LevelKnown DEF FreshInv
  <2>4. exe[TheOut] = Product(hashed, hashed, opts)
    BY <1>1, <2>2, <2>3, Makes
  <2>5. \A p \in Path : hashed[p] \in seen[p]
    BY <1>1 DEF ReadInv, IsHashed, Past, Base
  <2>6. hashed \in SeenSources
    BY <2>5, Seen DEF Base, SourcesOK
  <2> QED
    BY <2>4, <2>6
<1>3. (pc = "done" => \E s, t \in SeenSources : exe[TheOut] = Product(s, t, opts))'
  BY <1>1, <1>2 DEF Product, Ir, SeenSources
<1>4. Built => \E s, t \in Sources : Made(exe[TheOut], IrOf(s, t))
  BY DEF FreshInv, BuildInv
<1>5. (Built => \E s, t \in Sources : Made(exe[TheOut], IrOf(s, t)))'
  BY <1>1, <1>4 DEF Built, Made, IrOf, Codes
<1>6. BuildInv'
  BY <1>1, <1>3, <1>5 DEF BuildInv
<1>7. Recorded(cache.hashes, cache.ir, edits)' /\ LevelInv'
  BY <1>1 DEF FreshInv, Recorded, LevelInv, Built, At
<1>8. ASSUME "revert" \notin features, NEW p \in Path
      PROVE  ForwardAt(p)'
  <2>1. ForwardAt(p)
    BY <1>8 DEF FreshInv, ForwardInv
  <2>2. ~Unlisted(p)' /\ ~IsNamed(p)' /\ ~IsParsed(p)'
    BY CheckFacts
  <2>3. ReadsAgree(p)'
    BY <2>2 DEF ReadsAgree
  <2> QED
    BY <1>1, <2>1, <2>2, <2>3 DEF ForwardAt, Built
<1>9. "revert" \in features => RevertInv'
  <2>1. Agree(cache.hashes, cache.ir, src)' <=> Agree(cache.hashes, cache.ir, src)
    BY <1>1 DEF Agree
  <2> QED
    BY <1>1, <2>1 DEF FreshInv, RevertInv, Built
<1> QED
  BY <1>1, <1>6, <1>7, <1>8, <1>9 DEF FreshInv, ForwardInv

LEMMA VerifiesFresh ==
    ASSUME Base, FreshInv, Verify, pc' = "clang"
    PROVE  FreshInv'
<1>1. /\ UNCHANGED <<features, src, edits, exe, cache, opts, hashed, named,
                     parsed, loaded, seen>>
      /\ pc = "verify" /\ Compiles(parsed)
  BY DEF Verify, Leave, reads
<1>2. Compiles(parsed)'
  BY <1>1 DEF Compiles, Present
<1>3. /\ Built => \E s, t \in Sources : Made(exe[TheOut], IrOf(s, t))
      /\ opts.cached => loaded = cache
  BY <1>1 DEF FreshInv, BuildInv, AfterHash
<1>4. (Built => \E s, t \in Sources : Made(exe[TheOut], IrOf(s, t)))'
  BY <1>1, <1>3 DEF Built, Made, IrOf, Codes
<1>5. BuildInv'
  BY <1>1, <1>2, <1>3, <1>4 DEF BuildInv
<1>6. Recorded(cache.hashes, cache.ir, edits)' /\ LevelInv'
  BY <1>1 DEF FreshInv, Recorded, LevelInv, Built, At
<1>7. ASSUME "revert" \notin features, NEW p \in Path
      PROVE  ForwardAt(p)'
  <2>1. ForwardAt(p)
    BY <1>7 DEF FreshInv, ForwardInv
  <2>2. /\ ~Unlisted(p)'
        /\ IsNamed(p)' => IsNamed(p)
        /\ IsParsed(p)' => IsParsed(p)
    BY LaterFacts
  <2>3. Known(p)' <=> Known(p)
    BY <1>1 DEF Known, AfterHash
  <2>4. ReadsAgree(p) => ReadsAgree(p)'
    BY <1>1, <2>2 DEF ReadsAgree
  <2> QED
    BY <1>1, <2>1, <2>2, <2>3, <2>4 DEF ForwardAt, Built
<1>8. "revert" \in features => RevertInv'
  <2>1. Agree(cache.hashes, cache.ir, src)' <=> Agree(cache.hashes, cache.ir, src)
    BY <1>1 DEF Agree
  <2> QED
    BY <1>1, <2>1 DEF FreshInv, RevertInv, Built
<1> QED
  BY <1>1, <1>5, <1>6, <1>7, <1>8 DEF FreshInv, ForwardInv

\* Made by clang, or left because the IR is the old one, the executable is
\* that of the parsed sources.
LEMMA ClangMakes ==
    ASSUME Base, Plain, Careful, FreshInv, Clang
    PROVE  exe'[TheOut] = Product(parsed, named, opts)
<1>1. pc = "clang" /\ opts.out = TheOut /\ opts.binary = TRUE
  BY PlainOptions DEF Clang
<1>2. DOMAIN exe = Output /\ TheOut \in Output
  BY Defaults DEF Base
<1>3. CASE SkipClang
  <2>1. /\ cache.ir = IrOf(parsed, named) /\ cache.level = opts.level
        /\ Built
    BY <1>1, <1>3, PlainOptions DEF SkipClang, FreshInv, BuildInv, AfterHash,
                                    Built
  <2>2. Made(exe[TheOut], IrOf(parsed, named))
    BY <1>1, <2>1, SkipMakes
  <2>3. exe[TheOut].level = opts.level
    BY <1>1, <2>1, LevelKnown DEF FreshInv
  <2>4. exe' = exe
    BY <1>3 DEF Clang
  <2> QED
    BY <1>1, <2>2, <2>3, <2>4, Makes
<1>4. CASE ~SkipClang
  BY <1>1, <1>2, <1>4 DEF Clang, Plain
<1> QED
  BY <1>3, <1>4

LEMMA ClangsFresh ==
    ASSUME Base, Plain, Careful, FreshInv, Clang
    PROVE  FreshInv'
<1>1. /\ UNCHANGED <<features, src, edits, cache, opts, hashed, named, parsed,
                     loaded, seen>>
      /\ pc = "clang" /\ pc' = "save"
  BY DEF Clang, reads
<1>2. exe'[TheOut] = Product(parsed, named, opts)
  BY ClangMakes
<1>3. Made(exe'[TheOut], IrOf(parsed, named)) /\ exe'[TheOut].level = opts.level
  BY <1>1, <1>2, Makes
<1>4. parsed \in Sources /\ named \in Sources
  BY DEF Base, SourcesOK
<1>5. \A p \in Path : /\ At(exe'[TheOut].ir.code, p) = parsed[p].code
                      /\ At(exe'[TheOut].ir.types, p) = named[p].code
  <2>1. exe'[TheOut].ir = IrOf(parsed, named)
    BY <1>3 DEF Made
  <2>2. /\ IrOf(parsed, named).code = Codes(parsed)
        /\ IrOf(parsed, named).types = Codes(named)
    BY DEF IrOf
  <2> QED
    BY <2>1, <2>2, Texts
<1>6. BuildInv'
  <2>1. Compiles(parsed)' <=> Compiles(parsed)
    BY <1>1 DEF Compiles, Present
  <2>2. Product(parsed, named, opts)' = Product(parsed, named, opts)
    BY <1>1 DEF Product, Ir, Present
  <2>3. (opts.cached => loaded = cache) /\ Compiles(parsed)
    BY <1>1 DEF FreshInv, BuildInv, AfterHash
  <2>4. \E s, t \in Sources : Made(exe'[TheOut], IrOf(s, t))
    BY <1>3, <1>4
  <2>5. (Built => \E s, t \in Sources : Made(exe[TheOut], IrOf(s, t)))'
    BY <2>4 DEF Made, IrOf, Codes
  <2> QED
    BY <1>1, <1>2, <2>1, <2>2, <2>3, <2>5 DEF BuildInv
<1>7. Recorded(cache.hashes, cache.ir, edits)'
  BY <1>1 DEF FreshInv, Recorded, At
<1>8. LevelInv'
  BY <1>1, <1>3, PlainOptions DEF LevelInv, Careful, Built
<1>9. ASSUME "revert" \notin features, NEW p \in Path
      PROVE  ForwardAt(p)'
  <2>1. ForwardAt(p)
    BY <1>9 DEF FreshInv, ForwardInv
  <2>2. ~Unlisted(p)' /\ IsNamed(p) /\ IsParsed(p)
    BY <1>1, LaterFacts DEF IsNamed, IsParsed, Past
  <2>3. Known(p)' <=> Known(p)
    BY <1>1 DEF Known, AfterHash
  <2>4. ReadsAgree(p) => ReadsAgree(p)'
    BY <1>1, <2>2 DEF ReadsAgree
  <2>5. Known(p) => ExeHas(exe'[TheOut], p, src[p].code)
    BY <1>5, <2>1, <2>2 DEF ForwardAt, ReadsAgree, ExeHas
  <2>6. GoodFor(exe'[TheOut], cache, p, src[p])
    BY <2>5 DEF GoodFor, Known
  <2>7. src[p] = Absent => ExeHas(exe'[TheOut], p, None)
    <3>1. Absent.code = None
      BY DEF Absent
    <3> QED
      BY <2>5, <3>1 DEF Known
  <2> QED
    BY <1>1, <2>1, <2>2, <2>3, <2>4, <2>6, <2>7 DEF ForwardAt, Built
<1>10. "revert" \in features => RevertInv'
  <2>1. Agree(cache.hashes, cache.ir, src)' <=> Agree(cache.hashes, cache.ir, src)
    BY <1>1 DEF Agree
  <2> QED
    BY <1>1, <2>1 DEF FreshInv, RevertInv
<1> QED
  BY <1>1, <1>6, <1>7, <1>8, <1>9, <1>10 DEF FreshInv, ForwardInv

\* The cache is written last, from what was hashed first.
LEMMA SavesFresh ==
    ASSUME Base, Plain, ReadInv, FreshInv, Save
    PROVE  FreshInv'
<1>1. /\ UNCHANGED <<features, src, edits, exe, opts, hashed, named, parsed,
                     loaded, seen>>
      /\ pc = "save" /\ pc' = "done"
  BY DEF Save, reads
<1>2. /\ cache'.hashes = HashesOf(hashed) /\ cache'.ir = IrOf(parsed, named)
      /\ cache'.level = opts.level
  BY <1>1, PlainOptions, PlainHashes DEF Save
<1>3. exe[TheOut] = Product(parsed, named, opts) /\ Compiles(parsed)
  BY <1>1 DEF FreshInv, BuildInv
<1>4. Made(exe[TheOut], IrOf(parsed, named)) /\ exe[TheOut].level = opts.level
  BY <1>1, <1>3, Makes
<1>5. /\ edits \in Nat /\ SourcesOK(hashed, edits) /\ SourcesOK(parsed, edits)
      /\ SourcesOK(named, edits) /\ SourcesOK(src, edits)
      /\ parsed \in Sources /\ named \in Sources
  BY BuildAssumption DEF Base, SourcesOK
<1>6. BuildInv'
  <2>1. \A p \in Path : parsed[p] \in seen[p] /\ named[p] \in seen[p]
    BY <1>1 DEF ReadInv, IsParsed, IsNamed, Past
  <2>2. parsed \in SeenSources /\ named \in SeenSources
    BY <1>5, <2>1, Seen
  <2>3. \E s, t \in SeenSources : exe[TheOut] = Product(s, t, opts)
    BY <1>3, <2>2
  <2>4. (\E s, t \in SeenSources : exe[TheOut] = Product(s, t, opts))'
    BY <1>1, <2>3 DEF Product, Ir, SeenSources
  <2>5. \E s, t \in Sources : Made(exe[TheOut], IrOf(s, t))
    BY <1>4, <1>5
  <2>6. (Built => \E s, t \in Sources : Made(exe[TheOut], IrOf(s, t)))'
    BY <1>1, <2>5 DEF Made, IrOf, Codes
  <2> QED
    BY <1>1, <2>4, <2>6 DEF BuildInv
<1>7. Recorded(cache.hashes, cache.ir, edits)'
  <2>1. \A p \in Path : parsed[p].code \in 0 .. edits \cup {None}
    BY <1>3, <1>5, ContentFacts DEF Compiles, Present
  <2>2. \A p \in Path : At(cache'.ir.code, p) \in 0 .. edits \cup {None}
    <3>1. cache'.ir.code = Codes(parsed)
      BY <1>2 DEF IrOf
    <3> QED
      BY <2>1, <3>1, Texts
  <2>3. \A p \in DOMAIN cache'.hashes : cache'.hashes[p] \in 0 .. edits
    BY <1>2, <1>5, ContentFacts DEF HashesOf, Present
  <2> QED
    BY <1>1, <2>2, <2>3 DEF Recorded, At
<1>8. LevelInv'
  BY <1>1, <1>2, <1>4 DEF FreshInv, LevelInv, Built
<1>9. ASSUME "revert" \notin features, NEW p \in Path
      PROVE  ForwardAt(p)'
  <2>1. ForwardAt(p)
    BY <1>9 DEF FreshInv, ForwardInv
  <2>2. (~Unlisted(p) /\ ~IsNamed(p) /\ ~IsParsed(p))'
    BY <1>1 DEF Unlisted, IsNamed, IsParsed, Past
  <2>3. IsNamed(p) /\ IsParsed(p)
    BY <1>1 DEF IsNamed, IsParsed, Past
  <2>4. ReadsAgree(p)'
    BY <2>2 DEF ReadsAgree
  <2>5. hashed[p].text = src[p].text => ReadsAgree(p)
    BY <1>1, <2>1 DEF ForwardAt, Known, AfterHash
  <2>6. hashed[p].text = src[p].text => ExeHas(exe[TheOut], p, src[p].code)
    BY <1>4, <1>5, <2>3, <2>5, HasCodes DEF ReadsAgree, ExeHas
  <2>7. At(cache'.hashes, p) = hashed[p].text /\ exe[TheOut].ir = cache'.ir
    BY <1>2, <1>4, <1>5, Texts, HasCodes
  <2>8. GoodFor(exe[TheOut], cache', p, src[p])
    BY <2>6, <2>7 DEF GoodFor
  <2> QED
    BY <1>1, <2>1, <2>2, <2>4, <2>8 DEF ForwardAt, Built
<1>10. ASSUME "revert" \in features PROVE RevertInv'
  <2>1. RevertInv
    BY <1>10 DEF FreshInv
  <2>2. parsed = src /\ named = src
    BY <1>1, <2>1, ReadsRevert DEF IsNamed, IsParsed, Past
  <2>3. hashed = src \/ HashesOf(hashed) = NoHashes
    <3>1. CASE opts.cached
      BY <1>1, <2>1, <3>1, ReadsRevert DEF IsHashed, Past, AfterHash
    <3>2. CASE ~opts.cached
      BY <3>2, HashesNothing DEF Base
    <3> QED
      BY <3>1, <3>2
  <2>4. Agree(HashesOf(src), IrOf(src, src), src)
    <3>1. /\ IrOf(src, src) = [code |-> IrOf(src, src).code,
                               types |-> IrOf(src, src).code,
                               front |-> TheFlag, out |-> TheOut]
          /\ IrOf(src, src).code = Codes(src)
      BY DEF IrOf
    <3>2. Codes(src) = [p \in Present(src) |-> Codes(src)[p]]
      BY DEF Codes
    <3>3. \A p \in Present(src) :
             /\ p \in Path
             /\ HashesOf(src)[p] = src[p].text
             /\ Codes(src)[p] = src[p].code
             /\ src[p].text = 0 => src[p].code = 0
      BY <1>5, ContentFacts DEF HashesOf, Codes, Present
    <3>4. DOMAIN HashesOf(src) = Present(src)
      BY DEF HashesOf
    <3> QED
      BY <3>1, <3>2, <3>3, <3>4 DEF Agree
  <2>5. cache'.hashes # NoHashes => Agree(cache'.hashes, cache'.ir, src)
    BY <1>2, <2>2, <2>3, <2>4
  <2>6. (cache.hashes # NoHashes => Agree(cache.hashes, cache.ir, src))'
    BY <1>1, <2>5 DEF Agree
  <2>7. Made(exe[TheOut], cache.ir)'
    BY <1>1, <1>2, <1>4 DEF Made
  <2>8. (\A p \in Path : seen[p] = {src[p]})'
    BY <1>1, <2>1 DEF RevertInv
  <2> QED
    BY <2>6, <2>7, <2>8 DEF RevertInv
<1> QED
  BY <1>1, <1>6, <1>7, <1>8, <1>9, <1>10 DEF FreshInv, ForwardInv

\* A build ends, or the compiler is killed; without "crash" it is not while it
\* saves the cache.
LEMMA LeavesFresh ==
    ASSUME Base, Careful, FreshInv, UNCHANGED <<features, src, edits, exe>>,
           pc' = "idle",
           \/ cache' = cache /\ ("crash" \in features \/ pc # "save")
           \/ cache' = NoCache /\ "crash" \in features
    PROVE  FreshInv'
<1>1. features' = features /\ src' = src /\ edits' = edits /\ exe' = exe
  OBVIOUS
<1>2. src \in Sources
  BY DEF Base, SourcesOK
<1>3. /\ NoCache.hashes = NoHashes /\ NoCache.ir = NoIr
      /\ DOMAIN NoHashes = {} /\ DOMAIN NoIr.code = {}
  BY DEF NoCache, NoHashes, NoIr
<1>4. Built => \E s, t \in Sources : Made(exe[TheOut], IrOf(s, t))
  BY DEF FreshInv, BuildInv
<1>5. (Built => \E s, t \in Sources : Made(exe[TheOut], IrOf(s, t)))'
  BY <1>1, <1>4 DEF Built, Made, IrOf, Codes
<1>6. BuildInv'
  BY <1>5 DEF BuildInv, AfterHash
<1>7. Recorded(cache.hashes, cache.ir, edits)'
  <2>1. CASE cache' = cache
    BY <1>1, <2>1 DEF FreshInv, Recorded, At
  <2>2. CASE cache' = NoCache
    BY <1>3, <2>2 DEF Recorded, At
  <2> QED
    BY <2>1, <2>2
<1>8. LevelInv'
  BY <1>1 DEF FreshInv, LevelInv, Built
<1>9. ASSUME "revert" \notin features, NEW p \in Path
      PROVE  ForwardAt(p)'
  <2>1. ForwardAt(p)
    BY <1>9 DEF FreshInv, ForwardInv
  <2>2. (~Unlisted(p) /\ ~IsNamed(p) /\ ~IsParsed(p))'
    BY DEF Unlisted, IsNamed, IsParsed, Past
  <2>3. ReadsAgree(p)'
    BY <2>2 DEF ReadsAgree
  <2>4. GoodFor(exe[TheOut], cache', p, src[p])
    <3>1. CASE cache' = cache
      BY <2>1, <3>1 DEF ForwardAt
    <3>2. CASE cache' = NoCache
      <4>1. At(cache'.hashes, p) = None /\ At(cache'.ir.code, p) = None
        BY <1>3, <3>2 DEF At
      <4>2. /\ src[p].text = None => src[p] = Absent
            /\ src[p].code = None <=> src[p] = Absent
        BY <1>2, AbsentFacts, AbsentTexts
      <4> QED
        BY <2>1, <4>1, <4>2 DEF ForwardAt, GoodFor, Built
    <3> QED
      BY <3>1, <3>2
  <2> QED
    BY <1>1, <2>1, <2>2, <2>3, <2>4 DEF ForwardAt, Built
<1>10. ASSUME "revert" \in features PROVE RevertInv'
  <2>1. cache' = cache /\ pc # "save"
    BY <1>10 DEF Careful
  <2>2. Agree(cache.hashes, cache.ir, src)' <=> Agree(cache.hashes, cache.ir, src)
    BY <1>1, <2>1 DEF Agree
  <2> QED
    BY <1>1, <1>10, <2>1, <2>2 DEF FreshInv, RevertInv, Built
<1> QED
  BY <1>1, <1>6, <1>7, <1>8, <1>9, <1>10 DEF FreshInv, ForwardInv

-----------------------------------------------------------------------------
(***************************************************************************)
(* Fresh executables                                                       *)
(***************************************************************************)

LEMMA StepsFresh ==
    ASSUME Base, Plain, Careful, ReadInv, FreshInv, Next
    PROVE  FreshInv'
<1>1. CASE \E p \in Path : Edit(p) \/ Revert(p)
  BY <1>1, EditsFresh
<1>2. CASE \E o \in Options : Start(o)
  BY <1>2, StartsFresh
<1>3. CASE \E p \in Path :
             List(p) \/ HashFile(p) \/ CollectTypes(p) \/ ParseFile(p)
  BY <1>3, ListsFresh, HashesFresh, CollectsFresh, ParsesFresh
<1>4. CASE Check
  BY <1>4, ChecksFresh
<1>5. CASE Verify
  <2>1. CASE pc' = "clang"
    BY <1>5, <2>1, VerifiesFresh
  <2>2. CASE pc' = "idle"
    BY <1>5, <2>2, LeavesFresh DEF Verify
  <2> QED
    BY <1>5, <2>1, <2>2 DEF Verify, Leave
<1>6. CASE Clang
  BY <1>6, ClangsFresh
<1>7. CASE Save
  BY <1>7, SavesFresh
<1>8. CASE Return
  BY <1>8, LeavesFresh DEF Return, Leave
<1>9. CASE Crash
  BY <1>9, LeavesFresh DEF Crash, Leave
<1>10. CASE Terminated
  BY <1>10, LeavesFresh DEF Terminated, vars
<1> QED
  BY <1>1, <1>2, <1>3, <1>4, <1>5, <1>6, <1>7, <1>8, <1>9, <1>10 DEF Next

LEMMA FirstFresh ==
    ASSUME Init
    PROVE  FreshInv
<1>1. /\ ~Built /\ pc = "idle" /\ cache = NoCache /\ left = Path
  BY Defaults DEF Init, Built
<1>2. /\ cache.hashes = NoHashes /\ DOMAIN cache.hashes = {}
      /\ DOMAIN cache.ir.code = {}
  BY <1>1 DEF NoCache, NoHashes, NoIr
<1>3. BuildInv /\ LevelInv /\ Recorded(cache.hashes, cache.ir, edits)
  BY <1>1, <1>2 DEF BuildInv, LevelInv, Recorded, At, AfterHash
<1>4. ASSUME NEW p \in Path PROVE ForwardAt(p)
  <2>1. ~Unlisted(p) /\ ~IsHashed(p) /\ ~IsNamed(p) /\ ~IsParsed(p)
    BY <1>1, StartFacts
  <2> QED
    BY <1>1, <2>1 DEF ForwardAt, GoodFor, ReadsAgree, Built
<1>5. RevertInv
  BY <1>1, <1>2 DEF RevertInv
<1> QED
  BY <1>3, <1>4, <1>5 DEF FreshInv, ForwardInv

LEMMA StuttersFresh ==
    ASSUME FreshInv, UNCHANGED vars
    PROVE  FreshInv'
<1>1. UNCHANGED <<features, src, edits, exe, cache, pc, opts, left, listed,
                  hashed, named, parsed, loaded, seen>>
  BY DEF vars, reads
<1>2. Recorded(cache.hashes, cache.ir, edits)' /\ LevelInv'
  BY <1>1 DEF FreshInv, Recorded, LevelInv, Built, At
<1>3. BuildInv'
  <2>1. /\ Product(parsed, named, opts)' = Product(parsed, named, opts)
        /\ Compiles(parsed)' <=> Compiles(parsed)
    BY <1>1 DEF Product, Ir, Compiles, Present
  <2>2. (\E s, t \in SeenSources : exe[TheOut] = Product(s, t, opts))'
           <=> \E s, t \in SeenSources : exe[TheOut] = Product(s, t, opts)
    BY <1>1 DEF Product, Ir, SeenSources
  <2>3. (\E s, t \in Sources : Made(exe[TheOut], IrOf(s, t)))'
           <=> \E s, t \in Sources : Made(exe[TheOut], IrOf(s, t))
    BY <1>1 DEF Made, IrOf, Codes
  <2> QED
    BY <1>1, <2>1, <2>2, <2>3 DEF FreshInv, BuildInv, Built
<1>4. ASSUME "revert" \notin features, NEW p \in Path PROVE ForwardAt(p)'
  <2>1. ForwardAt(p)
    BY <1>4 DEF FreshInv, ForwardInv
  <2>2. /\ Unlisted(p)' <=> Unlisted(p)
        /\ IsHashed(p)' <=> IsHashed(p)
        /\ IsNamed(p)' <=> IsNamed(p)
        /\ IsParsed(p)' <=> IsParsed(p)
    BY <1>1 DEF Unlisted, IsHashed, IsNamed, IsParsed, Past
  <2>3. (Known(p)' <=> Known(p)) /\ (ReadsAgree(p)' <=> ReadsAgree(p))
    BY <1>1, <2>2 DEF Known, ReadsAgree
  <2> QED
    BY <1>1, <2>1, <2>2, <2>3 DEF ForwardAt, Built
<1>5. "revert" \in features => RevertInv'
  BY <1>1 DEF FreshInv, RevertInv, Agree, Built
<1> QED
  BY <1>1, <1>2, <1>3, <1>4, <1>5 DEF FreshInv, ForwardInv

\* A build that has not failed leaves an executable of sources in which each
\* file is as it has been at some moment during it, even if source files change
\* between the reads of a build or the compiler is killed: for any number of
\* source files, optimization levels, edits and builds, in the executions that
\* ExeFresh names (compileFromDirectory, BuildCache).
THEOREM FreshExecutables == Spec => []ExeFresh
<1>1. Init => Inv
  BY Starts, FirstFresh DEF Inv
<1>2. Inv /\ [Next]_vars => Inv'
  <2>1. SUFFICES ASSUME Inv, [Next]_vars PROVE Inv'
    OBVIOUS
  <2>2. features' = features
    BY <2>1 DEF Next, Edit, Revert, Write, Start, List, HashFile, Check,
                CollectTypes, ParseFile, Verify, Clang, Save, Return, Crash,
                Terminated, vars
  <2>3. (Plain /\ Careful)' <=> Plain /\ Careful
    BY <2>2 DEF Plain, Careful
  <2>4. CASE Next
    <3>1. Base'
      BY <2>1, <2>4, StepsBase DEF Inv
    <3>2. ReadInv'
      BY <2>1, <2>4, <3>1, StepsRead DEF Inv
    <3>3. Plain /\ Careful => FreshInv'
      BY <2>1, <2>4, StepsFresh DEF Inv
    <3> QED
      BY <2>3, <3>1, <3>2, <3>3 DEF Inv
  <2>5. CASE UNCHANGED vars
    <3>1. Base' /\ ReadInv'
      BY <2>1, <2>5, Stutters DEF Inv
    <3>2. Plain /\ Careful => FreshInv'
      BY <2>1, <2>5, StuttersFresh DEF Inv
    <3> QED
      BY <2>3, <3>1, <3>2 DEF Inv
  <2> QED
    BY <2>1, <2>4, <2>5
<1>3. Inv => ExeFresh
  <2>1. SUFFICES ASSUME Inv, Plain, Careful, pc = "done" PROVE UpToDate
    BY DEF ExeFresh, UpToDate, Plain, Careful
  <2>2. \E s, t \in SeenSources : exe[TheOut] = Product(s, t, opts)
    BY <2>1 DEF Inv, FreshInv, BuildInv
  <2>3. opts.out = TheOut
    BY <2>1, PlainOptions DEF Inv
  <2> QED
    BY <2>2, <2>3 DEF UpToDate
<1> QED
  BY <1>1, <1>2, <1>3, PTL DEF Spec

=============================================================================
