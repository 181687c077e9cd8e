------------------------- MODULE BuildContextsProofs -------------------------
(***************************************************************************)
(* What BuildContexts guarantees for any names and any lists of            *)
(* --build-context flags.                                                  *)
(***************************************************************************)
EXTENDS BuildContexts, TLAPS

----------------------------------------------------------------------------
(* The invariant.  Paths are told apart by whose they are, so the types    *)
(* need to know who has had its turn; that cleanups see everything needs   *)
(* to know where a function has temporaries of its own.                    *)

\* Up to here the named contexts' cleanups are all there are.
Preparing == {"options", "named", "openNamed", "file", "root", "stdinFile", "open", "text"}

\* Between two prepare functions.
Between == {"options", "named", "file", "cache", "upload", "uploadNamed", "build"}

\* The flag being opened, and that its temporaries are its own.
FlagOpen == at = "openNamed" =>
              /\ todo # <<>> /\ Head(todo).name \notin seen
              /\ \A p \in mine : p[1] = Head(todo).name

NamesTaken == at \in Preparing => \A p \in held : p[1] \in seen

NothingPending == /\ at \in Between => mine = {}
                  /\ at = "root" => mine \subseteq {Path("main", "dockerfile")}

NothingYet == at = "options" => held = {}

CtxInv == CtxTypeOK /\ FlagOpen /\ NamesTaken /\ NothingPending /\ NothingYet
PathInv == UploadsFindTheirPaths /\ OnlyKnownLeftovers

\* What the selection relies on: neither the Dockerfile nor the ignore file is
\* excluded, and the source of a secret below the context is.
SelectionInv ==
  /\ ctx.excluded \subseteq {"key"} /\ ctx.ignore # "key"
  /\ at = "upload" /\ given.secret /\ given.root = "dir" => "key" \in ctx.excluded

----------------------------------------------------------------------------
(* The ways a step ends.                                                   *)

LEMMA FlagType ==
  ASSUME CtxTypeOK, todo # <<>>
  PROVE  /\ Head(todo) \in NamedSpecs /\ Tail(todo) \in Seq(NamedSpecs)
         /\ Head(todo).name \in CtxNames /\ Head(todo).name # "main"
<1>1. Head(todo) \in NamedSpecs /\ Tail(todo) \in Seq(NamedSpecs)
  BY DEF CtxTypeOK
<1> QED BY <1>1, MainIsNoName DEF NamedSpecs

LEMMA ReturnsInv ==
  ASSUME CtxInv, NEW e \in Errors, NEW removed, Returns(e, removed)
  PROVE  CtxInv'
  BY DEF CtxInv, CtxTypeOK, FlagOpen, NamesTaken, NothingPending, NothingYet, Preparing,
         Between, Returns, prepVars, Stages

LEMMA SkipsInv ==
  ASSUME CtxInv, NEW next \in Stages, Skips(next),
         next = "openNamed" => at = "named" /\ todo # <<>> /\ Head(todo).name \notin seen,
         next # "options", next \in Between => at \in Between,
         next = "root" => at = "file", at \in Preparing \/ next \notin Preparing
  PROVE  CtxInv'
<1> USE DEF CtxInv, Skips, prepVars
<1>1. CtxTypeOK'
  BY DEF CtxTypeOK
<1>2. FlagOpen'
  BY DEF FlagOpen, NothingPending, Between
<1>3. NamesTaken'
  BY DEF NamesTaken
<1>4. NothingPending' /\ NothingYet'
  BY DEF NothingPending, NothingYet, Between
<1> QED BY <1>1, <1>2, <1>3, <1>4

LEMMA GainsInv ==
  ASSUME CtxInv, NEW path \in Paths, NEW next \in {"openNamed", "root", "stdinFile", "open"},
         Gains(path, next), at \in Preparing, path[1] \notin seen,
         next = "openNamed" => /\ at = "named" /\ todo # <<>> /\ path[1] = Head(todo).name
                               /\ Head(todo).name \notin seen,
         next = "root" => at = "file" /\ path = Path("main", "dockerfile")
  PROVE  CtxInv'
<1> USE DEF CtxInv, Gains
<1>1. CtxTypeOK'
  BY DEF CtxTypeOK, NamesTaken, Stages
<1>2. FlagOpen'
  BY DEF FlagOpen, NothingPending, Between
<1>3. NamesTaken'
  BY DEF NamesTaken
<1>4. NothingPending' /\ NothingYet'
  BY DEF NothingPending, NothingYet, Between
<1> QED BY <1>1, <1>2, <1>3, <1>4

LEMMA ExtractedPaths ==
  ASSUME NEW x \in CtxNames \cup {"main"}, NEW source
  PROVE  Extracted(x, source) \subseteq Paths /\ \A p \in Extracted(x, source) : p[1] = x
  BY DEF Extracted, Paths, Path

\* Opening an archive or a text gives types, whatever is in it.
LEMMA OpenedInv ==
  ASSUME CtxInv, NEW extra \in SUBSET Paths, NEW dockerfile \in {"Dockerfile", Injected},
         NEW files \in SUBSET Files, Opened(extra, dockerfile, files)
  PROVE  CtxInv'
<1> DEFINE ignore == IgnoreFile(dockerfile, files)
<1>1. ignore \in Files \cup {"none"}
  BY DEF IgnoreFile, Files
<1>2. PICK rules \in {{}, Files} :
        ctx' = [dockerfile |-> dockerfile, ignore |-> ignore,
                rules |-> IF ignore = "none" THEN {} ELSE rules, excluded |-> {}]
  BY DEF Opened
<1>3. ctx' \in Contexts
  BY <1>1, <1>2 DEF Contexts
<1>4. CtxTypeOK'
  BY <1>3 DEF CtxInv, CtxTypeOK, Opened, Stages
<1> QED BY <1>4 DEF CtxInv, Opened, FlagOpen, NamesTaken, NothingPending, NothingYet, Preparing

----------------------------------------------------------------------------
(* Types, and who has which path.                                          *)

LEMMA CtxInvInit == CtxInit => CtxInv
<1> SUFFICES ASSUME CtxInit PROVE CtxInv
  OBVIOUS
<1>1. todo \in Seq(NamedSpecs) /\ given \in Inputs
  BY SpecListsKnown DEF CtxInit, Inputs
<1>2. ctx \in Contexts
  BY DEF CtxInit, Unprepared, Contexts
<1>3. CtxTypeOK
  BY <1>1, <1>2 DEF CtxInit, CtxTypeOK, Stages, Errors
<1> QED BY <1>3 DEF CtxInit, CtxInv, FlagOpen, NamesTaken, NothingPending, NothingYet

LEMMA CtxInvStep == CtxInv /\ [CtxNext]_vars => CtxInv'
<1> SUFFICES ASSUME CtxInv, [CtxNext]_vars PROVE CtxInv'
  OBVIOUS
<1> USE DEF Stages, Errors, Preparing, Between
<1>0. CtxTypeOK /\ seen \subseteq CtxNames /\ "main" \notin seen
  BY MainIsNoName DEF CtxInv, CtxTypeOK
<1>1. CASE CheckOptions
  BY <1>1, ReturnsInv, SkipsInv DEF CheckOptions
<1>2. CASE ParseNamed
  <2>1. CASE todo = <<>>
    BY <1>2, <2>1, SkipsInv DEF ParseNamed
  <2>2. CASE todo # <<>>
    <3> DEFINE s == Head(todo)
    <3>1. Path(s.name, "input") \in Paths /\ Path(s.name, "input")[1] = s.name
      BY <1>0, <2>2, FlagType DEF Paths, Path
    <3>2. CASE Returns("spec", {}) \/ Returns("fetch", held)
      BY <3>2, ReturnsInv
    <3>3. CASE s.name \notin seen /\ Gains(Path(s.name, "input"), "openNamed")
      BY <1>2, <2>2, <3>1, <3>3, GainsInv DEF ParseNamed
    <3>4. CASE s.name \notin seen /\ Skips("openNamed")
      BY <1>2, <2>2, <3>4, SkipsInv DEF ParseNamed
    <3> QED BY <1>2, <2>2, <3>2, <3>3, <3>4 DEF ParseNamed
  <2> QED BY <2>1, <2>2
<1>3. CASE OpenNamed
  <2>1. CASE Returns("open", held \cup mine)
    BY <2>1, ReturnsInv
  <2>2. CASE NamedReady(Head(todo), Extracted(Head(todo).name, Head(todo).source))
    <3> DEFINE s == Head(todo)
               extra == Extracted(s.name, s.source)
    <3>1. at = "openNamed" /\ todo # <<>> /\ \A p \in mine : p[1] = s.name
      BY <1>3 DEF OpenNamed, CtxInv, FlagOpen
    <3>2. s.name \in CtxNames /\ Tail(todo) \in Seq(NamedSpecs)
      BY <1>0, <3>1, FlagType
    <3>3. extra \subseteq Paths /\ \A p \in extra : p[1] = s.name
      BY <3>2, ExtractedPaths
    <3>4. CtxTypeOK'
      BY <1>0, <2>2, <3>2, <3>3 DEF NamedReady, CtxTypeOK
    <3>5. NamesTaken'
      BY <2>2, <3>1, <3>3 DEF NamedReady, CtxInv, NamesTaken
    <3> QED BY <2>2, <3>4, <3>5 DEF NamedReady, CtxInv, FlagOpen, NothingPending, NothingYet
  <2> QED BY <1>3, <2>1, <2>2 DEF OpenNamed
<1>4. CASE FetchFile
  <2>1. Path("main", "dockerfile") \in Paths /\ Path("main", "dockerfile")[1] = "main"
    BY DEF Paths, Path
  <2>2. CASE Gains(Path("main", "dockerfile"), "root")
    BY <1>0, <1>4, <2>1, <2>2, GainsInv DEF FetchFile
  <2> QED BY <1>4, <2>2, ReturnsInv, SkipsInv DEF FetchFile
<1>5. CASE FetchRoot
  <2>1. Main \in Paths /\ Main[1] = "main"
    BY DEF Paths, Path, Main
  <2>2. CASE Gains(Main, "stdinFile")
    BY <1>0, <1>5, <2>1, <2>2, GainsInv DEF FetchRoot
  <2> QED BY <1>5, <2>2, ReturnsInv, SkipsInv DEF FetchRoot
<1>6. CASE FetchStdinFile
  <2>1. Path("main", "dockerfile") \in Paths /\ Path("main", "dockerfile")[1] = "main"
    BY DEF Paths, Path
  <2>2. CASE Gains(Path("main", "dockerfile"), "open")
    BY <1>0, <1>6, <2>1, <2>2, GainsInv DEF FetchStdinFile
  <2> QED BY <1>6, <2>2, ReturnsInv, SkipsInv DEF FetchStdinFile
<1>7. CASE OpenRoot
  <2>1. Extracted("main", given.root) \subseteq Paths
    BY ExtractedPaths
  <2>2. (IF given.root = "dir" THEN {tree} ELSE SUBSET Files) \subseteq SUBSET Files
    BY <1>0 DEF CtxTypeOK
  <2>3. CASE \E files \in SUBSET Files, dockerfile \in {"Dockerfile", Injected} :
               Opened(Extracted("main", given.root), dockerfile, files)
    BY <2>1, <2>3, OpenedInv
  <2> QED BY <1>7, <2>2, <2>3, ReturnsInv, SkipsInv DEF OpenRoot
<1>8. CASE OpenText
  <2>1. {Path("main", "text")} \in SUBSET Paths /\ {"Dockerfile"} \in SUBSET Files
    BY DEF Paths, Path, Files
  <2> QED BY <1>8, <2>1, OpenedInv, ReturnsInv DEF OpenText
<1>9. CASE ExcludeCredentials
  <2>1. CASE Returns("options", held)
    BY <2>1, ReturnsInv
  <2>2. CASE at' = "upload"
    <3>1. ctx' \in Contexts /\ todo' \in Seq(NamedSpecs)
      BY <1>0, <1>9, <2>2, SpecListsKnown
      DEF ExcludeCredentials, Returns, CtxTypeOK, Contexts, Files, Inputs
    <3>2. CtxTypeOK'
      BY <1>0, <1>9, <2>2, <3>1 DEF ExcludeCredentials, Returns, CtxTypeOK
    <3> QED BY <1>9, <2>2, <3>2
            DEF ExcludeCredentials, Returns, CtxInv, FlagOpen, NamesTaken, NothingPending, NothingYet
  <2> QED BY <1>9, <2>1, <2>2 DEF ExcludeCredentials
<1>10. CASE UploadContext
  <2>1. CASE Returns("build", held)
    BY <2>1, ReturnsInv
  <2>2. CASE at' = "uploadNamed"
    <3>1. CtxTypeOK'
      BY <1>0, <1>10, <2>2 DEF UploadContext, Returns, CtxTypeOK, Archived
    <3> QED BY <1>10, <2>2, <3>1
            DEF UploadContext, Returns, CtxInv, FlagOpen, NamesTaken, NothingPending, NothingYet
  <2> QED BY <1>10, <2>1, <2>2 DEF UploadContext
<1>11. CASE UploadNamed
  <2>1. CASE Returns("build", held)
    BY <2>1, ReturnsInv
  <2>2. CASE Skips("build")
    BY <1>11, <2>2, SkipsInv DEF UploadNamed
  <2>3. CASE todo # <<>> /\ todo' = Tail(todo) /\ at' = at
    <3>1. CtxTypeOK'
      BY <1>0, <1>11, <2>3, FlagType DEF UploadNamed, Returns, Skips, CtxTypeOK
    <3> QED BY <1>11, <2>3, <3>1
            DEF UploadNamed, Returns, Skips, CtxInv, FlagOpen, NamesTaken, NothingPending, NothingYet
  <2> QED BY <1>11, <2>1, <2>2, <2>3 DEF UploadNamed
<1>12. CASE BuildReturns
  BY <1>12, ReturnsInv DEF BuildReturns
<1>13. CASE Edit
  <2>1. tree' \subseteq Files
    BY <1>0, <1>13 DEF Edit, CtxTypeOK
  <2> QED BY <1>13, <2>1
          DEF Edit, prepVars, CtxInv, CtxTypeOK, FlagOpen, NamesTaken, NothingPending, NothingYet
<1>14. CASE UNCHANGED vars
  BY <1>14 DEF vars, CtxInv, CtxTypeOK, FlagOpen, NamesTaken, NothingPending, NothingYet
<1> QED BY <1>1, <1>2, <1>3, <1>4, <1>5, <1>6, <1>7, <1>8, <1>9, <1>10, <1>11, <1>12, <1>13,
           <1>14 DEF CtxNext

\* Every reachable state is well typed, and no path is removed both by the
\* running function and by a prepared context's cleanup (build.go:574-899).
THEOREM CtxTypeCorrect == CtxSpec => []CtxTypeOK
<1>1. CtxInv => CtxTypeOK
  BY DEF CtxInv
<1> QED BY <1>1, CtxInvInit, CtxInvStep, PTL DEF CtxSpec

----------------------------------------------------------------------------
(* Temporary paths.                                                        *)

\* A command returns with nothing left, or in one of the two known ways.
LEMMA ReturnsEmpty ==
  ASSUME PathInv, NEW e, NEW removed, Returns(e, removed), at # "returned",
         e \notin {"spec", "temp"}, mine \cup held \subseteq removed
  PROVE  PathInv'
  BY DEF PathInv, UploadsFindTheirPaths, OnlyKnownLeftovers, Returns

LEMMA OnTheWay ==
  ASSUME at' # "returned", disk' = mine' \cup held', reads' \subseteq disk'
  PROVE  PathInv'
  BY DEF PathInv, UploadsFindTheirPaths, OnlyKnownLeftovers

LEMMA SkipsPaths ==
  ASSUME PathInv, at # "returned", NEW next, next # "returned", Skips(next)
  PROVE  PathInv'
  BY OnTheWay DEF PathInv, UploadsFindTheirPaths, Skips, prepVars

LEMMA GainsPaths ==
  ASSUME PathInv, at # "returned", NEW path, NEW next, next # "returned", Gains(path, next)
  PROVE  PathInv'
  BY OnTheWay DEF PathInv, UploadsFindTheirPaths, Gains

LEMMA OpenedPaths ==
  ASSUME PathInv, at # "returned", NEW extra, NEW dockerfile, NEW files,
         Opened(extra, dockerfile, files)
  PROVE  PathInv'
  BY OnTheWay DEF PathInv, UploadsFindTheirPaths, Opened

LEMMA PathInvStep == CtxInv /\ PathInv /\ [CtxNext]_vars => PathInv'
<1> SUFFICES ASSUME CtxInv, PathInv, [CtxNext]_vars PROVE PathInv'
  OBVIOUS
<1> USE DEF Between
<1>0. /\ at \in Between => mine = {}
      /\ at = "root" => mine \subseteq {Path("main", "dockerfile")}
  BY DEF CtxInv, NothingPending
<1>1. CASE CheckOptions
  BY <1>0, <1>1, ReturnsEmpty, SkipsPaths DEF CheckOptions, CtxInv, NothingYet
<1>2. CASE ParseNamed
  <2>1. CASE at = "named" /\ Returns("spec", {})
    <3>1. \A p \in disk : p[1] # "main"
      BY <1>0, <2>1, MainIsNoName
      DEF PathInv, UploadsFindTheirPaths, CtxInv, CtxTypeOK, NamesTaken, Preparing
    <3> QED BY <2>1, <3>1 DEF Returns, PathInv, UploadsFindTheirPaths, OnlyKnownLeftovers
  <2>2. CASE at = "named" /\ Returns("fetch", held)
    BY <1>0, <2>2, ReturnsEmpty
  <2>3. CASE Skips("file") \/ Skips("openNamed")
    BY <1>2, <2>3, SkipsPaths DEF ParseNamed
  <2>4. CASE Gains(Path(Head(todo).name, "input"), "openNamed")
    BY <1>2, <2>4, GainsPaths DEF ParseNamed
  <2> QED BY <1>2, <2>1, <2>2, <2>3, <2>4 DEF ParseNamed
<1>3. CASE OpenNamed
  <2>1. CASE Returns("open", held \cup mine)
    BY <1>3, <2>1, ReturnsEmpty DEF OpenNamed
  <2>2. CASE NamedReady(Head(todo), Extracted(Head(todo).name, Head(todo).source))
    BY <1>3, <2>2, OnTheWay DEF OpenNamed, NamedReady, PathInv, UploadsFindTheirPaths
  <2> QED BY <1>3, <2>1, <2>2 DEF OpenNamed
<1>4. CASE FetchFile
  BY <1>0, <1>4, ReturnsEmpty, SkipsPaths, GainsPaths DEF FetchFile
<1>5. CASE FetchRoot
  <2>1. CASE Returns("temp", held)
    BY <1>0, <1>5, <2>1
    DEF FetchRoot, Returns, PathInv, UploadsFindTheirPaths, OnlyKnownLeftovers
  <2> QED BY <1>5, <2>1, ReturnsEmpty, SkipsPaths, GainsPaths DEF FetchRoot
<1>6. CASE FetchStdinFile
  BY <1>6, ReturnsEmpty, SkipsPaths, GainsPaths DEF FetchStdinFile
<1>7. CASE OpenRoot
  BY <1>7, ReturnsEmpty, SkipsPaths, OpenedPaths DEF OpenRoot
<1>8. CASE OpenText
  BY <1>8, ReturnsEmpty, OpenedPaths DEF OpenText
<1>9. CASE ExcludeCredentials
  <2>1. CASE Returns("options", held)
    BY <1>0, <1>9, <2>1, ReturnsEmpty DEF ExcludeCredentials
  <2>2. CASE ~Returns("options", held)
    BY <1>9, <2>2, OnTheWay DEF ExcludeCredentials, PathInv, UploadsFindTheirPaths
  <2> QED BY <2>1, <2>2
<1>10. CASE UploadContext
  <2>1. CASE Returns("build", held)
    BY <1>0, <1>10, <2>1, ReturnsEmpty DEF UploadContext
  <2>2. CASE ~Returns("build", held)
    BY <1>10, <2>2, OnTheWay DEF UploadContext, PathInv, UploadsFindTheirPaths
  <2> QED BY <2>1, <2>2
<1>11. CASE UploadNamed
  <2>1. CASE Returns("build", held)
    BY <1>0, <1>11, <2>1, ReturnsEmpty DEF UploadNamed
  <2>2. CASE Skips("build")
    BY <1>11, <2>2, SkipsPaths DEF UploadNamed
  <2>3. CASE ~Returns("build", held) /\ ~Skips("build")
    BY <1>11, <2>3, OnTheWay DEF UploadNamed, PathInv, UploadsFindTheirPaths
  <2> QED BY <2>1, <2>2, <2>3
<1>12. CASE BuildReturns
  BY <1>0, <1>12, ReturnsEmpty DEF BuildReturns
<1>13. CASE Edit
  BY <1>13, OnTheWay DEF Edit, prepVars, PathInv, UploadsFindTheirPaths
<1>14. CASE UNCHANGED vars
  BY <1>14 DEF vars, PathInv, UploadsFindTheirPaths, OnlyKnownLeftovers
<1> QED BY <1>1, <1>2, <1>3, <1>4, <1>5, <1>6, <1>7, <1>8, <1>9, <1>10, <1>11, <1>12, <1>13,
           <1>14 DEF CtxNext

LEMMA PathsCorrect == CtxSpec => []PathInv
<1>1. CtxInit => PathInv
  BY DEF CtxInit, PathInv, UploadsFindTheirPaths, OnlyKnownLeftovers
<1> QED BY <1>1, CtxInvInit, CtxInvStep, PathInvStep, PTL DEF CtxSpec

\* Whatever fails and whatever the flags are, a command that has returned
\* leaves no temporary path but in the two known cases (build.go:194-235,
\* 574-654, 798-899).
THEOREM NothingLeftBehind == CtxSpec => []OnlyKnownLeftovers
<1>1. PathInv => OnlyKnownLeftovers
  BY DEF PathInv
<1> QED BY <1>1, PathsCorrect, PTL

\* While the command runs, the cleanups to come cover exactly the temporary
\* paths there are, and what the uploads to come read is among them
\* (build.go:875-899, 1421-1430).
THEOREM UploadsSafe == CtxSpec => []UploadsFindTheirPaths
<1>1. PathInv => UploadsFindTheirPaths
  BY DEF PathInv
<1> QED BY <1>1, PathsCorrect, PTL

----------------------------------------------------------------------------
(* The archive of the primary context.                                     *)

LEMMA SelectionStep == CtxInv /\ SelectionInv /\ [CtxNext]_vars => SelectionInv'
<1> SUFFICES ASSUME CtxInv, SelectionInv, [CtxNext]_vars PROVE SelectionInv'
  OBVIOUS
<1>1. ASSUME NEW extra, NEW dockerfile, NEW files, Opened(extra, dockerfile, files)
      PROVE  SelectionInv'
  <2>1. IgnoreFile(dockerfile, files) # "key"
    BY DEF IgnoreFile
  <2> QED BY <1>1, <2>1 DEF Opened, SelectionInv
<1>2. ASSUME NEW e, NEW removed, Returns(e, removed)
      PROVE  SelectionInv'
  BY <1>2 DEF Returns, prepVars, SelectionInv
<1>3. ASSUME NEW next, next # "upload", Skips(next)
      PROVE  SelectionInv'
  BY <1>3 DEF Skips, prepVars, SelectionInv
<1>4. ASSUME NEW path, NEW next, next # "upload", Gains(path, next)
      PROVE  SelectionInv'
  BY <1>4 DEF Gains, SelectionInv
<1>5. CASE CheckOptions \/ ParseNamed \/ FetchFile \/ FetchRoot \/ FetchStdinFile
  BY <1>2, <1>3, <1>4, <1>5 DEF CheckOptions, ParseNamed, FetchFile, FetchRoot, FetchStdinFile
<1>6. CASE OpenNamed
  BY <1>2, <1>6 DEF OpenNamed, NamedReady, SelectionInv
<1>7. CASE OpenRoot \/ OpenText
  BY <1>1, <1>2, <1>3, <1>7 DEF OpenRoot, OpenText
<1>8. CASE ExcludeCredentials
  <2>1. ctx \in Contexts
    BY DEF CtxInv, CtxTypeOK
  <2> QED BY <1>2, <1>8, <2>1 DEF ExcludeCredentials, SelectionInv, Contexts
<1>9. CASE UploadContext \/ UploadNamed \/ BuildReturns
  BY <1>2, <1>3, <1>9 DEF UploadContext, UploadNamed, BuildReturns, SelectionInv
<1>10. CASE Edit \/ UNCHANGED vars
  BY <1>10 DEF Edit, prepVars, vars, SelectionInv
<1> QED BY <1>5, <1>6, <1>7, <1>8, <1>9, <1>10 DEF CtxNext

\* The archive of the primary context holds the Dockerfile under the name the
\* frontend is told, and the ignore file in force, and no source of a secret
\* (build.go:751-777, 1236-1244, 1283-1305).
THEOREM ArchivesRight == CtxSpec => ArchiveIsRight
<1>1. CtxInit => SelectionInv
  BY DEF CtxInit, Unprepared, SelectionInv
<1>2. ASSUME CtxInv, SelectionInv, [CtxNext]_vars, sent' # sent
      PROVE  /\ ctx.dockerfile \in tree \cup {Injected} => ctx.dockerfile \in sent'
             /\ ctx.ignore \in tree => ctx.ignore \in sent'
             /\ given.secret /\ given.root = "dir" => "key" \notin sent'
  <2>1. at = "upload" /\ sent' = Archived
    BY <1>2 DEF CtxNext, vars, prepVars, Returns, Skips, Gains, Opened, NamedReady,
       CheckOptions, ParseNamed, OpenNamed, FetchFile, FetchRoot, FetchStdinFile, OpenRoot,
       OpenText, ExcludeCredentials, UploadContext, UploadNamed, BuildReturns, Edit
  <2>2. ctx.dockerfile \in {"Dockerfile", Injected} /\ ctx.dockerfile \notin ctx.excluded
    BY <1>2 DEF CtxInv, CtxTypeOK, Contexts, SelectionInv, Injected
  <2> QED BY <1>2, <2>1, <2>2 DEF Archived, SelectionInv, Injected
<1>3. CtxInv /\ SelectionInv /\ [CtxNext]_vars =>
        [sent' # sent =>
           /\ ctx.dockerfile \in tree \cup {Injected} => ctx.dockerfile \in sent'
           /\ ctx.ignore \in tree => ctx.ignore \in sent'
           /\ given.secret /\ given.root = "dir" => "key" \notin sent']_vars
  BY <1>2
<1> QED BY <1>1, <1>3, CtxInvInit, CtxInvStep, SelectionStep, PTL DEF CtxSpec, ArchiveIsRight
=============================================================================
