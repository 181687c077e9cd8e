---------------------------- MODULE BuildContexts ----------------------------
(***************************************************************************)
(* docker build, around BuildJob: newBuildCommand of src/internal/cli/     *)
(* build.go checks its flags, fetches and opens the named contexts and     *)
(* then the primary one, runs the build, which uploads them, and removes   *)
(* what it fetched.  Downloads, clones, copies of stdin, extracted         *)
(* archives and text contexts are temporary paths on the client; a failing *)
(* download, clone or extraction removes its own path before it returns.   *)
(*                                                                         *)
(* The user may edit a local context while the command runs: it is checked *)
(* when it is opened and read when the Pod is there to take it.            *)
(***************************************************************************)
EXTENDS Sequences

CONSTANTS
  CtxNames,   \* names given to --build-context
  SpecLists   \* the lists of --build-context flags

VARIABLES
  given,  \* the command line
  at,     \* the step the command is about to take
  err,    \* why it returned
  todo,   \* named contexts still to be prepared, or uploaded
  seen,   \* names of the named contexts prepared so far
  disk,   \* temporary paths that exist
  mine,   \* the temporaries of the prepare function that is running
  held,   \* the paths the contexts' cleanup functions remove
  reads,  \* the temporary paths the uploads to come read
  ctx,    \* the primary context, as prepared
  tree,   \* the files in the primary context
  sent    \* what its archive held

vars == <<given, at, err, todo, seen, disk, mine, held, reads, ctx, tree, sent>>
prepVars == <<todo, seen, mine, held, reads, ctx>>

Sources  == {"dir", "tar", "stdin", "git", "web"}
Archives == {"tar", "stdin", "web"}     \* regular files, once they are fetched
NamedSpecs == [name : CtxNames, source : Sources \cup {"malformed"}]

ASSUME SpecListsKnown == SpecLists \subseteq Seq(NamedSpecs)
ASSUME MainIsNoName == "main" \notin CtxNames

\* A temporary path: whose it is, and what it holds.
Path(x, kind) == <<x, kind>>
Paths == (CtxNames \cup {"main"}) \X {"input", "extracted", "text", "dockerfile"}

\* The files of a context that the selection tells apart.
Files == {"Dockerfile", "Dockerfile.dockerignore", ".dockerignore", "key"}
Injected == ".dockube.Dockerfile"

\* -f: absent, "Dockerfile", another path, stdin or a URL; key is a secret's
\* or SSH key's source, or not.
Inputs == [root : Sources, file : {"default", "here", "other", "stdin", "web"},
           named : SpecLists, secret : BOOLEAN]
Contexts == [dockerfile : {"Dockerfile", Injected}, ignore : Files \cup {"none"},
             rules : SUBSET Files, excluded : SUBSET Files]
Unprepared == [dockerfile |-> Injected, ignore |-> "none", rules |-> {}, excluded |-> {}]

Stages == {"options", "named", "openNamed", "file", "root", "stdinFile", "open",
           "text", "cache", "upload", "uploadNamed", "build", "returned"}
Errors == {"none", "options", "spec", "temp", "fetch", "open", "build"}

CtxTypeOK ==
  /\ given \in Inputs /\ at \in Stages /\ err \in Errors
  /\ todo \in Seq(NamedSpecs) /\ seen \subseteq CtxNames
  /\ disk \subseteq Paths /\ mine \subseteq Paths /\ held \subseteq Paths
  /\ reads \subseteq Paths /\ mine \cap held = {}
  /\ ctx \in Contexts /\ tree \subseteq Files /\ sent \subseteq Files \cup {Injected}

CtxInit ==
  /\ given \in Inputs
  /\ at = "options" /\ err = "none" /\ todo = given.named /\ seen = {}
  /\ disk = {} /\ mine = {} /\ held = {} /\ reads = {}
  /\ ctx = Unprepared /\ sent = {}
  /\ IF given.root = "dir" THEN tree \in SUBSET Files ELSE tree = {}

Main == Path("main", "input")

\* The command returns; its cleanups have removed the given paths.
Returns(e, removed) ==
  /\ at' = "returned" /\ err' = e
  /\ disk' = disk \ removed
  /\ UNCHANGED <<given, prepVars, tree, sent>>

\* The running prepare function has a new temporary path.
Gains(path, next) ==
  /\ disk' = disk \cup {path} /\ mine' = mine \cup {path}
  /\ at' = next
  /\ UNCHANGED <<given, err, todo, seen, held, reads, ctx, tree, sent>>

Skips(next) == at' = next /\ UNCHANGED <<given, err, prepVars, disk, tree, sent>>

----------------------------------------------------------------------------
\* Everything that is checked before the first path is made, secrets and SSH
\* keys included.
CheckOptions == at = "options" /\ (Skips("named") \/ Returns("options", {}))

\* parseNamedBuildContexts: a spec that is malformed or repeats a name
\* returns at once, an error of a context first cleans up the ones before it.
ParseNamed ==
  /\ at = "named"
  /\ IF todo = <<>> THEN Skips("file")
     ELSE LET s == Head(todo) IN
       \/ /\ s.source = "malformed" \/ s.name \in seen
          /\ Returns("spec", {})
       \/ /\ s.source # "malformed" /\ s.name \notin seen
          /\ \/ s.source \in {"git", "web"} /\ Gains(Path(s.name, "input"), "openNamed")
             \/ s.source \in {"git", "web", "stdin"} /\ Returns("fetch", held)
             \/ s.source \in {"dir", "tar"} /\ Skips("openNamed")

\* Mutant of NamedReady: all contexts share one list of temporaries.
NamedReadySharing(s, extra) ==
  /\ disk' = disk \cup extra
  /\ held' = held \cup mine \cup extra /\ mine' = mine \cup extra
  /\ reads' = reads \cup IF s.source = "git" THEN mine ELSE extra
  /\ seen' = seen \cup {s.name} /\ todo' = Tail(todo) /\ at' = "named"
  /\ UNCHANGED <<given, err, ctx, tree, sent>>

\* The named context is prepared; its cleanup removes the temporaries.
NamedReady(s, extra) ==
  /\ disk' = disk \cup extra
  /\ held' = held \cup mine \cup extra /\ mine' = {}
  /\ reads' = reads \cup IF s.source = "git" THEN mine ELSE extra
  /\ seen' = seen \cup {s.name} /\ todo' = Tail(todo) /\ at' = "named"
  /\ UNCHANGED <<given, err, ctx, tree, sent>>

Extracted(x, source) == IF source \in Archives THEN {Path(x, "extracted")} ELSE {}

\* Mutant of OpenNamed: prepareNamedBuildContext defers its own cleanup.
OpenNamedDeferring ==
  /\ at = "openNamed"
  /\ LET s == Head(todo) IN
       \/ /\ disk' = disk \ mine
          /\ held' = held \cup mine \cup Extracted(s.name, s.source) /\ mine' = {}
          /\ reads' = reads \cup IF s.source = "git" THEN mine ELSE Extracted(s.name, s.source)
          /\ seen' = seen \cup {s.name} /\ todo' = Tail(todo) /\ at' = "named"
          /\ UNCHANGED <<given, err, ctx, tree, sent>>
       \/ Returns("open", held \cup mine)

\* prepareNamedBuildContext, once its source is a local path.
OpenNamed ==
  /\ at = "openNamed"
  /\ \/ NamedReady(Head(todo), Extracted(Head(todo).name, Head(todo).source))
     \/ Returns("open", held \cup mine)

\* prepareBuildContextInput: a remote Dockerfile first.  From here on the
\* named contexts' cleanups are deferred.
FetchFile ==
  /\ at = "file"
  /\ \/ given.root = "stdin" /\ given.file = "stdin" /\ Returns("options", held)
     \/ given.file = "web" /\ Gains(Path("main", "dockerfile"), "root")
     \/ given.file = "web" /\ Returns("fetch", held)
     \/ /\ given.file # "web" /\ <<given.root, given.file>> # <<"stdin", "stdin">>
        /\ Skips("root")

\* Mutant of FetchRoot: an error only returns.
FetchRootOnly ==
  /\ at = "root"
  /\ \/ given.root \in {"dir", "tar"} /\ Skips("stdinFile")
     \/ given.root \in {"stdin", "git", "web"} /\ Gains(Main, "stdinFile")
     \/ given.root \in {"stdin", "git", "web"} /\ Returns("fetch", held)

\* The clone, the download or the copy of stdin.  When no temporary file can
\* be made for stdin the code returns without its own cleanup.
FetchRoot ==
  /\ at = "root"
  /\ \/ given.root \in {"dir", "tar"} /\ Skips("stdinFile")
     \/ given.root \in {"stdin", "git", "web"} /\ Gains(Main, "stdinFile")
     \/ given.root \in {"stdin", "git", "web"} /\ Returns("fetch", held \cup mine)
     \/ given.root = "stdin" /\ Returns("temp", held)

FetchStdinFile ==
  /\ at = "stdinFile"
  /\ \/ given.file # "stdin" /\ Skips("open")
     \/ given.file = "stdin" /\ Gains(Path("main", "dockerfile"), "open")
     \/ given.file = "stdin" /\ Returns("fetch", held \cup mine)

----------------------------------------------------------------------------
\* buildContextMatcher: the Dockerfile's own ignore file, or .dockerignore.
IgnoreFile(dockerfile, files) ==
  CASE dockerfile = "Dockerfile" /\ "Dockerfile.dockerignore" \in files
                                    -> "Dockerfile.dockerignore"
    [] ".dockerignore" \in files    -> ".dockerignore"
    [] OTHER                        -> "none"

\* The primary context is prepared, with a cleanup for everything it is made
\* of.  Its ignore file, if any, matches nothing or everything.
Opened(extra, dockerfile, files) ==
  /\ disk' = disk \cup extra
  /\ held' = held \cup mine \cup extra /\ mine' = {}
  /\ reads' = reads \cup extra
       \cup {p \in mine : p[2] = "dockerfile" \/ (p = Main /\ given.root = "git")}
  /\ \E rules \in {{}, Files} :
       LET ignore == IgnoreFile(dockerfile, files) IN
       ctx' = [dockerfile |-> dockerfile, ignore |-> ignore,
               rules |-> IF ignore = "none" THEN {} ELSE rules, excluded |-> {}]
  /\ tree' = files /\ at' = "cache"
  /\ UNCHANGED <<given, err, todo, seen, sent>>

\* Where the Dockerfile may be: only without -f is it looked for inside; a
\* path given with -f may be below a local context.
MayBeInside  == given.file = "default" \/ (given.root = "dir" /\ given.file \in {"here", "other"})
MayBeOutside == given.file # "default"

\* prepareBuildContextWithFile.  A downloaded file that is no archive may
\* still be a Dockerfile; otherwise errors end the command.
OpenRoot ==
  /\ at = "open"
  /\ \/ \E files \in IF given.root = "dir" THEN {tree} ELSE SUBSET Files :
          \/ /\ MayBeInside /\ "Dockerfile" \in files
             /\ Opened(Extracted("main", given.root), "Dockerfile", files)
          \/ MayBeOutside /\ Opened(Extracted("main", given.root), Injected, files)
     \/ given.root = "web" /\ given.file \in {"default", "here"} /\ Skips("text")
     \/ Returns("open", held \cup mine)

\* textBuildContext, and the context made of it.
OpenText ==
  /\ at = "text"
  /\ \/ Opened({Path("main", "text")}, "Dockerfile", {"Dockerfile"})
     \/ Returns("open", held \cup mine)

\* excludeBuildCredentialSources, for files below the context; the cache
\* flags may still be wrong.
ExcludeCredentials ==
  /\ at = "cache"
  /\ \/ /\ ctx' = [ctx EXCEPT !.excluded =
                     IF given.secret /\ given.root = "dir" THEN {"key"} ELSE {}]
        /\ todo' = given.named /\ at' = "upload"
        /\ UNCHANGED <<given, err, seen, disk, mine, held, reads, tree, sent>>
     \/ Returns("options", held)

----------------------------------------------------------------------------
\* Mutant of Archived: ignore rules hold for every file.
ArchivedIgnoring ==
  {f \in tree \ ctx.excluded : f \notin ctx.rules}
  \cup IF ctx.dockerfile = Injected THEN {Injected} ELSE {}

\* writeBuildContext: ignored files are left out, but not the Dockerfile and
\* the ignore file; a Dockerfile from elsewhere is added.
Archived ==
  {f \in tree \ ctx.excluded : f \in ctx.rules => f \in {ctx.dockerfile, ctx.ignore}}
  \cup IF ctx.dockerfile = Injected THEN {Injected} ELSE {}

\* runBuild, see BuildJob: the primary context, the named ones, the rest.
UploadContext ==
  /\ at = "upload"
  /\ \/ /\ sent' = Archived
        /\ reads' = {p \in reads : p[1] # "main"}
        /\ at' = "uploadNamed"
        /\ UNCHANGED <<given, err, todo, seen, disk, mine, held, ctx, tree>>
     \/ Returns("build", held)

UploadNamed ==
  /\ at = "uploadNamed"
  /\ \/ todo = <<>> /\ Skips("build")
     \/ /\ todo # <<>>
        /\ todo' = Tail(todo)
        /\ reads' = {p \in reads : p[1] # Head(todo).name}
        /\ UNCHANGED <<given, at, err, seen, disk, mine, held, ctx, tree, sent>>
     \/ todo # <<>> /\ Returns("build", held)

BuildReturns == at = "build" /\ \E e \in {"none", "build"} : Returns(e, held)

\* The user adds or removes a file of a local context.
Edit ==
  /\ at # "returned" /\ given.root = "dir"
  /\ \E f \in Files : tree' = IF f \in tree THEN tree \ {f} ELSE tree \cup {f}
  /\ UNCHANGED <<given, at, err, prepVars, disk, sent>>

CtxNext ==
  \/ CheckOptions \/ ParseNamed \/ OpenNamed
  \/ FetchFile \/ FetchRoot \/ FetchStdinFile \/ OpenRoot \/ OpenText
  \/ ExcludeCredentials \/ UploadContext \/ UploadNamed \/ BuildReturns
  \/ Edit

CtxSpec == CtxInit /\ [][CtxNext]_vars

----------------------------------------------------------------------------
(* Properties.                                                             *)

\* Whatever fails on the way, a command that has returned leaves no temporary
\* path, but in two cases: a bad --build-context after good ones leaves those
\* (build.go:581-587), and a stdin context for which no file can be made
\* leaves a downloaded Dockerfile (build.go:835-838).
OnlyKnownLeftovers ==
  at = "returned" =>
    CASE err = "spec" -> \A p \in disk : p[1] # "main"
      [] err = "temp" -> disk \subseteq {Path("main", "dockerfile")}
      [] OTHER        -> disk = {}

\* Every temporary path some cleanup still has to remove, and nothing else,
\* is on disk while the command runs: a path that is in use is not removed,
\* also when an archive turns out to be a text (build.go:875-899).
UploadsFindTheirPaths ==
  at # "returned" => disk = mine \cup held /\ reads \subseteq disk

\* The archive of the primary context holds the Dockerfile under the name the
\* frontend is told, unless it has been removed since it was checked, and the
\* ignore file in force, whatever the rules say; and never the source of a
\* secret below the context (build.go:751-777, 1236-1244, 1283-1305).
ArchiveIsRight ==
  [][sent' # sent =>
       /\ ctx.dockerfile \in tree \cup {Injected} => ctx.dockerfile \in sent'
       /\ ctx.ignore \in tree => ctx.ignore \in sent'
       /\ given.secret /\ given.root = "dir" => "key" \notin sent']_vars
=============================================================================
