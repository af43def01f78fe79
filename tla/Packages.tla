------------------------------ MODULE Packages ------------------------------
(***************************************************************************)
(* The path dependencies of a package (tools/uinx.cpp): a build collects   *)
(* the packages it compiles, fetch writes uinx.lock.  Each walks the       *)
(* manifests depth first, one dependency per step, in whatever order the   *)
(* unordered map of a manifest gives.  Between two commands the packages   *)
(* may be edited.                                                          *)
(***************************************************************************)
EXTENDS Integers, Sequences, FiniteSets

CONSTANTS Root,    \* the directory of the package itself
          Trees,   \* directory |-> its manifest: name |-> path
          Broken,  \* sets of what cannot be opened: manifests by their directory, files
          Headers  \* need and dontneed lines of the entry source

NoPath == "nopath"          \* a path weakly_canonical refuses
EntrySource == "main.ux"    \* the files the commands open first
LockFile == "uinx.lock"

(* What the program works on: a manifest for every directory, the empty one *)
(* where there is none (such a directory is broken).                        *)
PackageAssumption ==
    \A t \in Trees :
        /\ Root \in DOMAIN t /\ NoPath \notin DOMAIN t
        /\ \A d \in DOMAIN t : \A n \in DOMAIN t[d] : t[d][n] \in DOMAIN t \cup {NoPath}

VARIABLES tree, broken, header,
          command,    \* "idle", "build" or "fetch"
          walk,       \* the recursion: directory and the names to come, the innermost last
          visited,
          sources,    \* the packages collected by the build
          lock,       \* the packages in uinx.lock
          built, fetched  \* if the last command succeeded, on the tree as it is

files == <<tree, broken, header>>
packageVars == <<files, command, walk, visited, sources, lock, built, fetched>>

PackageInit == /\ tree \in Trees /\ broken \in Broken /\ header \in Headers
               /\ command = "idle" /\ walk = <<>> /\ visited = {}
               /\ sources = <<>> /\ lock = <<>>
               /\ built = FALSE /\ fetched = FALSE

(* Anybody may edit the packages while no command runs.                     *)
Edit == /\ command = "idle"
        /\ \/ tree' \in Trees \ {tree} /\ UNCHANGED <<broken, header>>
           \/ broken' \in Broken \ {broken} /\ UNCHANGED <<tree, header>>
           \/ header' \in Headers \ {header} /\ UNCHANGED <<tree, broken>>
        /\ built' = FALSE /\ fetched' = FALSE
        /\ UNCHANGED <<command, walk, visited, sources, lock>>
-----------------------------------------------------------------------------
(* source_selection: what the entry source says it does not need.  A name   *)
(* that is not needed stays so when a later line needs it.                  *)
Components == {"std", "runtime"}
disabled_dependencies ==
    {header[n].name : n \in {i \in DOMAIN header : header[i].word = "dontneed"}} \ Components

Level(dir, off) == [dir |-> dir, rest |-> DOMAIN tree[dir] \ off]
Innermost == walk[Len(walk)]
InCommand(c) == command = c /\ walk # <<>>

(* Dependency n of the innermost manifest, and the walk without it.         *)
Path(n) == tree[Innermost.dir][n]
Advance(n) == [walk EXCEPT ![Len(walk)] = [dir |-> @.dir, rest |-> @.rest \ {n}]]
Finish(c, ok) == /\ command' = "idle" /\ walk' = <<>>
                 /\ IF c = "build" THEN built' = ok /\ UNCHANGED fetched
                    ELSE fetched' = ok /\ UNCHANGED built

(* collect_project_sources: the package's own sources, then the walk.       *)
Build == /\ command = "idle"
         /\ \/ /\ EntrySource \in broken
               /\ sources' = <<>>
               /\ UNCHANGED <<command, visited, walk>>
            \/ /\ EntrySource \notin broken
               /\ command' = "build"
               /\ sources' = <<Root>> /\ visited' = {Root}
               /\ walk' = <<Level(Root, disabled_dependencies)>>
         /\ built' = FALSE
         /\ UNCHANGED <<files, lock, fetched>>

(* fetch: the lock file is truncated first, if it can be opened.            *)
Fetch == /\ command = "idle"
         /\ \/ LockFile \in broken /\ UNCHANGED <<command, lock, visited, walk>>
            \/ /\ LockFile \notin broken
               /\ command' = "fetch"
               /\ lock' = <<Root>> /\ visited' = {}
               /\ walk' = <<Level(Root, {})>>
         /\ fetched' = FALSE
         /\ UNCHANGED <<files, sources, built>>

(* A plausible slip: a package is noted when it was read.                   *)
CollectNotesLate(n) ==
    /\ InCommand("build")
    /\ CASE Path(n) = NoPath \/ (Path(n) \in broken \ visited) ->
              Finish("build", FALSE) /\ UNCHANGED <<visited, sources>>
         [] Path(n) \in visited -> walk' = Advance(n) /\ UNCHANGED <<command, built, fetched, visited, sources>>
         [] OTHER -> /\ visited' = visited \cup {Innermost.dir}
                     /\ sources' = Append(sources, Path(n))
                     /\ walk' = IF Len(walk) > 3 THEN Advance(n) ELSE Append(Advance(n), Level(Path(n), {}))
                     /\ UNCHANGED <<command, built, fetched>>
    /\ UNCHANGED <<files, lock>>

(* A plausible slip: the loop stays at a dependency it has seen.            *)
CollectStays(n) ==
    /\ InCommand("build")
    /\ CASE Path(n) = NoPath \/ (Path(n) \in broken \ visited) ->
              Finish("build", FALSE) /\ UNCHANGED <<visited, sources>>
         [] Path(n) \in visited -> UNCHANGED <<walk, command, built, fetched, visited, sources>>
         [] OTHER -> /\ visited' = visited \cup {Path(n)}
                     /\ sources' = Append(sources, Path(n))
                     /\ walk' = Append(Advance(n), Level(Path(n), {}))
                     /\ UNCHANGED <<command, built, fetched>>
    /\ UNCHANGED <<files, lock>>

(* collect_dependency_sources, one dependency.                              *)
Collect(n) ==
    /\ InCommand("build")
    /\ CASE Path(n) = NoPath \/ (Path(n) \in broken \ visited) ->
              Finish("build", FALSE) /\ UNCHANGED <<visited, sources>>
         [] Path(n) \in visited -> walk' = Advance(n) /\ UNCHANGED <<command, built, fetched, visited, sources>>
         [] OTHER -> /\ visited' = visited \cup {Path(n)}
                     /\ sources' = Append(sources, Path(n))
                     /\ walk' = Append(Advance(n), Level(Path(n), {}))
                     /\ UNCHANGED <<command, built, fetched>>
    /\ UNCHANGED <<files, lock>>

(* A plausible slip: the dependencies of a dependency are not written.      *)
LockDirectOnly(n) ==
    /\ InCommand("fetch")
    /\ CASE Path(n) = NoPath \/ Path(n) \in visited ->
              walk' = Advance(n) /\ UNCHANGED <<command, built, fetched, visited, lock>>
         [] Path(n) \in broken \ visited -> Finish("fetch", FALSE) /\ UNCHANGED <<visited, lock>>
         [] OTHER -> /\ visited' = visited \cup {Path(n)}
                     /\ lock' = Append(lock, Path(n))
                     /\ walk' = Advance(n)
                     /\ UNCHANGED <<command, built, fetched>>
    /\ UNCHANGED <<files, sources>>

(* write_deps, one dependency.  A path that cannot be resolved is skipped.  *)
WriteLock(n) ==
    /\ InCommand("fetch")
    /\ CASE Path(n) = NoPath \/ Path(n) \in visited ->
              walk' = Advance(n) /\ UNCHANGED <<command, built, fetched, visited, lock>>
         [] Path(n) \in broken \ visited -> Finish("fetch", FALSE) /\ UNCHANGED <<visited, lock>>
         [] OTHER -> /\ visited' = visited \cup {Path(n)}
                     /\ lock' = Append(lock, Path(n))
                     /\ walk' = Append(Advance(n), Level(Path(n), {}))
                     /\ UNCHANGED <<command, built, fetched>>
    /\ UNCHANGED <<files, sources>>

(* The loop over one manifest is over.                                      *)
Leave == /\ walk # <<>> /\ Innermost.rest = {}
         /\ IF Len(walk) = 1 THEN Finish(command, TRUE)
            ELSE walk' = SubSeq(walk, 1, Len(walk) - 1) /\ UNCHANGED <<command, built, fetched>>
         /\ UNCHANGED <<files, visited, sources, lock>>

TakeDependency == walk # <<>> /\ \E n \in Innermost.rest : Collect(n) \/ WriteLock(n)

PackageNext == Edit \/ Build \/ Fetch \/ TakeDependency \/ Leave

(* A command runs on until it is over.                                      *)
PackageFairness == WF_packageVars(TakeDependency \/ Leave)
PackageSpec == PackageInit /\ [][PackageNext]_packageVars /\ PackageFairness
-----------------------------------------------------------------------------
(* What the package needs: its enabled dependencies and all of theirs.      *)
Needs(dir) == {tree[dir][n] : n \in DOMAIN tree[dir] \ (IF dir = Root THEN disabled_dependencies ELSE {})}
Needed == {dir \in DOMAIN tree :
              \A s \in SUBSET DOMAIN tree : Root \in s /\ (\A d \in s : Needs(d) \subseteq s) => dir \in s}

(* A build that succeeds compiles every package it needs, by whatever paths *)
(* and cycles, exactly once.                                                *)
BuildsEachOnce == built => /\ {sources[i] : i \in DOMAIN sources} = Needed
                           /\ \A i, j \in DOMAIN sources : sources[i] = sources[j] => i = j

(* While nothing was edited, uinx.lock names every package that a build     *)
(* compiles, although the two commands take different dependencies.         *)
LockNamesBuild == built /\ fetched => \A i \in DOMAIN sources : \E j \in DOMAIN lock : lock[j] = sources[i]

(* Every command ends, whatever the cycles of dependencies.                 *)
CommandsEnd == (command # "idle") ~> (command = "idle")
=============================================================================
