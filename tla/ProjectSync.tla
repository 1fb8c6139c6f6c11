---------------------------- MODULE ProjectSync ----------------------------
(***************************************************************************)
(* ProjectSyncActor (src/subsystems/project/project_sync.rs): the nodes of *)
(* the memory graph that mirror the project's files, the manifest hash     *)
(* that tells whether they still do, and who asks the actor for what.  A   *)
(* node is counted, not named: what differs between two nodes of one path  *)
(* (size, role, embedding, edges) no step below looks at.                  *)
(***************************************************************************)
EXTENDS Naturals, FiniteSets, Sequences, Functions

CONSTANTS Files,        \* paths of files, relative to the root
          Dir,          \* file -> the directory that holds it
          Root,         \* the project root, as a directory
          Configs,      \* files that are build configurations
          Extension,    \* the project has the package.json of an extension
          Sizes,        \* sizes a file can have
          MaxChanges,   \* bound: changes of files on disk
          MaxRequests,  \* bound: syncs, events and launches
          Hosts         \* processes that run the actor: "server", "app", "client"

Dirs == Range(Dir) \union {Root}
Spellings == {"relative", "absolute"}   \* scans store relative paths, events absolute ones

ASSUME SyncAssumption ==
  /\ Dir \in [Files -> Dirs] /\ IsFiniteSet(Files)
  /\ Configs \subseteq Files /\ Extension \in BOOLEAN
  /\ Sizes \subseteq Nat \ {0} /\ MaxChanges \in Nat /\ MaxRequests \in Nat
  /\ Hosts \subseteq {"server", "app", "client"}

VARIABLES
  host,         \* who runs the actor
  disk,         \* file -> size, 0 when it is not there
  changes,      \* changes of the disk so far, for the bound
  requests,     \* syncs, events and launches so far, for the bound
  launched,     \* this process has asked for its one sync
  initialized,  \* the actor has its graph and embedder
  op,           \* the sync in progress: "idle", "bootstrap", "startup"
  seen,         \* the manifest that sync scanned
  graph,        \* how many nodes of each path there are
  hash,         \* the stored hash, as the manifest it identifies; {} for none
  rooted,       \* the root path is in the graph's configuration
  inbox,        \* notifications of the watcher still to be handled
  recent,       \* debounce_map: notifications less than 500 ms old
  event_batch,  \* notifications kept for the next flush
  partial,      \* history: something but a whole sync wrote to the graph
  single        \* history: no sync created what was there

world == <<host, disk, changes>>
actor == <<initialized, op, seen>>
stored == <<graph, hash, rooted>>
events == <<inbox, recent, event_batch>>
history == <<partial, single>>
syncVars == <<world, requests, launched, actor, stored, events, history>>

EmptyGraph ==
  [projects |-> 0,
   files |-> [node \in Spellings \X Files |-> 0],
   dirs |-> [node \in Spellings \X Dirs |-> 0],
   builds |-> [c \in Configs |-> 0],
   packages |-> 0]

\* scan_manifest: what is on disk, with its sizes.
Manifest == [f \in {g \in Files : disk[g] # 0} |-> disk[f]]
Discovered == {c \in Configs : disk[c] # 0}
Rel(f) == <<"relative", f>>
Abs(f) == <<"absolute", f>>

Nothing == [f \in {} |-> 0]

SyncInit ==
  /\ host \in Hosts
  /\ disk \in [Files -> {0} \union Sizes]
  /\ changes = 0 /\ requests = 0
  /\ launched = FALSE /\ initialized = FALSE
  /\ op = "idle" /\ seen = Nothing
  /\ graph = EmptyGraph /\ hash = {} /\ rooted = FALSE
  /\ inbox = <<>> /\ recent = {} /\ event_batch = <<>>
  /\ partial = FALSE /\ single = TRUE

-----------------------------------------------------------------------------
(* What a sync writes.                                                      *)
Parents(files) == {Dir[f] : f \in files} \ {Root}

StoreProject(g) == [g EXCEPT !.projects = @ + 1]

StoreDirs(g, dirs) ==
  [g EXCEPT !.dirs = [node \in DOMAIN @ |->
     IF node \in {Rel(d) : d \in dirs} THEN @[node] + 1 ELSE @[node]]]

StoreFiles(g, files) ==
  [g EXCEPT !.files = [node \in DOMAIN @ |->
     IF node \in {Rel(f) : f \in files} THEN @[node] + 1 ELSE @[node]]]

\* The build files are discovered inside the loop over the files.
StoreBuilds(g, times, configs) ==
  [g EXCEPT !.builds = [c \in DOMAIN @ |-> IF c \in configs THEN @[c] + times ELSE @[c]]]

\* Everything is created, whatever the graph holds.
Bootstrapped(g, manifest, configs) ==
  LET files == DOMAIN manifest
      tree == StoreFiles(StoreDirs(StoreProject(g), Parents(files)), files)
  IN StoreBuilds(tree, Cardinality(files), configs)

\* detect_packaging: a Packaging node when the project is an extension.  It
\* fails on a package.json it cannot read, which leaves all the rest.
DetectPackaging(g) == {g} \union (IF Extension THEN {[g EXCEPT !.packages = @ + 1]} ELSE {})

\* What a bootstrap may have written when an operation of it fails.
BootstrapPrefixes(g, manifest) ==
  LET dirs == StoreDirs(StoreProject(g), Parents(DOMAIN manifest))
  IN {StoreProject(g), dirs} \union {StoreFiles(dirs, files) : files \in SUBSET DOMAIN manifest}

\* Bug: only the nodes of build files are looked at.
DoomedBuilds(g, manifest) ==
  {node \in Spellings \X Configs : g.files[node] > 0 /\ node \notin {Rel(f) : f \in DOMAIN manifest}}

\* Nodes a startup sync deletes: one of each path that is not on disk, unless
\* it is a directory's.  The Project node has a path too, the root's.
Doomed(g, manifest) ==
  {node \in Spellings \X Files : g.files[node] > 0 /\ node \notin {Rel(f) : f \in DOMAIN manifest}}

DeleteFiles(g, doomed) ==
  [g EXCEPT !.files = [node \in DOMAIN @ |-> IF node \in doomed THEN @[node] - 1 ELSE @[node]]]

\* Among nodes of one path the last of the query counts.  An event on a file
\* of the root may have stored a directory node with the root's path.
DeleteProject(g) ==
  {[g EXCEPT !.projects = IF @ > 0 THEN @ - 1 ELSE 0]}
    \union (IF g.dirs[Abs(Root)] > 0 THEN {g} ELSE {})

Missing(g, manifest) == {f \in DOMAIN manifest : g.files[Rel(f)] = 0}
MissingDirs(g, files) == {d \in Parents(files) : g.dirs[Rel(d)] = 0}

\* rebuild_build_systems: one node per build file, afresh.
RebuildBuilds(g, configs) ==
  [g EXCEPT !.builds = [c \in DOMAIN @ |-> IF c \in configs THEN 1 ELSE 0]]

Synced(g, manifest, configs) ==
  LET new == Missing(g, manifest)
      kept(h) == StoreDirs(DeleteFiles(h, Doomed(g, manifest)), MissingDirs(g, new))
  IN {RebuildBuilds(StoreFiles(kept(h), new), configs) : h \in DeleteProject(g)}

SyncPrefixes(g, manifest) ==
  {DeleteFiles(g, doomed) : doomed \in SUBSET Doomed(g, manifest)}
    \union {DeleteFiles(h, Doomed(g, manifest)) : h \in DeleteProject(g)}

Populated(g) == \E node \in DOMAIN g.files : g.files[node] > 0

-----------------------------------------------------------------------------
Ask == requests < MaxRequests /\ requests' = requests + 1

\* ProjectSyncInitPhase, which the app never runs.
SyncInitPhase ==
  /\ host # "app" /\ ~initialized
  /\ initialized' = TRUE
  /\ UNCHANGED <<world, requests, launched, op, seen, stored, events, history>>

\* The scan comes first; without a graph the transaction cannot be opened.
BeginBootstrap ==
  IF initialized
  THEN /\ op' = "bootstrap" /\ seen' = Manifest
       /\ single' = (single /\ ~Populated(graph))
  ELSE UNCHANGED <<op, seen, single>>

\* Equal hashes end a startup sync at once.
BeginStartupSync ==
  IF ~initialized \/ hash = {Manifest}
  THEN UNCHANGED <<op, seen, single>>
  ELSE op' = "startup" /\ seen' = Manifest /\ UNCHANGED single

\* ProjectSyncPhase: one sync per launch; the Project node decides which.
Launch ==
  /\ host = "server" /\ initialized /\ ~launched /\ op = "idle"
  /\ Ask
  /\ launched' = TRUE
  /\ IF graph.projects > 0 THEN BeginStartupSync ELSE BeginBootstrap
  /\ UNCHANGED <<world, initialized, stored, events, partial>>

\* project/open: a Bootstrap, whose result nobody looks at.
Open ==
  /\ host = "app" /\ op = "idle"
  /\ Ask
  /\ BeginBootstrap
  /\ UNCHANGED <<world, launched, initialized, stored, events, partial>>

AskSync ==
  /\ host = "client" /\ op = "idle"
  /\ Ask
  /\ BeginBootstrap \/ BeginStartupSync
  /\ UNCHANGED <<world, launched, initialized, stored, events, partial>>

\* force_resync: everything goes, in a transaction of its own.
ForceResync ==
  /\ host = "client" /\ op = "idle" /\ initialized
  /\ Ask
  /\ graph' = EmptyGraph
  /\ op' = "bootstrap" /\ seen' = Manifest
  /\ single' = TRUE
  /\ UNCHANGED <<world, launched, initialized, hash, rooted, events, partial>>

FinishBootstrap ==
  /\ op = "bootstrap"
  /\ op' = "idle"
  /\ graph' \in DetectPackaging(Bootstrapped(graph, seen, Discovered))
  /\ hash' = {seen} /\ rooted' = TRUE
  /\ partial' = FALSE
  /\ UNCHANGED <<world, requests, launched, initialized, seen, events, single>>

\* Bug: the hash is of what is on disk when the sync ends.
FinishStartupSyncRescan ==
  /\ op = "startup"
  /\ op' = "idle"
  /\ graph' \in Synced(graph, seen, Discovered)
  /\ hash' = {Manifest}
  /\ partial' = FALSE
  /\ UNCHANGED <<world, requests, launched, initialized, seen, rooted, events, single>>

FinishStartupSync ==
  /\ op = "startup"
  /\ op' = "idle"
  /\ graph' \in Synced(graph, seen, Discovered)
  /\ hash' = {seen}
  /\ partial' = FALSE
  /\ UNCHANGED <<world, requests, launched, initialized, seen, rooted, events, single>>

\* An operation or an embedding fails: the transaction is dropped, which rolls
\* back (the module's header) or commits what was written (the stream's comment).
SyncFails ==
  /\ op # "idle"
  /\ op' = "idle"
  /\ graph' \in {graph} \union
       (IF op = "bootstrap" THEN BootstrapPrefixes(graph, seen) ELSE SyncPrefixes(graph, seen))
  /\ partial' = (partial \/ graph' # graph)
  /\ UNCHANGED <<world, requests, launched, initialized, seen, hash, rooted, events, single>>

-----------------------------------------------------------------------------
Kinds == {"Created", "Modified", "Deleted"}
Notices == [kind : Kinds, file : Files]

\* A file changes, and the watcher tells of it; of a rename it does not.
Change(f, size) ==
  /\ changes < MaxChanges /\ disk[f] # size
  /\ changes' = changes + 1
  /\ disk' = [disk EXCEPT ![f] = size]
  /\ LET kind == CASE disk[f] = 0 -> "Created" [] size = 0 -> "Deleted" [] OTHER -> "Modified"
     IN inbox' \in {inbox} \union
          (IF host = "server" THEN {} ELSE {Append(inbox, [kind |-> kind, file |-> f])})
  /\ UNCHANGED <<host, requests, launched, actor, stored, recent, event_batch, history>>

\* A debounced notification is dropped, and still keeps its window open.
FileChanged ==
  /\ op = "idle" /\ inbox # <<>>
  /\ inbox' = Tail(inbox)
  /\ IF initialized
     THEN /\ recent' = recent \union {Head(inbox)}
          /\ event_batch' = IF Head(inbox) \in recent THEN event_batch
                            ELSE Append(event_batch, Head(inbox))
     ELSE UNCHANGED <<recent, event_batch>>
  /\ UNCHANGED <<world, requests, launched, actor, stored, history>>

WindowOver(notice) ==
  /\ notice \in recent
  /\ recent' = recent \ {notice}
  /\ UNCHANGED <<world, requests, launched, actor, stored, inbox, event_batch, history>>

\* flush_batch, whose lookups do not see what its own transaction stored.
Flushed(g) ==
  LET counted(kind, f) == Cardinality({i \in DOMAIN event_batch : event_batch[i] = [kind |-> kind, file |-> f]})
  IN [g EXCEPT !.files = [node \in DOMAIN @ |->
        IF node[1] = "relative" THEN @[node]
        ELSE (@[node] + counted("Created", node[2]))
               - (IF @[node] > 0 /\ counted("Deleted", node[2]) > 0 THEN 1 ELSE 0)]]

\* The parent of a file at the root is found when the Project node is there.
EventParent(g, f) ==
  IF g.dirs[Abs(Dir[f])] > 0 \/ (Dir[f] = Root /\ g.projects > 0) THEN g
  ELSE [g EXCEPT !.dirs[Abs(Dir[f])] = @ + 1]

Applied(g, kind, f) ==
  CASE kind = "Created" -> [EventParent(g, f) EXCEPT !.files[Abs(f)] = @ + 1]
    [] kind = "Deleted" /\ g.files[Abs(f)] > 0 -> [g EXCEPT !.files[Abs(f)] = @ - 1]
    [] OTHER -> g

\* rebuild_build_systems_on_file_event; a failure is only logged.
AfterEvent(g, kind, f) ==
  IF /\ f \in Configs /\ rooted
     /\ kind = "Created" \/ (kind = "Modified" /\ g.files[Abs(f)] > 0)
  THEN {g, RebuildBuilds(g, Discovered)} ELSE {g}

(* The batch first, whose failure loses it; then the event, which stores a  *)
(* hash of the created file alone.                                          *)
FileEvent(kind, f) ==
  /\ host = "client" /\ op = "idle" /\ initialized
  /\ Ask
  /\ event_batch' = <<>>
  /\ \E flushed \in {graph, Flushed(graph)} :
       /\ graph' \in AfterEvent(Applied(flushed, kind, f), kind, f)
       /\ hash' = IF ~rooted THEN hash
                  ELSE IF kind = "Created" THEN {[g \in {f} |-> disk[f]]}
                  ELSE IF event_batch # <<>> /\ flushed = Flushed(graph) THEN {Manifest}
                  ELSE hash
  /\ partial' = TRUE
  /\ UNCHANGED <<world, launched, actor, rooted, inbox, recent, single>>

\* The process ends: what it had in memory goes, and a sync is cut short.
Restart ==
  /\ Ask
  /\ initialized' = FALSE /\ launched' = FALSE /\ op' = "idle"
  /\ inbox' = <<>> /\ recent' = {} /\ event_batch' = <<>>
  /\ graph' \in {graph} \union
       (CASE op = "bootstrap" -> BootstrapPrefixes(graph, seen)
          [] op = "startup" -> SyncPrefixes(graph, seen)
          [] OTHER -> {})
  /\ partial' = (partial \/ graph' # graph)
  /\ UNCHANGED <<world, seen, hash, rooted, single>>

SyncNext ==
  \/ SyncInitPhase \/ Launch \/ Open \/ AskSync \/ ForceResync
  \/ FinishBootstrap \/ FinishStartupSync \/ SyncFails
  \/ FileChanged \/ Restart
  \/ \E f \in Files, size \in {0} \union Sizes : Change(f, size)
  \/ \E notice \in Notices : WindowOver(notice)
  \/ \E kind \in Kinds, f \in Files : FileEvent(kind, f)

SyncSpec == SyncInit /\ [][SyncNext]_syncVars

-----------------------------------------------------------------------------
IsManifest(m) == DOMAIN m \subseteq Files /\ m \in [DOMAIN m -> Nat]
Graphs == [projects : Nat, files : [Spellings \X Files -> Nat],
           dirs : [Spellings \X Dirs -> Nat], builds : [Configs -> Nat], packages : Nat]

\* No count of nodes falls below zero, and one hash at most is stored.
SyncTypeOK ==
  /\ disk \in [Files -> {0} \union Sizes]
  /\ op \in {"idle", "bootstrap", "startup"}
  /\ IsManifest(seen)
  /\ graph \in Graphs
  /\ \A m \in hash : IsManifest(m) /\ hash = {m}
  /\ inbox \in Seq(Notices) /\ event_batch \in Seq(Notices) /\ recent \subseteq Notices

InGraph(manifest) == \A f \in DOMAIN manifest : graph.files[Rel(f)] > 0

(* A startup sync may only skip a graph that lists every file: when the     *)
(* stored hash is the disk's and the Project node makes a launch choose     *)
(* the startup sync (startup_phases.rs:880), no file is missing, unless a   *)
(* failed sync or a file event wrote to the graph since the last whole      *)
(* sync.  The hash must therefore be of what was stored, not of what is on  *)
(* disk when the sync ends.                                                 *)
SkipIsSafe ==
  op = "idle" /\ graph.projects > 0 /\ hash = {Manifest} /\ ~partial => InGraph(Manifest)

(* "Nodes for files that no longer exist on disk" are deleted               *)
(* (project_sync.rs:1359): while no bootstrap has stored a tree beside      *)
(* another, a graph whose hash is the disk's lists no file that is gone.    *)
NoGhosts ==
  op = "idle" /\ hash = {Manifest} /\ ~partial /\ single =>
    \A f \in Files : graph.files[Rel(f)] > 0 => disk[f] # 0
=============================================================================
