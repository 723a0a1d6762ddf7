----------------------------- MODULE FileWatcher -----------------------------
(***************************************************************************)
(* The file watcher (crates/lsp-server/src/file_watcher.rs) in front of    *)
(* the rescan loop.  Once `initialized` has rung for the last time, the    *)
(* watcher walks the workspace and registers a watch on every directory    *)
(* of the walk (or, on macOS, one recursive watch on the root).  The       *)
(* library's thread sends the events through an unbounded channel to the   *)
(* pump, a task that filters them and puts their paths into the set the    *)
(* loop drains.                                                            *)
(*                                                                         *)
(* Other programs change files and directories all along.  Two history     *)
(* variables remember which files the engine has not read since they last  *)
(* changed, and which of those changes no event told of.                   *)
(***************************************************************************)
EXTENDS RescanLoop, Sequences

CONSTANTS
  Incremental,           (* publish_opts.incremental                       *)
  Dirs,                  (* the paths that are directories                 *)
  Root,                  (* the workspace root                             *)
  Parent,                (* the directory of every other path              *)
  Chain,                 (* a path's components below the root, as paths   *)
  ExcludedByName,        (* their own name is in exclude_names             *)
  IgnoredByRule,         (* a glob of `exclude` or a .gitignore names them *)
  RootUnderExcludedName, (* a component of the root's own path is there    *)
  Pump,                  (* the handler that is the event pump             *)
  MaxChanges             (* bound: changes by other programs               *)

ASSUME FileWatcherAssumption ==
  /\ Incremental \in BOOLEAN
  /\ Dirs \subseteq Paths /\ Root \in Dirs /\ Pump \in Handlers
  /\ Parent \in [Paths \ {Root} -> Dirs]
  /\ Chain \in [Paths -> SUBSET Paths]
  /\ Chain[Root] = {}
  /\ \A p \in Paths \ {Root} : Chain[p] = {p} \cup Chain[Parent[p]]
  /\ RootUnderExcludedName \in BOOLEAN
  /\ MaxChanges \in Nat

VARIABLES
  strategy,  (* what add_watches was compiled to                           *)
  watcher,   (* where maybe_spawn_file_watcher stands                      *)
  toWatch,   (* directories of the walk not registered yet                 *)
  watched,   (* directories with a watch                                   *)
  present,   (* what exists on disk                                        *)
  channel,   (* events sent and not received                               *)
  held,      (* paths the pump has kept and not inserted                   *)
  unread,    (* history: files changed since the engine last read them     *)
  blind,     (* history: those whose last change raised no event of theirs *)
  changes    (* changes by other programs so far                           *)

armVars == <<strategy, watcher, toWatch>>
diskVars == <<present, watched, unread, blind, changes>>
pumpVars == <<channel, held>>
watcherVars == <<armVars, diskVars, pumpVars>>
vars == <<loopVars, watcherVars>>

Files == Paths \ Dirs
Strategies == {"perDir", "recursive"}
WatcherStates == {"off", "arming", "armed", "failed"}
EventKinds == {"create", "modify", "remove", "access"}
Events == [kind : EventKinds, paths : SUBSET Paths]

-----------------------------------------------------------------------------
(* What the walk visits: it prunes by name, by glob and by .gitignore, all *)
(* relative to the root.                                                   *)
Walked(p) == Chain[p] \cap (ExcludedByName \cup IgnoredByRule) = {}

WalkFilteredDirs == {d \in Dirs \cap present : Walked(d)}

(* Access events are not interesting.                                      *)
EveryKind(e) == TRUE
IsInteresting(e) == e.kind \in {"create", "modify", "remove"}

(* is_under_excluded looks for the literal names in every component of the *)
(* absolute path.                                                          *)
IsUnderExcluded(p) ==
  RootUnderExcludedName \/ Chain[p] \cap ExcludedByName # {}

(* The paths of an event that the pump keeps.                              *)
KeptIfAllAllowed(e) ==
  IF \E p \in e.paths : IsUnderExcluded(p) THEN {} ELSE e.paths
Kept(e) ==
  {p \in e.paths : IsInteresting(e) /\ ~IsUnderExcluded(p)}

(* A change of a path is reported by the watch on its directory, or by the *)
(* recursive watch on the root.                                            *)
Seen(p) ==
  IF strategy = "recursive" THEN Root \in watched
  ELSE p # Root /\ Parent[p] \in watched

-----------------------------------------------------------------------------
FileWatcherInit ==
  /\ LoopInit
  /\ strategy \in Strategies
  /\ watcher = "off" /\ toWatch = {} /\ watched = {}
  /\ present \in {S \in SUBSET Paths :
                    /\ Root \in S
                    /\ \A p \in S \ {Root} : Parent[p] \in S}
  /\ channel = <<>> /\ held = {}
  /\ unread = {} /\ blind = {} /\ changes = 0

-----------------------------------------------------------------------------
(* Other programs.  One step raises at most one event, with the paths of   *)
(* the change that are seen; `files` are the files it changes.             *)

Raise(kind, paths, files) ==
  LET seen == {p \in paths : Seen(p)} IN
  /\ changes < MaxChanges
  /\ changes' = changes + 1
  /\ channel' = IF seen = {} THEN channel
                ELSE Append(channel, [kind |-> kind, paths |-> seen])
  /\ unread' = unread \cup files
  /\ blind' = (blind \ seen) \cup (files \ seen)
  /\ UNCHANGED <<loopVars, armVars, held>>

WriteFile(f) ==
  /\ Parent[f] \in present
  /\ present' = present \cup {f}
  /\ UNCHANGED watched
  /\ Raise(IF f \in present THEN "modify" ELSE "create", {f}, {f})

RemoveFile(f) ==
  /\ f \in present
  /\ present' = present \ {f}
  /\ UNCHANGED watched
  /\ Raise("remove", {f}, {f})

RenameFile(f, g) ==
  /\ f # g
  /\ f \in present /\ Parent[g] \in present
  /\ present' = (present \ {f}) \cup {g}
  /\ UNCHANGED watched
  /\ Raise("modify", {f, g}, {f, g})

(* A directory is made, or moved in with files: one event, its own.        *)
DirArrives(d, files) ==
  /\ d \notin present /\ Parent[d] \in present
  /\ present' = present \cup {d} \cup files
  /\ UNCHANGED watched
  /\ Raise("create", {d}, files)

(* A directory is moved out with all it holds, or removed when empty.  Its *)
(* watches are gone with it.                                               *)
DirLeaves(d) ==
  LET gone == {p \in present : d \in Chain[p]} IN
  /\ d \in present
  /\ present' = present \ gone
  /\ watched' = watched \ gone
  /\ Raise("remove", {d}, gone \cap Files)

Change ==
  \/ \E f \in Files : WriteFile(f)
  \/ \E f \in Files : RemoveFile(f)
  \/ \E f, g \in Files : RenameFile(f, g)
  \/ \E d \in Dirs \ {Root} :
       \E files \in SUBSET {f \in Files : Parent[f] = d} : DirArrives(d, files)
  \/ \E d \in Dirs \ {Root} : DirLeaves(d)

-----------------------------------------------------------------------------
(* Arming, at the end of `initialized`.                                    *)

ArmStart ==
  /\ init = "done" /\ HasRoot
  /\ watcher = "off"
  /\ watcher' = "arming"
  /\ toWatch' = IF strategy = "recursive" THEN {Root} ELSE WalkFilteredDirs
  /\ UNCHANGED <<loopVars, strategy, diskVars, pumpVars>>

(* recommended_watcher returned an error: there is no watcher.             *)
ArmFails ==
  /\ init = "done" /\ HasRoot
  /\ watcher = "off"
  /\ watcher' = "failed"
  /\ UNCHANGED <<loopVars, strategy, toWatch, diskVars, pumpVars>>

(* One call of watch.  It fails, and is only counted, when the directory   *)
(* is gone; the system may also grant no more watches.                     *)
ArmWatch(d) ==
  /\ watcher = "arming"
  /\ d \in toWatch
  /\ toWatch' = toWatch \ {d}
  /\ watched' \in {watched, watched \cup ({d} \cap present)}
  /\ UNCHANGED <<loopVars, strategy, watcher, present, unread, blind, changes,
                 pumpVars>>

(* The pump is spawned after the last watch.                               *)
ArmDone ==
  /\ watcher = "arming"
  /\ toWatch = {}
  /\ watcher' = "armed"
  /\ UNCHANGED <<loopVars, strategy, toWatch, diskVars, pumpVars>>

Arm == ArmStart \/ ArmFails \/ (\E d \in Dirs : ArmWatch(d)) \/ ArmDone

-----------------------------------------------------------------------------
(* The pump: it receives and filters, awaits its log message, inserts what *)
(* it kept, and rings if a path was new.                                   *)

PumpReceive ==
  /\ watcher = "armed"
  /\ held = {} /\ handler[Pump] = "idle"
  /\ channel # <<>>
  /\ channel' = Tail(channel)
  /\ held' = Kept(Head(channel))
  /\ UNCHANGED <<loopVars, armVars, diskVars>>

PumpInsertQuietly ==
  /\ held # {}
  /\ pending' = pending \cup held
  /\ held' = {}
  /\ UNCHANGED <<permit, loop, drained, init, engine, handler, channel,
                 armVars, diskVars>>

PumpInsert ==
  /\ held # {}
  /\ Enqueue(Pump, held)
  /\ held' = {}
  /\ UNCHANGED <<channel, armVars, diskVars>>

PumpNotify ==
  /\ EnqueueNotify(Pump)
  /\ UNCHANGED watcherVars

PumpTask == PumpReceive \/ PumpInsert \/ PumpNotify

-----------------------------------------------------------------------------
(* The tasks of RescanLoop.  Their reads end what the files' changes left  *)
(* to do, and may raise events of their own.                               *)

(* The scan read each file some time before it ended, so before or after   *)
(* the file's last change.                                                 *)
ScanStores ==
  /\ InitStoreEngine
  /\ \E missed \in SUBSET unread :
       /\ unread' = missed
       /\ blind' = blind \cap missed
  /\ UNCHANGED <<present, watched, changes, armVars, pumpVars>>

(* What is drained is read from here on; a full rescan reads every file.   *)
Drain ==
  /\ LoopDrain
  /\ LET read == IF Incremental \/ pending = {} THEN pending ELSE Paths IN
       /\ unread' = unread \ read
       /\ blind' = blind \ read
  /\ UNCHANGED <<present, watched, changes, armVars, pumpVars>>

Applied ==
  /\ LoopApplied
  /\ LET opened == {p \in drained \cap present \cap Files : Seen(p)} IN
       channel' \in {channel} \cup
         (IF opened = {} THEN {}
          ELSE {Append(channel, [kind |-> "access", paths |-> opened])})
  /\ UNCHANGED <<held, armVars, diskVars>>

ScanTask ==
  \/ ScanStores
  \/ (InitSpawn \/ InitGivesUp \/ InitPublished \/ InitNotify)
     /\ UNCHANGED watcherVars

RescanTask ==
  \/ Drain
  \/ Applied
  \/ (LoopAwait \/ LoopDebounce \/ LoopCheck \/ LoopUpdatePanics)
     /\ UNCHANGED watcherVars

FileWatcherNext == Change \/ Arm \/ PumpTask \/ ScanTask \/ RescanTask

FileWatcherSpec == FileWatcherInit /\ [][FileWatcherNext]_vars

(* The runtime polls every task that can step; nobody has to change files. *)
FileWatcherFairness ==
  /\ WF_vars(Arm)
  /\ WF_vars(PumpTask)
  /\ WF_vars(ScanTask)
  /\ WF_vars(RescanTask)

FairFileWatcherSpec == FileWatcherSpec /\ FileWatcherFairness

-----------------------------------------------------------------------------
(* Every variable stays in its range, and the history is about files.      *)
WatcherTypeOK ==
  /\ LoopTypeOK
  /\ strategy \in Strategies
  /\ watcher \in WatcherStates
  /\ toWatch \in SUBSET Dirs
  /\ watched \in SUBSET Dirs
  /\ present \in SUBSET Paths
  /\ channel \in Seq(Events)
  /\ held \in SUBSET Paths
  /\ unread \in SUBSET Files
  /\ blind \in SUBSET unread
  /\ changes \in 0 .. MaxChanges

(* The paths on their way to the loop's next drain.                        *)
Tracked ==
  pending \cup held \cup
  {p \in Paths : \E i \in 1 .. Len(channel) : p \in Kept(channel[i])}

(***************************************************************************)
(* No change that an event told of is lost between the library's thread    *)
(* and the drain: the file is in the channel, in the pump's hands or in    *)
(* the pending set until a round that reads it, unless the filter drops    *)
(* it.  It is about the channel, the filter, the pump's await between      *)
(* filter and insert, and changes that come while a round is applied.      *)
(***************************************************************************)
ReportedIsTracked ==
  \A f \in unread \ blind : f \in Tracked \/ IsUnderExcluded(f)

(***************************************************************************)
(* The same for every file of the walk: the filter at event time drops no  *)
(* file that the walk visits (the module comment of file_watcher.rs: "via  *)
(* the same walk_filtered_dirs rules the engine uses").                    *)
(***************************************************************************)
WalkedIsTracked ==
  \A f \in unread \ blind :
    Walked(f) => \/ f \in Tracked
                 \/ \E i \in 1 .. Len(channel) : f \in channel[i].paths

(***************************************************************************)
(* A reported change is read by the engine eventually, unless there is no  *)
(* engine: the first scan gave up, or an update poisoned its mutex.        *)
(***************************************************************************)
ReportedIsRead ==
  \A f \in Files :
    f \in unread \ blind /\ ~IsUnderExcluded(f)
      ~> \/ f \notin unread
         \/ init = "done" /\ engine = "none"
         \/ engine = "poisoned"

(***************************************************************************)
(* When the other programs stop, so does the watcher: the engine's own     *)
(* reads, which the library may report, do not make it read again.         *)
(***************************************************************************)
WatcherSettles == <>[](channel = <<>> /\ held = {})

(***************************************************************************)
(* With the watcher attached the loop is still the one of RescanLoop: what *)
(* is proved of that module holds here.                                    *)
(***************************************************************************)
ImplementsLoop == LoopSpec
=============================================================================
