-------------------------- MODULE FileWatcherProofs --------------------------
(***************************************************************************)
(* With the watcher attached the loop is still the loop of RescanLoop, and *)
(* no change that an event told of is lost on the way to the engine: for   *)
(* any tree of directories, any excludes, both watch strategies and any    *)
(* behaviour of other programs.                                            *)
(***************************************************************************)
EXTENDS FileWatcher, RescanLoopProofs

WatcherInv == LoopIInv /\ WatcherTypeOK /\ ReportedIsTracked

-----------------------------------------------------------------------------
(* The pump keeps paths of the event, so paths of the workspace.           *)
LEMMA KeptArePaths ==
  ASSUME NEW e \in Events
  PROVE  Kept(e) \in SUBSET Paths
  BY DEF Kept, Events

(* Every path of an interesting event is kept or filtered by name.         *)
LEMMA InterestingIsKept ==
  ASSUME NEW e, IsInteresting(e), NEW p \in e.paths
  PROVE  p \in Kept(e) \/ IsUnderExcluded(p)
  BY DEF Kept

(* What was tracked stays so when an event is sent, and what the pump will *)
(* keep of the new event is tracked from then on.                          *)
LEMMA SentIsTracked ==
  ASSUME channel \in Seq(Events), NEW e \in Events,
         channel' = Append(channel, e), pending' = pending, held' = held
  PROVE  Tracked \cup Kept(e) \subseteq Tracked'
  <1>1. Kept(e) \subseteq Paths
    BY KeptArePaths
  <1>2. /\ Len(channel') = Len(channel) + 1
        /\ channel'[Len(channel) + 1] = e
        /\ \A i \in 1 .. Len(channel) : channel'[i] = channel[i]
        /\ Len(channel) \in Nat
    OBVIOUS
  <1>3. Kept(e) \subseteq Tracked'
    BY <1>1, <1>2 DEF Tracked, Kept, IsInteresting, IsUnderExcluded
  <1>4. Tracked \subseteq Tracked'
    BY <1>2 DEF Tracked, Kept, IsInteresting, IsUnderExcluded
  <1>5. QED
    BY <1>3, <1>4

(* Receiving an event moves what is kept of it into the pump's hands.      *)
LEMMA ReceivedIsTracked ==
  ASSUME channel \in Seq(Events), channel # <<>>, held = {},
         channel' = Tail(channel), held' = Kept(Head(channel)),
         pending' = pending
  PROVE  Tracked \subseteq Tracked'
  <1>1. /\ Len(channel') = Len(channel) - 1
        /\ \A i \in 1 .. Len(channel) - 1 : channel'[i] = channel[i + 1]
        /\ Head(channel) = channel[1]
        /\ Len(channel) \in Nat \ {0}
    OBVIOUS
  <1> SUFFICES ASSUME NEW p \in Tracked
               PROVE  p \in Tracked'
    OBVIOUS
  <1>2. CASE p \in pending
    BY <1>2 DEF Tracked
  <1>3. CASE p \in Paths /\ \E i \in 1 .. Len(channel) : p \in Kept(channel[i])
    <2>1. PICK i \in 1 .. Len(channel) : p \in Kept(channel[i])
      BY <1>3
    <2>2. CASE i = 1
      BY <1>1, <2>1, <2>2 DEF Tracked
    <2>3. CASE i # 1
      <3>1. i - 1 \in 1 .. Len(channel') /\ channel'[i - 1] = channel[i]
        BY <1>1, <2>3
      <3>2. QED
        BY <1>3, <2>1, <3>1 DEF Tracked, Kept, IsInteresting, IsUnderExcluded
    <2>4. QED
      BY <2>2, <2>3
  <1>4. QED
    BY <1>2, <1>3 DEF Tracked

-----------------------------------------------------------------------------
(* Nothing is watched and nothing has changed before the first step.       *)
LEMMA WatcherInitInv == FileWatcherInit => WatcherInv
  <1> SUFFICES ASSUME FileWatcherInit
               PROVE  WatcherInv
    OBVIOUS
  <1>1. LoopIInv /\ LoopTypeOK
    BY LoopInitIInv DEF FileWatcherInit, LoopIInv
  <1>2. WatcherTypeOK
    BY <1>1, FileWatcherAssumption
       DEF FileWatcherInit, WatcherTypeOK, Strategies, WatcherStates
  <1>3. ReportedIsTracked
    BY DEF FileWatcherInit, ReportedIsTracked
  <1>4. QED
    BY <1>1, <1>2, <1>3 DEF WatcherInv

(* Every step is a step of the loop, or leaves its variables alone.        *)
LEMMA StepIsLoopStep ==
  ASSUME WatcherTypeOK, [FileWatcherNext]_vars
  PROVE  [LoopNext]_loopVars
  <1>1. CASE Change
    BY <1>1 DEF Change, WriteFile, RemoveFile, RenameFile, DirArrives,
                DirLeaves, Raise
  <1>2. CASE Arm
    BY <1>2 DEF Arm, ArmStart, ArmFails, ArmWatch, ArmDone
  <1>3. CASE PumpReceive
    BY <1>3 DEF PumpReceive
  <1>4. CASE PumpInsert
    BY <1>4, FileWatcherAssumption DEF PumpInsert, WatcherTypeOK, LoopNext
  <1>5. CASE PumpNotify
    BY <1>5, FileWatcherAssumption DEF PumpNotify, LoopNext
  <1>6. CASE ScanTask
    BY <1>6 DEF ScanTask, ScanStores, LoopNext, InitTask
  <1>7. CASE RescanTask
    BY <1>7 DEF RescanTask, Drain, Applied, LoopNext, LoopTask
  <1>8. CASE UNCHANGED vars
    BY <1>8 DEF vars
  <1>9. QED
    BY <1>1, <1>2, <1>3, <1>4, <1>5, <1>6, <1>7, <1>8
       DEF FileWatcherNext, PumpTask

-----------------------------------------------------------------------------
(* Type correctness of a step by other programs: one event at most, of     *)
(* paths of the workspace, and a history of files.                         *)
LEMMA RaiseType ==
  ASSUME WatcherTypeOK,
         NEW kind \in {"create", "modify", "remove"},
         NEW paths \in SUBSET Paths, NEW files \in SUBSET Files,
         Raise(kind, paths, files)
  PROVE  /\ channel' \in Seq(Events)
         /\ unread' \in SUBSET Files
         /\ blind' \in SUBSET unread'
         /\ changes' \in 0 .. MaxChanges
  <1> DEFINE seen == {p \in paths : Seen(p)}
             event == [kind |-> kind, paths |-> seen]
  <1>1. event \in Events
    BY DEF Events, EventKinds
  <1>2. channel' = channel \/ channel' = Append(channel, event)
    BY DEF Raise
  <1>3. channel' \in Seq(Events)
    BY <1>1, <1>2 DEF WatcherTypeOK
  <1>4. changes' \in 0 .. MaxChanges
    BY FileWatcherAssumption DEF Raise, WatcherTypeOK
  <1>5. QED
    BY <1>3, <1>4 DEF Raise, WatcherTypeOK

(* A change by other programs is tracked if an event tells of it.          *)
LEMMA RaiseTracked ==
  ASSUME WatcherTypeOK, ReportedIsTracked,
         NEW kind \in {"create", "modify", "remove"},
         NEW paths \in SUBSET Paths, NEW files \in SUBSET Files,
         Raise(kind, paths, files)
  PROVE  ReportedIsTracked'
  <1> DEFINE seen == {p \in paths : Seen(p)}
             event == [kind |-> kind, paths |-> seen]
  <1>1. event \in Events /\ IsInteresting(event)
    BY DEF Events, EventKinds, IsInteresting
  <1>2. pending' = pending /\ held' = held
    BY DEF Raise, loopVars
  <1> SUFFICES ASSUME NEW f \in unread' \ blind'
               PROVE  f \in Tracked' \/ IsUnderExcluded(f)
    BY DEF ReportedIsTracked, IsUnderExcluded
  <1>3. CASE f \in seen
    <2>1. channel' = Append(channel, event)
      BY <1>3 DEF Raise
    <2>2. f \in Kept(event) \/ IsUnderExcluded(f)
      BY <1>1, <1>3, InterestingIsKept
    <2>3. QED
      BY <1>1, <1>2, <2>1, <2>2, SentIsTracked DEF WatcherTypeOK
  <1>4. CASE f \notin seen
    <2>1. f \in unread \ blind
      BY <1>4 DEF Raise
    <2>2. f \in Tracked \/ IsUnderExcluded(f)
      BY <2>1 DEF ReportedIsTracked
    <2>3. CASE seen = {}
      BY <1>2, <2>2, <2>3
         DEF Raise, Tracked, Kept, IsInteresting, IsUnderExcluded
    <2>4. CASE seen # {}
      <3>1. channel' = Append(channel, event)
        BY <2>4 DEF Raise
      <3>2. QED
        BY <1>1, <1>2, <2>2, <3>1, SentIsTracked DEF WatcherTypeOK
    <2>5. QED
      BY <2>3, <2>4
  <1>5. QED
    BY <1>3, <1>4

(* Each change by other programs is a Raise of files of the workspace.     *)
LEMMA ChangeIsRaise ==
  ASSUME WatcherTypeOK, Change
  PROVE  /\ present' \in SUBSET Paths
         /\ watched' \in SUBSET Dirs
         /\ UNCHANGED <<loopVars, armVars, held>>
         /\ \E kind \in {"create", "modify", "remove"} :
              \E paths \in SUBSET Paths, files \in SUBSET Files :
                Raise(kind, paths, files)
  <1> DEFINE Typed == present' \in SUBSET Paths /\ watched' \in SUBSET Dirs
             Raised == \E kind \in {"create", "modify", "remove"} :
                         \E paths \in SUBSET Paths, files \in SUBSET Files :
                           Raise(kind, paths, files)
  <1> HIDE DEF Raised
  <1>1. ASSUME NEW kind \in {"create", "modify", "remove"},
               NEW paths \in SUBSET Paths, NEW files \in SUBSET Files,
               Raise(kind, paths, files)
        PROVE  Raised
    BY <1>1 DEF Raised
  <1>2. ASSUME NEW f \in Files
        PROVE  {f} \in SUBSET Paths /\ {f} \in SUBSET Files
    BY DEF Files
  <1>3. ASSUME NEW f \in Files, WriteFile(f)
        PROVE  Typed /\ Raised
    <2>1. Typed
      BY <1>3 DEF WriteFile, WatcherTypeOK, Files
    <2>2. Raise("create", {f}, {f}) \/ Raise("modify", {f}, {f})
      BY <1>3 DEF WriteFile
    <2>3. QED
      BY <1>1, <1>2, <2>1, <2>2
  <1>4. ASSUME NEW f \in Files, RemoveFile(f)
        PROVE  Typed /\ Raised
    <2>1. Typed
      BY <1>4 DEF RemoveFile, WatcherTypeOK
    <2>2. Raise("remove", {f}, {f})
      BY <1>4 DEF RemoveFile
    <2>3. QED
      BY <1>1, <1>2, <2>1, <2>2
  <1>5. ASSUME NEW f \in Files, NEW g \in Files, RenameFile(f, g)
        PROVE  Typed /\ Raised
    <2>1. Typed
      BY <1>5 DEF RenameFile, WatcherTypeOK, Files
    <2>2. Raise("modify", {f, g}, {f, g})
      BY <1>5 DEF RenameFile
    <2>3. {f, g} \in SUBSET Paths /\ {f, g} \in SUBSET Files
      BY DEF Files
    <2>4. QED
      BY <1>1, <2>1, <2>2, <2>3
  <1>6. ASSUME NEW d \in Dirs \ {Root},
               NEW files \in SUBSET {f \in Files : Parent[f] = d},
               DirArrives(d, files)
        PROVE  Typed /\ Raised
    <2>1. {d} \in SUBSET Paths /\ files \in SUBSET Files
      BY FileWatcherAssumption
    <2>2. Typed
      BY <1>6, <2>1 DEF DirArrives, WatcherTypeOK, Files
    <2>3. Raise("create", {d}, files)
      BY <1>6 DEF DirArrives
    <2>4. QED
      BY <1>1, <2>1, <2>2, <2>3
  <1>7. ASSUME NEW d \in Dirs \ {Root}, DirLeaves(d)
        PROVE  Typed /\ Raised
    <2> DEFINE gone == {p \in present : d \in Chain[p]}
    <2>1. {d} \in SUBSET Paths /\ gone \cap Files \in SUBSET Files
      BY FileWatcherAssumption
    <2>2. Typed
      BY <1>7 DEF DirLeaves, WatcherTypeOK
    <2>3. Raise("remove", {d}, gone \cap Files)
      BY <1>7 DEF DirLeaves
    <2>4. QED
      BY <1>1, <2>1, <2>2, <2>3
  <1>8. Typed /\ Raised
    BY <1>3, <1>4, <1>5, <1>6, <1>7 DEF Change
  <1>9. UNCHANGED <<loopVars, armVars, held>>
    BY <1>8 DEF Raised, Raise
  <1>10. QED
    BY <1>8, <1>9 DEF Raised

-----------------------------------------------------------------------------
(* Type correctness is preserved; the loop's part is RescanLoop's.         *)
LEMMA WatcherTypeStep ==
  ASSUME WatcherTypeOK, LoopTypeOK', [FileWatcherNext]_vars
  PROVE  WatcherTypeOK'
  <1> USE DEF WatcherTypeOK
  <1>1. CASE Change
    <2>1. PICK kind \in {"create", "modify", "remove"},
               paths \in SUBSET Paths, files \in SUBSET Files :
               Raise(kind, paths, files)
      BY <1>1, ChangeIsRaise
    <2>2. QED
      BY <1>1, <2>1, ChangeIsRaise, RaiseType DEF armVars
  <1>2. CASE Arm
    <2>1. /\ strategy' = strategy
          /\ watcher' \in WatcherStates
          /\ toWatch' \in SUBSET Dirs
          /\ watched' \in SUBSET Dirs
          /\ UNCHANGED <<present, unread, blind, changes, pumpVars>>
      BY <1>2, FileWatcherAssumption
         DEF Arm, ArmStart, ArmFails, ArmWatch, ArmDone, WalkFilteredDirs,
             WatcherStates, diskVars
    <2>2. QED
      BY <2>1 DEF pumpVars
  <1>3. CASE PumpReceive
    <2>1. channel' \in Seq(Events) /\ Head(channel) \in Events
      BY <1>3 DEF PumpReceive
    <2>2. QED
      BY <1>3, <2>1, KeptArePaths DEF PumpReceive, armVars, diskVars
  <1>4. CASE PumpInsert
    BY <1>4 DEF PumpInsert, armVars, diskVars
  <1>5. CASE PumpNotify
    BY <1>5 DEF PumpNotify, watcherVars, armVars, diskVars, pumpVars
  <1>6. CASE ScanTask
    BY <1>6 DEF ScanTask, ScanStores, watcherVars, armVars, diskVars, pumpVars
  <1>7. CASE Drain
    BY <1>7 DEF Drain, armVars, pumpVars
  <1>8. CASE Applied
    <2> DEFINE opened == {p \in drained \cap present \cap Files : Seen(p)}
               event == [kind |-> "access", paths |-> opened]
    <2>1. event \in Events
      BY DEF Events, EventKinds
    <2>2. channel' = channel \/ channel' = Append(channel, event)
      BY <1>8 DEF Applied
    <2>3. channel' \in Seq(Events)
      BY <2>1, <2>2
    <2>4. QED
      BY <1>8, <2>3 DEF Applied, armVars, diskVars
  <1>9. CASE UNCHANGED watcherVars
    BY <1>9 DEF watcherVars, armVars, diskVars, pumpVars
  <1>10. QED
    BY <1>1, <1>2, <1>3, <1>4, <1>5, <1>6, <1>7, <1>8, <1>9
       DEF FileWatcherNext, PumpTask, RescanTask, vars

(* A step in which nothing changes, or that only ends changes, leaves      *)
(* every reported one tracked.                                             *)
LEMMA LessUnreadTracked ==
  ASSUME ReportedIsTracked, unread' \ blind' \subseteq unread \ blind,
         Tracked \subseteq Tracked'
  PROVE  ReportedIsTracked'
  BY DEF ReportedIsTracked, IsUnderExcluded

(* Every step keeps track of the changes that events told of.              *)
LEMMA TrackedStep ==
  ASSUME WatcherTypeOK, ReportedIsTracked, [FileWatcherNext]_vars
  PROVE  ReportedIsTracked'
  <1> USE DEF Tracked, Kept, IsInteresting, IsUnderExcluded
  <1>1. CASE Change
    <2>1. PICK kind \in {"create", "modify", "remove"},
               paths \in SUBSET Paths, files \in SUBSET Files :
               Raise(kind, paths, files)
      BY <1>1, ChangeIsRaise
    <2>2. QED
      BY <2>1, RaiseTracked
  <1>2. CASE Arm
    <2>1. UNCHANGED <<pending, held, channel, unread, blind>>
      BY <1>2 DEF Arm, ArmStart, ArmFails, ArmWatch, ArmDone, loopVars,
                  pumpVars, diskVars
    <2>2. QED
      BY <2>1, LessUnreadTracked
  <1>3. CASE PumpReceive
    <2>1. Tracked \subseteq Tracked'
      BY <1>3, ReceivedIsTracked DEF PumpReceive, WatcherTypeOK, loopVars
    <2>2. QED
      BY <1>3, <2>1, LessUnreadTracked DEF PumpReceive, diskVars
  <1>4. CASE PumpInsert
    <2>1. Tracked \subseteq Tracked'
      BY <1>4 DEF PumpInsert, Enqueue
    <2>2. QED
      BY <1>4, <2>1, LessUnreadTracked DEF PumpInsert, diskVars
  <1>5. CASE Drain
    <2> DEFINE read == IF Incremental \/ pending = {} THEN pending ELSE Paths
    <2>1. unread' = unread \ read /\ blind' = blind \ read
      BY <1>5 DEF Drain
    <2>2. pending \subseteq read
      BY DEF WatcherTypeOK, LoopTypeOK
    <2>3. UNCHANGED <<held, channel>>
      BY <1>5 DEF Drain, pumpVars
    <2> SUFFICES ASSUME NEW f \in unread' \ blind'
                 PROVE  f \in Tracked' \/ IsUnderExcluded(f)
      BY DEF ReportedIsTracked
    <2>4. f \in unread \ blind /\ f \notin pending
      BY <2>1, <2>2
    <2>5. f \in Tracked \/ IsUnderExcluded(f)
      BY <2>4 DEF ReportedIsTracked
    <2>6. QED
      BY <2>3, <2>4, <2>5
  <1>6. CASE Applied
    <2> DEFINE opened == {p \in drained \cap present \cap Files : Seen(p)}
               event == [kind |-> "access", paths |-> opened]
    <2>1. event \in Events
      BY DEF Events, EventKinds, WatcherTypeOK
    <2>2. channel' = channel \/ channel' = Append(channel, event)
      BY <1>6 DEF Applied
    <2>3. UNCHANGED <<pending, held, unread, blind>>
      BY <1>6 DEF Applied, LoopApplied, diskVars
    <2>4. Tracked \subseteq Tracked'
      BY <2>1, <2>2, <2>3, SentIsTracked DEF WatcherTypeOK
    <2>5. QED
      BY <2>3, <2>4, LessUnreadTracked
  <1>7. CASE ScanStores
    <2>1. UNCHANGED <<pending, held, channel>>
      BY <1>7 DEF ScanStores, InitStoreEngine, pumpVars
    <2>2. unread' \ blind' \subseteq unread \ blind
      BY <1>7 DEF ScanStores
    <2>3. QED
      BY <2>1, <2>2, LessUnreadTracked
  <1>8. CASE UNCHANGED <<pending, held, channel, unread, blind>>
    BY <1>8, LessUnreadTracked
  <1>9. QED
    <2>1. CASE PumpNotify
      BY <1>8, <2>1 DEF PumpNotify, EnqueueNotify, watcherVars, pumpVars,
                        diskVars
    <2>2. CASE (InitSpawn \/ InitGivesUp \/ InitPublished \/ InitNotify)
               /\ UNCHANGED watcherVars
      BY <1>8, <2>2 DEF InitSpawn, InitGivesUp, InitPublished, InitNotify,
                        watcherVars, pumpVars, diskVars
    <2>3. CASE (LoopAwait \/ LoopDebounce \/ LoopCheck \/ LoopUpdatePanics)
               /\ UNCHANGED watcherVars
      BY <1>8, <2>3 DEF LoopAwait, LoopDebounce, LoopCheck, LoopUpdatePanics,
                        watcherVars, pumpVars, diskVars
    <2>4. CASE UNCHANGED vars
      BY <1>8, <2>4 DEF vars, loopVars, watcherVars, pumpVars, diskVars
    <2>5. QED
      BY <1>1, <1>2, <1>3, <1>4, <1>5, <1>6, <1>7, <2>1, <2>2, <2>3, <2>4
         DEF FileWatcherNext, PumpTask, ScanTask, RescanTask

-----------------------------------------------------------------------------
(* The inductive invariant holds throughout.                               *)
LEMMA WatcherInvariant == FileWatcherSpec => []WatcherInv
  <1>1. WatcherInv /\ [FileWatcherNext]_vars => WatcherInv'
    <2> SUFFICES ASSUME WatcherInv, [FileWatcherNext]_vars
                 PROVE  WatcherInv'
      OBVIOUS
    <2>1. LoopIInv /\ WatcherTypeOK /\ ReportedIsTracked
      BY DEF WatcherInv
    <2>2. LoopIInv'
      BY <2>1, StepIsLoopStep, LoopStepIInv
    <2>3. LoopTypeOK'
      BY <2>2 DEF LoopIInv
    <2>4. WatcherTypeOK'
      BY <2>1, <2>3, WatcherTypeStep
    <2>5. ReportedIsTracked'
      BY <2>1, TrackedStep
    <2>6. QED
      BY <2>2, <2>4, <2>5 DEF WatcherInv
  <1>2. QED
    BY <1>1, WatcherInitInv, PTL DEF FileWatcherSpec

(* Type correctness of the watcher and the loop behind it.                 *)
THEOREM WatcherTypeCorrect == FileWatcherSpec => []WatcherTypeOK
  <1>1. WatcherInv => WatcherTypeOK
    BY DEF WatcherInv
  <1>2. QED
    BY <1>1, WatcherInvariant, PTL

(* No change that an event told of is lost between the library's thread    *)
(* and the round that reads it, unless the filter drops it by name.        *)
THEOREM ReportedChangesTracked == FileWatcherSpec => []ReportedIsTracked
  <1>1. WatcherInv => ReportedIsTracked
    BY DEF WatcherInv
  <1>2. QED
    BY <1>1, WatcherInvariant, PTL

(* The watcher in front of the loop implements the loop of RescanLoop.     *)
THEOREM WatcherImplementsLoop == FileWatcherSpec => ImplementsLoop
  <1>1. FileWatcherInit => LoopInit
    BY DEF FileWatcherInit
  <1>2. WatcherInv /\ [FileWatcherNext]_vars => [LoopNext]_loopVars
    BY StepIsLoopStep DEF WatcherInv
  <1>3. QED
    BY <1>1, <1>2, WatcherInvariant, PTL
       DEF FileWatcherSpec, ImplementsLoop, LoopSpec

(* So no wake-up is lost with the watcher attached either.                 *)
THEOREM WatcherLosesNoWakeup == FileWatcherSpec => []NoLostWakeup
  BY WatcherImplementsLoop, NoWakeupIsLost DEF ImplementsLoop
=============================================================================
