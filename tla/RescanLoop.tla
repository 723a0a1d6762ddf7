----------------------------- MODULE RescanLoop -----------------------------
(***************************************************************************)
(* The wake-up protocol of the language server's background rescan loop    *)
(* (crates/lsp-server/src/main.rs).  Notification handlers and the file    *)
(* watcher's event pump put paths into a shared set and ring a             *)
(* tokio::sync::Notify; the loop waits for the ring, debounces, and drains *)
(* the set once the engine exists.  `initialized` spawns the loop, runs    *)
(* the first scan beside it and rings once more when the scan has ended.   *)
(*                                                                         *)
(* What applying a drained set does to the engine and to the editor is     *)
(* left to the module LspServer, which extends this one.                   *)
(***************************************************************************)
EXTENDS Naturals

CONSTANTS
  Paths,        (* the files of the workspace                              *)
  Handlers,     (* tasks that enqueue: LSP handlers and the watcher's pump *)
  HasRoot,      (* the client named a workspace root                       *)
  MayPanic      (* the blocking tasks that scan or update may panic        *)

ASSUME RescanLoopAssumption ==
  /\ HasRoot \in BOOLEAN
  /\ MayPanic \in BOOLEAN

VARIABLES
  pending,      (* pending_paths: not drained yet                          *)
  permit,       (* the one permit a Notify can store                       *)
  loop,         (* where the rescan loop stands                            *)
  drained,      (* the paths the loop took in this round                   *)
  init,         (* where the handler of `initialized` stands               *)
  engine,       (* Option<IncrementalEngine> behind its mutex              *)
  handler       (* where each enqueuing task stands                        *)

loopVars == <<pending, permit, loop, drained, init, engine, handler>>

-----------------------------------------------------------------------------
(* The states of the three kinds of tasks and of the engine's mutex.       *)

LoopStates == {"off", "top", "waiting", "debounce", "check", "drain",
               "apply", "dead"}
InitStates == {"start", "scan", "publish", "notify", "done"}
EngineStates == {"none", "ready", "poisoned"}
HandlerStates == {"idle", "notify"}

LoopInit ==
  /\ pending = {}
  /\ permit = FALSE
  /\ loop = "off"
  /\ drained = {}
  /\ init = "start"
  /\ engine = "none"
  /\ handler = [h \in Handlers |-> "idle"]

(***************************************************************************)
(* Notify::notify_one: the waiter that is registered is woken and consumes *)
(* the ring; with no waiter the ring is stored, and a second one is lost   *)
(* in it.                                                                  *)
(***************************************************************************)
NotifyOne ==
  IF loop = "waiting"
  THEN loop' = "debounce" /\ UNCHANGED permit
  ELSE permit' = TRUE /\ UNCHANGED loop

-----------------------------------------------------------------------------
(* enqueue_paths and the watcher's event pump.  The lock on the set is     *)
(* released before the ring, and nothing rings for paths that were there.  *)

EnqueueBatchAsPath(h, S) ==
  /\ handler[h] = "idle"
  /\ pending' = pending \cup {S}
  /\ handler' = [handler EXCEPT ![h] = "notify"]
  /\ UNCHANGED <<permit, loop, drained, init, engine>>

EnqueueSilently(h, S) ==
  /\ handler[h] = "idle"
  /\ pending' = pending \cup S
  /\ UNCHANGED <<permit, loop, drained, init, engine, handler>>

Enqueue(h, S) ==
  /\ handler[h] = "idle"
  /\ pending' = pending \cup S
  /\ handler' = [handler EXCEPT ![h] = IF S \subseteq pending THEN "idle"
                                       ELSE "notify"]
  /\ UNCHANGED <<permit, loop, drained, init, engine>>

EnqueueNotify(h) ==
  /\ handler[h] = "notify"
  /\ NotifyOne
  /\ handler' = [handler EXCEPT ![h] = "idle"]
  /\ UNCHANGED <<pending, drained, init, engine>>

-----------------------------------------------------------------------------
(* The handler of `initialized`.                                           *)

InitSpawn ==
  /\ init = "start"
  /\ init' = "scan"
  /\ loop' = "top"
  /\ UNCHANGED <<pending, permit, drained, engine, handler>>

(* The blocking task has scanned the workspace and stored the engine.  The *)
(* findings are published afterwards.                                      *)
InitStoreEngine ==
  /\ init = "scan"
  /\ HasRoot
  /\ init' = "publish"
  /\ engine' = "ready"
  /\ UNCHANGED <<pending, permit, loop, drained, handler>>

(* No workspace root, or the blocking task panicked before it locked the   *)
(* engine: nothing is stored and nothing is published.                     *)
InitGivesUp ==
  /\ init = "scan"
  /\ ~HasRoot \/ MayPanic
  /\ init' = "notify"
  /\ UNCHANGED <<pending, permit, loop, drained, engine, handler>>

InitPublished ==
  /\ init = "publish"
  /\ init' = "notify"
  /\ UNCHANGED <<pending, permit, loop, drained, engine, handler>>

InitNotifyForgotten ==
  /\ init = "notify"
  /\ init' = "done"
  /\ UNCHANGED <<pending, permit, loop, drained, engine, handler>>

InitNotify ==
  /\ init = "notify"
  /\ NotifyOne
  /\ init' = "done"
  /\ UNCHANGED <<pending, drained, engine, handler>>

-----------------------------------------------------------------------------
(* The loop spawned by spawn_rescan_loop.                                  *)

LoopAwait ==
  /\ loop = "top"
  /\ permit' = FALSE
  /\ loop' = IF permit THEN "debounce" ELSE "waiting"
  /\ UNCHANGED <<pending, drained, init, engine, handler>>

LoopDebounce ==
  /\ loop = "debounce"
  /\ loop' = "check"
  /\ UNCHANGED <<pending, permit, drained, init, engine, handler>>

(* `engine.lock().unwrap().is_some()`: a poisoned mutex panics the task; a *)
(* missing engine sends the loop back to wait, the paths left where they   *)
(* are.                                                                    *)
LoopCheckIgnoringEngine ==
  /\ loop = "check"
  /\ loop' = "drain"
  /\ UNCHANGED <<pending, permit, drained, init, engine, handler>>

LoopCheck ==
  /\ loop = "check"
  /\ loop' = CASE engine = "ready" -> "drain"
               [] engine = "none" -> "top"
               [] engine = "poisoned" -> "dead"
  /\ UNCHANGED <<pending, permit, drained, init, engine, handler>>

LoopDrain ==
  /\ loop = "drain"
  /\ drained' = pending
  /\ pending' = {}
  /\ loop' = IF pending = {} THEN "top" ELSE "apply"
  /\ UNCHANGED <<permit, init, engine, handler>>

LoopApplied ==
  /\ loop = "apply"
  /\ loop' = "top"
  /\ drained' = {}
  /\ UNCHANGED <<pending, permit, init, engine, handler>>

(* A panic inside the blocking task: the loop logs the failure and goes    *)
(* on.  An incremental update unwinds with the engine's guard held, which  *)
(* poisons the mutex; a full rescan scans before it takes the lock.  Which *)
(* of the two a round runs is left to the modules that extend this one.    *)
LoopUpdatePanics ==
  /\ loop = "apply"
  /\ MayPanic
  /\ engine' \in {engine, "poisoned"}
  /\ loop' = "top"
  /\ drained' = {}
  /\ UNCHANGED <<pending, permit, init, handler>>

-----------------------------------------------------------------------------
InitTask == InitSpawn \/ InitStoreEngine \/ InitGivesUp \/ InitPublished
            \/ InitNotify

LoopTask == LoopAwait \/ LoopDebounce \/ LoopCheck \/ LoopDrain
            \/ LoopApplied \/ LoopUpdatePanics

LoopNext ==
  \/ InitTask
  \/ LoopTask
  \/ \E h \in Handlers :
       \/ \E S \in SUBSET Paths : Enqueue(h, S)
       \/ EnqueueNotify(h)

LoopSpec == LoopInit /\ [][LoopNext]_loopVars

(* The runtime polls every task that is ready: each task that can step     *)
(* keeps stepping.  Nothing obliges the editor to send anything.           *)
LoopFairness ==
  /\ WF_loopVars(InitTask)
  /\ WF_loopVars(LoopTask)
  /\ \A h \in Handlers : WF_loopVars(EnqueueNotify(h))

FairLoopSpec == LoopSpec /\ LoopFairness

-----------------------------------------------------------------------------
(* Every variable stays in its range.                                      *)
LoopTypeOK ==
  /\ pending \in SUBSET Paths
  /\ permit \in BOOLEAN
  /\ loop \in LoopStates
  /\ drained \in SUBSET Paths
  /\ init \in InitStates
  /\ engine \in EngineStates
  /\ handler \in [Handlers -> HandlerStates]

(* A ring is on its way to the drain of the loop: it is stored, the loop   *)
(* has consumed it and has not drained yet, or a task is about to ring.    *)
RingOutstanding ==
  \/ permit
  \/ loop \in {"debounce", "check", "drain"}
  \/ init # "done"
  \/ \E h \in Handlers : handler[h] = "notify"

(***************************************************************************)
(* No lost wake-up: paths that wait to be drained by a loop that can drain *)
(* them have a ring outstanding.  It is about the unlock-then-notify order *)
(* of enqueue_paths, the `inserted > 0` shortcut, the `continue` of the    *)
(* engine check and the final notify_one of `initialized` together.        *)
(***************************************************************************)
NoLostWakeup ==
  pending # {} /\ engine = "ready" => RingOutstanding

(* A change set is applied only against an engine that exists, whatever    *)
(* rang before the first scan ended (the comment on the readiness check).  *)
AppliesToBuiltEngine ==
  loop = "apply" => engine = "ready" /\ drained # {}

(***************************************************************************)
(* Every enqueued path reaches an update, however the ring, the debounce,  *)
(* the drain and the end of the first scan interleave: what can prevent it *)
(* is a first scan that gave up and left no engine, or an update that      *)
(* panicked and poisoned the engine's mutex.                               *)
(***************************************************************************)
EnqueuedIsApplied ==
  \A p \in Paths :
    p \in pending ~> \/ p \in drained /\ loop = "apply"
                     \/ init = "done" /\ engine = "none"
                     \/ engine = "poisoned"
=============================================================================
