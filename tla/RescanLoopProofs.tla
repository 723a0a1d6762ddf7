-------------------------- MODULE RescanLoopProofs --------------------------
(***************************************************************************)
(* Safety of the rescan loop's wake-up protocol, for any set of paths, any *)
(* number of enqueuing tasks and any setting of the switches.              *)
(***************************************************************************)
EXTENDS RescanLoop, TLAPS

(***************************************************************************)
(* The readiness check precedes the drain, and only an update can take a   *)
(* ready engine away again.  A change set is never empty while the loop    *)
(* applies it.                                                             *)
(***************************************************************************)
DrainsReadyEngine ==
  /\ loop \in {"drain", "apply"} => engine = "ready"
  /\ loop = "apply" => drained # {}

LoopIInv == LoopTypeOK /\ NoLostWakeup /\ DrainsReadyEngine

(* The initial state has no path pending and no engine.                    *)
LEMMA LoopInitIInv == LoopInit => LoopIInv
  BY DEF LoopInit, LoopIInv, LoopTypeOK, NoLostWakeup, DrainsReadyEngine,
         LoopStates, InitStates, EngineStates, HandlerStates

(***************************************************************************)
(* The summary of notify_one the other steps rest on: afterwards a ring is *)
(* outstanding in the loop or in the permit, whoever else rang before.     *)
(***************************************************************************)
LEMMA NotifyOneRings ==
  ASSUME LoopTypeOK, NotifyOne
  PROVE  /\ permit' \in BOOLEAN
         /\ loop' \in LoopStates
         /\ permit' \/ loop' = "debounce"
         /\ loop' \in {"drain", "apply"} => loop' = loop
  BY DEF LoopTypeOK, NotifyOne, LoopStates

(* Every step of the three kinds of tasks preserves the invariant.         *)
LEMMA LoopStepIInv == LoopIInv /\ [LoopNext]_loopVars => LoopIInv'
  <1> SUFFICES ASSUME LoopIInv, [LoopNext]_loopVars
               PROVE  LoopIInv'
    OBVIOUS
  <1> USE DEF LoopIInv, LoopTypeOK, DrainsReadyEngine, LoopStates, InitStates,
              EngineStates, HandlerStates
  <1>1. ASSUME NEW h \in Handlers, NEW S \in SUBSET Paths, Enqueue(h, S)
        PROVE  LoopIInv'
    <2>1. LoopTypeOK' /\ DrainsReadyEngine'
      BY <1>1 DEF Enqueue
    <2>2. CASE S \subseteq pending
      <3>1. pending' = pending /\ handler' = handler
        BY <1>1, <2>2 DEF Enqueue
      <3>2. QED
        BY <1>1, <2>1, <3>1 DEF Enqueue, NoLostWakeup, RingOutstanding
    <2>3. CASE ~ (S \subseteq pending)
      <3>1. handler'[h] = "notify"
        BY <1>1, <2>3 DEF Enqueue
      <3>2. QED
        BY <2>1, <3>1 DEF NoLostWakeup, RingOutstanding
    <2>4. QED
      BY <2>2, <2>3
  <1>2. ASSUME NEW h \in Handlers, EnqueueNotify(h)
        PROVE  LoopIInv'
    BY <1>2, NotifyOneRings DEF EnqueueNotify, NoLostWakeup, RingOutstanding
  <1>3. CASE InitSpawn
    BY <1>3 DEF InitSpawn, NoLostWakeup, RingOutstanding
  <1>4. CASE InitStoreEngine
    BY <1>4 DEF InitStoreEngine, NoLostWakeup, RingOutstanding
  <1>5. CASE InitGivesUp
    BY <1>5 DEF InitGivesUp, NoLostWakeup, RingOutstanding
  <1>6. CASE InitPublished
    BY <1>6 DEF InitPublished, NoLostWakeup, RingOutstanding
  <1>7. CASE InitNotify
    BY <1>7, NotifyOneRings DEF InitNotify, NoLostWakeup, RingOutstanding
  <1>8. CASE LoopAwait
    BY <1>8 DEF LoopAwait, NoLostWakeup, RingOutstanding
  <1>9. CASE LoopDebounce
    BY <1>9 DEF LoopDebounce, NoLostWakeup, RingOutstanding
  <1>10. CASE LoopCheck
    BY <1>10 DEF LoopCheck, NoLostWakeup, RingOutstanding
  <1>11. CASE LoopDrain
    BY <1>11 DEF LoopDrain, NoLostWakeup, RingOutstanding
  <1>12. CASE LoopApplied
    BY <1>12 DEF LoopApplied, NoLostWakeup, RingOutstanding
  <1>13. CASE LoopUpdatePanics
    BY <1>13 DEF LoopUpdatePanics, NoLostWakeup, RingOutstanding
  <1>14. CASE UNCHANGED loopVars
    BY <1>14 DEF loopVars, NoLostWakeup, RingOutstanding
  <1>15. QED
    BY <1>1, <1>2, <1>3, <1>4, <1>5, <1>6, <1>7, <1>8, <1>9, <1>10, <1>11,
       <1>12, <1>13, <1>14 DEF LoopNext, InitTask, LoopTask

(* The inductive invariant holds throughout.                               *)
LEMMA LoopInvariant == LoopSpec => []LoopIInv
  BY LoopInitIInv, LoopStepIInv, PTL DEF LoopSpec

(* Type correctness of the rescan loop.                                    *)
THEOREM LoopTypeCorrect == LoopSpec => []LoopTypeOK
  <1>1. LoopIInv => LoopTypeOK
    BY DEF LoopIInv
  <1>2. QED
    BY <1>1, LoopInvariant, PTL

(* No wake-up is lost: once the engine exists, paths left in pending_paths *)
(* always have a ring on its way to the loop's next drain.                 *)
THEOREM NoWakeupIsLost == LoopSpec => []NoLostWakeup
  <1>1. LoopIInv => NoLostWakeup
    BY DEF LoopIInv
  <1>2. QED
    BY <1>1, LoopInvariant, PTL

(* The loop applies change sets only to an engine that has been built, and *)
(* never an empty one.                                                     *)
THEOREM OnlyBuiltEnginesUpdated == LoopSpec => []AppliesToBuiltEngine
  <1>1. LoopIInv => AppliesToBuiltEngine
    BY DEF LoopIInv, DrainsReadyEngine, AppliesToBuiltEngine
  <1>2. QED
    BY <1>1, LoopInvariant, PTL
=============================================================================
