----------------------------- MODULE LspServer ------------------------------
(***************************************************************************)
(* The language server around the wake-up protocol of RescanLoop: what its *)
(* concurrent tasks read from the disk, keep in the shared State and show  *)
(* in the editor (crates/lsp-server/src/main.rs).  Every read of a file    *)
(* and every critical section is a step of its own, so that edits, saves,  *)
(* the first scan, the rescan loop and didOpen interleave as they do at    *)
(* the awaits of the program.                                              *)
(*                                                                         *)
(* The engine is reduced to the content it has indexed for each file; that *)
(* its findings are those of a scan of that content is what the module     *)
(* IncrementalEngine checks.  A hash stands for the content it is of.      *)
(*                                                                         *)
(* Three history variables remember the orders of steps in which the code  *)
(* loses something, so that the properties can say what holds in all the   *)
(* others: a file's list replaced while an older one is on its way, a file *)
(* saved between two reads of it, and findings published beside a change   *)
(* of the engine.                                                          *)
(***************************************************************************)
EXTENDS RescanLoop

CONSTANTS
  Modes,           (* what publish_opts.incremental may be set to           *)
  Contents,        (* contents of files; equal ones are clones              *)
  Absent,          (* the content of a file that is not there               *)
  Unread,          (* what a task holds of a file it has not read           *)
  Openers,         (* tasks, one for each didOpen (or didSave with          *)
                   (* rescanOnSave off), that send a file's cached          *)
                   (* diagnostics                                           *)
  Openable,        (* bound: the files that are opened                      *)
  MaxEdits,        (* bound: edits of the workspace                         *)
  EditsDuringInit  (* the environment edits before the first scan has ended *)

ASSUME LspAssumption ==
  /\ HasRoot
  /\ ~MayPanic
  /\ Modes \subseteq BOOLEAN
  /\ Absent \notin Contents
  /\ Unread \notin Contents \cup {Absent}
  /\ Openable \subseteq Paths
  /\ MaxEdits \in Nat
  /\ EditsDuringInit \in BOOLEAN

Tasks == {"init", "loop"}
Files == [Paths -> Contents \cup {Absent}]

VARIABLES
  incremental, (* publish_opts.incremental, set by `initialize`: update the *)
               (* engine, or rebuild it                                     *)
  disk,     (* the files of the workspace                                   *)
  edits,    (* edits made so far                                            *)
  unsent,   (* edits whose notification is still on its way, by handler     *)
  indexed,  (* the content of each file the engine's entries come from      *)
  hashes,   (* State.file_hashes; Absent where there is no entry            *)
  by_file,  (* State.by_file rendered; its non-empty files are the          *)
            (* published_uris, which are always assigned with it            *)
  editor,   (* the diagnostics the editor shows for each file               *)
  task,     (* the two publishing tasks and their local variables           *)
  opener,   (* the tasks of didOpen                                         *)
  overtaken, (* history: files whose published list was replaced while an   *)
             (* older one was on its way, until a list is sent again        *)
  slipped,   (* history: files changed between two reads of which one gives *)
             (* the hash and the other the entries, until they are read anew*)
  late       (* history: the engine changed after the first scan took the   *)
             (* findings it publishes, and no round has published since     *)

envVars == <<incremental, disk, edits, unsent>>
stateVars == <<indexed, hashes, by_file, editor>>
history == <<overtaken, slipped, late>>
lspVars == <<loopVars, envVars, stateVars, task, opener, history>>

(* What a task holds between two awaits: the files it has still to visit,  *)
(* what it has read, the hashes it copied, the findings to publish, and    *)
(* the files to clear and to send.                                         *)
Idle == [step  |-> "idle",
         todo  |-> {},
         files |-> [p \in Paths |-> Unread],
         known |-> [p \in Paths |-> Absent],
         found |-> [p \in Paths |-> {}],
         clear |-> {},
         send  |-> {}]

Waiting == [step |-> "waiting", path |-> Unread, diags |-> {}]

(* The diagnostics of each file: a clone of the whole of another file,     *)
(* anchored in its own text.                                               *)
Diagnostics(files) ==
  [p \in Paths |->
    {[partner |-> q, of |-> files[p]] :
       q \in {q \in Paths \ {p} : files[q] = files[p] /\ files[p] # Absent}}]

NonEmpty(diags) == {p \in Paths : diags[p] # {}}

LspInit ==
  /\ LoopInit
  /\ incremental \in Modes
  /\ disk \in Files
  /\ edits = 0
  /\ unsent = [h \in Handlers |-> {}]
  /\ indexed = [p \in Paths |-> Absent]
  /\ hashes = [p \in Paths |-> Absent]
  /\ by_file = [p \in Paths |-> {}]
  /\ editor = [p \in Paths |-> {}]
  /\ task = [t \in Tasks |-> Idle]
  /\ opener = [o \in Openers |-> Waiting]
  /\ overtaken = {} /\ slipped = {} /\ late = FALSE

-----------------------------------------------------------------------------
(* The orders of steps the history variables remember.                     *)

(* The first scan has findings for p and its hash is still to be stored.   *)
Seeding(p) == task["init"].step = "seed" /\ task["init"].found[p] # {}

(* The filter has kept p in this round, and the update has not read it.    *)
WillRead(p) ==
  \/ task["loop"].step = "filter" /\ task["loop"].files[p] # Unread
  \/ task["loop"].step = "update" /\ p \in task["loop"].todo

(* p has been read, and another read of it, or of the hash that was taken, *)
(* is still to follow.                                                     *)
BetweenReads(p) ==
  \/ WillRead(p)
  \/ /\ task["init"].step = "scan"
     /\ p \notin task["init"].todo
     /\ task["init"].files[p] # Absent
  \/ Seeding(p)

(* The first scan has taken its findings from the engine and not stored    *)
(* them in State.                                                          *)
InitHoldsFindings == task["init"].step \in {"seed", "publish", "store"}

(* Somebody besides task t holds a list for p, or a difference to the      *)
(* lists that were published, and will send what it holds.                 *)
SentBeside(t, p) ==
  \/ \E u \in Tasks \ {t} : \/ task[u].step = "store"
                            \/ p \in task[u].clear \cup task[u].send
  \/ \E o \in Openers : opener[o].step = "send" /\ opener[o].path = p

-----------------------------------------------------------------------------
(* The workspace and the notifications about it.                           *)

(* A file is written, created or deleted, or saved as it was; handler h    *)
(* will be told of it.                                                     *)
Edit(h, p, c) ==
  /\ edits < MaxEdits
  /\ EditsDuringInit \/ init = "done"
  /\ disk' = [disk EXCEPT ![p] = c]
  /\ edits' = edits + 1
  /\ unsent' = [unsent EXCEPT ![h] = @ \cup {p}]
  /\ slipped' = IF incremental /\ c # disk[p] /\ BetweenReads(p)
                THEN slipped \cup {p} ELSE slipped
  /\ UNCHANGED <<loopVars, incremental, stateVars, task, opener, overtaken, late>>

(* didSave, didCreateFiles, didRenameFiles, didDeleteFiles or an event of  *)
(* the watcher: one notification may name several files.                   *)
Notice(h, S) ==
  /\ S # {} /\ S \subseteq unsent[h]
  /\ loop # "off"
  /\ Enqueue(h, S)
  /\ unsent' = [unsent EXCEPT ![h] = @ \ S]
  /\ UNCHANGED <<incremental, disk, edits, stateVars, task, opener, history>>

Ring(h) ==
  /\ EnqueueNotify(h)
  /\ UNCHANGED <<envVars, stateVars, task, opener, history>>

-----------------------------------------------------------------------------
(* Waiting, debouncing and draining are those of RescanLoop.               *)
Coordinate ==
  /\ InitSpawn \/ InitNotify \/ LoopAwait \/ LoopDebounce \/ LoopCheck
     \/ LoopDrain
  /\ UNCHANGED <<envVars, stateVars, task, opener, history>>

Local(t) == UNCHANGED <<loopVars, envVars, stateVars, opener, history>>

(* Task t, at step "from", reads one of the files it has still to visit.   *)
Reads(t, from, p) ==
  /\ task[t].step = from
  /\ p \in task[t].todo

-----------------------------------------------------------------------------
(* run_initial_scan_and_publish, by the handler of `initialized` and, with *)
(* incremental off, by the rescan loop for every round.                    *)

ScanWalk(t) ==
  /\ task[t].step = "idle"
  /\ \/ t = "init" /\ init = "scan"
     \/ t = "loop" /\ loop = "apply" /\ ~incremental
  /\ task' = [task EXCEPT ![t].step = "scan",
                          ![t].todo = {p \in Paths : disk[p] # Absent},
                          ![t].files = [p \in Paths |-> Absent]]
  /\ Local(t)

ScanRead(t, p) ==
  /\ Reads(t, "scan", p)
  /\ task' = [task EXCEPT ![t].todo = @ \ {p}, ![t].files[p] = disk[p]]
  /\ Local(t)

(* The engine is replaced under its lock; the hashes of the files that     *)
(* have findings are to be seeded next.                                    *)
ScanStore(t) ==
  /\ task[t].step = "scan" /\ task[t].todo = {}
  /\ indexed' = task[t].files
  /\ LET found == Diagnostics(task[t].files)
     IN task' = [task EXCEPT ![t].step = "seed",
                             ![t].todo = NonEmpty(found),
                             ![t].files = Idle.files,
                             ![t].found = found]
  /\ IF t = "init" THEN InitStoreEngine ELSE UNCHANGED loopVars
  /\ late' = (late \/ (t = "loop" /\ InitHoldsFindings))
  /\ UNCHANGED <<envVars, hashes, by_file, editor, opener, overtaken, slipped>>

SeedRead(t, p) ==
  /\ Reads(t, "seed", p)
  /\ task' = [task EXCEPT ![t].todo = @ \ {p}, ![t].files[p] = disk[p]]
  /\ Local(t)

SeedStore(t) ==
  /\ task[t].step = "seed" /\ task[t].todo = {}
  /\ hashes' = [p \in Paths |-> IF task[t].files[p] \in Contents
                                THEN task[t].files[p] ELSE hashes[p]]
  /\ task' = [task EXCEPT ![t].step = "publish", ![t].files = Idle.files]
  /\ UNCHANGED <<loopVars, envVars, indexed, by_file, editor, opener, history>>

-----------------------------------------------------------------------------
(* run_incremental_update_and_publish, by the rescan loop.                 *)

(* filter_unchanged_by_hash copies the hashes under the lock, reads and    *)
(* compares without it, and takes it again to store what it found.  A file *)
(* that cannot be read is kept and its hash forgotten.                     *)
FilterStart ==
  /\ task["loop"].step = "idle" /\ loop = "apply" /\ incremental
  /\ task' = [task EXCEPT !["loop"].step = "filter",
                          !["loop"].todo = drained,
                          !["loop"].known = hashes]
  /\ Local("loop")

FilterReadIf(p, kept) ==
  /\ Reads("loop", "filter", p)
  /\ task' = [task EXCEPT !["loop"].todo = @ \ {p},
                          !["loop"].files[p] = IF kept THEN disk[p] ELSE @]
  /\ slipped' = IF kept /\ ~Seeding(p) THEN slipped \ {p} ELSE slipped
  /\ UNCHANGED <<loopVars, envVars, stateVars, opener, overtaken, late>>

FilterReadDroppingDeleted(p) ==
  FilterReadIf(p, disk[p] # Absent /\ disk[p] # task["loop"].known[p])

FilterRead(p) ==
  FilterReadIf(p, disk[p] = Absent \/ disk[p] # task["loop"].known[p])

Kept == {p \in Paths : task["loop"].files[p] # Unread}

FilterStoreSkippingNew ==
  /\ task["loop"].step = "filter" /\ task["loop"].todo = {}
  /\ hashes' = [p \in Paths |-> IF p \in Kept THEN task["loop"].files[p]
                                ELSE hashes[p]]
  /\ task' = [task EXCEPT !["loop"] =
       [Idle EXCEPT !.step = "update",
                    !.todo = {p \in Kept : task["loop"].known[p] # Absent}]]
  /\ UNCHANGED <<loopVars, envVars, indexed, by_file, editor, opener, history>>

(* With nothing kept the round ends here.                                  *)
FilterStore ==
  /\ task["loop"].step = "filter" /\ task["loop"].todo = {}
  /\ hashes' = [p \in Paths |-> IF p \in Kept THEN task["loop"].files[p]
                                ELSE hashes[p]]
  /\ IF Kept = {}
     THEN LoopApplied /\ task' = [task EXCEPT !["loop"] = Idle]
     ELSE /\ UNCHANGED loopVars
          /\ task' = [task EXCEPT !["loop"] = [Idle EXCEPT !.step = "update",
                                                           !.todo = Kept]]
  /\ UNCHANGED <<envVars, indexed, by_file, editor, opener, history>>

(* IncrementalEngine::update reads the file again.                         *)
UpdateRead(p) ==
  /\ Reads("loop", "update", p)
  /\ indexed' = [indexed EXCEPT ![p] = disk[p]]
  /\ task' = [task EXCEPT !["loop"].todo = @ \ {p}]
  /\ late' = (late \/ InitHoldsFindings)
  /\ UNCHANGED <<loopVars, envVars, hashes, by_file, editor, opener, overtaken, slipped>>

UpdateDone ==
  /\ task["loop"].step = "update" /\ task["loop"].todo = {}
  /\ task' = [task EXCEPT !["loop"].step = "publish",
                          !["loop"].found = Diagnostics(indexed)]
  /\ Local("loop")

-----------------------------------------------------------------------------
(* publish_findings: the difference to the state under one lock, the new   *)
(* state under another, the messages after it.                             *)

Differing(t) == {p \in Paths : by_file[p] # task[t].found[p]}

PublishDiffAs(t, clear, send) ==
  /\ task[t].step = "publish"
  /\ task' = [task EXCEPT ![t].step = "store",
                          ![t].clear = clear,
                          ![t].send = send]
  /\ Local(t)

PublishDiffNoClear(t) ==
  PublishDiffAs(t, {}, NonEmpty(task[t].found) \cap Differing(t))

PublishDiff(t) ==
  PublishDiffAs(t, NonEmpty(by_file) \ NonEmpty(task[t].found),
                   NonEmpty(task[t].found) \cap Differing(t))

PublishStoreAs(t, lists) ==
  /\ task[t].step = "store"
  /\ by_file' = lists
  /\ task' = [task EXCEPT ![t].step = "send"]
  /\ overtaken' = overtaken \cup {p \in Paths : by_file[p] # lists[p] /\ SentBeside(t, p)}
  /\ late' = (late /\ (t = "init" \/ InitHoldsFindings))
  /\ UNCHANGED <<loopVars, envVars, indexed, hashes, editor, opener, slipped>>

PublishStoreMerging(t) ==
  PublishStoreAs(t, [p \in Paths |-> IF task[t].found[p] = {} THEN by_file[p]
                                     ELSE task[t].found[p]])

PublishStore(t) == PublishStoreAs(t, task[t].found)

(* A message that says what State says, with no other about that file on   *)
(* its way, makes good what went wrong before.                             *)
Send(t, p, list) ==
  /\ editor' = [editor EXCEPT ![p] = list]
  /\ overtaken' = IF by_file[p] = list /\ ~SentBeside(t, p)
                  THEN overtaken \ {p} ELSE overtaken
  /\ UNCHANGED <<loopVars, envVars, indexed, hashes, by_file, opener, slipped, late>>

SendClear(t, p) ==
  /\ task[t].step = "send"
  /\ p \in task[t].clear
  /\ task' = [task EXCEPT ![t].clear = @ \ {p}]
  /\ Send(t, p, {})

SendPublish(t, p) ==
  /\ task[t].step = "send" /\ task[t].clear = {}
  /\ p \in task[t].send
  /\ task' = [task EXCEPT ![t].send = @ \ {p}]
  /\ Send(t, p, task[t].found[p])

PublishDoneAfterClears(t) ==
  /\ task[t].step = "send" /\ task[t].clear = {}
  /\ task' = [task EXCEPT ![t] = Idle]
  /\ IF t = "init" THEN InitPublished ELSE LoopApplied
  /\ UNCHANGED <<envVars, stateVars, opener, history>>

PublishDone(t) ==
  /\ task[t].step = "send" /\ task[t].clear = {} /\ task[t].send = {}
  /\ task' = [task EXCEPT ![t] = Idle]
  /\ IF t = "init" THEN InitPublished ELSE LoopApplied
  /\ UNCHANGED <<envVars, stateVars, opener, history>>

-----------------------------------------------------------------------------
(* publish_for_uri: the cached diagnostics are copied under the lock and   *)
(* sent after it.                                                          *)

OpenRead(o, p) ==
  /\ opener[o].step = "waiting"
  /\ opener' = [opener EXCEPT ![o] = [step |-> "send", path |-> p, diags |-> by_file[p]]]
  /\ UNCHANGED <<loopVars, envVars, stateVars, task, history>>

OpenSend(o) ==
  /\ opener[o].step = "send"
  /\ editor' = [editor EXCEPT ![opener[o].path] = opener[o].diags]
  /\ opener' = [opener EXCEPT ![o] = [Waiting EXCEPT !.step = "done"]]
  /\ UNCHANGED <<loopVars, envVars, indexed, hashes, by_file, task, history>>

-----------------------------------------------------------------------------
Publish(t) ==
  \/ ScanWalk(t) \/ ScanStore(t) \/ SeedStore(t)
  \/ PublishDiff(t) \/ PublishStore(t) \/ PublishDone(t)
  \/ \E p \in Paths : ScanRead(t, p) \/ SeedRead(t, p)
                      \/ SendClear(t, p) \/ SendPublish(t, p)

IncrementalRound ==
  \/ FilterStart \/ FilterStore \/ UpdateDone
  \/ \E p \in Paths : FilterRead(p) \/ UpdateRead(p)

Deliver(h) == \E S \in SUBSET Paths : Notice(h, S)

LspNext ==
  \/ Coordinate
  \/ \E t \in Tasks : Publish(t)
  \/ IncrementalRound
  \/ \E h \in Handlers :
       \/ \E p \in Paths, c \in Contents \cup {Absent} : Edit(h, p, c)
       \/ Deliver(h)
       \/ Ring(h)
  \/ \E o \in Openers : OpenSend(o) \/ \E p \in Openable : OpenRead(o, p)

LspSpec == LspInit /\ [][LspNext]_lspVars

(* Every task that is ready is polled, and a notification that is on its   *)
(* way arrives; nothing obliges anybody to edit or to open a file.         *)
LspFairness ==
  /\ WF_lspVars(Coordinate)
  /\ WF_lspVars(Publish("init"))
  /\ WF_lspVars(Publish("loop") \/ IncrementalRound)
  /\ \A h \in Handlers : WF_lspVars(Deliver(h) \/ Ring(h))
  /\ \A o \in Openers : WF_lspVars(OpenSend(o))

FairLspSpec == LspSpec /\ LspFairness

-----------------------------------------------------------------------------
(* Every variable stays in its range, and the local variables of a task    *)
(* are those of its step.                                                  *)
LspTypeOK ==
  /\ LoopTypeOK
  /\ disk \in Files /\ indexed \in Files /\ hashes \in Files
  /\ incremental \in Modes
  /\ edits \in 0..MaxEdits
  /\ unsent \in [Handlers -> SUBSET Paths]
  /\ \A p \in Paths : by_file[p] \cup editor[p] \subseteq
       [partner : Paths \ {p}, of : Contents]
  /\ \A t \in Tasks :
       /\ task[t].todo \cup task[t].clear \cup task[t].send \subseteq Paths
       /\ task[t].step = "idle" => task[t] = Idle
       /\ task[t].clear \cap task[t].send = {}
  /\ overtaken \cup slipped \subseteq Paths /\ late \in BOOLEAN
  /\ ~incremental => slipped = {}
  /\ init \in {"start", "scan"} => indexed = [p \in Paths |-> Absent]

(* Nothing is on its way: no notification, no pending file, no task.       *)
Settled ==
  /\ init = "done"
  /\ \A h \in Handlers : unsent[h] = {} /\ handler[h] = "idle"
  /\ pending = {}
  /\ loop \notin {"drain", "apply"}
  /\ \A t \in Tasks : task[t] = Idle
  /\ \A o \in Openers : opener[o].step # "send"

(***************************************************************************)
(* The engine keeps up with the disk (main.rs:238: a save that arrives     *)
(* during the first scan is observed): once every notification has been    *)
(* handled, its entries are those of the files as they are.                *)
(***************************************************************************)
IndexCurrent == Settled => indexed = disk

(***************************************************************************)
(* It does, for every file that was not changed between two reads of it,   *)
(* in the first scan and its seeding or in a round's filter and its        *)
(* update, since the loop last kept it; with incremental off, for all.     *)
(* That is what the pending set, the hash filter and the second read of    *)
(* update give together, for saves, deletions and restored contents at any *)
(* moment, the first scan included.                                        *)
(***************************************************************************)
IndexKeepsUp ==
  Settled => \A p \in Paths \ slipped : indexed[p] = disk[p]

(***************************************************************************)
(* Skipping is right: where the cached hash is that of the file as it is,  *)
(* the filter would drop a notification, so the engine has that content    *)
(* already or the round that is under way has kept the file and will read  *)
(* it.                                                                     *)
(***************************************************************************)
SkipIsRight ==
  \A p \in Paths \ slipped :
    incremental /\ hashes[p] = disk[p] /\ disk[p] # Absent
      => \/ indexed[p] = disk[p]
         \/ WillRead(p)

(***************************************************************************)
(* The editor shows what State says was published, but for the messages a  *)
(* publishing task has still to send: the first round and the loop's take  *)
(* their differences and send them side by side, and didOpen sends copies, *)
(* yet a file goes wrong only if its list was replaced while somebody else *)
(* had an older one, or a difference to it, in hand.                       *)
(***************************************************************************)
PublishedIsShown ==
  \A p \in Paths \ overtaken :
    editor[p] # by_file[p] =>
      \E t \in Tasks : /\ task[t].step = "send"
                       /\ p \in task[t].clear \cup task[t].send

(* What every step keeps.                                                  *)
LspConsistent == LspTypeOK /\ PublishedIsShown

(* Removed clones leave no stale diagnostics in the editor (the comment on *)
(* published_uris): once everything is sent, a file without findings shows *)
(* none.                                                                   *)
NoStaleDiagnostics ==
  Settled => \A p \in Paths : by_file[p] = {} => editor[p] = {}

(***************************************************************************)
(* What didOpen re-publishes is right once everything is handled: the      *)
(* cached diagnostics are the clones of the files as they are, unless the  *)
(* first scan has stored findings over those of a later round.             *)
(***************************************************************************)
CacheCurrent ==
  Settled /\ ~late /\ slipped = {} => by_file = Diagnostics(disk)

(* What the user sees in the end: with no further edits the editor comes   *)
(* to show exactly the clones of the files as they are, and keeps to it,   *)
(* unless one of the three orders of steps has come to pass.               *)
EditorCatchesUp ==
  <>[](~late /\ slipped = {} /\ overtaken = {} => editor = Diagnostics(disk))

(* The same for the engine alone, file by file.                            *)
IndexCatchesUp == <>[](\A p \in Paths \ slipped : indexed[p] = disk[p])
=============================================================================
