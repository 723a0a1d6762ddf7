-------------------------- MODULE LspServerProofs ---------------------------
(***************************************************************************)
(* Safety of the language server's scans, hash filter and publishing, for  *)
(* any files, contents, handlers and number of edits.                      *)
(*                                                                         *)
(* Nothing is assumed of the environment: edits come at any moment and may *)
(* restore a content, files are opened at any moment.  The parts of the    *)
(* invariant exempt what the history variables name.                       *)
(***************************************************************************)
EXTENDS LspServer, RescanLoopProofs

-----------------------------------------------------------------------------
(* Types.                                                                  *)

Content == Contents \cup {Absent}

DiagLists == SUBSET [partner : Paths, of : Contents]

(* No file is its own clone.                                               *)
Anchored(diags) ==
  \A p \in Paths : diags[p] \subseteq [partner : Paths \ {p}, of : Contents]

TaskRecord ==
  [step  : {"idle", "scan", "seed", "filter", "update", "publish", "store", "send"},
   todo  : SUBSET Paths,
   files : [Paths -> Content \cup {Unread}],
   known : Files,
   found : [Paths -> DiagLists],
   clear : SUBSET Paths,
   send  : SUBSET Paths]

(* The types of the variables, those the model's invariant leaves open     *)
(* included.                                                               *)
EnvTyping ==
  /\ incremental \in BOOLEAN /\ incremental \in Modes
  /\ disk \in Files
  /\ edits \in 0..MaxEdits
  /\ unsent \in [Handlers -> SUBSET Paths]

StateTyping ==
  /\ indexed \in Files /\ hashes \in Files
  /\ by_file \in [Paths -> DiagLists] /\ Anchored(by_file)
  /\ editor \in [Paths -> DiagLists] /\ Anchored(editor)

(* The local variables of a task; a scan reads each file or finds it gone. *)
TaskLocals ==
  {r \in TaskRecord : Anchored(r.found) /\ (r.step = "scan" => r.files \in Files)}

TaskTyping == task \in [Tasks -> TaskLocals]

OpenerTyping ==
  /\ opener \in [Openers -> [step : {"waiting", "send", "done"},
                             path : Paths \cup {Unread}, diags : DiagLists]]
  /\ \A o \in Openers : opener[o].step = "send" =>
       /\ opener[o].path \in Paths
       /\ opener[o].diags \subseteq [partner : Paths \ {opener[o].path}, of : Contents]

HistoryTyping ==
  /\ overtaken \subseteq Paths /\ slipped \subseteq Paths /\ late \in BOOLEAN
  /\ ~incremental => slipped = {}

LspTyping ==
  LoopIInv /\ EnvTyping /\ StateTyping /\ TaskTyping /\ OpenerTyping /\ HistoryTyping

(* Where each task can stand, given where the protocol stands: the first   *)
(* scan stores the engine before it publishes, and the loop works only     *)
(* between a drain and the end of the round.                               *)
StepsInTurn ==
  /\ engine = IF init \in {"start", "scan"} THEN "none" ELSE "ready"
  /\ init = "scan" => task["init"].step \in {"idle", "scan"}
  /\ init = "publish" => task["init"].step \in {"seed", "publish", "store", "send"}
  /\ init \notin {"scan", "publish"} => task["init"].step = "idle"
  /\ task["loop"].step # "idle" => loop = "apply"
  /\ task["loop"].step \in {"scan", "seed"} => ~incremental
  /\ task["loop"].step \in {"filter", "update"} => incremental

(* The local variables a task has at its step.                             *)
LocalInTurn(r) ==
  /\ r.step = "idle" => r = Idle
  /\ r.step \in {"store", "send"} => r.clear \cap r.send = {}
  /\ r.step \notin {"store", "send"} => r.clear = {} /\ r.send = {}

(* Nothing is indexed, hashed or published before the engine is stored.    *)
EmptyAtFirst ==
  init \in {"start", "scan"} => /\ indexed = [p \in Paths |-> Absent]
                                /\ hashes = [p \in Paths |-> Absent]
                                /\ by_file = [p \in Paths |-> {}]

TasksInTurn ==
  StepsInTurn /\ EmptyAtFirst /\ \A t \in Tasks : LocalInTurn(task[t])

-----------------------------------------------------------------------------
(* What the editor shows, file by file.                                    *)

(* The difference task t has taken for p, and the messages it has left.    *)
HoldsDifference(t, p) ==
  /\ task[t].step = "store" =>
       /\ by_file[p] # task[t].found[p] => p \in task[t].clear \cup task[t].send
       /\ p \in task[t].clear => task[t].found[p] = {}
  /\ task[t].step = "send" =>
       /\ p \in task[t].clear => by_file[p] = {}
       /\ p \in task[t].send => by_file[p] = task[t].found[p]

(* What didOpen has copied is what State says.                             *)
HoldsCopy(o, p) ==
  opener[o].step = "send" /\ opener[o].path = p => opener[o].diags = by_file[p]

(* A message about p is still to be sent, by task t or by any.             *)
SendsLater(t, p) == task[t].step = "send" /\ p \in task[t].clear \cup task[t].send

StillSent(p) == \E t \in Tasks : SendsLater(t, p)

ShownOf(p) ==
  /\ editor[p] # by_file[p] => StillSent(p)
  /\ \A t \in Tasks : HoldsDifference(t, p)
  /\ \A o \in Openers : HoldsCopy(o, p)

ShownInv == \A p \in Paths \ overtaken : ShownOf(p)

-----------------------------------------------------------------------------
(* What State caches: the loop publishes the clones of what the engine has *)
(* indexed, and so does the first scan, unless a round was faster.         *)
CacheInv ==
  /\ task["loop"].step \in {"seed", "publish", "store"} =>
       task["loop"].found = Diagnostics(indexed)
  /\ ~late /\ InitHoldsFindings => task["init"].found = Diagnostics(indexed)
  /\ ~late /\ ~InitHoldsFindings /\ task["loop"].step \in {"idle", "scan", "filter", "send"} =>
       by_file = Diagnostics(indexed)

-----------------------------------------------------------------------------
(* What the engine has indexed.                                            *)

(* A notification about p has not been drained yet.                        *)
Noticed(p) == p \in pending \/ \E h \in Handlers : p \in unsent[h]

(* The round that is under way will still read p.                          *)
InRound(p) ==
  /\ loop = "apply"
  /\ LET mine == task["loop"]
     IN  \/ mine.step = "idle" /\ p \in drained
         \/ mine.step = "scan"
         \/ mine.step = "filter" /\ (p \in mine.todo \/ mine.files[p] # Unread)
         \/ mine.step = "update" /\ p \in mine.todo

ScanInv ==
  \A t \in Tasks : task[t].step = "scan" =>
    \A p \in Paths : \/ task[t].files[p] = disk[p]
                     \/ p \in task[t].todo
                     \/ Noticed(p)

IndexInv ==
  init \notin {"start", "scan"} =>
    \A p \in Paths \ slipped : indexed[p] = disk[p] \/ Noticed(p) \/ InRound(p)

-----------------------------------------------------------------------------
(* What the hashes are of, for a file that did not change between reads.   *)

(* Only files with findings are seeded.                                    *)
SeedsFound ==
  task["init"].step = "seed" =>
    \A p \in Paths : p \in task["init"].todo \/ task["init"].files[p] # Unread
                       => task["init"].found[p] # {}

(* What the first scan and its seeding have read is what the file is.      *)
FirstRead(p) ==
  LET mine == task["init"]
  IN  /\ mine.step = "scan" /\ p \notin mine.todo /\ mine.files[p] # Absent =>
           mine.files[p] = disk[p]
      /\ mine.step = "seed" => mine.files[p] \in {Unread, disk[p]}
      /\ Seeding(p) => indexed[p] = disk[p]

(* What the filter keeps is what the file is, and the hashes it compares   *)
(* with are of what the engine has; the update finds the file as hashed.   *)
Filtered(p) ==
  LET mine == task["loop"]
  IN  /\ mine.step = "filter" /\ mine.files[p] # Unread => mine.files[p] = disk[p]
      /\ mine.step = "filter" /\ mine.files[p] = Unread /\ mine.known[p] # Absent =>
           indexed[p] = mine.known[p]
      /\ mine.step = "update" /\ p \in mine.todo => hashes[p] = disk[p]

(* A stored hash is of what the engine has, but for what the round under   *)
(* way will still read.                                                    *)
HashedIndexed(p) ==
  hashes[p] # Absent => indexed[p] = hashes[p] \/ WillRead(p)

HashedOf(p) == FirstRead(p) /\ Filtered(p) /\ HashedIndexed(p)

HashInv == SeedsFound /\ (incremental => \A p \in Paths \ slipped : HashedOf(p))

LspIInv ==
  /\ LspTyping /\ TasksInTurn
  /\ ShownInv /\ CacheInv /\ ScanInv /\ IndexInv /\ HashInv

-----------------------------------------------------------------------------
(* Lists of diagnostics.                                                   *)

(* The diagnostics of any files are well-formed lists.                     *)
LEMMA DiagnosticsType ==
  ASSUME NEW files \in Files
  PROVE  Diagnostics(files) \in [Paths -> DiagLists] /\ Anchored(Diagnostics(files))
  <1>1. ASSUME NEW p \in Paths, NEW q \in Paths \ {p},
               files[q] = files[p], files[p] # Absent
        PROVE  [partner |-> q, of |-> files[p]] \in [partner : Paths \ {p}, of : Contents]
    BY <1>1 DEF Files
  <1>2. QED
    BY <1>1 DEF Diagnostics, DiagLists, Anchored

(* Where no file is there, there are no clones.                            *)
LEMMA NoFilesNoDiagnostics ==
  Diagnostics([p \in Paths |-> Absent]) = [p \in Paths |-> {}]
  BY DEF Diagnostics

LEMMA LspInitIInv == LspInit => LspIInv
  <1> SUFFICES ASSUME LspInit PROVE LspIInv
    OBVIOUS
  <1> USE DEF LspInit, LoopInit
  <1>1. Idle \in TaskRecord
    BY DEF Idle, TaskRecord, Content, DiagLists, Files
  <1>2. LspTyping
    <2>1. LoopIInv
      BY LoopInitIInv
    <2>2. disk \in Files /\ indexed \in Files /\ hashes \in Files
      BY DEF Files
    <2>3. incremental \in BOOLEAN /\ incremental \in Modes
      BY LspAssumption
    <2>4. edits \in 0..MaxEdits
      BY LspAssumption
    <2>5. /\ by_file \in [Paths -> DiagLists] /\ Anchored(by_file)
          /\ editor \in [Paths -> DiagLists] /\ Anchored(editor)
      BY DEF DiagLists, Anchored
    <2>6. task \in [Tasks -> TaskLocals]
      BY <1>1 DEF Idle, Anchored, TaskLocals
    <2>7. OpenerTyping
      BY DEF Waiting, DiagLists, OpenerTyping
    <2>8. unsent \in [Handlers -> SUBSET Paths]
      OBVIOUS
    <2>9. QED
      BY <2>1, <2>2, <2>3, <2>4, <2>5, <2>6, <2>7, <2>8
      DEF LspTyping, EnvTyping, StateTyping, TaskTyping, HistoryTyping
  <1>3. TasksInTurn
    BY DEF TasksInTurn, StepsInTurn, EmptyAtFirst, LocalInTurn, Tasks, Idle
  <1>4. ShownInv
    BY DEF ShownInv, ShownOf, HoldsDifference, HoldsCopy, Idle, Waiting
  <1>5. CacheInv
    BY NoFilesNoDiagnostics DEF CacheInv, InitHoldsFindings, Idle, Tasks
  <1>6. ScanInv /\ IndexInv
    BY DEF ScanInv, IndexInv, Idle
  <1>7. HashInv
    BY DEF HashInv, SeedsFound, HashedOf, FirstRead, Filtered, HashedIndexed, Seeding,
           WillRead, Idle, Tasks
  <1>8. QED
    BY <1>2, <1>3, <1>4, <1>5, <1>6, <1>7 DEF LspIInv

-----------------------------------------------------------------------------
(* The step of a task.                                                     *)

(* Only task t moves, and its local variables stay well typed.             *)
MovesAlone(t) == TaskTyping' /\ \A u \in Tasks : u # t => task'[u] = task[u]

LEMMA Moves ==
  ASSUME LspTyping, NEW t \in Tasks, NEW r \in TaskLocals, task' = [task EXCEPT ![t] = r]
  PROVE  MovesAlone(t) /\ task'[t] = r
  BY DEF LspTyping, TaskTyping, MovesAlone

(* The local variables of an idle task are well typed.                     *)
LEMMA IdleType == Idle \in TaskLocals
  BY DEF Idle, TaskLocals, TaskRecord, Content, DiagLists, Files, Anchored

(* What each step makes of the local variables of its task.                *)
LEMMA ScanWalkMoves ==
  ASSUME LspTyping, NEW t \in Tasks, ScanWalk(t)
  PROVE  /\ MovesAlone(t)
         /\ task'[t].step = "scan"
         /\ task'[t].todo = {p \in Paths : disk[p] # Absent}
         /\ task'[t].files = [p \in Paths |-> Absent]
         /\ task'[t].known = task[t].known
         /\ task'[t].found = task[t].found
         /\ task'[t].clear = task[t].clear
         /\ task'[t].send = task[t].send
  <1> DEFINE r == [task[t] EXCEPT !.step = "scan",
                         !.todo = {p \in Paths : disk[p] # Absent},
                         !.files = [p \in Paths |-> Absent]]
  <1>1. task[t] \in TaskLocals
    BY DEF LspTyping, TaskTyping, Tasks
  <1>2. r \in TaskLocals
    BY <1>1 DEF ScanWalk, TaskLocals, TaskRecord, Content, Files, LspTyping, EnvTyping
  <1>3. task' = [task EXCEPT ![t] = r]
    BY <1>1 DEF ScanWalk, TaskLocals, TaskRecord
  <1>4. t \in Tasks
    BY DEF Tasks
  <1> HIDE DEF r
  <1>5. MovesAlone(t) /\ task'[t] = r
    BY <1>2, <1>3, <1>4, Moves
  <1>6. QED
    BY <1>1, <1>5 DEF r, TaskLocals, TaskRecord

LEMMA ScanReadMoves ==
  ASSUME LspTyping, NEW t \in Tasks, NEW p \in Paths, ScanRead(t, p)
  PROVE  /\ MovesAlone(t)
         /\ task'[t].todo = task[t].todo \ {p}
         /\ task'[t].files = [task[t].files EXCEPT ![p] = disk[p]]
         /\ task'[t].step = task[t].step
         /\ task'[t].known = task[t].known
         /\ task'[t].found = task[t].found
         /\ task'[t].clear = task[t].clear
         /\ task'[t].send = task[t].send
  <1> DEFINE r == [task[t] EXCEPT !.todo = task[t].todo \ {p},
                         !.files = [task[t].files EXCEPT ![p] = disk[p]]]
  <1>1. task[t] \in TaskLocals
    BY DEF LspTyping, TaskTyping, Tasks
  <1>2. r \in TaskLocals
    BY <1>1 DEF ScanRead, TaskLocals, TaskRecord, Content, Files, LspTyping, EnvTyping, Reads
  <1>3. task' = [task EXCEPT ![t] = r]
    BY <1>1 DEF ScanRead, TaskLocals, TaskRecord, Reads
  <1>4. t \in Tasks
    BY DEF Tasks
  <1> HIDE DEF r
  <1>5. MovesAlone(t) /\ task'[t] = r
    BY <1>2, <1>3, <1>4, Moves
  <1>6. QED
    BY <1>1, <1>5 DEF r, TaskLocals, TaskRecord

LEMMA ScanStoreMoves ==
  ASSUME LspTyping, NEW t \in Tasks, ScanStore(t)
  PROVE  /\ MovesAlone(t)
         /\ task'[t].step = "seed"
         /\ task'[t].todo = NonEmpty(Diagnostics(task[t].files))
         /\ task'[t].files = Idle.files
         /\ task'[t].found = Diagnostics(task[t].files)
         /\ task'[t].known = task[t].known
         /\ task'[t].clear = task[t].clear
         /\ task'[t].send = task[t].send
  <1> DEFINE r == [task[t] EXCEPT !.step = "seed",
                         !.todo = NonEmpty(Diagnostics(task[t].files)),
                         !.files = Idle.files,
                         !.found = Diagnostics(task[t].files)]
  <1>1. task[t] \in TaskLocals
    BY DEF LspTyping, TaskTyping, Tasks
  <1>2. r \in TaskLocals
    BY <1>1, DiagnosticsType DEF ScanStore, TaskLocals, TaskRecord, Content, Files, LspTyping, EnvTyping, Idle, NonEmpty
  <1>3. task' = [task EXCEPT ![t] = r]
    BY <1>1 DEF ScanStore, TaskLocals, TaskRecord, NonEmpty
  <1>4. t \in Tasks
    BY DEF Tasks
  <1> HIDE DEF r
  <1>5. MovesAlone(t) /\ task'[t] = r
    BY <1>2, <1>3, <1>4, Moves
  <1>6. QED
    BY <1>1, <1>5 DEF r, TaskLocals, TaskRecord

LEMMA SeedReadMoves ==
  ASSUME LspTyping, NEW t \in Tasks, NEW p \in Paths, SeedRead(t, p)
  PROVE  /\ MovesAlone(t)
         /\ task'[t].todo = task[t].todo \ {p}
         /\ task'[t].files = [task[t].files EXCEPT ![p] = disk[p]]
         /\ task'[t].step = task[t].step
         /\ task'[t].known = task[t].known
         /\ task'[t].found = task[t].found
         /\ task'[t].clear = task[t].clear
         /\ task'[t].send = task[t].send
  <1> DEFINE r == [task[t] EXCEPT !.todo = task[t].todo \ {p},
                         !.files = [task[t].files EXCEPT ![p] = disk[p]]]
  <1>1. task[t] \in TaskLocals
    BY DEF LspTyping, TaskTyping, Tasks
  <1>2. r \in TaskLocals
    BY <1>1 DEF SeedRead, TaskLocals, TaskRecord, Content, Files, LspTyping, EnvTyping, Reads
  <1>3. task' = [task EXCEPT ![t] = r]
    BY <1>1 DEF SeedRead, TaskLocals, TaskRecord, Reads
  <1>4. t \in Tasks
    BY DEF Tasks
  <1> HIDE DEF r
  <1>5. MovesAlone(t) /\ task'[t] = r
    BY <1>2, <1>3, <1>4, Moves
  <1>6. QED
    BY <1>1, <1>5 DEF r, TaskLocals, TaskRecord

LEMMA SeedStoreMoves ==
  ASSUME LspTyping, NEW t \in Tasks, SeedStore(t)
  PROVE  /\ MovesAlone(t)
         /\ task'[t].step = "publish"
         /\ task'[t].files = Idle.files
         /\ task'[t].todo = task[t].todo
         /\ task'[t].known = task[t].known
         /\ task'[t].found = task[t].found
         /\ task'[t].clear = task[t].clear
         /\ task'[t].send = task[t].send
  <1> DEFINE r == [task[t] EXCEPT !.step = "publish",
                         !.files = Idle.files]
  <1>1. task[t] \in TaskLocals
    BY DEF LspTyping, TaskTyping, Tasks
  <1>2. r \in TaskLocals
    BY <1>1 DEF SeedStore, TaskLocals, TaskRecord, Content, Files, LspTyping, EnvTyping, Idle
  <1>3. task' = [task EXCEPT ![t] = r]
    BY <1>1 DEF SeedStore, TaskLocals, TaskRecord
  <1>4. t \in Tasks
    BY DEF Tasks
  <1> HIDE DEF r
  <1>5. MovesAlone(t) /\ task'[t] = r
    BY <1>2, <1>3, <1>4, Moves
  <1>6. QED
    BY <1>1, <1>5 DEF r, TaskLocals, TaskRecord

LEMMA FilterStartMoves ==
  ASSUME LspTyping, FilterStart
  PROVE  /\ MovesAlone("loop")
         /\ task'["loop"].step = "filter"
         /\ task'["loop"].todo = drained
         /\ task'["loop"].known = hashes
         /\ task'["loop"].files = task["loop"].files
         /\ task'["loop"].found = task["loop"].found
         /\ task'["loop"].clear = task["loop"].clear
         /\ task'["loop"].send = task["loop"].send
  <1> DEFINE r == [task["loop"] EXCEPT !.step = "filter",
                              !.todo = drained,
                              !.known = hashes]
  <1>1. task["loop"] \in TaskLocals
    BY DEF LspTyping, TaskTyping, Tasks
  <1>2. r \in TaskLocals
    BY <1>1 DEF FilterStart, TaskLocals, TaskRecord, Content, Files, LspTyping, EnvTyping, StateTyping, LoopIInv, LoopTypeOK
  <1>3. task' = [task EXCEPT !["loop"] = r]
    BY <1>1 DEF FilterStart, TaskLocals, TaskRecord, StateTyping, LoopIInv, LoopTypeOK
  <1>4. "loop" \in Tasks
    BY DEF Tasks
  <1> HIDE DEF r
  <1>5. MovesAlone("loop") /\ task'["loop"] = r
    BY <1>2, <1>3, <1>4, Moves
  <1>6. QED
    BY <1>1, <1>5 DEF r, TaskLocals, TaskRecord

LEMMA FilterReadMoves ==
  ASSUME LspTyping, NEW p \in Paths, FilterRead(p)
  PROVE  /\ MovesAlone("loop")
         /\ task'["loop"].todo = task["loop"].todo \ {p}
         /\ task'["loop"].files = [task["loop"].files EXCEPT ![p] =
                         IF disk[p] = Absent \/ disk[p] # task["loop"].known[p]
                         THEN disk[p] ELSE @]
         /\ task'["loop"].step = task["loop"].step
         /\ task'["loop"].known = task["loop"].known
         /\ task'["loop"].found = task["loop"].found
         /\ task'["loop"].clear = task["loop"].clear
         /\ task'["loop"].send = task["loop"].send
  <1> DEFINE r == [task["loop"] EXCEPT !.todo = task["loop"].todo \ {p},
                              !.files = [task["loop"].files EXCEPT ![p] =
                           IF disk[p] = Absent \/ disk[p] # task["loop"].known[p]
                           THEN disk[p] ELSE @]]
  <1>1. task["loop"] \in TaskLocals
    BY DEF LspTyping, TaskTyping, Tasks
  <1>2. r \in TaskLocals
    BY <1>1 DEF FilterRead, FilterReadIf, TaskLocals, TaskRecord, Content, Files, LspTyping, EnvTyping, Reads
  <1>3. task' = [task EXCEPT !["loop"] = r]
    BY <1>1 DEF FilterRead, FilterReadIf, TaskLocals, TaskRecord, Reads
  <1>4. "loop" \in Tasks
    BY DEF Tasks
  <1> HIDE DEF r
  <1>5. MovesAlone("loop") /\ task'["loop"] = r
    BY <1>2, <1>3, <1>4, Moves
  <1>6. QED
    BY <1>1, <1>5 DEF r, TaskLocals, TaskRecord

LEMMA FilterStoreMoves ==
  ASSUME LspTyping, FilterStore
  PROVE  /\ MovesAlone("loop")
         /\ Kept = {} => task'["loop"] = Idle
         /\ Kept # {} => /\ task'["loop"].step = "update"
                         /\ task'["loop"].todo = Kept
                         /\ task'["loop"].clear = {}
                         /\ task'["loop"].send = {}
  <1> DEFINE r == IF Kept = {} THEN Idle
               ELSE [Idle EXCEPT !.step = "update", !.todo = Kept]
  <1>1. task["loop"] \in TaskLocals
    BY DEF LspTyping, TaskTyping, Tasks
  <1>2. r \in TaskLocals
    BY <1>1, IdleType DEF FilterStore, TaskLocals, TaskRecord, Content, Files, LspTyping, EnvTyping, Idle, Kept
  <1>3. task' = [task EXCEPT !["loop"] = r]
    BY <1>1 DEF FilterStore, TaskLocals, TaskRecord, Kept
  <1>4. "loop" \in Tasks
    BY DEF Tasks
  <1> HIDE DEF r
  <1>5. MovesAlone("loop") /\ task'["loop"] = r
    BY <1>2, <1>3, <1>4, Moves
  <1>6. QED
    BY <1>5 DEF r, Idle

LEMMA UpdateReadMoves ==
  ASSUME LspTyping, NEW p \in Paths, UpdateRead(p)
  PROVE  /\ MovesAlone("loop")
         /\ task'["loop"].todo = task["loop"].todo \ {p}
         /\ task'["loop"].step = task["loop"].step
         /\ task'["loop"].files = task["loop"].files
         /\ task'["loop"].known = task["loop"].known
         /\ task'["loop"].found = task["loop"].found
         /\ task'["loop"].clear = task["loop"].clear
         /\ task'["loop"].send = task["loop"].send
  <1> DEFINE r == [task["loop"] EXCEPT !.todo = task["loop"].todo \ {p}]
  <1>1. task["loop"] \in TaskLocals
    BY DEF LspTyping, TaskTyping, Tasks
  <1>2. r \in TaskLocals
    BY <1>1 DEF UpdateRead, TaskLocals, TaskRecord, Content, Files, LspTyping, EnvTyping, Reads
  <1>3. task' = [task EXCEPT !["loop"] = r]
    BY <1>1 DEF UpdateRead, TaskLocals, TaskRecord, Reads
  <1>4. "loop" \in Tasks
    BY DEF Tasks
  <1> HIDE DEF r
  <1>5. MovesAlone("loop") /\ task'["loop"] = r
    BY <1>2, <1>3, <1>4, Moves
  <1>6. QED
    BY <1>1, <1>5 DEF r, TaskLocals, TaskRecord

LEMMA UpdateDoneMoves ==
  ASSUME LspTyping, UpdateDone
  PROVE  /\ MovesAlone("loop")
         /\ task'["loop"].step = "publish"
         /\ task'["loop"].found = Diagnostics(indexed)
         /\ task'["loop"].todo = task["loop"].todo
         /\ task'["loop"].files = task["loop"].files
         /\ task'["loop"].known = task["loop"].known
         /\ task'["loop"].clear = task["loop"].clear
         /\ task'["loop"].send = task["loop"].send
  <1> DEFINE r == [task["loop"] EXCEPT !.step = "publish",
                              !.found = Diagnostics(indexed)]
  <1>1. task["loop"] \in TaskLocals
    BY DEF LspTyping, TaskTyping, Tasks
  <1>2. r \in TaskLocals
    BY <1>1, DiagnosticsType DEF UpdateDone, TaskLocals, TaskRecord, Content, Files, LspTyping, EnvTyping, StateTyping
  <1>3. task' = [task EXCEPT !["loop"] = r]
    BY <1>1 DEF UpdateDone, TaskLocals, TaskRecord, StateTyping
  <1>4. "loop" \in Tasks
    BY DEF Tasks
  <1> HIDE DEF r
  <1>5. MovesAlone("loop") /\ task'["loop"] = r
    BY <1>2, <1>3, <1>4, Moves
  <1>6. QED
    BY <1>1, <1>5 DEF r, TaskLocals, TaskRecord

LEMMA PublishDiffMoves ==
  ASSUME LspTyping, NEW t \in Tasks, PublishDiff(t)
  PROVE  /\ MovesAlone(t)
         /\ task'[t].step = "store"
         /\ task'[t].clear = NonEmpty(by_file) \ NonEmpty(task[t].found)
         /\ task'[t].send = NonEmpty(task[t].found) \cap Differing(t)
         /\ task'[t].todo = task[t].todo
         /\ task'[t].files = task[t].files
         /\ task'[t].known = task[t].known
         /\ task'[t].found = task[t].found
  <1> DEFINE r == [task[t] EXCEPT !.step = "store",
                         !.clear = NonEmpty(by_file) \ NonEmpty(task[t].found),
                         !.send = NonEmpty(task[t].found) \cap Differing(t)]
  <1>1. task[t] \in TaskLocals
    BY DEF LspTyping, TaskTyping, Tasks
  <1>2. r \in TaskLocals
    BY <1>1 DEF PublishDiff, TaskLocals, TaskRecord, Content, Files, LspTyping, EnvTyping, PublishDiffAs, NonEmpty, Differing
  <1>3. task' = [task EXCEPT ![t] = r]
    BY <1>1 DEF PublishDiff, TaskLocals, TaskRecord, PublishDiffAs, NonEmpty, Differing
  <1>4. t \in Tasks
    BY DEF Tasks
  <1> HIDE DEF r
  <1>5. MovesAlone(t) /\ task'[t] = r
    BY <1>2, <1>3, <1>4, Moves
  <1>6. QED
    BY <1>1, <1>5 DEF r, TaskLocals, TaskRecord

LEMMA PublishStoreMoves ==
  ASSUME LspTyping, NEW t \in Tasks, PublishStore(t)
  PROVE  /\ MovesAlone(t)
         /\ task'[t].step = "send"
         /\ task'[t].todo = task[t].todo
         /\ task'[t].files = task[t].files
         /\ task'[t].known = task[t].known
         /\ task'[t].found = task[t].found
         /\ task'[t].clear = task[t].clear
         /\ task'[t].send = task[t].send
  <1> DEFINE r == [task[t] EXCEPT !.step = "send"]
  <1>1. task[t] \in TaskLocals
    BY DEF LspTyping, TaskTyping, Tasks
  <1>2. r \in TaskLocals
    BY <1>1 DEF PublishStore, PublishStoreAs, TaskLocals, TaskRecord, Content, Files, LspTyping, EnvTyping
  <1>3. task' = [task EXCEPT ![t] = r]
    BY <1>1 DEF PublishStore, PublishStoreAs, TaskLocals, TaskRecord
  <1>4. t \in Tasks
    BY DEF Tasks
  <1> HIDE DEF r
  <1>5. MovesAlone(t) /\ task'[t] = r
    BY <1>2, <1>3, <1>4, Moves
  <1>6. QED
    BY <1>1, <1>5 DEF r, TaskLocals, TaskRecord

LEMMA SendClearMoves ==
  ASSUME LspTyping, NEW t \in Tasks, NEW p \in Paths, SendClear(t, p)
  PROVE  /\ MovesAlone(t)
         /\ task'[t].clear = task[t].clear \ {p}
         /\ task'[t].step = task[t].step
         /\ task'[t].todo = task[t].todo
         /\ task'[t].files = task[t].files
         /\ task'[t].known = task[t].known
         /\ task'[t].found = task[t].found
         /\ task'[t].send = task[t].send
  <1> DEFINE r == [task[t] EXCEPT !.clear = task[t].clear \ {p}]
  <1>1. task[t] \in TaskLocals
    BY DEF LspTyping, TaskTyping, Tasks
  <1>2. r \in TaskLocals
    BY <1>1 DEF SendClear, TaskLocals, TaskRecord, Content, Files, LspTyping, EnvTyping
  <1>3. task' = [task EXCEPT ![t] = r]
    BY <1>1 DEF SendClear, TaskLocals, TaskRecord
  <1>4. t \in Tasks
    BY DEF Tasks
  <1> HIDE DEF r
  <1>5. MovesAlone(t) /\ task'[t] = r
    BY <1>2, <1>3, <1>4, Moves
  <1>6. QED
    BY <1>1, <1>5 DEF r, TaskLocals, TaskRecord

LEMMA SendPublishMoves ==
  ASSUME LspTyping, NEW t \in Tasks, NEW p \in Paths, SendPublish(t, p)
  PROVE  /\ MovesAlone(t)
         /\ task'[t].send = task[t].send \ {p}
         /\ task'[t].step = task[t].step
         /\ task'[t].todo = task[t].todo
         /\ task'[t].files = task[t].files
         /\ task'[t].known = task[t].known
         /\ task'[t].found = task[t].found
         /\ task'[t].clear = task[t].clear
  <1> DEFINE r == [task[t] EXCEPT !.send = task[t].send \ {p}]
  <1>1. task[t] \in TaskLocals
    BY DEF LspTyping, TaskTyping, Tasks
  <1>2. r \in TaskLocals
    BY <1>1 DEF SendPublish, TaskLocals, TaskRecord, Content, Files, LspTyping, EnvTyping
  <1>3. task' = [task EXCEPT ![t] = r]
    BY <1>1 DEF SendPublish, TaskLocals, TaskRecord
  <1>4. t \in Tasks
    BY DEF Tasks
  <1> HIDE DEF r
  <1>5. MovesAlone(t) /\ task'[t] = r
    BY <1>2, <1>3, <1>4, Moves
  <1>6. QED
    BY <1>1, <1>5 DEF r, TaskLocals, TaskRecord

LEMMA PublishDoneMoves ==
  ASSUME LspTyping, NEW t \in Tasks, PublishDone(t)
  PROVE  /\ MovesAlone(t)
         /\ task'[t] = Idle
  <1> DEFINE r == Idle
  <1>1. task[t] \in TaskLocals
    BY DEF LspTyping, TaskTyping, Tasks
  <1>2. r \in TaskLocals
    BY <1>1, IdleType DEF PublishDone, TaskLocals, TaskRecord, Content, Files, LspTyping, EnvTyping, Idle
  <1>3. task' = [task EXCEPT ![t] = r]
    BY <1>1 DEF PublishDone, TaskLocals, TaskRecord
  <1>4. t \in Tasks
    BY DEF Tasks
  <1> HIDE DEF r
  <1>5. MovesAlone(t) /\ task'[t] = r
    BY <1>2, <1>3, <1>4, Moves
  <1>6. QED
    BY <1>5 DEF r

(* A step of publishing or of an incremental round moves its task alone.   *)
LEMMA PublishAlone ==
  ASSUME LspTyping, NEW t \in Tasks, Publish(t)
  PROVE  MovesAlone(t)
  BY ScanWalkMoves, ScanReadMoves, ScanStoreMoves, SeedReadMoves, SeedStoreMoves,
     PublishDiffMoves, PublishStoreMoves, SendClearMoves, SendPublishMoves, PublishDoneMoves
  DEF Publish

LEMMA RoundAlone ==
  ASSUME LspTyping, IncrementalRound
  PROVE  MovesAlone("loop")
  BY FilterStartMoves, FilterReadMoves, FilterStoreMoves, UpdateReadMoves, UpdateDoneMoves
  DEF IncrementalRound

(* A step of publishing leaves the workspace alone, and changes the engine,*)
(* the hashes, the cache, the history and the protocol only where it says  *)
(* so.                                                                     *)
PublishKeeps(t) ==
  /\ UNCHANGED <<envVars, opener, slipped>>
  /\ UNCHANGED indexed \/ ScanStore(t)
  /\ UNCHANGED hashes \/ SeedStore(t)
  /\ UNCHANGED by_file \/ PublishStore(t)
  /\ UNCHANGED loopVars \/ (t = "init" /\ ScanStore(t)) \/ PublishDone(t)
  /\ UNCHANGED late \/ ScanStore(t) \/ PublishStore(t)
  /\ UNCHANGED <<editor, overtaken>> \/ PublishStore(t)
       \/ \E p \in Paths : SendClear(t, p) \/ SendPublish(t, p)
  /\ task[t].step \in {"scan", "seed", "publish", "store", "send"} \/ ScanWalk(t)

LEMMA PublishFrame ==
  ASSUME NEW t \in Tasks, Publish(t)
  PROVE  PublishKeeps(t)
  <1>1. ScanWalk(t) => PublishKeeps(t)
    BY DEF ScanWalk, Local, stateVars, history, PublishKeeps
  <1>2. ScanStore(t) => PublishKeeps(t)
    BY DEF ScanStore, PublishKeeps
  <1>3. SeedStore(t) => PublishKeeps(t)
    BY DEF SeedStore, history, PublishKeeps
  <1>4. PublishDiff(t) => PublishKeeps(t)
    BY DEF PublishDiff, PublishDiffAs, Local, stateVars, history, PublishKeeps
  <1>5. PublishStore(t) => PublishKeeps(t)
    <2>1. PublishStore(t) => /\ UNCHANGED <<loopVars, envVars, opener, slipped, indexed, hashes>>
                             /\ task[t].step = "store"
      BY DEF PublishStore, PublishStoreAs
    <2>2. QED
      BY <2>1 DEF PublishKeeps
  <1>6. PublishDone(t) => PublishKeeps(t)
    BY DEF PublishDone, stateVars, history, PublishKeeps
  <1>7. ASSUME NEW p \in Paths PROVE ScanRead(t, p) \/ SeedRead(t, p) => PublishKeeps(t)
    BY DEF ScanRead, SeedRead, Reads, Local, stateVars, history, PublishKeeps
  <1>8. ASSUME NEW p \in Paths PROVE SendClear(t, p) \/ SendPublish(t, p) => PublishKeeps(t)
    <2>1. SendClear(t, p) \/ SendPublish(t, p) =>
            /\ UNCHANGED <<loopVars, envVars, opener, slipped, late, indexed, hashes, by_file>>
            /\ task[t].step = "send"
      BY DEF SendClear, SendPublish, Send
    <2>2. QED
      BY <2>1 DEF PublishKeeps
  <1>9. QED
    BY <1>1, <1>2, <1>3, <1>4, <1>5, <1>6, <1>7, <1>8 DEF Publish

(* So does a step of an incremental round.                                 *)
RoundKeeps ==
  /\ UNCHANGED <<envVars, by_file, editor, opener, overtaken>>
  /\ UNCHANGED indexed \/ \E p \in Paths : UpdateRead(p)
  /\ UNCHANGED hashes \/ FilterStore
  /\ UNCHANGED slipped \/ \E p \in Paths : FilterRead(p)
  /\ UNCHANGED late \/ \E p \in Paths : UpdateRead(p)
  /\ UNCHANGED loopVars \/ (FilterStore /\ LoopApplied)
  /\ task["loop"].step # "idle" \/ loop = "apply"

LEMMA RoundFrame ==
  ASSUME IncrementalRound
  PROVE  RoundKeeps
  <1>1. FilterStart => RoundKeeps
    BY DEF FilterStart, Local, stateVars, history, RoundKeeps
  <1>2. FilterStore => RoundKeeps
    BY DEF FilterStore, history, RoundKeeps
  <1>3. UpdateDone => RoundKeeps
    BY DEF UpdateDone, Local, stateVars, history, RoundKeeps
  <1>4. ASSUME NEW p \in Paths PROVE FilterRead(p) => RoundKeeps
    <2>1. FilterRead(p) => /\ UNCHANGED <<loopVars, envVars, stateVars, opener, overtaken, late>>
                           /\ task["loop"].step = "filter"
      BY DEF FilterRead, FilterReadIf, Reads
    <2>2. QED
      BY <2>1 DEF stateVars, RoundKeeps
  <1>5. ASSUME NEW p \in Paths PROVE UpdateRead(p) => RoundKeeps
    <2>1. UpdateRead(p) =>
            /\ UNCHANGED <<loopVars, envVars, hashes, by_file, editor, opener, overtaken, slipped>>
            /\ task["loop"].step = "update"
      BY DEF UpdateRead, Reads
    <2>2. QED
      BY <2>1 DEF RoundKeeps
  <1>6. QED
    BY <1>1, <1>2, <1>3, <1>4, <1>5 DEF IncrementalRound

-----------------------------------------------------------------------------
(* The wake-up protocol inside the server.                                 *)

(* Every step of the server is one of the rescan loop's or leaves the      *)
(* variables of the protocol alone.                                        *)
LEMMA LspStepIsLoopStep == [LspNext]_lspVars => [LoopNext]_loopVars
  <1> SUFFICES ASSUME [LspNext]_lspVars
               PROVE  [LoopNext]_loopVars
    OBVIOUS
  <1>1. CASE Coordinate
    BY <1>1 DEF Coordinate, LoopNext, InitTask, LoopTask
  <1>2. ASSUME NEW t \in Tasks, Publish(t)
        PROVE  [LoopNext]_loopVars
    <2>1. CASE ScanStore(t)
      BY <2>1 DEF ScanStore, LoopNext, InitTask
    <2>2. CASE PublishDone(t)
      BY <2>2 DEF PublishDone, LoopNext, InitTask, LoopTask
    <2>3. CASE UNCHANGED loopVars
      BY <2>3
    <2>4. QED
      BY <1>2, <2>1, <2>2, <2>3
      DEF Publish, ScanWalk, SeedStore, PublishDiff, PublishDiffAs, PublishStore,
          PublishStoreAs, ScanRead, SeedRead, SendClear, SendPublish, Send, Local
  <1>3. CASE IncrementalRound
    <2>1. CASE FilterStore
      BY <2>1 DEF FilterStore, LoopNext, LoopTask
    <2>2. CASE UNCHANGED loopVars
      BY <2>2
    <2>3. QED
      BY <1>3, <2>1, <2>2
      DEF IncrementalRound, FilterStart, FilterRead, FilterReadIf, UpdateRead, UpdateDone,
          Local
  <1>4. ASSUME NEW h \in Handlers, Deliver(h)
        PROVE  [LoopNext]_loopVars
    <2>1. PICK S \in SUBSET Paths : Notice(h, S)
      BY <1>4 DEF Deliver
    <2>2. Enqueue(h, S)
      BY <2>1 DEF Notice
    <2>3. QED
      BY <2>2 DEF LoopNext
  <1>5. ASSUME NEW h \in Handlers, Ring(h)
        PROVE  [LoopNext]_loopVars
    BY <1>5 DEF Ring, LoopNext
  <1>6. ASSUME NEW h \in Handlers, NEW p \in Paths, NEW c \in Content, Edit(h, p, c)
        PROVE  [LoopNext]_loopVars
    BY <1>6 DEF Edit
  <1>7. ASSUME NEW o \in Openers, OpenSend(o) \/ \E p \in Paths : OpenRead(o, p)
        PROVE  [LoopNext]_loopVars
    BY <1>7 DEF OpenSend, OpenRead
  <1>8. CASE UNCHANGED lspVars
    BY <1>8 DEF lspVars
  <1>9. QED
    BY <1>1, <1>2, <1>3, <1>4, <1>5, <1>6, <1>7, <1>8, LspAssumption DEF LspNext, Content

(***************************************************************************)
(* The language server keeps to the wake-up protocol, whatever its tasks   *)
(* read, store and send in between.                                        *)
(***************************************************************************)
THEOREM ServerImplementsLoop == LspSpec => LoopSpec
  <1>1. LspInit => LoopInit
    BY DEF LspInit
  <1>2. QED
    BY <1>1, LspStepIsLoopStep, PTL DEF LspSpec, LoopSpec

(* No path the server was told of is left pending without a ring.          *)
THEOREM ServerLosesNoWakeup == LspSpec => []NoLostWakeup
  BY ServerImplementsLoop, NoWakeupIsLost, PTL

-----------------------------------------------------------------------------
(* Type correctness.                                                       *)

(* The local variables of the tasks.                                       *)
LEMMA TaskTypingStep == LspTyping /\ [LspNext]_lspVars => TaskTyping'
  <1> SUFFICES ASSUME LspTyping, [LspNext]_lspVars
               PROVE  TaskTyping'
    OBVIOUS
  <1>1. ASSUME NEW t \in Tasks, Publish(t)
        PROVE  TaskTyping'
    BY <1>1, PublishAlone DEF MovesAlone
  <1>2. CASE IncrementalRound
    BY <1>2, RoundAlone DEF MovesAlone
  <1>3. CASE UNCHANGED task
    BY <1>3 DEF LspTyping, TaskTyping
  <1>4. QED
    BY <1>1, <1>2, <1>3
    DEF LspNext, lspVars, Coordinate, Edit, Deliver, Notice, Ring, OpenRead, OpenSend

(* The workspace and the notifications.                                    *)
LEMMA EnvTypingStep == LspTyping /\ [LspNext]_lspVars => EnvTyping'
  <1> SUFFICES ASSUME LspTyping, [LspNext]_lspVars
               PROVE  EnvTyping'
    OBVIOUS
  <1>1. ASSUME NEW h \in Handlers, NEW p \in Paths, NEW c \in Content, Edit(h, p, c)
        PROVE  EnvTyping'
    <2>1. disk' \in Files
      BY <1>1 DEF Edit, LspTyping, EnvTyping, Files, Content
    <2>2. UNCHANGED incremental
      BY <1>1 DEF Edit
    <2>3. edits' \in 0..MaxEdits
      BY <1>1, LspAssumption DEF Edit, LspTyping, EnvTyping
    <2>4. unsent' \in [Handlers -> SUBSET Paths]
      BY <1>1 DEF Edit, LspTyping, EnvTyping
    <2>5. QED
      BY <2>1, <2>2, <2>3, <2>4 DEF LspTyping, EnvTyping
  <1>2. ASSUME NEW h \in Handlers, Deliver(h)
        PROVE  EnvTyping'
    <2>1. PICK S \in SUBSET Paths : Notice(h, S)
      BY <1>2 DEF Deliver
    <2>2. unsent' \in [Handlers -> SUBSET Paths]
      BY <2>1 DEF Notice, LspTyping, EnvTyping
    <2>3. UNCHANGED <<incremental, disk, edits>>
      BY <2>1 DEF Notice
    <2>4. QED
      BY <2>2, <2>3 DEF LspTyping, EnvTyping
  <1>3. CASE UNCHANGED envVars
    BY <1>3 DEF envVars, LspTyping, EnvTyping
  <1>4. QED
    BY <1>1, <1>2, <1>3, PublishFrame, RoundFrame
    DEF LspNext, lspVars, Coordinate, Ring, OpenRead, OpenSend, Content, PublishKeeps, RoundKeeps

(* The engine, the shared State and the editor.                            *)
LEMMA StateTypingStep == LspTyping /\ [LspNext]_lspVars => StateTyping'
  <1> SUFFICES ASSUME LspTyping, [LspNext]_lspVars
               PROVE  StateTyping'
    OBVIOUS
  <1> USE DEF LspTyping, StateTyping
  <1>0. \A t \in Tasks : task[t] \in TaskLocals
    BY DEF TaskTyping
  <1>1. ASSUME NEW t \in Tasks, Publish(t)
        PROVE  StateTyping'
    <2> USE <1>0
    <2>1. CASE ScanStore(t)
      BY <2>1 DEF ScanStore, TaskLocals
    <2>2. CASE SeedStore(t)
      BY <2>2 DEF SeedStore, Files
    <2>3. CASE PublishStore(t)
      BY <2>3 DEF PublishStore, PublishStoreAs, TaskLocals, TaskRecord
    <2>4. ASSUME NEW p \in Paths, SendClear(t, p)
          PROVE  StateTyping'
      BY <2>4 DEF SendClear, Send, DiagLists, Anchored
    <2>5. ASSUME NEW p \in Paths, SendPublish(t, p)
          PROVE  StateTyping'
      BY <2>5 DEF SendPublish, Send, TaskLocals, TaskRecord, Anchored
    <2>6. CASE UNCHANGED stateVars
      BY <2>6 DEF stateVars
    <2>7. QED
      BY <1>1, <2>1, <2>2, <2>3, <2>4, <2>5, <2>6
      DEF Publish, Local, ScanWalk, ScanRead, SeedRead, PublishDiff, PublishDiffAs,
          PublishDone
  <1>2. CASE FilterStore
    <2>1. \A p \in Kept : task["loop"].files[p] \in Content
      BY <1>0 DEF Kept, TaskLocals, TaskRecord, Tasks
    <2>2. QED
      BY <1>2, <2>1 DEF FilterStore, Files, Content
  <1>3. ASSUME NEW p \in Paths, UpdateRead(p)
        PROVE  StateTyping'
    BY <1>3 DEF UpdateRead, EnvTyping, Files
  <1>4. ASSUME NEW o \in Openers, OpenSend(o)
        PROVE  StateTyping'
    <2>1. /\ opener[o].path \in Paths
          /\ opener[o].diags \in DiagLists
          /\ opener[o].diags \subseteq [partner : Paths \ {opener[o].path}, of : Contents]
      BY <1>4 DEF OpenSend, OpenerTyping
    <2>2. QED
      BY <1>4, <2>1 DEF OpenSend, Anchored
  <1>5. CASE UNCHANGED stateVars
    BY <1>5 DEF stateVars
  <1>6. QED
    BY <1>1, <1>2, <1>3, <1>4, <1>5
    DEF LspNext, lspVars, Coordinate, Edit, Deliver, Notice, Ring, OpenRead, Local,
        IncrementalRound, FilterStart, FilterRead, FilterReadIf, UpdateDone

(* The tasks of didOpen.                                                   *)
LEMMA OpenerTypingStep == LspTyping /\ [LspNext]_lspVars => OpenerTyping'
  <1> SUFFICES ASSUME LspTyping, [LspNext]_lspVars
               PROVE  OpenerTyping'
    OBVIOUS
  <1> USE DEF LspTyping, OpenerTyping
  <1>1. ASSUME NEW o \in Openers, NEW p \in Paths, OpenRead(o, p)
        PROVE  OpenerTyping'
    BY <1>1 DEF OpenRead, StateTyping, Anchored
  <1>2. ASSUME NEW o \in Openers, OpenSend(o)
        PROVE  OpenerTyping'
    BY <1>2 DEF OpenSend, Waiting, DiagLists
  <1>3. CASE UNCHANGED opener
    BY <1>3
  <1>4. QED
    BY <1>1, <1>2, <1>3, PublishFrame, RoundFrame, LspAssumption
    DEF LspNext, lspVars, Coordinate, Edit, Deliver, Notice, Ring, PublishKeeps, RoundKeeps

(* What the history variables remember is of files of the workspace.       *)
LEMMA HistoryTypingStep == LspTyping /\ [LspNext]_lspVars => HistoryTyping'
  <1> SUFFICES ASSUME LspTyping, [LspNext]_lspVars
               PROVE  HistoryTyping'
    OBVIOUS
  <1> USE DEF LspTyping, HistoryTyping
  <1>1. ASSUME NEW h \in Handlers, NEW p \in Paths, NEW c \in Content, Edit(h, p, c)
        PROVE  HistoryTyping'
    BY <1>1 DEF Edit
  <1>2. ASSUME NEW t \in Tasks, Publish(t)
        PROVE  HistoryTyping'
    <2>1. CASE PublishStore(t)
      BY <2>1 DEF PublishStore, PublishStoreAs, envVars
    <2>2. CASE ScanStore(t)
      BY <2>2 DEF ScanStore, envVars
    <2>3. CASE \E p \in Paths : SendClear(t, p) \/ SendPublish(t, p)
      BY <2>3 DEF SendClear, SendPublish, Send, envVars
    <2>4. QED
      BY <1>2, <2>1, <2>2, <2>3, PublishFrame DEF PublishKeeps, envVars
  <1>3. CASE IncrementalRound
    <2>1. CASE \E p \in Paths : FilterRead(p)
      BY <2>1 DEF FilterRead, FilterReadIf, envVars
    <2>2. CASE \E p \in Paths : UpdateRead(p)
      BY <2>2 DEF UpdateRead, envVars
    <2>3. QED
      BY <1>3, <2>1, <2>2, RoundFrame DEF RoundKeeps, envVars
  <1>4. CASE UNCHANGED <<incremental, history>>
    BY <1>4 DEF history
  <1>5. QED
    BY <1>1, <1>2, <1>3, <1>4
    DEF LspNext, lspVars, envVars, Content, Coordinate, Deliver, Notice, Ring, OpenRead, OpenSend

LEMMA TypingStep == LspTyping /\ [LspNext]_lspVars => LspTyping'
  BY LspStepIsLoopStep, LoopStepIInv, EnvTypingStep, StateTypingStep, TaskTypingStep,
     OpenerTypingStep, HistoryTypingStep
  DEF LspTyping

-----------------------------------------------------------------------------
(* The order of the tasks.                                                 *)

(* The local variables of a task stay those of its step.                   *)
LEMMA LocalStep ==
  LspTyping /\ TasksInTurn /\ [LspNext]_lspVars => \A t \in Tasks : LocalInTurn(task[t])'
  <1> SUFFICES ASSUME LspTyping, TasksInTurn, [LspNext]_lspVars
               PROVE  \A t \in Tasks : LocalInTurn(task[t])'
    OBVIOUS
  <1>0. \A t \in Tasks : task[t] \in TaskRecord /\ LocalInTurn(task[t])
    BY DEF LspTyping, TaskTyping, TaskLocals, TasksInTurn
  <1>1. ASSUME NEW u \in Tasks, LocalInTurn(task'[u]),
               \A t \in Tasks : t # u => task'[t] = task[t]
        PROVE  \A t \in Tasks : LocalInTurn(task[t])'
    BY <1>0, <1>1
  <1>2. LocalInTurn(Idle)
    BY DEF Idle, LocalInTurn
  <1>3. ASSUME NEW t \in Tasks, Publish(t)
        PROVE  \A u \in Tasks : LocalInTurn(task[u])'
    <2>0. \A u \in Tasks : u # t => task'[u] = task[u]
      BY <1>3, PublishAlone DEF MovesAlone
    <2>1. ASSUME ScanWalk(t) PROVE LocalInTurn(task'[t])
      BY <2>1, <1>0, ScanWalkMoves DEF ScanWalk, Idle, LocalInTurn
    <2>2. ASSUME NEW p \in Paths, ScanRead(t, p)
          PROVE  LocalInTurn(task'[t])
      BY <2>2, <1>0, ScanReadMoves DEF ScanRead, Reads, LocalInTurn
    <2>3. ASSUME ScanStore(t) PROVE LocalInTurn(task'[t])
      BY <2>3, <1>0, ScanStoreMoves DEF ScanStore, LocalInTurn
    <2>4. ASSUME NEW p \in Paths, SeedRead(t, p)
          PROVE  LocalInTurn(task'[t])
      BY <2>4, <1>0, SeedReadMoves DEF SeedRead, Reads, LocalInTurn
    <2>5. ASSUME SeedStore(t) PROVE LocalInTurn(task'[t])
      BY <2>5, <1>0, SeedStoreMoves DEF SeedStore, LocalInTurn
    <2>6. ASSUME PublishDiff(t) PROVE LocalInTurn(task'[t])
      BY <2>6, <1>0, PublishDiffMoves DEF NonEmpty, LocalInTurn
    <2>7. ASSUME PublishStore(t) PROVE LocalInTurn(task'[t])
      BY <2>7, <1>0, PublishStoreMoves DEF PublishStore, PublishStoreAs, LocalInTurn
    <2>8. ASSUME NEW p \in Paths, SendClear(t, p)
          PROVE  LocalInTurn(task'[t])
      BY <2>8, <1>0, SendClearMoves DEF SendClear, LocalInTurn
    <2>9. ASSUME NEW p \in Paths, SendPublish(t, p)
          PROVE  LocalInTurn(task'[t])
      BY <2>9, <1>0, SendPublishMoves DEF SendPublish, LocalInTurn
    <2>10. ASSUME PublishDone(t) PROVE LocalInTurn(task'[t])
      BY <2>10, <1>2, PublishDoneMoves DEF MovesAlone
    <2>11. LocalInTurn(task'[t])
      BY <1>3, <2>1, <2>2, <2>3, <2>4, <2>5, <2>6, <2>7, <2>8, <2>9, <2>10 DEF Publish
    <2>12. QED
      BY <1>1, <2>0, <2>11
  <1>4. CASE IncrementalRound
    <2>0. "loop" \in Tasks /\ \A u \in Tasks : u # "loop" => task'[u] = task[u]
      BY <1>4, RoundAlone DEF MovesAlone, Tasks
    <2>1. ASSUME FilterStart PROVE LocalInTurn(task'["loop"])
      BY <2>1, <1>0, <2>0, FilterStartMoves DEF FilterStart, Idle, LocalInTurn
    <2>2. ASSUME NEW p \in Paths, FilterRead(p)
          PROVE  LocalInTurn(task'["loop"])
      BY <2>2, <1>0, <2>0, FilterReadMoves DEF FilterRead, FilterReadIf, Reads, LocalInTurn
    <2>3. ASSUME FilterStore PROVE LocalInTurn(task'["loop"])
      BY <2>3, <1>2, FilterStoreMoves DEF LocalInTurn
    <2>4. ASSUME NEW p \in Paths, UpdateRead(p)
          PROVE  LocalInTurn(task'["loop"])
      BY <2>4, <1>0, <2>0, UpdateReadMoves DEF UpdateRead, Reads, LocalInTurn
    <2>5. ASSUME UpdateDone PROVE LocalInTurn(task'["loop"])
      BY <2>5, <1>0, <2>0, UpdateDoneMoves DEF UpdateDone, LocalInTurn
    <2>6. LocalInTurn(task'["loop"])
      BY <1>4, <2>1, <2>2, <2>3, <2>4, <2>5 DEF IncrementalRound
    <2>7. QED
      BY <1>1, <2>0, <2>6
  <1>5. CASE UNCHANGED task
    BY <1>0, <1>5
  <1>6. QED
    BY <1>3, <1>4, <1>5
    DEF LspNext, lspVars, Coordinate, Edit, Deliver, Notice, Ring, OpenRead, OpenSend

(* Where the tasks stand follows where the protocol stands.                *)
LEMMA StepsStep == LspTyping /\ TasksInTurn /\ [LspNext]_lspVars => StepsInTurn'
  <1> SUFFICES ASSUME LspTyping, TasksInTurn, [LspNext]_lspVars
               PROVE  StepsInTurn'
    OBVIOUS
  <1>0. /\ StepsInTurn
        /\ loop \in {"drain", "apply"} => engine = "ready"
        /\ init \in InitStates
        /\ Tasks = {"init", "loop"}
    BY DEF LspTyping, LoopIInv, DrainsReadyEngine, LoopTypeOK, TasksInTurn, Tasks
  <1> USE <1>0 DEF StepsInTurn
  <1>1. CASE Coordinate
    <2>1. UNCHANGED <<incremental, task>>
      BY <1>1 DEF Coordinate, envVars
    <2>2. CASE InitSpawn
      BY <2>1, <2>2 DEF InitSpawn
    <2>3. CASE InitNotify
      BY <2>1, <2>3 DEF InitNotify, NotifyOne
    <2>4. CASE LoopAwait \/ LoopDebounce \/ LoopCheck \/ LoopDrain
      BY <2>1, <2>4 DEF LoopAwait, LoopDebounce, LoopCheck, LoopDrain
    <2>5. QED
      BY <1>1, <2>2, <2>3, <2>4 DEF Coordinate
  <1>2. ASSUME NEW h \in Handlers,
               Deliver(h) \/ Ring(h) \/ \E p \in Paths, c \in Content : Edit(h, p, c)
        PROVE  StepsInTurn'
    BY <1>2 DEF Deliver, Notice, Ring, Edit, Enqueue, EnqueueNotify, NotifyOne, loopVars, envVars
  <1>3. ASSUME NEW o \in Openers, OpenSend(o) \/ \E p \in Paths : OpenRead(o, p)
        PROVE  StepsInTurn'
    BY <1>3 DEF OpenSend, OpenRead, loopVars, envVars
  <1>4. ASSUME NEW t \in Tasks, Publish(t)
        PROVE  StepsInTurn'
    <2> USE DEF MovesAlone, Local, loopVars, envVars
    <2>1. CASE ScanWalk(t)
      BY <2>1, ScanWalkMoves DEF ScanWalk
    <2>2. ASSUME NEW p \in Paths, ScanRead(t, p)
          PROVE  StepsInTurn'
      BY <2>2, ScanReadMoves, ZenonT(60) DEF ScanRead
    <2>3. CASE ScanStore(t)
      BY <2>3, ScanStoreMoves, ZenonT(60) DEF ScanStore, InitStoreEngine
    <2>4. ASSUME NEW p \in Paths, SeedRead(t, p)
          PROVE  StepsInTurn'
      BY <2>4, SeedReadMoves, ZenonT(60) DEF SeedRead
    <2>5. CASE SeedStore(t)
      BY <2>5, SeedStoreMoves DEF SeedStore
    <2>6. CASE PublishDiff(t)
      BY <2>6, PublishDiffMoves DEF PublishDiff, PublishDiffAs
    <2>7. CASE PublishStore(t)
      BY <2>7, PublishStoreMoves DEF PublishStore, PublishStoreAs
    <2>8. ASSUME NEW p \in Paths, SendClear(t, p)
          PROVE  StepsInTurn'
      BY <2>8, SendClearMoves DEF SendClear, Send
    <2>9. ASSUME NEW p \in Paths, SendPublish(t, p)
          PROVE  StepsInTurn'
      BY <2>9, SendPublishMoves DEF SendPublish, Send
    <2>10. CASE PublishDone(t)
      <3>0. UNCHANGED incremental
        BY <2>10 DEF PublishDone
      <3>1. task'[t].step = "idle" /\ \A u \in Tasks : u # t => task'[u] = task[u]
        BY <2>10, PublishDoneMoves DEF Idle
      <3>2. CASE t = "init"
        BY <2>10, <3>0, <3>1, <3>2 DEF PublishDone, InitPublished
      <3>3. CASE t = "loop"
        BY <2>10, <3>0, <3>1, <3>3 DEF PublishDone, LoopApplied
      <3>4. QED
        BY <3>2, <3>3
    <2>11. QED
      BY <1>4, <2>1, <2>2, <2>3, <2>4, <2>5, <2>6, <2>7, <2>8, <2>9, <2>10 DEF Publish
  <1>5. CASE IncrementalRound
    <2> USE DEF MovesAlone, Local, loopVars, envVars
    <2>1. CASE FilterStart
      BY <2>1, FilterStartMoves DEF FilterStart
    <2>2. ASSUME NEW p \in Paths, FilterRead(p)
          PROVE  StepsInTurn'
      BY <2>2, FilterReadMoves DEF FilterRead, FilterReadIf
    <2>3. CASE FilterStore
      <3>1. UNCHANGED <<init, engine, incremental>> /\ (Kept # {} => loop' = loop)
        BY <2>3 DEF FilterStore, LoopApplied
      <3>2. task'["loop"].step \in {"idle", "update"} /\ (Kept = {} => task'["loop"].step = "idle")
        BY <2>3, FilterStoreMoves DEF Idle
      <3>3. task["loop"].step = "filter" /\ task'["init"] = task["init"]
        BY <2>3, FilterStoreMoves DEF FilterStore
      <3>4. QED
        BY <3>1, <3>2, <3>3
    <2>4. ASSUME NEW p \in Paths, UpdateRead(p)
          PROVE  StepsInTurn'
      BY <2>4, UpdateReadMoves DEF UpdateRead
    <2>5. CASE UpdateDone
      BY <2>5, UpdateDoneMoves DEF UpdateDone
    <2>6. QED
      BY <1>5, <2>1, <2>2, <2>3, <2>4, <2>5 DEF IncrementalRound
  <1>6. CASE UNCHANGED lspVars
    BY <1>6 DEF lspVars, loopVars, envVars
  <1>7. QED
    BY <1>1, <1>2, <1>3, <1>4, <1>5, <1>6, LspAssumption DEF LspNext, Content

(* The first round has not published before the engine is stored, and no   *)
(* other round has begun.                                                  *)
LEMMA EmptyStep == LspTyping /\ TasksInTurn /\ [LspNext]_lspVars => EmptyAtFirst'
  <1> SUFFICES ASSUME LspTyping, TasksInTurn, [LspNext]_lspVars,
                      init' \in {"start", "scan"}
               PROVE  /\ indexed' = [p \in Paths |-> Absent]
                      /\ hashes' = [p \in Paths |-> Absent]
                      /\ by_file' = [p \in Paths |-> {}]
    BY DEF EmptyAtFirst
  <1>1. init \in {"start", "scan"}
    <2>1. [LoopNext]_loopVars
      BY LspStepIsLoopStep
    <2>2. QED
      BY <2>1
      DEF LoopNext, loopVars, InitTask, InitSpawn, InitStoreEngine, InitGivesUp,
          InitPublished, InitNotify, LoopTask, LoopAwait, LoopDebounce, LoopCheck,
          LoopDrain, LoopApplied, LoopUpdatePanics, Enqueue, EnqueueNotify
  <1>2. \A t \in Tasks : task[t].step \in {"idle", "scan"}
    <2>1. engine = "none" /\ loop # "apply"
      BY <1>1 DEF TasksInTurn, StepsInTurn, LspTyping, LoopIInv, DrainsReadyEngine
    <2>2. QED
      BY <1>1, <2>1 DEF TasksInTurn, StepsInTurn, Tasks
  <1>3. task["loop"].step = "idle"
    BY <1>1 DEF TasksInTurn, StepsInTurn, LspTyping, LoopIInv, DrainsReadyEngine
  <1>4. ASSUME NEW t \in Tasks PROVE ~ScanStore(t)
    BY <1>1, <1>3 DEF ScanStore, InitStoreEngine, Tasks
  <1>5. UNCHANGED <<indexed, hashes, by_file>>
    <2>1. ASSUME NEW t \in Tasks, Publish(t)
          PROVE  UNCHANGED <<indexed, hashes, by_file>>
      BY <1>2, <1>4, <2>1, PublishFrame DEF SeedStore, PublishStore, PublishStoreAs, PublishKeeps
    <2>2. CASE IncrementalRound
      BY <1>3, <2>2, RoundFrame DEF FilterStore, UpdateRead, Reads, RoundKeeps
    <2>3. CASE UNCHANGED stateVars
      BY <2>3 DEF stateVars
    <2>4. QED
      BY <2>1, <2>2, <2>3
      DEF LspNext, lspVars, stateVars, Coordinate, Edit, Deliver, Notice, Ring, OpenRead,
          OpenSend
  <1>6. QED
    BY <1>1, <1>5 DEF TasksInTurn, EmptyAtFirst

LEMMA TurnStep == LspTyping /\ TasksInTurn /\ [LspNext]_lspVars => TasksInTurn'
  BY LocalStep, StepsStep, EmptyStep DEF TasksInTurn

-----------------------------------------------------------------------------
(* What the editor shows.                                                  *)

(* The steps of a round leave what its task has to send alone.             *)
LEMMA RoundSendsNothing ==
  ASSUME LspTyping, IncrementalRound
  PROVE  /\ task["loop"].step \notin {"publish", "store", "send"}
         /\ task'["loop"].step \notin {"store", "send"}
  <1>1. CASE FilterStore
    BY <1>1, FilterStoreMoves DEF FilterStore, Idle
  <1>2. CASE FilterStart
    BY <1>2, FilterStartMoves DEF FilterStart
  <1>3. CASE UpdateDone
    BY <1>3, UpdateDoneMoves DEF UpdateDone
  <1>4. CASE \E p \in Paths : FilterRead(p)
    BY <1>4, FilterReadMoves DEF FilterRead, FilterReadIf, Reads
  <1>5. CASE \E p \in Paths : UpdateRead(p)
    BY <1>5, UpdateReadMoves DEF UpdateRead, Reads
  <1>6. QED
    BY <1>1, <1>2, <1>3, <1>4, <1>5 DEF IncrementalRound

(* A step of task t keeps a file right if it leaves its lists alone, or    *)
(* sends the list of State.                                                *)
LEMMA ShownBeside ==
  ASSUME NEW p \in Paths, NEW t \in Tasks, ShownOf(p), MovesAlone(t), UNCHANGED opener,
         by_file'[p] = by_file[p], HoldsDifference(t, p)',
         \/ editor'[p] = by_file'[p]
         \/ editor'[p] = editor[p] /\ (SendsLater(t, p) => SendsLater(t, p)')
  PROVE  ShownOf(p)'
  <1>1. \A u \in Tasks : u # t => task'[u] = task[u]
    BY DEF MovesAlone
  <1>2. \A u \in Tasks : HoldsDifference(u, p)'
    BY <1>1 DEF ShownOf, HoldsDifference
  <1>3. \A o \in Openers : HoldsCopy(o, p)'
    BY DEF ShownOf, HoldsCopy
  <1>4. editor'[p] # by_file'[p] => StillSent(p)'
    BY <1>1 DEF ShownOf, StillSent, SendsLater
  <1>5. QED
    BY <1>2, <1>3, <1>4 DEF ShownOf

(* So does one beside which nobody holds a list of that file.              *)
LEMMA ShownAlone ==
  ASSUME NEW p \in Paths, NEW t \in Tasks, MovesAlone(t), UNCHANGED opener,
         ~SentBeside(t, p), HoldsDifference(t, p)',
         editor'[p] = by_file'[p] \/ SendsLater(t, p)'
  PROVE  ShownOf(p)'
  <1>1. \A u \in Tasks : u # t => task'[u] = task[u]
    BY DEF MovesAlone
  <1>2. ASSUME NEW u \in Tasks, u # t PROVE HoldsDifference(u, p)'
    BY <1>1, <1>2 DEF SentBeside, HoldsDifference
  <1>3. \A o \in Openers : HoldsCopy(o, p)'
    BY DEF SentBeside, HoldsCopy
  <1>4. editor'[p] # by_file'[p] => StillSent(p)'
    BY DEF StillSent
  <1>5. QED
    BY <1>2, <1>3, <1>4 DEF ShownOf

(* The messages of publish_findings make up the difference it took.        *)
LEMMA DiffShown ==
  ASSUME LspTyping, NEW t \in Tasks, PublishDiff(t), NEW p \in Paths, ShownOf(p)
  PROVE  ShownOf(p)'
  <1>1. /\ UNCHANGED <<by_file, editor, opener>>
        /\ task[t].step = "publish"
    BY DEF PublishDiff, PublishDiffAs, Local, stateVars
  <1>2. /\ MovesAlone(t)
        /\ task'[t].step = "store"
        /\ task'[t].found = task[t].found
        /\ task'[t].clear = NonEmpty(by_file) \ NonEmpty(task[t].found)
        /\ task'[t].send = NonEmpty(task[t].found) \cap Differing(t)
    BY PublishDiffMoves
  <1>3. HoldsDifference(t, p)'
    BY <1>1, <1>2 DEF HoldsDifference, NonEmpty, Differing
  <1>4. ~SendsLater(t, p)
    BY <1>1 DEF SendsLater
  <1>5. QED
    BY <1>1, <1>2, <1>3, <1>4, ShownBeside

(* New lists are stored: a file whose list another message is to replace   *)
(* is overtaken.                                                           *)
LEMMA StoreShown ==
  ASSUME LspTyping, NEW t \in Tasks, PublishStore(t), NEW p \in Paths,
         p \notin overtaken', p \notin overtaken => ShownOf(p)
  PROVE  ShownOf(p)'
  <1>1. /\ task[t].step = "store" /\ by_file' = task[t].found
        /\ UNCHANGED <<editor, opener>>
        /\ overtaken' = overtaken \cup {q \in Paths : by_file[q] # task[t].found[q]
                                                       /\ SentBeside(t, q)}
    BY DEF PublishStore, PublishStoreAs
  <1>2. /\ MovesAlone(t)
        /\ task'[t].step = "send" /\ task'[t].found = task[t].found
        /\ task'[t].clear = task[t].clear /\ task'[t].send = task[t].send
    BY PublishStoreMoves
  <1>3. ShownOf(p)
    BY <1>1
  <1>4. HoldsDifference(t, p)
    BY <1>3 DEF ShownOf
  <1>5. HoldsDifference(t, p)'
    BY <1>1, <1>2, <1>4 DEF HoldsDifference
  <1>6. CASE by_file[p] = task[t].found[p]
    <2>1. ~SendsLater(t, p)
      BY <1>1 DEF SendsLater
    <2>2. by_file'[p] = by_file[p] /\ editor'[p] = editor[p]
      BY <1>1, <1>6
    <2>3. QED
      BY <1>1, <1>2, <1>3, <1>5, <2>1, <2>2, ShownBeside
  <1>7. CASE by_file[p] # task[t].found[p]
    <2>1. ~SentBeside(t, p)
      BY <1>1, <1>7
    <2>2. SendsLater(t, p)'
      BY <1>1, <1>2, <1>4, <1>7 DEF HoldsDifference, SendsLater
    <2>3. QED
      BY <1>1, <1>2, <1>5, <2>1, <2>2, ShownAlone
  <1>8. QED
    BY <1>6, <1>7

(* Task t takes q off what it has to send, and goes on sending.            *)
SendsOne(t, q) ==
  /\ task[t].step = "send" /\ task'[t].step = "send" /\ task'[t].found = task[t].found
  /\ task'[t].clear = task[t].clear \ {q} /\ task'[t].send = task[t].send \ {q}
  /\ q \in task[t].clear \cup task[t].send

(* A message is sent: it says what State says, of a file that was not      *)
(* overtaken; of another it puts things right only if it is the last.      *)
LEMMA SendShown ==
  ASSUME LspTyping, NEW t \in Tasks, NEW q \in Paths, NEW list,
         Send(t, q, list), MovesAlone(t), SendsOne(t, q), NEW p \in Paths,
         q \in task[t].clear => list = {},
         q \notin task[t].clear => list = task[t].found[q],
         p \notin overtaken', p \notin overtaken => ShownOf(p)
  PROVE  ShownOf(p)'
  <1>1. /\ editor' = [editor EXCEPT ![q] = list]
        /\ UNCHANGED <<by_file, opener>>
        /\ overtaken' = IF by_file[q] = list /\ ~SentBeside(t, q)
                        THEN overtaken \ {q} ELSE overtaken
    BY DEF Send
  <1>2. editor \in [Paths -> DiagLists]
    BY DEF LspTyping, StateTyping
  <1>3. /\ task[t].step = "send" /\ task'[t].step = "send" /\ task'[t].found = task[t].found
        /\ task'[t].clear = task[t].clear \ {q} /\ task'[t].send = task[t].send \ {q}
        /\ q \in task[t].clear \cup task[t].send
    BY DEF SendsOne
  <1>4. ASSUME p \notin overtaken
        PROVE  ShownOf(p)'
    <2>1. ShownOf(p) /\ HoldsDifference(t, p)
      BY <1>4 DEF ShownOf
    <2>2. HoldsDifference(t, p)'
      BY <1>1, <1>3, <2>1 DEF HoldsDifference
    <2>3. CASE p = q
      <3>1. editor'[p] = list
        BY <1>1, <1>2, <2>3
      <3>2. by_file[p] = list
        BY <1>3, <2>1, <2>3 DEF HoldsDifference
      <3>3. editor'[p] = by_file'[p] /\ by_file'[p] = by_file[p]
        BY <1>1, <3>1, <3>2
      <3>4. QED
        BY <1>1, <2>1, <2>2, <3>3, ShownBeside
    <2>4. CASE p # q
      <3>1. editor'[p] = editor[p] /\ by_file'[p] = by_file[p]
        BY <1>1, <1>2, <2>4
      <3>2. SendsLater(t, p) => SendsLater(t, p)'
        BY <1>3, <2>4 DEF SendsLater
      <3>3. QED
        BY <1>1, <2>1, <2>2, <3>1, <3>2, ShownBeside
    <2>5. QED
      BY <2>3, <2>4
  <1>5. ASSUME p \in overtaken
        PROVE  ShownOf(p)'
    <2>1. p = q /\ by_file[p] = list /\ ~SentBeside(t, p)
      BY <1>1, <1>5
    <2>2. editor'[p] = by_file'[p]
      BY <1>1, <1>2, <2>1
    <2>3. HoldsDifference(t, p)'
      BY <1>3, <2>1 DEF HoldsDifference
    <2>4. QED
      BY <1>1, <2>1, <2>2, <2>3, ShownAlone
  <1>6. QED
    BY <1>4, <1>5

LEMMA ShownStep ==
  LspTyping /\ TasksInTurn /\ ShownInv /\ [LspNext]_lspVars => ShownInv'
  <1> SUFFICES ASSUME LspTyping, TasksInTurn, ShownInv, [LspNext]_lspVars,
                      NEW p \in Paths, p \notin overtaken'
               PROVE  ShownOf(p)'
    BY DEF ShownInv
  <1>0. p \notin overtaken => ShownOf(p)
    BY DEF ShownInv
  <1>1. ASSUME NEW t \in Tasks, Publish(t)
        PROVE  ShownOf(p)'
    <2>0. MovesAlone(t)
      BY <1>1, PublishAlone
    <2>1. CASE PublishDiff(t)
      <3>1. UNCHANGED overtaken
        BY <2>1 DEF PublishDiff, PublishDiffAs, Local, history
      <3>2. QED
        BY <1>0, <2>1, <3>1, DiffShown
    <2>2. CASE PublishStore(t)
      BY <1>0, <2>2, StoreShown
    <2>3. ASSUME NEW q \in Paths, SendClear(t, q)
          PROVE  ShownOf(p)'
      <3>1. Send(t, q, {}) /\ task[t].step = "send" /\ q \in task[t].clear
        BY <2>3 DEF SendClear
      <3>2. LocalInTurn(task[t])
        BY DEF TasksInTurn
      <3>3. task[t].clear \cap task[t].send = {}
        BY <3>1, <3>2 DEF LocalInTurn
      <3>4. SendsOne(t, q)
        BY <2>3, <3>1, <3>3, SendClearMoves DEF SendsOne
      <3>5. QED
        BY <1>0, <2>0, <3>1, <3>3, <3>4, SendShown
    <2>4. ASSUME NEW q \in Paths, SendPublish(t, q)
          PROVE  ShownOf(p)'
      <3>1. /\ Send(t, q, task[t].found[q]) /\ task[t].step = "send"
            /\ q \in task[t].send /\ task[t].clear = {}
        BY <2>4 DEF SendPublish
      <3>2. SendsOne(t, q)
        BY <2>4, <3>1, SendPublishMoves DEF SendsOne
      <3>3. QED
        BY <1>0, <2>0, <3>1, <3>2, SendShown
    <2>5. CASE PublishDone(t)
      <3>1. /\ task[t].step = "send" /\ task[t].clear = {} /\ task[t].send = {}
            /\ UNCHANGED <<editor, by_file, opener, overtaken>>
        BY <2>5 DEF PublishDone, stateVars, history
      <3>2. task'[t] = Idle
        BY <2>5, PublishDoneMoves
      <3>3. HoldsDifference(t, p)' /\ ~SendsLater(t, p)
        BY <3>1, <3>2 DEF HoldsDifference, SendsLater, Idle
      <3>4. QED
        BY <1>0, <2>0, <3>1, <3>3, ShownBeside
    <2>6. CASE \/ ScanWalk(t) \/ ScanStore(t) \/ SeedStore(t)
               \/ \E q \in Paths : ScanRead(t, q) \/ SeedRead(t, q)
      <3>1. task[t].step \in {"idle", "scan", "seed"}
        BY <2>6 DEF ScanWalk, ScanStore, SeedStore, ScanRead, SeedRead, Reads
      <3>2. UNCHANGED <<editor, by_file, opener, overtaken>>
        BY <2>6
        DEF ScanWalk, ScanStore, SeedStore, ScanRead, SeedRead, Local, stateVars, history
      <3>3. task'[t].step \notin {"store", "send"}
        <4>1. CASE ScanWalk(t) \/ ScanStore(t) \/ SeedStore(t)
          BY <4>1, ScanWalkMoves, ScanStoreMoves, SeedStoreMoves
        <4>2. ASSUME NEW q \in Paths, ScanRead(t, q)
              PROVE  task'[t].step \notin {"store", "send"}
          BY <3>1, <4>2, ScanReadMoves
        <4>3. ASSUME NEW q \in Paths, SeedRead(t, q)
              PROVE  task'[t].step \notin {"store", "send"}
          BY <3>1, <4>3, SeedReadMoves
        <4>4. QED
          BY <2>6, <4>1, <4>2, <4>3
      <3>4. HoldsDifference(t, p)' /\ ~SendsLater(t, p)
        BY <3>1, <3>3 DEF HoldsDifference, SendsLater
      <3>5. QED
        BY <1>0, <2>0, <3>2, <3>4, ShownBeside
    <2>7. QED
      BY <1>1, <2>1, <2>2, <2>3, <2>4, <2>5, <2>6 DEF Publish
  <1>2. CASE IncrementalRound
    <2>0. "loop" \in Tasks /\ MovesAlone("loop")
      BY <1>2, RoundAlone DEF Tasks
    <2>1. UNCHANGED <<by_file, editor, opener, overtaken>>
      BY <1>2, RoundFrame DEF RoundKeeps
    <2>2. HoldsDifference("loop", p)' /\ ~SendsLater("loop", p)
      BY <1>2, RoundSendsNothing DEF HoldsDifference, SendsLater
    <2>3. QED
      BY <1>0, <2>0, <2>1, <2>2, ShownBeside
  <1>3. ASSUME NEW o \in Openers, NEW q \in Paths, OpenRead(o, q)
        PROVE  ShownOf(p)'
    <2>1. /\ opener' = [opener EXCEPT ![o] =
                         [step |-> "send", path |-> q, diags |-> by_file[q]]]
          /\ UNCHANGED <<by_file, editor, task, overtaken>>
      BY <1>3 DEF OpenRead, stateVars, history
    <2>2. ShownOf(p)
      BY <1>0, <2>1
    <2>3. ASSUME NEW u \in Openers PROVE HoldsCopy(u, p)'
      <3>1. CASE u = o
        BY <2>1, <3>1 DEF HoldsCopy, LspTyping, OpenerTyping
      <3>2. CASE u # o
        <4>1. opener'[u] = opener[u]
          BY <2>1, <3>2 DEF LspTyping, OpenerTyping
        <4>2. QED
          BY <2>1, <2>2, <4>1 DEF ShownOf, HoldsCopy
      <3>3. QED
        BY <3>1, <3>2
    <2>4. QED
      BY <2>1, <2>2, <2>3 DEF ShownOf, StillSent, SendsLater, HoldsDifference
  <1>4. ASSUME NEW o \in Openers, OpenSend(o)
        PROVE  ShownOf(p)'
    <2>1. /\ opener[o].step = "send"
          /\ editor' = [editor EXCEPT ![opener[o].path] = opener[o].diags]
          /\ opener' = [opener EXCEPT ![o] = [Waiting EXCEPT !.step = "done"]]
          /\ UNCHANGED <<by_file, task, overtaken>>
      BY <1>4 DEF OpenSend, history
    <2>2. ShownOf(p)
      BY <1>0, <2>1
    <2>3. ASSUME NEW u \in Openers PROVE HoldsCopy(u, p)'
      <3>1. CASE u = o
        BY <2>1, <3>1 DEF HoldsCopy, LspTyping, OpenerTyping, Waiting
      <3>2. CASE u # o
        <4>1. opener'[u] = opener[u]
          BY <2>1, <3>2 DEF LspTyping, OpenerTyping
        <4>2. QED
          BY <2>1, <2>2, <4>1 DEF ShownOf, HoldsCopy
      <3>3. QED
        BY <3>1, <3>2
    <2>4. editor'[p] = by_file'[p] \/ editor'[p] = editor[p]
      <3>1. editor \in [Paths -> DiagLists]
        BY DEF LspTyping, StateTyping
      <3>2. CASE p = opener[o].path
        <4>1. opener[o].diags = by_file[p]
          BY <2>1, <2>2, <3>2 DEF ShownOf, HoldsCopy
        <4>2. QED
          BY <2>1, <3>1, <3>2, <4>1
      <3>3. CASE p # opener[o].path
        BY <2>1, <3>1, <3>3
      <3>4. QED
        BY <3>2, <3>3
    <2>5. editor'[p] # by_file'[p] => StillSent(p)'
      BY <2>1, <2>2, <2>4 DEF ShownOf, StillSent, SendsLater
    <2>6. \A t \in Tasks : HoldsDifference(t, p)'
      BY <2>1, <2>2 DEF ShownOf, HoldsDifference
    <2>7. QED
      BY <2>3, <2>5, <2>6 DEF ShownOf
  <1>5. CASE UNCHANGED <<editor, by_file, task, opener, overtaken>>
    BY <1>0, <1>5 DEF ShownOf, StillSent, SendsLater, HoldsDifference, HoldsCopy
  <1>6. QED
    BY <1>1, <1>2, <1>3, <1>4, <1>5, LspAssumption
    DEF LspNext, lspVars, stateVars, history, Coordinate, Edit, Deliver, Notice, Ring

-----------------------------------------------------------------------------
(* What State caches.                                                      *)

(* The loop carries the clones of what is indexed from the engine to State,*)
(* and so does the first scan.                                             *)
LEMMA CacheByLoop ==
  ASSUME LspTyping, TasksInTurn, CacheInv, Publish("loop")
  PROVE  CacheInv'
  <1>0. "loop" \in Tasks /\ MovesAlone("loop") /\ task'["init"] = task["init"]
    BY PublishAlone DEF Tasks, MovesAlone
  <1>1. InitHoldsFindings' = InitHoldsFindings
    BY <1>0 DEF InitHoldsFindings
  <1>2. CASE ScanStore("loop")
    <2>1. /\ task'["loop"].step = "seed" /\ task'["loop"].found = Diagnostics(indexed')
          /\ late' = (late \/ InitHoldsFindings)
      BY <1>0, <1>2, ScanStoreMoves DEF ScanStore
    <2>2. QED
      BY <1>1, <2>1 DEF CacheInv
  <1>3. CASE PublishStore("loop")
    <2>1. /\ task["loop"].step = "store" /\ by_file' = task["loop"].found
          /\ UNCHANGED indexed /\ late' = (late /\ InitHoldsFindings)
      BY <1>3 DEF PublishStore, PublishStoreAs
    <2>2. task'["loop"].step = "send" /\ task'["loop"].found = task["loop"].found
      BY <1>0, <1>3, PublishStoreMoves
    <2>3. QED
      BY <1>0, <1>1, <2>1, <2>2 DEF CacheInv
  <1>4. ASSUME UNCHANGED <<indexed, by_file, late>>, task'["loop"].found = task["loop"].found,
               task'["loop"].step \in {"seed", "publish", "store"} =>
                 task["loop"].step \in {"seed", "publish", "store"},
               task'["loop"].step \in {"idle", "scan", "filter", "send"} =>
                 task["loop"].step \in {"idle", "scan", "filter", "send"}
        PROVE  CacheInv'
    BY <1>0, <1>1, <1>4 DEF CacheInv
  <1>5. CASE PublishDone("loop")
    <2>1. task["loop"].step = "send" /\ UNCHANGED <<indexed, by_file, late>>
      BY <1>5 DEF PublishDone, stateVars, history
    <2>2. task'["loop"].step = "idle"
      BY <1>0, <1>5, PublishDoneMoves DEF Idle
    <2>3. QED
      BY <1>0, <1>1, <2>1, <2>2 DEF CacheInv
  <1>6. CASE ScanWalk("loop") \/ SeedStore("loop") \/ PublishDiff("loop")
    <2>1. UNCHANGED <<indexed, by_file, late>>
      BY <1>6 DEF ScanWalk, SeedStore, PublishDiff, PublishDiffAs, Local, stateVars, history
    <2>2. CASE ScanWalk("loop")
      BY <1>0, <1>4, <2>1, <2>2, ScanWalkMoves DEF ScanWalk
    <2>3. CASE SeedStore("loop")
      BY <1>0, <1>4, <2>1, <2>3, SeedStoreMoves DEF SeedStore
    <2>4. CASE PublishDiff("loop")
      BY <1>0, <1>4, <2>1, <2>4, PublishDiffMoves DEF PublishDiff, PublishDiffAs
    <2>5. QED
      BY <1>6, <2>2, <2>3, <2>4
  <1>7. ASSUME NEW p \in Paths, \/ ScanRead("loop", p) \/ SeedRead("loop", p)
                               \/ SendClear("loop", p) \/ SendPublish("loop", p)
        PROVE  CacheInv'
    <2>1. UNCHANGED <<indexed, by_file, late>>
      BY <1>7 DEF ScanRead, SeedRead, SendClear, SendPublish, Send, Local, stateVars, history
    <2>2. task'["loop"].step = task["loop"].step /\ task'["loop"].found = task["loop"].found
      BY <1>0, <1>7, ScanReadMoves, SeedReadMoves, SendClearMoves, SendPublishMoves
    <2>3. QED
      BY <1>4, <2>1, <2>2
  <1>8. QED
    BY <1>2, <1>3, <1>5, <1>6, <1>7 DEF Publish

LEMMA CacheByInit ==
  ASSUME LspTyping, TasksInTurn, CacheInv, Publish("init")
  PROVE  CacheInv'
  <1>0. "init" \in Tasks /\ MovesAlone("init") /\ task'["loop"] = task["loop"]
    BY PublishAlone DEF Tasks, MovesAlone
  <1>1. CASE ScanStore("init")
    <2>1. /\ task["init"].step = "scan" /\ init = "scan"
          /\ task'["init"].step = "seed" /\ task'["init"].found = Diagnostics(indexed')
      BY <1>0, <1>1, ScanStoreMoves DEF ScanStore, InitStoreEngine
    <2>2. task["loop"].step = "idle"
      BY <2>1 DEF TasksInTurn, StepsInTurn, LspTyping, LoopIInv, DrainsReadyEngine
    <2>3. QED
      BY <1>0, <2>1, <2>2 DEF CacheInv, InitHoldsFindings
  <1>2. CASE PublishStore("init")
    <2>1. /\ task["init"].step = "store" /\ by_file' = task["init"].found
          /\ UNCHANGED indexed /\ late' = late
      BY <1>2 DEF PublishStore, PublishStoreAs, LspTyping, HistoryTyping
    <2>2. task'["init"].step = "send"
      BY <1>0, <1>2, PublishStoreMoves
    <2>3. QED
      BY <1>0, <2>1, <2>2 DEF CacheInv, InitHoldsFindings
  <1>3. ASSUME UNCHANGED <<indexed, by_file, late>>,
               task'["init"].step \in {"seed", "publish", "store"} =>
                 task'["init"].found = task["init"].found,
               task'["init"].step \in {"seed", "publish", "store"} <=>
                 task["init"].step \in {"seed", "publish", "store"}
        PROVE  CacheInv'
    BY <1>0, <1>3 DEF CacheInv, InitHoldsFindings
  <1>4. CASE PublishDone("init")
    <2>1. task["init"].step = "send" /\ UNCHANGED <<indexed, by_file, late>>
      BY <1>4 DEF PublishDone, stateVars, history
    <2>2. task'["init"].step = "idle"
      BY <1>0, <1>4, PublishDoneMoves DEF Idle
    <2>3. QED
      BY <1>3, <2>1, <2>2
  <1>5. CASE ScanWalk("init") \/ SeedStore("init") \/ PublishDiff("init")
    <2>1. UNCHANGED <<indexed, by_file, late>>
      BY <1>5 DEF ScanWalk, SeedStore, PublishDiff, PublishDiffAs, Local, stateVars, history
    <2>2. CASE ScanWalk("init")
      BY <1>0, <1>3, <2>1, <2>2, ScanWalkMoves DEF ScanWalk
    <2>3. CASE SeedStore("init")
      BY <1>0, <1>3, <2>1, <2>3, SeedStoreMoves DEF SeedStore
    <2>4. CASE PublishDiff("init")
      BY <1>0, <1>3, <2>1, <2>4, PublishDiffMoves DEF PublishDiff, PublishDiffAs
    <2>5. QED
      BY <1>5, <2>2, <2>3, <2>4
  <1>6. ASSUME NEW p \in Paths, \/ ScanRead("init", p) \/ SeedRead("init", p)
                               \/ SendClear("init", p) \/ SendPublish("init", p)
        PROVE  CacheInv'
    <2>1. UNCHANGED <<indexed, by_file, late>>
      BY <1>6 DEF ScanRead, SeedRead, SendClear, SendPublish, Send, Local, stateVars, history
    <2>2. task'["init"].step = task["init"].step /\ task'["init"].found = task["init"].found
      BY <1>0, <1>6, ScanReadMoves, SeedReadMoves, SendClearMoves, SendPublishMoves
    <2>3. QED
      BY <1>3, <2>1, <2>2
  <1>7. QED
    BY <1>1, <1>2, <1>4, <1>5, <1>6 DEF Publish

LEMMA CacheByRound ==
  ASSUME LspTyping, CacheInv, IncrementalRound
  PROVE  CacheInv'
  <1>0. "loop" \in Tasks /\ task'["init"] = task["init"] /\ UNCHANGED by_file
    BY RoundAlone, RoundFrame DEF Tasks, MovesAlone, RoundKeeps
  <1>1. InitHoldsFindings' = InitHoldsFindings
    BY <1>0 DEF InitHoldsFindings
  <1>2. ASSUME UNCHANGED <<indexed, late>>,
               task'["loop"].step \in {"idle", "filter", "update"},
               task["loop"].step = "update" => task'["loop"].step = "update",
               task["loop"].step \in {"idle", "filter", "update"}
        PROVE  CacheInv'
    BY <1>0, <1>1, <1>2 DEF CacheInv
  <1>3. CASE FilterStart
    BY <1>2, <1>3, FilterStartMoves DEF FilterStart, Local, stateVars, history
  <1>4. ASSUME NEW p \in Paths, FilterRead(p)
        PROVE  CacheInv'
    <2>1. UNCHANGED <<indexed, late>> /\ task["loop"].step = "filter"
      BY <1>4 DEF FilterRead, FilterReadIf, Reads, stateVars
    <2>2. QED
      BY <1>2, <1>4, <2>1, FilterReadMoves
  <1>5. CASE FilterStore
    <2>1. UNCHANGED <<indexed, late>> /\ task["loop"].step = "filter"
      BY <1>5 DEF FilterStore, history
    <2>2. QED
      BY <1>2, <1>5, <2>1, FilterStoreMoves DEF Idle
  <1>6. ASSUME NEW p \in Paths, UpdateRead(p)
        PROVE  CacheInv'
    <2>1. task["loop"].step = "update" /\ late' = (late \/ InitHoldsFindings)
      BY <1>6 DEF UpdateRead, Reads
    <2>2. task'["loop"].step = "update"
      BY <1>6, <2>1, UpdateReadMoves
    <2>3. QED
      BY <1>1, <2>1, <2>2 DEF CacheInv
  <1>7. CASE UpdateDone
    <2>1. UNCHANGED <<indexed, late>>
      BY <1>7 DEF UpdateDone, Local, stateVars, history
    <2>2. task'["loop"].step = "publish" /\ task'["loop"].found = Diagnostics(indexed)
      BY <1>7, UpdateDoneMoves
    <2>3. QED
      BY <1>0, <1>1, <2>1, <2>2 DEF CacheInv
  <1>8. QED
    BY <1>3, <1>4, <1>5, <1>6, <1>7 DEF IncrementalRound

LEMMA CacheStep ==
  LspTyping /\ TasksInTurn /\ CacheInv /\ [LspNext]_lspVars => CacheInv'
  <1> SUFFICES ASSUME LspTyping, TasksInTurn, CacheInv, [LspNext]_lspVars
               PROVE  CacheInv'
    OBVIOUS
  <1>1. ASSUME NEW t \in Tasks, Publish(t)
        PROVE  CacheInv'
    BY <1>1, CacheByInit, CacheByLoop DEF Tasks
  <1>2. CASE IncrementalRound
    BY <1>2, CacheByRound
  <1>3. CASE UNCHANGED <<indexed, by_file, task, late>>
    BY <1>3 DEF CacheInv, InitHoldsFindings
  <1>4. QED
    BY <1>1, <1>2, <1>3
    DEF LspNext, lspVars, stateVars, history, Coordinate, Edit, Deliver, Notice, Ring,
        OpenRead, OpenSend

-----------------------------------------------------------------------------
(* What the engine has indexed.                                            *)

(* Notifications are lost only to the drain, and every edit raises one.    *)
LEMMA NoticedStays ==
  ASSUME LspTyping, [LspNext]_lspVars, NEW p \in Paths
  PROVE  /\ Noticed(p) => Noticed(p)' \/ LoopDrain
         /\ disk'[p] # disk[p] => Noticed(p)'
  <1>1. ASSUME NEW h \in Handlers, NEW q \in Paths, NEW c \in Content, Edit(h, q, c)
        PROVE  (Noticed(p) => Noticed(p)') /\ (disk'[p] # disk[p] => Noticed(p)')
    BY <1>1 DEF Edit, loopVars, Noticed, LspTyping, EnvTyping, Files
  <1>2. ASSUME NEW h \in Handlers, Deliver(h)
        PROVE  (Noticed(p) => Noticed(p)') /\ disk' = disk
    <2>1. PICK S \in SUBSET Paths : Notice(h, S)
      BY <1>2 DEF Deliver
    <2>2. QED
      BY <2>1 DEF Notice, Enqueue, Noticed, LspTyping, EnvTyping
  <1>3. ASSUME UNCHANGED <<disk, unsent>>, UNCHANGED pending \/ LoopDrain
        PROVE  (Noticed(p) => Noticed(p)' \/ LoopDrain) /\ disk' = disk
    BY <1>3 DEF Noticed
  <1>4. ASSUME NEW t \in Tasks, Publish(t)
        PROVE  UNCHANGED <<disk, unsent, pending>>
    BY <1>4, PublishFrame
    DEF PublishKeeps, envVars, loopVars, ScanStore, InitStoreEngine, PublishDone, InitPublished, LoopApplied
  <1>5. CASE IncrementalRound
    <2>1. UNCHANGED <<disk, unsent, pending>>
      BY <1>5, RoundFrame DEF RoundKeeps, envVars, loopVars, LoopApplied
    <2>2. QED
      BY <1>3, <2>1
  <1>6. CASE Coordinate \/ \E h \in Handlers : Ring(h)
    <2>1. UNCHANGED <<disk, unsent>> /\ (UNCHANGED pending \/ LoopDrain)
      BY <1>6
      DEF envVars, Coordinate, InitSpawn, InitNotify, LoopAwait, LoopDebounce, LoopCheck,
          Ring, EnqueueNotify
    <2>2. QED
      BY <1>3, <2>1
  <1>7. CASE UNCHANGED <<loopVars, envVars>>
    BY <1>3, <1>7 DEF loopVars, envVars
  <1>8. QED
    BY <1>1, <1>2, <1>3, <1>4, <1>5, <1>6, <1>7
    DEF LspNext, lspVars, Content, OpenRead, OpenSend

(* A scan has read what the file is, unless the file was edited since.     *)
LEMMA ScanStep ==
  ASSUME LspTyping, TasksInTurn, ScanInv, [LspNext]_lspVars,
         NEW t \in Tasks, task'[t].step = "scan", NEW p \in Paths
  PROVE  task'[t].files[p] = disk'[p] \/ p \in task'[t].todo \/ Noticed(p)'
  <1>1. CASE ScanWalk(t)
    <2>1. /\ task'[t].todo = {q \in Paths : disk[q] # Absent}
          /\ task'[t].files = [q \in Paths |-> Absent]
          /\ UNCHANGED disk
      BY <1>1, ScanWalkMoves DEF ScanWalk, Local, envVars
    <2>2. QED
      BY <2>1
  <1>2. ASSUME NEW q \in Paths, ScanRead(t, q)
        PROVE  task'[t].files[p] = disk'[p] \/ p \in task'[t].todo \/ Noticed(p)'
    <2>1. /\ task'[t].todo = task[t].todo \ {q}
          /\ task'[t].files = [task[t].files EXCEPT ![q] = disk[q]]
          /\ UNCHANGED <<disk, unsent, pending>>
          /\ task[t].step = "scan"
      BY <1>2, ScanReadMoves DEF ScanRead, Reads, Local, envVars, loopVars
    <2>2. task[t].files \in [Paths -> Content \cup {Unread}]
      BY DEF LspTyping, TaskTyping, TaskLocals, TaskRecord
    <2>3. task[t].files[p] = disk[p] \/ p \in task[t].todo \/ Noticed(p)
      BY <2>1 DEF ScanInv
    <2>4. QED
      BY <2>1, <2>2, <2>3 DEF Noticed
  <1>3. CASE task'[t] = task[t]
    <2>1. task[t].step = "scan"
      BY <1>3
    <2>2. ~LoopDrain
      BY <2>1 DEF LoopDrain, TasksInTurn, StepsInTurn, LspTyping, LoopIInv, DrainsReadyEngine, Tasks
    <2>3. task[t].files[p] = disk[p] \/ p \in task[t].todo \/ Noticed(p)
      BY <2>1 DEF ScanInv
    <2>4. QED
      BY <1>3, <2>2, <2>3, NoticedStays
  <1>4. CASE task'[t] # task[t] /\ ~ScanWalk(t) /\ ~ \E q \in Paths : ScanRead(t, q)
    <2>1. ASSUME NEW u \in Tasks, Publish(u)
          PROVE  FALSE
      <3>1. u = t
        BY <1>4, <2>1, PublishAlone DEF MovesAlone
      <3>2. CASE \E q \in Paths : SeedRead(t, q) \/ SendClear(t, q) \/ SendPublish(t, q)
        BY <3>2, SeedReadMoves, SendClearMoves, SendPublishMoves
        DEF SeedRead, Reads, SendClear, SendPublish
      <3>3. CASE PublishDone(t)
        BY <3>3, PublishDoneMoves DEF Idle
      <3>4. CASE ScanStore(t) \/ SeedStore(t) \/ PublishDiff(t) \/ PublishStore(t)
        BY <3>4, ScanStoreMoves, SeedStoreMoves, PublishDiffMoves, PublishStoreMoves
      <3>5. QED
        BY <1>4, <2>1, <3>1, <3>2, <3>3, <3>4 DEF Publish
    <2>2. CASE IncrementalRound
      <3>1. task'["loop"].step # "scan" /\ \A u \in Tasks : u # "loop" => task'[u] = task[u]
        <4>1. CASE FilterStore
          BY <4>1, FilterStoreMoves DEF Idle, MovesAlone
        <4>2. CASE FilterStart
          BY <4>2, FilterStartMoves DEF MovesAlone
        <4>3. CASE UpdateDone
          BY <4>3, UpdateDoneMoves DEF MovesAlone
        <4>4. CASE \E q \in Paths : FilterRead(q) \/ UpdateRead(q)
          BY <4>4, FilterReadMoves, UpdateReadMoves
          DEF FilterRead, FilterReadIf, UpdateRead, Reads, MovesAlone
        <4>5. QED
          BY <2>2, <4>1, <4>2, <4>3, <4>4 DEF IncrementalRound
      <3>2. QED
        BY <1>4, <3>1
    <2>3. CASE UNCHANGED task
      BY <1>4, <2>3
    <2>4. QED
      BY <2>1, <2>2, <2>3
      DEF LspNext, lspVars, Coordinate, Edit, Deliver, Notice, Ring, OpenRead, OpenSend
  <1>5. QED
    BY <1>1, <1>2, <1>3, <1>4

(* The filter drops only a notification the engine does not need, and a    *)
(* file it keeps is in the round even if it slipped through before.        *)
LEMMA FilterKeeps ==
  ASSUME LspTyping, TasksInTurn, NEW q \in Paths, FilterRead(q), NEW p \in Paths,
         p \notin slipped', p \notin slipped => Filtered(p),
         p \in slipped \/ (indexed[p] # disk[p] /\ InRound(p))
  PROVE  InRound(p)'
  <1>1. /\ task["loop"].step = "filter"
        /\ UNCHANGED <<loop, drained, disk, indexed>>
        /\ p \in slipped => /\ p = q
                            /\ disk[q] = Absent \/ disk[q] # task["loop"].known[q]
    BY DEF FilterRead, FilterReadIf, Reads, loopVars, envVars, stateVars
  <1>2. /\ task'["loop"].step = "filter"
        /\ task'["loop"].todo = task["loop"].todo \ {q}
        /\ task'["loop"].files =
             [task["loop"].files EXCEPT ![q] =
               IF disk[q] = Absent \/ disk[q] # task["loop"].known[q] THEN disk[q] ELSE @]
    BY <1>1, FilterReadMoves
  <1>3. task["loop"].files \in [Paths -> Content \cup {Unread}] /\ loop = "apply"
    BY <1>1 DEF LspTyping, TaskTyping, TaskLocals, TaskRecord, Tasks, TasksInTurn, StepsInTurn
  <1>4. disk[p] # Unread
    BY LspAssumption DEF LspTyping, EnvTyping, Files
  <1>5. ASSUME task'["loop"].files[p] # Unread
        PROVE  InRound(p)'
    BY <1>1, <1>2, <1>3, <1>5 DEF InRound
  <1>6. CASE p \in slipped
    BY <1>1, <1>2, <1>3, <1>4, <1>5, <1>6
  <1>7. CASE p \notin slipped /\ task["loop"].files[p] # Unread
    <2>1. task'["loop"].files[p] # Unread
      BY <1>2, <1>3, <1>4, <1>7
    <2>2. QED
      BY <1>5, <2>1
  <1>8. CASE p \notin slipped /\ task["loop"].files[p] = Unread
    <2>1. p \in task["loop"].todo /\ indexed[p] # disk[p]
      BY <1>1, <1>8 DEF InRound
    <2>2. task["loop"].known[p] # Absent => indexed[p] = task["loop"].known[p]
      BY <1>1, <1>8 DEF Filtered
    <2>3. CASE p = q
      <3>1. task'["loop"].files[p] = disk[p]
        BY <1>2, <1>3, <2>1, <2>2, <2>3
      <3>2. QED
        BY <1>4, <1>5, <3>1
    <2>4. CASE p # q
      BY <1>1, <1>2, <1>3, <2>1, <2>4 DEF InRound
    <2>5. QED
      BY <2>3, <2>4
  <1>9. QED
    BY <1>6, <1>7, <1>8

(* A file the engine is behind on stays noticed or in the round.           *)
LEMMA CurrentStep ==
  ASSUME LspTyping, TasksInTurn, ScanInv, IndexInv, HashInv, [LspNext]_lspVars,
         init' \notin {"start", "scan"}, NEW p \in Paths, p \notin slipped'
  PROVE  indexed'[p] = disk'[p] \/ Noticed(p)' \/ InRound(p)'
  <1>0. /\ indexed \in Files /\ disk \in Files
        /\ engine = IF init \in {"start", "scan"} THEN "none" ELSE "ready"
        /\ loop \in {"drain", "apply"} => engine = "ready"
        /\ task["loop"].step # "idle" => loop = "apply"
        /\ "loop" \in Tasks /\ "init" \in Tasks
    BY DEF LspTyping, EnvTyping, StateTyping, TasksInTurn, StepsInTurn, LoopIInv,
           DrainsReadyEngine, Tasks
  <1>1. ASSUME slipped \subseteq slipped', init \notin {"start", "scan"}
        PROVE  indexed[p] = disk[p] \/ Noticed(p) \/ InRound(p)
    BY <1>1 DEF IndexInv
  <1>2. CASE LoopDrain /\ UNCHANGED <<disk, unsent, indexed, task, slipped>>
    <2>1. indexed[p] = disk[p] \/ Noticed(p)
      BY <1>0, <1>1, <1>2 DEF LoopDrain, InRound
    <2>2. CASE p \in pending
      <3>1. loop' = "apply" /\ drained' = pending /\ task'["loop"].step = "idle"
        BY <1>0, <1>2, <2>2 DEF LoopDrain
      <3>2. QED
        BY <2>2, <3>1 DEF InRound
    <2>3. CASE p \notin pending
      BY <1>2, <2>1, <2>3 DEF Noticed
    <2>4. QED
      BY <2>2, <2>3
  <1>3. ASSUME slipped \subseteq slipped', ~LoopDrain, UNCHANGED indexed, init \notin {"start", "scan"},
               indexed[p] # disk[p] /\ InRound(p) => InRound(p)'
        PROVE  indexed'[p] = disk'[p] \/ Noticed(p)' \/ InRound(p)'
    BY <1>1, <1>3, NoticedStays
  <1>4. ASSUME NEW t \in Tasks, Publish(t)
        PROVE  indexed'[p] = disk'[p] \/ Noticed(p)' \/ InRound(p)'
    <2>0. slipped \subseteq slipped'
      BY <1>4, PublishFrame DEF PublishKeeps
    <2>1. CASE ScanStore(t)
      <3>1. /\ indexed' = task[t].files /\ task[t].step = "scan" /\ task[t].todo = {}
            /\ UNCHANGED <<disk, unsent, pending>>
        BY <2>1 DEF ScanStore, envVars, InitStoreEngine, loopVars
      <3>2. QED
        BY <3>1 DEF ScanInv, Noticed
    <2>2. CASE PublishDone(t)
      <3>1. ~LoopDrain /\ UNCHANGED indexed /\ init \notin {"start", "scan"}
        BY <1>0, <2>2
        DEF PublishDone, InitPublished, LoopApplied, LoopDrain, stateVars
      <3>2. InRound(p) => InRound(p)'
        <4>1. CASE t = "init"
          <5>1. UNCHANGED <<loop, drained>> /\ task'["loop"] = task["loop"]
            BY <1>0, <2>2, <4>1, PublishDoneMoves DEF PublishDone, InitPublished, MovesAlone
          <5>2. QED
            BY <5>1 DEF InRound
        <4>2. CASE t = "loop"
          BY <2>2, <4>2 DEF PublishDone, InRound
        <4>3. QED
          BY <4>1, <4>2 DEF Tasks
      <3>3. QED
        BY <1>3, <2>0, <3>1, <3>2
    <2>3. CASE ~ScanStore(t) /\ ~PublishDone(t)
      <3>1. UNCHANGED <<loopVars, indexed>>
        BY <1>4, <2>3
        DEF Publish, ScanWalk, ScanRead, SeedRead, SeedStore, PublishDiff, PublishDiffAs,
            PublishStore, PublishStoreAs, SendClear, SendPublish, Send, Local, stateVars
      <3>2. ~LoopDrain /\ init \notin {"start", "scan"}
        BY <3>1 DEF LoopDrain, loopVars
      <3>3. InRound(p) => InRound(p)'
        <4>1. CASE t = "init"
          <5>1. task'["loop"] = task["loop"]
            BY <1>0, <1>4, <4>1, PublishAlone DEF MovesAlone
          <5>2. QED
            BY <3>1, <5>1 DEF InRound, loopVars
        <4>2. CASE t = "loop"
          <5>1. CASE ScanWalk(t) \/ \E q \in Paths : ScanRead(t, q)
            <6>1. task'["loop"].step = "scan"
              BY <4>2, <5>1, ScanWalkMoves, ScanReadMoves DEF ScanRead, Reads
            <6>2. QED
              BY <3>1, <6>1 DEF InRound, loopVars
          <5>2. CASE task["loop"].step \in {"seed", "publish", "store", "send"}
            BY <5>2 DEF InRound
          <5>3. QED
            BY <1>4, <2>3, <4>2, <5>1, <5>2
            DEF Publish, SeedRead, Reads, SeedStore, PublishDiff, PublishDiffAs, PublishStore,
                PublishStoreAs, SendClear, SendPublish
        <4>3. QED
          BY <4>1, <4>2 DEF Tasks
      <3>4. QED
        BY <1>3, <2>0, <3>1, <3>2, <3>3, SMTT(40)
    <2>4. QED
      BY <2>1, <2>2, <2>3
  <1>5. CASE IncrementalRound
    <2>0. loop = "apply" /\ init \notin {"start", "scan"} /\ init' = init /\ ~LoopDrain
      BY <1>0, <1>5
      DEF IncrementalRound, FilterStart, FilterRead, FilterReadIf, FilterStore, UpdateRead,
          UpdateDone, Reads, Local, loopVars, LoopApplied, LoopDrain
    <2>1. CASE FilterStart
      <3>1. UNCHANGED <<loop, indexed, slipped>> /\ task["loop"].step = "idle"
        BY <2>1 DEF FilterStart, Local, loopVars, stateVars, history
      <3>2. task'["loop"].step = "filter" /\ task'["loop"].todo = drained
        BY <2>1, FilterStartMoves
      <3>3. QED
        BY <1>3, <2>0, <3>1, <3>2 DEF InRound
    <2>2. ASSUME NEW q \in Paths, FilterRead(q)
          PROVE  indexed'[p] = disk'[p] \/ Noticed(p)' \/ InRound(p)'
      <3>1. /\ UNCHANGED <<indexed, disk, unsent, pending>>
            /\ incremental
            /\ p \notin slipped => Filtered(p)
        BY <2>2
        DEF FilterRead, FilterReadIf, Reads, TasksInTurn, StepsInTurn, loopVars, envVars,
            stateVars, HashInv, HashedOf
      <3>2. CASE p \in slipped
        BY <2>2, <3>1, <3>2, FilterKeeps
      <3>3. CASE p \notin slipped
        <4>1. indexed[p] = disk[p] \/ Noticed(p) \/ InRound(p)
          BY <2>0, <3>3 DEF IndexInv
        <4>2. indexed[p] # disk[p] /\ InRound(p) => InRound(p)'
          BY <2>2, <3>1, <3>3, FilterKeeps
        <4>3. Noticed(p) => Noticed(p)'
          BY <3>1 DEF Noticed
        <4>4. QED
          BY <3>1, <4>1, <4>2, <4>3
      <3>4. QED
        BY <3>2, <3>3
    <2>3. CASE FilterStore
      <3>1. UNCHANGED <<indexed, slipped>> /\ (Kept # {} => UNCHANGED loop)
        BY <2>3 DEF FilterStore, loopVars, history
      <3>2. task["loop"].step = "filter" /\ task["loop"].todo = {}
        BY <2>3 DEF FilterStore
      <3>3. InRound(p) => p \in Kept
        BY <3>2 DEF InRound, Kept
      <3>4. Kept # {} => task'["loop"].step = "update" /\ task'["loop"].todo = Kept
        BY <2>3, FilterStoreMoves
      <3>5. InRound(p) => InRound(p)'
        BY <2>0, <3>1, <3>3, <3>4 DEF InRound
      <3>6. QED
        BY <1>3, <2>0, <3>1, <3>5
    <2>4. ASSUME NEW q \in Paths, UpdateRead(q)
          PROVE  indexed'[p] = disk'[p] \/ Noticed(p)' \/ InRound(p)'
      <3>1. /\ indexed' = [indexed EXCEPT ![q] = disk[q]]
            /\ UNCHANGED <<disk, unsent, pending, loop, drained, slipped>>
            /\ task["loop"].step = "update"
        BY <2>4 DEF UpdateRead, Reads, loopVars, envVars
      <3>2. task'["loop"].step = "update" /\ task'["loop"].todo = task["loop"].todo \ {q}
        BY <2>4, <3>1, UpdateReadMoves
      <3>3. CASE p = q
        BY <1>0, <3>1, <3>3 DEF Files
      <3>4. CASE p # q
        <4>1. indexed'[p] = indexed[p]
          BY <1>0, <3>1, <3>4 DEF Files
        <4>2. InRound(p) => InRound(p)'
          BY <3>1, <3>2, <3>4 DEF InRound
        <4>3. Noticed(p) => Noticed(p)'
          BY <3>1 DEF Noticed
        <4>4. QED
          BY <1>1, <2>0, <3>1, <4>1, <4>2, <4>3
      <3>5. QED
        BY <3>3, <3>4
    <2>5. CASE UpdateDone
      <3>1. /\ UNCHANGED <<indexed, slipped>>
            /\ task["loop"].step = "update" /\ task["loop"].todo = {}
        BY <2>5 DEF UpdateDone, Local, stateVars, history
      <3>2. ~InRound(p)
        BY <3>1 DEF InRound
      <3>3. QED
        BY <1>3, <2>0, <3>1, <3>2
    <2>6. QED
      BY <1>5, <2>1, <2>2, <2>3, <2>4, <2>5 DEF IncrementalRound
  <1>6. CASE Coordinate
    <2>1. UNCHANGED <<disk, unsent, indexed, task, slipped>>
      BY <1>6 DEF Coordinate, envVars, stateVars, history
    <2>2. CASE LoopDrain
      BY <1>2, <2>1, <2>2
    <2>3. CASE ~LoopDrain
      <3>1. init \notin {"start", "scan"}
        BY <1>6, <2>3 DEF Coordinate, InitSpawn, InitNotify, LoopAwait, LoopDebounce, LoopCheck
      <3>2. InRound(p) => InRound(p)'
        BY <1>6, <2>1, <2>3
        DEF Coordinate, InitSpawn, InitNotify, NotifyOne, LoopAwait, LoopDebounce, LoopCheck,
            InRound
      <3>3. QED
        BY <1>3, <2>1, <2>3, <3>1, <3>2
    <2>4. QED
      BY <2>2, <2>3
  <1>7. ASSUME NEW h \in Handlers,
               Deliver(h) \/ Ring(h) \/ \E q \in Paths, c \in Content : Edit(h, q, c)
        PROVE  indexed'[p] = disk'[p] \/ Noticed(p)' \/ InRound(p)'
    <2>1. /\ UNCHANGED <<indexed, task, init, drained>> /\ slipped \subseteq slipped'
          /\ loop' = loop \/ (loop = "waiting" /\ loop' = "debounce")
      BY <1>7
      DEF Deliver, Notice, Ring, Edit, Enqueue, EnqueueNotify, NotifyOne, loopVars, stateVars,
          history
    <2>2. ~LoopDrain
      BY <2>1 DEF LoopDrain
    <2>3. InRound(p) => InRound(p)'
      BY <2>1 DEF InRound
    <2>4. QED
      BY <1>3, <2>1, <2>2, <2>3
  <1>8. CASE UNCHANGED <<loopVars, indexed, task, slipped>>
    <2>1. ~LoopDrain /\ init \notin {"start", "scan"} /\ (InRound(p) => InRound(p)')
      BY <1>8 DEF LoopDrain, loopVars, InRound
    <2>2. QED
      BY <1>3, <1>8, <2>1
  <1>9. QED
    BY <1>4, <1>5, <1>6, <1>7, <1>8
    DEF LspNext, lspVars, stateVars, history, Content, OpenRead, OpenSend

LEMMA IndexStep ==
  LspTyping /\ TasksInTurn /\ ScanInv /\ IndexInv /\ HashInv /\ [LspNext]_lspVars
    => ScanInv' /\ IndexInv'
  <1>1. LspTyping /\ TasksInTurn /\ ScanInv /\ [LspNext]_lspVars => ScanInv'
    BY ScanStep DEF ScanInv
  <1>2. LspTyping /\ TasksInTurn /\ ScanInv /\ IndexInv /\ HashInv /\ [LspNext]_lspVars
          => IndexInv'
    BY CurrentStep DEF IndexInv
  <1>3. QED
    BY <1>1, <1>2

-----------------------------------------------------------------------------
(* What the hashes are of.                                                 *)

(* Only files with findings are seeded.                                    *)
LEMMA SeedsFoundStep ==
  ASSUME LspTyping, SeedsFound, [LspNext]_lspVars
  PROVE  SeedsFound'
  <1>0. "init" \in Tasks /\ "loop" \in Tasks /\ Tasks = {"init", "loop"}
    BY DEF Tasks
  <1>1. ASSUME task'["init"].step # "seed" PROVE SeedsFound'
    BY <1>1 DEF SeedsFound
  <1>2. CASE task'["init"] = task["init"]
    BY <1>2 DEF SeedsFound
  <1>3. CASE ScanStore("init")
    <2>1. /\ task'["init"].todo = NonEmpty(task'["init"].found)
          /\ task'["init"].files = Idle.files
      BY <1>0, <1>3, ScanStoreMoves
    <2>2. QED
      BY <2>1 DEF SeedsFound, NonEmpty, Idle
  <1>4. ASSUME NEW q \in Paths, SeedRead("init", q)
        PROVE  SeedsFound'
    <2>1. task["init"].step = "seed" /\ q \in task["init"].todo
      BY <1>4 DEF SeedRead, Reads
    <2>2. /\ task'["init"].todo = task["init"].todo \ {q}
          /\ task'["init"].files = [task["init"].files EXCEPT ![q] = disk[q]]
          /\ task'["init"].found = task["init"].found
      BY <1>0, <1>4, SeedReadMoves
    <2>3. task["init"].files \in [Paths -> Content \cup {Unread}]
      BY <1>0 DEF LspTyping, TaskTyping, TaskLocals, TaskRecord
    <2>4. QED
      BY <2>1, <2>2, <2>3 DEF SeedsFound
  <1>5. CASE Publish("init")
    <2>1. CASE \E q \in Paths : ScanRead("init", q) \/ SendClear("init", q) \/ SendPublish("init", q)
      BY <1>0, <1>1, <2>1, ScanReadMoves, SendClearMoves, SendPublishMoves
      DEF ScanRead, Reads, SendClear, SendPublish
    <2>2. CASE PublishDone("init")
      BY <1>0, <1>1, <2>2, PublishDoneMoves DEF Idle
    <2>3. CASE ScanWalk("init") \/ SeedStore("init") \/ PublishDiff("init") \/ PublishStore("init")
      BY <1>0, <1>1, <2>3, ScanWalkMoves, SeedStoreMoves, PublishDiffMoves, PublishStoreMoves
    <2>4. QED
      BY <1>3, <1>4, <1>5, <2>1, <2>2, <2>3 DEF Publish
  <1>6. CASE Publish("loop") \/ IncrementalRound
    BY <1>0, <1>2, <1>6, PublishAlone, RoundAlone DEF MovesAlone
  <1>7. QED
    BY <1>0, <1>2, <1>5, <1>6
    DEF LspNext, lspVars, Coordinate, Edit, Deliver, Notice, Ring, OpenRead, OpenSend

(* An edit of a file that is between two reads of it lets it slip; of any  *)
(* other nobody has read what it was.                                      *)
LEMMA EditHashed ==
  ASSUME LspTyping, SeedsFound, incremental, NEW h \in Handlers, NEW q \in Paths,
         NEW c \in Content, Edit(h, q, c), NEW p \in Paths, p \notin slipped', HashedOf(p)
  PROVE  HashedOf(p)'
  <1>1. /\ disk' = [disk EXCEPT ![q] = c]
        /\ UNCHANGED <<indexed, hashes, task>>
        /\ c # disk[q] /\ BetweenReads(q) => q \in slipped'
    BY DEF Edit, stateVars
  <1>2. disk \in Files
    BY DEF LspTyping, EnvTyping
  <1>3. HashedIndexed(p)'
    BY <1>1 DEF HashedOf, HashedIndexed, WillRead
  <1>4. Seeding(p)' <=> Seeding(p)
    BY <1>1 DEF Seeding
  <1>5. CASE disk'[p] = disk[p]
    <2>1. FirstRead(p)'
      BY <1>1, <1>4, <1>5 DEF HashedOf, FirstRead
    <2>2. Filtered(p)'
      BY <1>1, <1>5 DEF HashedOf, Filtered
    <2>3. QED
      BY <1>3, <2>1, <2>2 DEF HashedOf
  <1>6. CASE disk'[p] # disk[p]
    <2>1. p = q /\ c # disk[p]
      BY <1>1, <1>2, <1>6 DEF Files
    <2>2. ~BetweenReads(p)
      BY <1>1, <2>1
    <2>3. FirstRead(p)'
      <3>1. task["init"].step = "seed" => task["init"].files[p] = Unread
        BY <2>2 DEF BetweenReads, Seeding, SeedsFound
      <3>2. QED
        BY <1>1, <1>4, <2>2, <3>1 DEF FirstRead, BetweenReads
    <2>4. Filtered(p)'
      BY <1>1, <2>2 DEF HashedOf, Filtered, BetweenReads, WillRead
    <2>5. QED
      BY <1>3, <2>3, <2>4 DEF HashedOf
  <1>7. QED
    BY <1>5, <1>6

(* The first scan, its seeding and its publishing.                         *)
LEMMA InitHashed ==
  ASSUME LspTyping, TasksInTurn, SeedsFound, incremental, Publish("init"),
         NEW p \in Paths, HashedOf(p)
  PROVE  HashedOf(p)'
  <1>0. /\ "init" \in Tasks /\ task'["loop"] = task["loop"] /\ UNCHANGED disk
        /\ task["init"].files \in [Paths -> Content \cup {Unread}]
    BY PublishAlone, PublishFrame
    DEF Tasks, MovesAlone, PublishKeeps, envVars, LspTyping, TaskTyping, TaskLocals, TaskRecord
  <1>1. UNCHANGED <<indexed, hashes>> => Filtered(p)' /\ HashedIndexed(p)'
    BY <1>0 DEF HashedOf, Filtered, HashedIndexed, WillRead
  <1>2. task'["init"].step \notin {"scan", "seed"} => FirstRead(p)'
    BY DEF FirstRead, Seeding
  <1>3. CASE ScanWalk("init")
    <2>1. UNCHANGED <<indexed, hashes>>
      BY <1>3 DEF ScanWalk, Local, stateVars
    <2>2. task'["init"].step = "scan" /\ task'["init"].files = [q \in Paths |-> Absent]
      BY <1>0, <1>3, ScanWalkMoves
    <2>3. FirstRead(p)'
      BY <2>2 DEF FirstRead, Seeding
    <2>4. QED
      BY <1>1, <2>1, <2>3 DEF HashedOf
  <1>4. ASSUME NEW q \in Paths, ScanRead("init", q)
        PROVE  HashedOf(p)'
    <2>1. UNCHANGED <<indexed, hashes>> /\ task["init"].step = "scan"
      BY <1>4 DEF ScanRead, Reads, Local, stateVars
    <2>2. /\ task'["init"].step = "scan"
          /\ task'["init"].todo = task["init"].todo \ {q}
          /\ task'["init"].files = [task["init"].files EXCEPT ![q] = disk[q]]
      BY <1>0, <1>4, <2>1, ScanReadMoves
    <2>3. FirstRead(p)'
      BY <1>0, <2>1, <2>2 DEF HashedOf, FirstRead, Seeding
    <2>4. QED
      BY <1>1, <2>1, <2>3 DEF HashedOf
  <1>5. CASE ScanStore("init")
    <2>1. /\ task["init"].step = "scan" /\ task["init"].todo = {} /\ init = "scan"
          /\ indexed' = task["init"].files /\ UNCHANGED hashes
      BY <1>5 DEF ScanStore, InitStoreEngine
    <2>2. /\ task'["init"].step = "seed" /\ task'["init"].files = Idle.files
          /\ task'["init"].found = Diagnostics(task["init"].files)
      BY <1>0, <1>5, ScanStoreMoves
    <2>3. hashes[p] = Absent
      BY <2>1 DEF TasksInTurn, EmptyAtFirst
    <2>4. task["loop"].step = "idle"
      BY <2>1 DEF TasksInTurn, StepsInTurn, LspTyping, LoopIInv, DrainsReadyEngine
    <2>5. Diagnostics(task["init"].files)[p] # {} => task["init"].files[p] # Absent
      BY DEF Diagnostics
    <2>6. FirstRead(p)'
      BY <1>0, <2>1, <2>2, <2>5 DEF HashedOf, FirstRead, Seeding, Idle
    <2>7. Filtered(p)' /\ HashedIndexed(p)'
      BY <1>0, <2>1, <2>3, <2>4 DEF Filtered, HashedIndexed
    <2>8. QED
      BY <2>6, <2>7 DEF HashedOf
  <1>6. ASSUME NEW q \in Paths, SeedRead("init", q)
        PROVE  HashedOf(p)'
    <2>1. UNCHANGED <<indexed, hashes>> /\ task["init"].step = "seed"
      BY <1>6 DEF SeedRead, Reads, Local, stateVars
    <2>2. /\ task'["init"].step = "seed" /\ task'["init"].found = task["init"].found
          /\ task'["init"].files = [task["init"].files EXCEPT ![q] = disk[q]]
      BY <1>0, <1>6, <2>1, SeedReadMoves
    <2>3. FirstRead(p)'
      BY <1>0, <2>1, <2>2 DEF HashedOf, FirstRead, Seeding
    <2>4. QED
      BY <1>1, <2>1, <2>3 DEF HashedOf
  <1>7. CASE SeedStore("init")
    <2>1. /\ task["init"].step = "seed" /\ UNCHANGED indexed
          /\ hashes' = [q \in Paths |-> IF task["init"].files[q] \in Contents
                                        THEN task["init"].files[q] ELSE hashes[q]]
      BY <1>7 DEF SeedStore
    <2>2. task'["init"].step = "publish"
      BY <1>0, <1>7, SeedStoreMoves
    <2>3. CASE task["init"].files[p] \in Contents
      <3>1. task["init"].files[p] # Unread /\ hashes'[p] = task["init"].files[p]
        BY <2>1, <2>3, LspAssumption
      <3>2. Seeding(p)
        BY <2>1, <3>1 DEF SeedsFound, Seeding
      <3>3. hashes'[p] = disk[p] /\ indexed[p] = disk[p]
        BY <2>1, <3>1, <3>2 DEF HashedOf, FirstRead
      <3>4. Filtered(p)' /\ HashedIndexed(p)'
        BY <1>0, <2>1, <3>3 DEF HashedOf, Filtered, HashedIndexed
      <3>5. QED
        BY <1>2, <2>2, <3>4 DEF HashedOf
    <2>4. CASE task["init"].files[p] \notin Contents
      <3>1. hashes'[p] = hashes[p]
        BY <2>1, <2>4
      <3>2. Filtered(p)' /\ HashedIndexed(p)'
        BY <1>0, <2>1, <3>1 DEF HashedOf, Filtered, HashedIndexed, WillRead
      <3>3. QED
        BY <1>2, <2>2, <3>2 DEF HashedOf
    <2>5. QED
      BY <2>3, <2>4
  <1>8. CASE PublishDiff("init") \/ PublishStore("init") \/ PublishDone("init")
    <2>1. UNCHANGED <<indexed, hashes>>
      BY <1>8 DEF PublishDiff, PublishDiffAs, PublishStore, PublishStoreAs, PublishDone, Local,
                  stateVars
    <2>2. task'["init"].step \notin {"scan", "seed"}
      BY <1>0, <1>8, PublishDiffMoves, PublishStoreMoves, PublishDoneMoves DEF Idle
    <2>3. QED
      BY <1>1, <1>2, <2>1, <2>2 DEF HashedOf
  <1>9. ASSUME NEW q \in Paths, SendClear("init", q) \/ SendPublish("init", q)
        PROVE  HashedOf(p)'
    <2>1. UNCHANGED <<indexed, hashes>> /\ task["init"].step = "send"
      BY <1>9 DEF SendClear, SendPublish, Send
    <2>2. task'["init"].step = "send"
      BY <1>0, <1>9, <2>1, SendClearMoves, SendPublishMoves
    <2>3. QED
      BY <1>1, <1>2, <2>1, <2>2 DEF HashedOf
  <1>10. QED
    BY <1>3, <1>4, <1>5, <1>6, <1>7, <1>8, <1>9 DEF Publish

(* With incremental on the loop does not scan; its publishing does not     *)
(* touch the engine or the hashes.                                         *)
LEMMA LoopHashed ==
  ASSUME LspTyping, TasksInTurn, incremental, Publish("loop"), NEW p \in Paths, HashedOf(p)
  PROVE  HashedOf(p)'
  <1>0. /\ "loop" \in Tasks /\ task'["init"] = task["init"] /\ UNCHANGED disk
        /\ task["loop"].step \notin {"scan", "seed"} /\ ~ScanWalk("loop")
    BY PublishAlone, PublishFrame
    DEF Tasks, MovesAlone, PublishKeeps, envVars, TasksInTurn, StepsInTurn, ScanWalk
  <1>1. UNCHANGED <<indexed, hashes>> /\ task["loop"].step \in {"publish", "store", "send"}
    BY <1>0, PublishFrame DEF PublishKeeps, ScanStore, SeedStore
  <1>2. task'["loop"].step \notin {"filter", "update"}
    <2>1. CASE PublishDiff("loop") \/ PublishStore("loop") \/ PublishDone("loop")
      BY <1>0, <2>1, PublishDiffMoves, PublishStoreMoves, PublishDoneMoves DEF Idle
    <2>2. ASSUME NEW q \in Paths, SendClear("loop", q) \/ SendPublish("loop", q)
          PROVE  task'["loop"].step \notin {"filter", "update"}
      BY <1>0, <1>1, <2>2, SendClearMoves, SendPublishMoves
    <2>3. QED
      BY <1>0, <2>1, <2>2 DEF Publish, ScanStore, SeedStore, ScanRead, SeedRead, Reads
  <1>3. FirstRead(p)'
    BY <1>0, <1>1 DEF HashedOf, FirstRead, Seeding
  <1>4. Filtered(p)' /\ HashedIndexed(p)'
    BY <1>1, <1>2 DEF HashedOf, Filtered, HashedIndexed, WillRead
  <1>5. QED
    BY <1>3, <1>4 DEF HashedOf

(* The filter keeps a file, and with that it has not slipped any more.     *)
LEMMA FilterHashed ==
  ASSUME LspTyping, TasksInTurn, SeedsFound, NEW q \in Paths, FilterRead(q), NEW p \in Paths,
         p \notin slipped', p \notin slipped => HashedOf(p)
  PROVE  HashedOf(p)'
  <1>0. /\ "loop" \in Tasks /\ task["loop"].step = "filter"
        /\ UNCHANGED <<disk, indexed, hashes>>
        /\ slipped' = IF (disk[q] = Absent \/ disk[q] # task["loop"].known[q]) /\ ~Seeding(q)
                      THEN slipped \ {q} ELSE slipped
    BY DEF Tasks, FilterRead, FilterReadIf, Reads, envVars, stateVars
  <1>1. /\ task'["init"] = task["init"]
        /\ task'["loop"].step = "filter"
        /\ task'["loop"].known = task["loop"].known
        /\ task'["loop"].files =
             [task["loop"].files EXCEPT ![q] =
               IF disk[q] = Absent \/ disk[q] # task["loop"].known[q] THEN disk[q] ELSE @]
    BY <1>0, FilterReadMoves DEF MovesAlone, Tasks
  <1>2. task["loop"].files \in [Paths -> Content \cup {Unread}] /\ disk[p] # Unread
    BY <1>0, LspAssumption
    DEF LspTyping, TaskTyping, TaskLocals, TaskRecord, EnvTyping, Files
  <1>3. CASE p \notin slipped
    <2>1. FirstRead(p)'
      BY <1>0, <1>1, <1>3 DEF HashedOf, FirstRead, Seeding
    <2>2. Filtered(p)'
      BY <1>0, <1>1, <1>2, <1>3 DEF HashedOf, Filtered
    <2>3. WillRead(p) => WillRead(p)'
      BY <1>0, <1>1, <1>2 DEF WillRead
    <2>4. HashedIndexed(p)'
      BY <1>0, <1>3, <2>3 DEF HashedOf, HashedIndexed
    <2>5. QED
      BY <2>1, <2>2, <2>4 DEF HashedOf
  <1>4. CASE p \in slipped
    <2>1. p = q /\ ~Seeding(p) /\ (disk[q] = Absent \/ disk[q] # task["loop"].known[q])
      BY <1>0, <1>4
    <2>2. task'["loop"].files[p] = disk[p]
      BY <1>1, <1>2, <2>1
    <2>3. task["init"].step # "scan"
      BY <1>0 DEF TasksInTurn, StepsInTurn, LspTyping, LoopIInv, DrainsReadyEngine
    <2>4. task["init"].step = "seed" => task["init"].files[p] = Unread
      BY <2>1 DEF SeedsFound, Seeding
    <2>5. FirstRead(p)'
      BY <1>1, <2>1, <2>3, <2>4 DEF FirstRead, Seeding
    <2>6. Filtered(p)'
      BY <1>0, <1>1, <1>2, <2>2 DEF Filtered
    <2>7. HashedIndexed(p)'
      BY <1>1, <1>2, <1>0, <2>2 DEF HashedIndexed, WillRead
    <2>8. QED
      BY <2>5, <2>6, <2>7 DEF HashedOf
  <1>5. QED
    BY <1>3, <1>4

(* The other steps of an incremental round.                                *)
LEMMA RoundHashed ==
  ASSUME LspTyping, TasksInTurn, IncrementalRound, ~ \E q \in Paths : FilterRead(q),
         NEW p \in Paths, HashedOf(p)
  PROVE  HashedOf(p)'
  <1>0. "loop" \in Tasks /\ task'["init"] = task["init"] /\ UNCHANGED disk
    BY RoundAlone, RoundFrame DEF Tasks, MovesAlone, RoundKeeps, envVars
  <1>1. UNCHANGED indexed => FirstRead(p)'
    BY <1>0 DEF HashedOf, FirstRead, Seeding
  <1>2. CASE FilterStart
    <2>1. UNCHANGED <<indexed, hashes>> /\ task["loop"] = Idle
      BY <1>0, <1>2 DEF FilterStart, Local, stateVars, TasksInTurn, LocalInTurn
    <2>2. /\ task'["loop"].step = "filter" /\ task'["loop"].known = hashes
          /\ task'["loop"].files = task["loop"].files
      BY <1>2, FilterStartMoves
    <2>3. task'["loop"].files[p] = Unread /\ ~WillRead(p)
      BY <2>1, <2>2 DEF Idle, WillRead
    <2>4. Filtered(p)' /\ HashedIndexed(p)'
      BY <2>1, <2>2, <2>3 DEF HashedOf, HashedIndexed, Filtered
    <2>5. QED
      BY <1>1, <2>1, <2>4 DEF HashedOf
  <1>3. CASE FilterStore
    <2>1. /\ UNCHANGED indexed /\ task["loop"].step = "filter"
          /\ hashes' = [q \in Paths |-> IF q \in Kept THEN task["loop"].files[q] ELSE hashes[q]]
      BY <1>3 DEF FilterStore
    <2>2. /\ Kept = {} => task'["loop"] = Idle
          /\ Kept # {} => task'["loop"].step = "update" /\ task'["loop"].todo = Kept
      BY <1>3, FilterStoreMoves
    <2>3. CASE p \in Kept
      <3>1. hashes'[p] = disk[p]
        BY <2>1, <2>3 DEF Kept, HashedOf, Filtered
      <3>2. task'["loop"].step = "update" /\ p \in task'["loop"].todo
        BY <2>2, <2>3
      <3>3. Filtered(p)' /\ HashedIndexed(p)'
        BY <1>0, <3>1, <3>2 DEF Filtered, HashedIndexed, WillRead
      <3>4. QED
        BY <1>1, <2>1, <3>3 DEF HashedOf
    <2>4. CASE p \notin Kept
      <3>1. hashes'[p] = hashes[p] /\ ~WillRead(p)
        BY <2>1, <2>4 DEF Kept, WillRead
      <3>2. task'["loop"].step # "filter" /\ (task'["loop"].step = "update" => p \notin task'["loop"].todo)
        BY <2>2, <2>4 DEF Idle
      <3>3. Filtered(p)' /\ HashedIndexed(p)'
        BY <2>1, <3>1, <3>2 DEF HashedOf, Filtered, HashedIndexed
      <3>4. QED
        BY <1>1, <2>1, <3>3 DEF HashedOf
    <2>5. QED
      BY <2>3, <2>4
  <1>4. ASSUME NEW q \in Paths, UpdateRead(q)
        PROVE  HashedOf(p)'
    <2>1. /\ task["loop"].step = "update" /\ q \in task["loop"].todo
          /\ indexed' = [indexed EXCEPT ![q] = disk[q]] /\ UNCHANGED hashes
          /\ indexed \in Files
      BY <1>4 DEF UpdateRead, Reads, LspTyping, StateTyping
    <2>2. task'["loop"].step = "update" /\ task'["loop"].todo = task["loop"].todo \ {q}
      BY <1>4, <2>1, UpdateReadMoves
    <2>3. CASE p = q
      <3>1. indexed'[p] = disk[p] /\ hashes[p] = disk[p]
        BY <2>1, <2>3 DEF Files, HashedOf, Filtered
      <3>2. FirstRead(p)'
        BY <1>0, <3>1 DEF HashedOf, FirstRead, Seeding
      <3>3. Filtered(p)' /\ HashedIndexed(p)'
        BY <2>1, <2>2, <2>3, <3>1 DEF Filtered, HashedIndexed
      <3>4. QED
        BY <3>2, <3>3 DEF HashedOf
    <2>4. CASE p # q
      <3>1. indexed'[p] = indexed[p]
        BY <2>1, <2>4 DEF Files
      <3>2. FirstRead(p)'
        BY <1>0, <3>1 DEF HashedOf, FirstRead, Seeding
      <3>3. Filtered(p)' /\ HashedIndexed(p)'
        BY <1>0, <2>1, <2>2, <2>4, <3>1 DEF HashedOf, Filtered, HashedIndexed, WillRead
      <3>4. QED
        BY <3>2, <3>3 DEF HashedOf
    <2>5. QED
      BY <2>3, <2>4
  <1>5. CASE UpdateDone
    <2>1. /\ UNCHANGED <<indexed, hashes>>
          /\ task["loop"].step = "update" /\ task["loop"].todo = {}
      BY <1>5 DEF UpdateDone, Local, stateVars
    <2>2. task'["loop"].step = "publish"
      BY <1>5, UpdateDoneMoves
    <2>3. Filtered(p)' /\ HashedIndexed(p)'
      BY <2>1, <2>2 DEF HashedOf, Filtered, HashedIndexed, WillRead
    <2>4. QED
      BY <1>1, <2>1, <2>3 DEF HashedOf
  <1>6. QED
    BY <1>2, <1>3, <1>4, <1>5 DEF IncrementalRound

LEMMA HashStep ==
  LspTyping /\ TasksInTurn /\ HashInv /\ [LspNext]_lspVars => HashInv'
  <1> SUFFICES ASSUME LspTyping, TasksInTurn, HashInv, [LspNext]_lspVars, SeedsFound',
                      incremental', NEW p \in Paths, p \notin slipped'
               PROVE  HashedOf(p)'
    BY SeedsFoundStep DEF HashInv
  <1>0. /\ SeedsFound
        /\ incremental => (p \notin slipped => HashedOf(p))
    BY DEF HashInv
  <1>1. ASSUME NEW h \in Handlers, NEW q \in Paths, NEW c \in Content, Edit(h, q, c)
        PROVE  HashedOf(p)'
    <2>1. incremental /\ p \notin slipped
      BY <1>1 DEF Edit
    <2>2. QED
      BY <1>0, <1>1, <2>1, EditHashed
  <1>2. ASSUME NEW t \in Tasks, Publish(t)
        PROVE  HashedOf(p)'
    <2>1. incremental /\ p \notin slipped
      BY <1>2, PublishFrame DEF PublishKeeps, envVars
    <2>2. QED
      BY <1>0, <1>2, <2>1, InitHashed, LoopHashed DEF Tasks
  <1>3. CASE IncrementalRound
    <2>1. incremental
      BY <1>3, RoundFrame DEF RoundKeeps, envVars
    <2>2. ASSUME NEW q \in Paths, FilterRead(q)
          PROVE  HashedOf(p)'
      BY <1>0, <2>1, <2>2, FilterHashed
    <2>3. ASSUME ~ \E q \in Paths : FilterRead(q)
          PROVE  HashedOf(p)'
      <3>1. p \notin slipped
        BY <1>3, <2>3, RoundFrame DEF RoundKeeps
      <3>2. QED
        BY <1>0, <1>3, <2>1, <2>3, <3>1, RoundHashed
    <2>4. QED
      BY <2>2, <2>3
  <1>4. CASE UNCHANGED <<incremental, disk, indexed, hashes, task, slipped>>
    BY <1>0, <1>4 DEF HashedOf, FirstRead, Filtered, HashedIndexed, Seeding, WillRead
  <1>5. QED
    BY <1>1, <1>2, <1>3, <1>4
    DEF LspNext, lspVars, envVars, stateVars, history, Content, Coordinate, Deliver, Notice,
        Ring, OpenRead, OpenSend

-----------------------------------------------------------------------------
(* The invariant, and what follows from it.                                *)

LEMMA LspStepIInv == LspIInv /\ [LspNext]_lspVars => LspIInv'
  BY TypingStep, TurnStep, ShownStep, CacheStep, IndexStep, HashStep DEF LspIInv

LEMMA LspInvariant == LspSpec => []LspIInv
  BY LspInitIInv, LspStepIInv, PTL DEF LspSpec

(* Type correctness, with any openers, edits and settings.                 *)
THEOREM LspTypeCorrect == LspSpec => []LspTypeOK
  <1>1. LspIInv => LspTypeOK
    <2> SUFFICES ASSUME LspIInv PROVE LspTypeOK
      OBVIOUS
    <2>1. \A t \in Tasks : task[t] \in TaskRecord /\ LocalInTurn(task[t])
      BY DEF LspIInv, LspTyping, TaskTyping, TaskLocals, TasksInTurn
    <2>2. \A t \in Tasks :
            /\ task[t].todo \cup task[t].clear \cup task[t].send \subseteq Paths
            /\ task[t].step = "idle" => task[t] = Idle
            /\ task[t].clear \cap task[t].send = {}
      <3> SUFFICES ASSUME NEW t \in Tasks
                   PROVE  /\ task[t].todo \cup task[t].clear \cup task[t].send \subseteq Paths
                          /\ task[t].step = "idle" => task[t] = Idle
                          /\ task[t].clear \cap task[t].send = {}
        OBVIOUS
      <3>1. task[t] \in TaskRecord
        BY <2>1
      <3>2. task[t].todo \cup task[t].clear \cup task[t].send \subseteq Paths
        BY <3>1 DEF TaskRecord
      <3>3. QED
        BY <2>1, <3>2 DEF LocalInTurn
    <2>3. /\ LoopTypeOK /\ disk \in Files /\ indexed \in Files /\ hashes \in Files
          /\ incremental \in Modes
          /\ edits \in 0..MaxEdits /\ unsent \in [Handlers -> SUBSET Paths]
      BY DEF LspIInv, LspTyping, LoopIInv, EnvTyping, StateTyping
    <2>4. \A p \in Paths : by_file[p] \cup editor[p] \subseteq [partner : Paths \ {p}, of : Contents]
      BY DEF LspIInv, LspTyping, StateTyping, Anchored
    <2>5. init \in {"start", "scan"} => indexed = [p \in Paths |-> Absent]
      BY DEF LspIInv, TasksInTurn, EmptyAtFirst
    <2>6. /\ overtaken \cup slipped \subseteq Paths /\ late \in BOOLEAN
          /\ ~incremental => slipped = {}
      BY DEF LspIInv, LspTyping, HistoryTyping
    <2>7. QED
      BY <2>2, <2>3, <2>4, <2>5, <2>6 DEF LspTypeOK
  <1>2. QED
    BY <1>1, LspInvariant, PTL

(***************************************************************************)
(* The editor shows what State says was published, but for messages a task *)
(* has still to send, however rounds and openings overlap: only a file     *)
(* whose list was replaced while an older one was on its way can differ.   *)
(***************************************************************************)
THEOREM PublishedShown == LspSpec => []LspConsistent
  <1>1. LspIInv => PublishedIsShown
    BY DEF LspIInv, ShownInv, ShownOf, StillSent, SendsLater, PublishedIsShown
  <1>2. QED
    BY <1>1, LspInvariant, LspTypeCorrect, PTL DEF LspConsistent

(* Once all is handled, no file is noticed or in a round.                  *)
LEMMA SettledIsCurrent ==
  ASSUME LspIInv, Settled, NEW p \in Paths \ slipped
  PROVE  indexed[p] = disk[p]
  <1>1. ~Noticed(p)
    BY DEF Settled, Noticed
  <1>2. ~InRound(p)
    BY DEF Settled, InRound
  <1>3. QED
    BY <1>1, <1>2 DEF Settled, LspIInv, IndexInv

(***************************************************************************)
(* The engine keeps up with the disk, whatever is edited, restored or      *)
(* deleted when: at rest only a file that was changed between two reads of *)
(* it may be out of date, and with full rescans none.                      *)
(***************************************************************************)
THEOREM EngineKeepsUp == LspSpec => []IndexKeepsUp
  <1>1. LspIInv => IndexKeepsUp
    BY SettledIsCurrent DEF IndexKeepsUp
  <1>2. QED
    BY <1>1, LspInvariant, PTL

(* A notification is skipped only where the engine has what it tells of,   *)
(* or is about to read it.                                                 *)
THEOREM SkipsAreRight == LspSpec => []SkipIsRight
  <1>1. LspIInv => SkipIsRight
    BY DEF LspIInv, HashInv, HashedOf, HashedIndexed, SkipIsRight
  <1>2. QED
    BY <1>1, LspInvariant, PTL

(* What didOpen re-publishes is right once everything is handled, unless   *)
(* the first scan stored its findings over those of a later round.         *)
THEOREM CacheKeepsUp == LspSpec => []CacheCurrent
  <1>1. LspIInv => CacheCurrent
    <2> SUFFICES ASSUME LspIInv, Settled, ~late, slipped = {}
                 PROVE  by_file = Diagnostics(disk)
      BY DEF CacheCurrent
    <2>1. by_file = Diagnostics(indexed)
      <3>1. task["init"] = Idle /\ task["loop"] = Idle
        BY DEF Settled, Tasks
      <3>2. ~InitHoldsFindings /\ task["loop"].step = "idle"
        BY <3>1 DEF InitHoldsFindings, Idle
      <3>3. QED
        BY <3>2 DEF LspIInv, CacheInv
    <2>2. indexed = disk
      <3>1. \A p \in Paths : indexed[p] = disk[p]
        BY SettledIsCurrent
      <3>2. QED
        BY <3>1 DEF LspIInv, LspTyping, EnvTyping, StateTyping, Files
    <2>3. QED
      BY <2>1, <2>2
  <1>2. QED
    BY <1>1, LspInvariant, PTL
=============================================================================
