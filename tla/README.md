# A TLA+ model of tokei-dedup

tokei-dedup finds duplicated code: files (or the functions in them) are lexed,
fingerprinted, indexed in a banded LSH index, verified exactly, scored and
reported, once by the command line tool and continuously by a language server.
The modules here model the parts whose correctness depends on orders of events,
on state kept between calls, or on boundary cases of an algorithm. They are
checked with TLC on small instances, and what matters most is proved with TLAPS
for every instance.

## The system

| Component (`src/crates`) | State | Operations | What makes it correct |
|---|---|---|---|
| normalizer | lexer state | `process` text to tokens | tokens and lines are what the text was written to be; every line is counted once |
| lang-config, slicer | none (a table, tree-sitter) | look up a language, `slice` a file into functions | - |
| fingerprinter | none | `k_grams`, `winnowing`, `MinHasher::sketch` | the winnowing guarantee; slots agree only by a common fingerprint |
| index, `LshIndex` | files, sketches, buckets, path map, dead counter | add, `remove_by_path`, `compact`, queries | answers as a set of live entries would |
| index, `Index` | inverted index | add, `pair_report` | the tests' oracle: the same pairs as by LSH where both look |
| verifier, classifier | none | `verify`, `classify_with_root` | tags are about the project, not the place it is scanned at |
| engine, one-shot | none | `scan`, `walk_filtered` | the backends agree; the report is one of what was read |
| engine, incremental | index, exact sets, findings | `initial_scan`, `update` | the findings are those of a scan from nothing |
| engine, search | the index file | `build`, `save`, `load`, `search_snippet`, `search_keywords` | answers only from whole indexes; finds what is there, however it is spelled |
| lsp-server, loop | pending set, `Notify`, engine slot | `enqueue_paths`, the loop, `initialized` | no path waits for ever |
| lsp-server, state | cached findings, published URIs, file hashes | scan, filter, update, publish, `didOpen` | the editor comes to show the clones of the files as they are |
| lsp-server, options | settings | `resolve_init_opts`, `workspace_root` | a value that is not accepted keeps the default |
| lsp-server, ranking | none | `rank_and_group`, `make_diagnostic` | tiers follow the scores; a pair is shown at both ends |
| lsp-server, watcher | watched directories | `spawn`, `pump`, `add_watches` | a change of a visited file is reported |
| cli | the HTML report's cache | `scan`, `index`, `search` | a report shows one version of a file |
| semantic, editors/zed | none | stub, launcher | - |

The language server is where these interact. The editor's notifications and the
watcher's event pump put paths into one shared set and ring a `Notify`; one loop
task drains the set, filters it by content hash, calls the engine behind a
mutex, and publishes to the editor through the shared `State`. The handler of
`initialized` scans and publishes beside that loop. `didOpen` reads `State` and
sends as well. What is hard is in these interleavings (every `await` between a
read and its use), in the stale entries the index and the caches keep, and in
the bookkeeping by which `update` avoids a full scan. The command line shares the
workspace with everyone who edits it, and one index file between its commands.
The algorithms underneath are sequential; what is hard there are boundaries:
markers that are prefixes of each other, ties, the last window, the last line.
`PROJECT.json` lists each such place under `hazards`.

## The modules

| Module | Models | Extends or uses |
|---|---|---|
| `RescanLoop` | the wake-up protocol of `lsp-server/src/main.rs` | |
| `LspServer` | scans, hash filter, publishing, `didOpen` around it | extends `RescanLoop` |
| `FileWatcher` | `lsp-server/src/file_watcher.rs` in front of the loop, other programs included | extends `RescanLoop`, refines it |
| `LshIndex` | `LshIndex` of `index/src/lib.rs` | refines `LiveEntries` |
| `LiveEntries` | what the index promises: a bag of live entries | |
| `IncrementalEngine` | `IncrementalEngine` of `engine/src/lib.rs` on the index | extends `LshIndex`, refines `IncrementalFindings` |
| `IncrementalFindings` | the algebra of findings behind `update`, without ids | |
| `Normalizer` | the lexer `process_standard` of `normalizer/src/lib.rs` | |
| `LiterateNormalizer` | `process_literate` beside it | extends `Normalizer` |
| `Fingerprinter` | k-grams, winnowing and MinHash of `fingerprinter/src/lib.rs` | |
| `WrittenText` | what a text means to its writer: the reference for the lexer | |
| `FilePipeline` | `process_path`: from a file's bytes to its sketch | composes the four above |
| `Classifier` | `verifier` and `classifier`: overlap, tags, scores | |
| `OneShotScan` | `scan` with both backends, the naive index, the HTML report | extends `Classifier`, `LshIndex` |
| `Ranking` | options, ranking and diagnostics of the server | extends `OneShotScan` |
| `Search` | `engine/src/search.rs` and the index file | extends `OneShotScan` |
| `Commands` | the commands and rounds over one workspace | composes `Ranking` and `Search` |
| `RescanLoopProofs`, `FileWatcherProofs`, `LspServerProofs`, `LshIndexProofs`, `IncrementalFindingsProofs`, `IncrementalEngineProofs`, `FilePipelineProofs`, `CommandsProofs` | proofs | extend the module they are about; `IncrementalEngineProofs` and `CommandsProofs` also extend `LshIndexProofs`, and the former instantiates `IncrementalFindingsProofs` |
| `MCFileWatcher`, `MCLshIndex`, `MCIncrementalEngine`, `MCIncrementalFindings`, `MCFilePipeline`, `MCCommands` | instances for TLC | extend the module they instantiate |

### RescanLoop

`pending` is `pending_paths`; `permit` and the loop's state `waiting` are the two
states of the `Notify`; `engine` is the mutex with its `Option`, or poisoned.
`Enqueue` and `EnqueueNotify` are the two halves of `enqueue_paths` (the lock is
released before the ring, and duplicates do not ring). `InitSpawn` to `InitNotify`
are `initialized`; `LoopAwait` to `LoopApplied` are the loop of
`spawn_rescan_loop`, one action for each await or lock. A panic of a blocking
task is `InitGivesUp` or `LoopUpdatePanics`.

### LspServer

Each file has a content; a hash stands for the content it is of (no collisions of
xxh3). The engine is the content it indexed for each file, and two files are
clones when their contents are equal, which is enough to tell old diagnostics
from new ones. `task` holds the local variables of the two tasks that publish,
the handler of `initialized` and the loop: what they still have to read, what
they have read, and what they are about to send. The walk and each read of a file
are steps, as are the two critical sections of `filter_unchanged_by_hash` and of
`publish_findings`. `incremental` is the option `initialize` sets, one of `Modes`:
the loop updates the engine or rebuilds it. `Edit` is the environment: it writes,
deletes or restores any file at any moment, the first scan included
(`EditsDuringInit`).

In some orders of these steps the code does lose something. Three history
variables remember them, and the properties say what holds but for these:

| Variable | Remembers | Until |
|---|---|---|
| `slipped` | a file changed between two reads of which one gives the hash and the other the entries: the scan and its seeding, or a round's filter and its update | a round's filter keeps the file, with no seeding to come that would store a hash for it |
| `overtaken` | a file's published list was replaced while somebody else had an older list, or a difference to it, in hand | a task sends what `State` says, with nothing else about that file on its way |
| `late` | the engine changed while the first scan held findings it had taken before | the loop has stored a later round, with the first scan's findings out of the way |

No action's guard reads them.

### FileWatcher

Directories and files are paths with a `Parent` and a `Chain` of components below
the root. `Arm...` is `maybe_spawn_file_watcher` with `add_watches`, one action for
each call of `watch`; `strategy` is what the operating system compiled in, the
directories of the walk or one recursive watch. `Change` is the environment: a
change raises at most one event, with those paths whose directory is watched.
`PumpReceive` and `PumpInsert` are the two sides of the await in the pump. The
history variables `unread` and `blind` say which files changed since the engine
last read them, and which of those changes no event told of: those before the
watch was there, in directories made later, or moved with their directory.

### LshIndex and LiveEntries

The index is one record with the fields of the struct. The operations are
operators on that record, taken by the engine in batches and by the actions
`AddStep`, `RemoveStep`, `CompactStep` one by one. Ids start at 1. The band hash is
the pair of band number and rows that is hashed. `LiveEntries` is the bag of live
entries; removal empties a path, compaction is a stutter.

### IncrementalEngine and IncrementalFindings

A content stands for the items `process_path` makes of it: a granule, a sketch
and a set of fingerprints for each function. `InitialScan` and `Update` are the
whole methods, compaction included. `EditFile` changes the disk. A finding keeps
the exact intersection and union and the two sizes, from which `Classify`
computes score and tags; the run gives it the model of the classifier. `DiffTurn`
is one turn of the loop that changes the findings while it takes the diff,
`TakeDiff` the whole of it, and `FindingChanged` is `finding_changed` with its
tolerance, on fractions. Each touched pair has one turn, which changes what is of
its own pair, so the order of the turns is fixed. Where
several candidates have one pair key, the order in which a hash map is iterated
decides, and the model allows each outcome. `IncrementalFindings` says the same
without ids: forget every finding in a pair that an entry of the changed files
touched, add what is found again. An update reads any file it is told of, one that
the walk excludes too; `ScanFindings` is what a scan reports of the files it visits.

### Normalizer, LiterateNormalizer and FilePipeline

The variables of `Normalizer` are those of `process_standard`; each action is one
branch of its loop, in the order in which the branches are tried. A byte is a
member of the classes the code tells apart, and a language is its table of
markers. `FirstMatch` is what sorting the table by length does.
`LiterateNormalizer` reads lines as `process_literate` does; a line is blank,
prose, a bare fence or a fence with text after the marker. `swallowed` is a history
variable: line breaks that an escape stepped over, which end no line.

`Fingerprinter` has the loop over windows and the loop over the hash set as
actions. Hashes have three bits and wrap, so that collisions, ties and overflow
are common. `FilePipeline` chains the parts with the early returns of
`process_path`; a function is any range of bytes, since tree-sitter finds them.

The reference for the lexer is `WrittenText`: a text is a sequence of pieces, and
each piece says which token it is and what it makes of the lines it is on. The
lexer sees only the concatenated bytes. Texts with pieces that open and do not
close are read too; for those only `TokensOrdered`, `LinesAccounted` and
`PipelineEnds` speak.

### Classifier, OneShotScan, Ranking, Search and Commands

A command is a record with its name, its options and its stage. `Walk`, `ReadFile`
and `Collect` are how every command reads the workspace: the list of files first,
each file at a moment of its own, then the items in the walker's order. `EditFile`
may come between any two of these. `ReportScan` is the end of `scan` with `RunLsh`
(on the operators of `LshIndex`) or `RunNaive`; where the sort leaves ties, the
order of a hash map decides, and `Sorted` gives every outcome. `RenderPane` reads
the files again for the HTML report.

`Ranking` resolves the options and takes a round of the server from the same scan.
`Search` builds the index from the items, saves it in two steps (`SaveCreate`
truncates, `SaveWrite` ends the writing) with `SaveFails` and `Crash` between
them, and answers queries. An answer keeps the index it was computed from, and
`built` is the history of all indexes. A score is a fraction; BM25 is a partial
order, of which only what the formula implies for any corpus is used.

`Commands` lets several of these run one after the other. The server and the
commands share no file that either writes and the other reads, so a behaviour has
the one or the others; nothing reads the workspace between two commands, so edits
come while a command runs.

## What is checked

The state predicates of a run are conjunctions of named parts where several parts
belong together: a module's type invariant stands beside what every step must keep.

| Run | Shows | Bounds |
|---|---|---|
| `rescan_loop` | no wake-up is lost; every path enqueued is applied unless a panic left no usable engine | 2 handlers, 2 paths |
| `lsp_server` | in both modes: the index is that of the disk when all is handled, file by file (`IndexKeepsUp`), a skip is right, the cached diagnostics are (`CacheCurrent`), the editor shows what was published (`LspConsistent`) and in the end the clones of the disk | 2 files, 1 content and absence, 2 edits at any moment from the first scan on, 1 opener of one file |
| `file_watcher` | a change an event told of is tracked until a round reads it, and is read; the server's own reads settle; still the loop of `RescanLoop` | 3 directories, 3 files, 2 changes |
| `lsh_index` | `IndexConsistent` (types, dead counter, path map); queries and candidate pairs are exact, removed ids can be asked; refines `LiveEntries` | 4 entries, 2 paths, 4 sketches of 2 bands and 2 rows |
| `engine` | findings are those of a scan, diffs are those of the contents before and after, caches follow the contents (`EngineConsistent`); refines `IncrementalFindings` | 2 files, 5 contents, both stale, updates of any set of paths |
| `file_pipeline` | the lexer finds what was written, tokens are in order (`LexerConsistent`), lines are counted once; winnowing is exact and keeps its guarantee; sketches are exact; every file ends | texts of up to 3 of 20 pieces, literate texts of up to 4 lines, 6 tokens of two kinds; k and window 2, hashes of 3 bits |
| `commands` | both backends agree with the oracle, tags ignore the place of the project, a report shows one version of a file; tiers follow scores and pairs are shown at both ends (`RoundConsistent`), only ties move; commands leave nothing behind and a search answers from a whole index (`CommandsConsistent`), finds verbatim code and identifiers in every spelling (`SearchFinds`), and splits at word boundaries | 3 files, 3 contents, 2 commands, 1 edit; 8 sets of scan options, 8 of server options, 9 queries, identifiers of 4 characters |

The bounds reach the interesting cases. Four entries hold a dead one between live
ones that is compacted away. Two changes with both watch strategies rename a file between an excluded and a
watched directory, and change a file again while a round applies it. Two edits of
the server's files, each a clone of the other or not there, put a save between the
scan and its seeding, delete a file and make it again with the same content, put an
edit between the two reads of a round, or save while a round runs beside the first
one; the opener holds a copy across any of these. The invariants also hold with
three edits and `Openers = {}`, where a file slips and is restored. The opener is one task that opens once, since `OpenRead` takes all it needs
from `State`. The contents of the engine
give a pair that each filter alone rejects, a file with two functions, and a
function that moved. Two handlers ring while a third task, the loop, drains.

Three pieces put a construct between two others on one line or on three; the
pieces include a comment nested in a comment, comment marks and line breaks in
strings, an escaped quote, a documentation quote with a quote inside, a verbatim
string that ends in a backslash, and six that leave something open or close what
is not open. Six tokens give five k-grams and four windows: two equal runs of
three tokens, overlapping or apart, with ties in between. Two commands are an
index that is built and one that replaces it or is cut short, or is searched; or
two rounds of the server over equal findings with a tie for the last place of the
top. One edit falls between two readings of a file. The three contents have
functions that are equal, contained in one another, too far apart, and close
without a band in common. All 256 identifiers of four characters out of a
lower-case letter, a capital, a digit and a separator are split.

Deadlock checking is off where the system may stop: a server with nothing
pending, and an environment that has used up its edits.

Fairness: the runtime polls every task that can go on, so each task has weak
fairness, and a notification that was sent arrives. Edits, notifications of new
paths, opened files and panics have none. `PipelineEnds` needs weak fairness of the
one thread that processes a file: it shows that the loops make progress for every
text.

### What the violations show

Five runs end in a counterexample, each against what a comment says (`findings` in
`PROJECT.json` quotes it):

- `lsp_server_seed`: a save during the first scan is lost. `seed_file_hashes`
  reads the file after the scan did, and the filter takes the save for a no-op.
- `lsp_server_open`: `didOpen` sends a list it copied before a round cleared it.
- `file_watcher_below`: in a workspace below a directory called, say, `build`, the
  pump takes every event for one of an excluded directory.
- `findings_algebra`: an update of an excluded file (a save in `target/`, say) reports
  findings in it. The comment on `IncrementalEngine` says that a full scan is always
  equivalent to an update that covers every path; here it is not.
- `file_pipeline_escape`: a line break behind a backslash in a string ends no line,
  though the comment at the escape says that it still terminates the logical one.

### Known counterexamples and differences

These are reached by changing a constant of a run, or were met while reading.

- `MaxEdits = 3` and `IndexCurrent` in `lsp_server`: a file changes between the
  filter's read and the update's, and is then restored. The restoring save matches the
  stored hash (`main.rs:714`) and is skipped. `slipped` stands for this.
- `late` in `lsp_server`: the engine is stored before the first scan's findings are
  published (`main.rs:503`), the loop may publish a newer round in between, and the
  later store then wins with the older findings. Without `~late`, `CacheCurrent` and
  `EditorCatchesUp` fail with one edit. The 500 ms debounce makes this rare; no lock
  excludes it.
- `overtaken` in `lsp_server`, without `didOpen` too: the two publishing tasks take
  their differences side by side, and the messages of the slower one are sent last.
- Two items of one content with equal granules in `engine`: two functions with one
  name on the same lines share an `ItemKey` (`engine/src/lib.rs:823`), and
  `MatchesFullScan` fails.
- A string or block comment that is open at a final line break counts one line too
  many. `LinesAccounted` leaves such texts, and escaped line breaks, out.
- In literate text a ```` ``` ```` closes a `~~~` and the other way round; blank lines in a
  fence that names its language are counted as blank, though the comment above
  `process_literate` (`normalizer/src/lib.rs:290`) says the fence's lines are excluded;
  `LiterateCounts` leaves texts with such lines out of what it says of blanks.
- `save` truncates the old index before it writes, and the error of the last flush
  is dropped with the `BufWriter`: a failed or killed `index` command leaves the
  user without the index there was. `IndexWhole` shows that no search takes the rest
  for an index; it cannot show that the old one survives, because it does not.
- The comment on `SnippetCache` (`cli/src/html.rs:35`) promises "[source unavailable]"
  for a deleted file; a file that was edited shows its new lines at the old numbers.
- `--lang` takes a key as it is spelled or an extension: `--lang python` falls
  through to guessing, because `by_key` is exact where the loop after it is not.
- "Single-char tokens are dropped" (`search.rs:102`) counts bytes: a word of one
  character beyond ASCII stays. `SplitsAtBoundaries` leaves identifiers with such a
  word out (`HasLoneWide`).
- Several languages list the same extension; the hash map's order picks one
  (`lang-config/src/lib.rs:161`), in each process anew.
- A function nested in another is compared with the one around it; a pair within one
  file has one diagnostic, at its first end; whole-file findings have none.

## What is proved

`RescanLoopProofs`, for any set of paths and handlers, with or without
panics: `LoopTypeCorrect`, `NoWakeupIsLost` and `OnlyBuiltEnginesUpdated`. The
invariant that carries them relates the ring to the places where a path can
wait: pending paths of a usable engine imply a stored permit, a loop between
wake-up and drain, a handler about to ring, or a first scan that will ring at its
end. Type correctness is proved first and used throughout; each action is a step
of the proof. `AppliesToBuiltEngine` needs that the engine, once stored, is only
poisoned by the update itself.

`FileWatcherProofs`, for any tree, excludes and changes by other programs
(`FileWatcherAssumption`): `WatcherTypeCorrect`, `ReportedChangesTracked`,
`WatcherImplementsLoop` and `WatcherLosesNoWakeup`. Every step of the watcher is
one of the loop's or leaves its variables alone, so the loop's invariant carries
over; `ReportedIsTracked` is then inductive with type correctness. Its lemmas say
what sending and receiving an event does to the tracked paths.

`IncrementalFindingsProofs`, for any files, contents and items, and any filters
that are symmetric in the two endpoints (`FindingsAssumption`, which the theorems
assume; `SymmetricFilters` proves it of the engine's, and TLC evaluates it in
`engine`): `FindingsTypeCorrect`, `FindingsAreAll` and `FindingsRoundTrip`. The
inductive invariant `AllFound` says that the findings are all those among the files
last processed, excluded ones included. The heart is that an update forgets no
finding it does not find again and keeps none it should forget: a finding that is not
touched has neither endpoint's entries in a changed file, before or after, so it is a
finding of the new contents exactly when it was one of the old. `FindingsRoundTrip`
follows for the files the walk visits: no entry of theirs depends on an excluded file.

`LshIndexProofs`, for any number of bands, rows and entries: `IndexStaysConsistent`,
`QueriesStayExact`, `RemovedAnswer` and `IndexImplementsLiveEntries`. `GoodIndex`
adds to `IndexConsistent` what it lacks to be inductive: an id, dead or alive, is in
exactly the buckets of its sketch. Compaction renumbers by rank, and the lemmas on
ranks (they are one to one and onto) carry every structure over.

`IncrementalEngineProofs`, for any files, items and shape of the index
(`EngineAssumption`): `EngineStaysConsistent`, `EngineMatchesScan`,
`EngineImplementsAlgebra` and `DiffIsExact`. `EngineIInv` says of the index and the
exact sets that they hold the contents last processed: each item stands under one
live id and one key. A step of the engine, with ids, tombstones, buckets and a
compaction in the middle, is then a step of `IncrementalFindings`, and the round trip
proved there carries over, to the files the walk visits. `DiffIsExact` needs
`AllFound` before and after the update: the loop, whose state after any set of turns
`LoopState` gives (`LoopEnd`), ends with the findings of the new contents, and what it has named on the way is
the difference, because a pair it had no turn for is a finding before exactly if it is
one after, with the same overlap, and a finding is not apart from itself. All four
assume `DistinctGranules`, that no two items of a content have one `ItemKey`; this is
the hazard at `engine/src/lib.rs:823`, and without it `MatchesFullScan` is false (see
above).

`LspServerProofs`, for any files, contents, handlers, openers and number of edits, in
both modes: `LspTypeCorrect`, `PublishedShown`, `EngineKeepsUp`, `SkipsAreRight`,
`CacheKeepsUp`, `ServerImplementsLoop` and `ServerLosesNoWakeup`. Nothing is assumed of
when edits come, of what they restore or of what is opened; what the statements leave
out is what `slipped`, `overtaken` and `late` remember. The invariant `LspIInv` has a
part for each piece of state that is read at one step and used at a later one:

| Part | Says |
|---|---|
| `TasksInTurn` | where the two publishing tasks are, and which of their local variables are in use |
| `ShownInv` | of a file that is not `overtaken`: the editor shows what is published but for a message still to be sent, and whoever holds a difference or a copy holds one to the list as it is |
| `ScanInv`, `IndexInv` | a file that changed since it was read is noticed and not drained yet, or in the round under way, or `slipped` |
| `HashInv` | of a file that did not slip: which content a stored hash is of, and that the engine has it or the round will read it; what seeding and filter hold between their reads and their store |
| `CacheInv` | what is cached, or held for publishing, is computed from the entries the engine has, unless `late` |

`FilePipelineProofs`, for any text, table of markers, k, window, number of slots
and hash width:

- `LexerStaysConsistent` and `LinesAreAccounted`: `LexIInv` says for each mode of the
  lexer where its current token and line began and what has been counted; a line
  break between them is one an escape stepped over. Escapes, nested comments and
  markers that overlap are each a case of a step.
- `LiterateLinesCounted`: the flags of the loop are the parity of the fences before
  the line, and whether the last of them named a language.
- `WinnowingExact`: the last fingerprint is the rightmost minimum of the last
  window, and a new window's is that one again or comes after it.
- `WinnowingGuarantee` (from it): a window of one run chooses a place that lies in
  the run, and the same place of the other run is chosen by the same window there.
- `SketchesExact`: slots are minima of what has been visited; and an odd
  multiplier is invertible modulo a power of two, so that equal slots come of
  equal fingerprints. The code's multipliers are odd by construction
  (`FingerprinterAssumption`).

The last three assume that `token_hash` returns a hash (`TokenHashesFit`).

`CommandsProofs`, for any workspace, contents, options, queries, number of commands
and edits: `CommandsInvariant`, `CommandsAreConsistent`, `ReportsAreConsistent`,
`TagsAreOfProject`, `TheBackendsAgree`, `PairsAreShownAtBothEnds`,
`RoundsAreConsistent`, `OnlyTiesAreMoved`, `QueriesAreSplit` and `SearchesFind`. None of the properties of the run `commands` is inductive: each
speaks of what a command left, and the files it read from have changed since. So
`CommandsIInv` keeps of everything that is left where it came from:

| Part | Says |
|---|---|
| `CommandInv`, `DiskInv`, `ReadInv` | which command is at which stage with which options; nothing is held of a file but while it is read |
| `ItemsInv` | the items are those of some workspace that these options collect, not of the disk as it is now |
| `FreshInv`, `ReportInv` | a report is a sorting of what the items in it give, and is gone while the next command reads |
| `HtmlInv` | each pane shows what the cache holds of its file |
| `ServerInv`, `RoundInv` | the settings are those the options resolve to; what is published is a sorting, grouped by file, of the findings of some workspace |
| `SavedInv` | every index, saved, loaded or answered from, is one that was built whole, or a file cut short |

The tiers need of a sorting only that it lists the findings once and none after one
with a lower score (`SortedOrderings`): whatever order the hash map has, a finding
without a tie stands after exactly those that score higher. `RoundsAreConsistent`
assumes `DistinctGranules` (two functions of one content with one granule are one end
to the editor, and a finding may then be in both tiers); `PairsAreShownAtBothEnds`
is its other half and does not. `RankingAssumption` and `CommandsAssumption` say
that the model values for a tier that is dropped and for options that were not given
are not severities or numbers, and of which kind the options are.

`QueriesAreSplit` rests on `SplitsIdentifiers`: for identifiers of any length out of the
four kinds of characters, the recursion of `split_identifier` has exactly one solution,
which gives for each place the words that would be there if the identifier began at it.

`TheBackendsAgree` follows each backend down to the sets of fingerprints:

- the inverted index: a bucket lists, in rising order and once, the items that have its
  hash (`BucketLists`), so the places where two items are paired add zeros and ones
  (`SumCounts`), and what they add up to is the number of hashes the two share
  (`CountsShared`), if no bucket is over the limit;
- the LSH index: a pair is a candidate if and only if the two share a band
  (`CandidatesOfItems`); what reaches a threshold above zero shares a fingerprint, so the
  pair is one the inverted index has as well (`ReachesShared`).

`SearchesFind` has two halves. Code: the blind mode an index keeps by its name is
the one it was built with, so the snippet has exactly the entry's fingerprints; its
sketch passes the halved estimate and shares every band, so the entry is among the
candidates on both ways (`SnippetCandidate`), and the first of any sorting scores as
high as every other. Identifiers: each of the five spellings begins with letters
of its first word that end at a boundary, because what follows is a separator, or a
capital after lower case (`SpelledStarts`, `FirstWordSplit`); so entry and query have that
word in common. Sequences that are joined stay where they are put (`FlattenKeeps`).

Three more assumptions say what these two need of the constants. `InputsAssumption`:
thresholds, limits and numbers of matches are numbers, a blind mode is one of the
three of `BlindMode` (`FlagsAssumed`); what the normalizer and the fingerprinter make of
a part of a file is a finite sequence of hashes, a sketch with all its slots, and a sequence of
identifiers (`PartsAssumed`; that the fingerprinter does so is proved in
`FilePipelineProofs`). `WordListsAssumption`: `_` and `-` are separators, and the words
looked for have two letters or more, as shorter ones are dropped. TLC evaluates all of
them on the run `commands`. `VerbatimFound` speaks of thresholds up to a full match:
`--threshold` takes any number, and above one nothing can be found.

The library's induction theorems cannot be used (they take an operator as a
parameter), so inductions go by the least counterexample (`LeastNumber`), for
natural numbers and lengths of sequences. A recursive function is known to the
prover only once one that satisfies its equation has been shown to exist:
`FlattenSteps` and `SortedOrderings` build it.

Model-checked only: `LexesAsWritten`, and liveness. `LexesAsWritten` compares the lexer
with folds over the pieces of a text, and it is no fact about every table of markers: a
language whose markers a word or an operator may begin reads the same pieces otherwise.
A theorem needs an assumption on `Texts` that says, for any table, which bytes a piece of
each kind may have and what may stand next to it; short of such a grammar, the assumption
would be the lexer's own branches over again and the theorem would say little. What holds
of every text whatever its pieces are is proved: `TokensOrdered`, `LinesAccounted` and
`LexerConsistent`. Liveness is beyond the prover under fairness
(`EnqueuedIsApplied`, `EditorCatchesUp`, `IndexCatchesUp`, `ReportedIsRead`,
`WatcherSettles`, `PipelineEnds`).

## Not modelled

- Wording and layout: text, JSON and HTML output, log messages, argument parsing.
- The stub `semantic` crate and the Zed launcher, which keep no state.
- Tree-sitter and its queries, which decide what the slicer returns; the vendored
  JSON of languages and the unescaping of its markers.
- How the `ignore` crate matches patterns; a path is pruned or it is not.
- The statistical quality of MinHash, which is not a yes-or-no property, and the
  rounding of f32. BM25 scores are a partial order.
- The 64-bit hashes are collision-free in `LspServer`; a collision of band hashes only
  adds candidates, which the exact check rejects. In `Fingerprinter` they do collide.
- Two processes at once on one index file: the commands run one after the other.
- Characters that are neither upper nor lower case in identifiers.
- The order of the walker, which only permutes ids, is fixed.
- In `OneShotScan` a function's text stands for its tokens; `FilePipeline` is about
  what becomes of a text.

## Plan

What is left to prove of the safety properties is `LexesAsWritten`, for which the
pieces of a text need a grammar that any table of markers can be held against.
