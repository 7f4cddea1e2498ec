# racevis in TLA+

racevis runs a Go package's tests under the race detector and under the
scheduler tracer, joins both outputs into a timeline and serves it to a browser;
with `-watch` it does so again for every change of a `.go` file.  This directory
models what in it depends on order, failure or concurrency: the event stream, the
watcher, the page and what it shows, the two line-by-line parsers, the analysis
pipeline with its files, the source reader and the correlator.

## Inventory

| Component | State | Operations | Hard parts | What makes it correct |
|---|---|---|---|---|
| Event stream (`server/server.go` 156-212) | timeline, client registry, a channel per client, `mu` | `UpdateTimeline`, register, forward, remove itself | registry changed in place by many goroutines; full channels; blocked writes; deadlines that end every stream | registry exact; the last reload is never lost; the publisher never waits for a browser; handlers leave |
| HTTP server (rest of `server.go`) | listener | `Start`, `handleTimeline`, UI, health | deadlines | a fetch gets the newest timeline |
| Watcher (`main.go` 184-261) | last snapshot, timeline | scan, compare, analyse, publish | edits during a scan or an analysis | a save is never taken for analysed |
| Page, watch mode (`ui/index.html` 1105-1203) | `tl`, EventSource, fetches under way | load, connect, reload, error | streams end and come back; the program restarts | what was published is fetched; the page listens again |
| Page, view (`ui/index.html` 1205-2144) | view mode, focus, playhead, animation frame, panels, cards, the logo's timers | play, seek, switch, focus, open, close, reload | frames and timers that outlive what started them; answers that overtake one another; a reload under open panels | one chain of frames; the playhead is shown; all that is shown is of one timeline |
| Race parser (`parser/race.go`) | parse state, open event, pending function | a line, the end | the program's own lines between those of a report, some of which look like its parts; reports cut short by a killed binary, ends anywhere, which creation stack comes | events are the reports |
| Trace parser (`parser/trace.go`) | block, pending creation, frames | a line, the end | a block ended by whatever follows | transitions recorded; a creation is that of its own birth |
| Runner (`runner/runner.go`) | outputs, exit code, trace file | pass 1 × count, pass 2, retry, two flags of the trace tool | failures of the commands; tests killed by a signal; packages without tests | races survive the loss of the trace; pass 2 is skipped only without races |
| Pipeline (`main.go` 111-179) | temporary file, races, trace | analyse | failure and interruption at any step | own results, no file left |
| DWARF names (`dwarf.go`) | a binary in the temporary directory | build, load, resolve, close | processes that share the file | names from the own binary, which is removed |
| Correlator (`correlator/correlator.go`) | lanes, zones, groups | build lanes, zones, annotate, group | intervals, map order, scoping of marks | lanes are the trace; every race is shown, in one group |
| Source reader (`source/reader.go`, `main.go` 319-357) | cache of sites, an open file | look up, resolve, read a line, cut out | the developer saves while it reads; windows at both ends of a file; cached failures | the racing line, and only it, is marked; what the tests ran is shown |
| Flags, exports, ports, documents, demo | none | - | - | - |

How they interact: the watcher's goroutine calls the pipeline and then
`UpdateTimeline`; the pipeline runs the runner, the parsers, the source reader, the
DWARF names and the correlator one after another and passes values; the server's
goroutines share `timeline` and `sseClients` under `mu` and channels; the page
talks to the server by fetches and one event stream.  The signal handler ends the
process at any moment without running deferred calls.

## Modules

| Module | Models | Checked by | Proved in |
|---|---|---|---|
| `SSEFeed` | the promise of the event stream: subscribers are told of publications | refinement target | |
| `SSEServer` | `UpdateTimeline` and `handleSSE`, net/http deadlines, sockets | `sse` | `WatchPageProofs` |
| `WatchPage` | page and program lifetimes; EXTENDS `SSEServer` and joins its actions with the page's | `page`, `page_gap` | `WatchPageProofs` |
| `Watcher` | polling loop, scans, analyses as reads of the disk, the developer | `watcher`, `watcher_startup` | `WatcherProofs` |
| `TimelineView` | what the page shows: view modes, focus, playback, panels, cards, the logo, and reloads whose fetches overlap or fail | `view` | `TimelineViewProofs` |
| `RaceParser` | `ParseRaceOutput`, one operator per parser state | through `RaceReport` | |
| `RaceReport` | the race detector and the tested program writing, test binaries dying, the parser reading | `race_report`, `race_main` | `RaceReportProofs` |
| `TraceParser` | `go tool trace` writing events, `ParseTraceOutput` reading | `trace_parser` | `TraceParserProofs` |
| `Analysis` | `analyze`, `RunTarget`, `CollectTraceEvents`, the DWARF binary, interruptions | `analysis` | `AnalysisProofs` |
| `SourceReader` | `enrichWithSource`, `ReadSnippet`, the path rules, a developer who saves | `enrich` | `SourceReaderProofs` |
| `Correlator` | a traced run, then `Correlate` | `correlator` | `CorrelatorProofs` |
| `MC...` | values for TLC | | |

Names of variables and actions are those of the code.  How data is abstracted:

- a timeline is the number of its version (`SSEServer`, `WatchPage`), the set of
  file contents that its parts were computed from (`Watcher`), or whether it has a
  trace and how many races (`TimelineView`); all events of the stream are the string
  "reload", so a channel is a count;
- a file's content is named by its modification time, which every save makes new
  (`Watcher`), or is a sequence of lines (`SourceReader`); a path is the sequence
  of its components;
- a line of output is a record of its kind and of what the code reads of it; an
  access has no address, a frame no line number;
- a file of the temporary directory says who wrote it, in which attempt, and whether
  it has more than `minViableTraceBytes` (`Analysis`);
- the playhead moves in steps; a view is what was rendered last: its kind, the
  timeline's version and the test in focus (`TimelineView`);
- times in `Correlator` are multiples of 20, so that a twentieth and a tenth of a
  duration are exact and not zero.

The code's shape is kept where it matters: an action is what one goroutine, or one
callback of the page, does between two points where another can act.
`UpdateTimeline` is one action per client (it holds `mu`, but channels are read
without it); registration and removal are one action each, guarded by `mu`; a scan
of the directory is a listing and one action per file; an analysis reads the disk
once per run of pass 1, once for pass 2 and once for the snippets; a snippet is read
one line at a time; an iteration over a Go map may take any order; a reload is the
part of `onmessage` before its first `await` and the part after its last one.

`Correlator` generates its input: `Record` extends a trace by one transition that a
goroutine can make (`MaxRunning` of them run at once), so the traces are exactly
those consistent up to the bound.  Races are lists that `ParseRaceOutput` can
return; an access whose goroutine was not read has number 0, and then the
creation stacks were not read either.

`Analysis` is a set of analyses over one temporary directory: those of one watcher
follow one another, those of several racevis processes run side by side, and the
model lets all of them run side by side.  What the go command prints and writes is
any of what it may; `state[p]` has the variables of `analyze` and `RunTarget`.  A run of
`go test` has code -1, with what it printed kept, when a signal kills it
(`signalled` remembers those); `go test -c` of a package without tests writes no
binary and reports no error (`BuildNothing`), so the file of that name may be anyone's.

`RaceReport` lets the tested program print its own lines anywhere: whole lines that
the parser has no use for, and, up to `MaxStrays` of them, the ones that `race.go` takes for a part
of a report (a separator, an indented `file:NN` such as every `t.Log` line, an indented
`name(`).  A report with such a line in it is `Damaged`; the detector's own
headings are not among the program's lines.

`TimelineView` begins with a page that is loaded and listens, and leaves the stream
to `WatchPage`: a publication adds an event, an event starts a fetch, and the server
answers fetches in any order.  What is shown is a variable of its own
(`drawn`, `head`, `controls`, `transport`, `detail`, `src`, `logo`), so that it can
disagree with the state it was made from.

## Runs

Passing runs:

| Run | Instance | Shows |
|---|---|---|
| `sse` | 2 connections, channels of 1, sockets of 1, 3 updates | type, `Registry`, `NoLostReload`; `RefinesFeed` (with the feed's fairness), `UpdateCompletes`, `EndedConnectionLeaves` |
| `watcher` | 2 files, `-count` 2, 2 edits | `WatchedTimelineIsFresh`, `WatchedSaveIsShown` |
| `page` | 1 tab, 2 connections, 2 updates, restarts | `PublishedIsOnItsWay`, `ListeningPageCatchesUp`, `ConnectedPageComesBack` |
| `view` | 3 timelines with and without a trace, 1 test, 1 race, 2 steps of the playhead | `OneFrameWhilePlaying`, `PlayheadIsShown`, `PageIsOfTheTimeline`, `PageSettles` |
| `race_report` | 2 goroutines, 8 reports with stacks of 0 and 2 frames, 2 of them written one after the other, each in full or cut, 1 line of the program's own that looks like a part of a report | `ReportsAreParsed`, `OneEventPerBlock` |
| `trace_parser` | 2 goroutines, 3 events, 3 × 3 stacks, a scanner that may fail at any line | `EventsAreRecorded`, `BirthsAreRead` |
| `analysis` | 2 concurrent analyses of 2 packages, 2 runs of pass 1, 1 race; analyses alike (symmetry) | `ResultsAreOwn`, `TempIsClean`, `NamesAreOwn`, `NoTestsNoRaces`; `AnalysesAdvance`, `NobodyIsStuck` |
| `enrich` | 3 accesses, 6 sites in 4 kinds of file, 4 sources, context 1, 1 save | `SameSiteSameSnippet`, `TestedSourceIsShown`, `OneLineIsMarked` |
| `correlator` | 3 goroutines, 4 transitions, 2 tests, 4 lists of races | `LanesShowTheTrace`, `ZonesAreRunningPeriods`, `EveryRaceIsShown`, `MarksAreScoped` |

Runs that must find a violation, where code and documents disagree:

| Run | Property | Counterexample |
|---|---|---|
| `watcher_startup` | `EverySaveIsShown` | a file saved between the initial analysis and the first snapshot is not analysed |
| `page_gap` | `ConnectedPageIsUpdated` | an update between a fetch and a registration, or between two streams, is not shown |
| `race_main` | `ReportsAreParsed` | with the main goroutine as first access nothing of the report is read, and its event is empty |

Counterexamples of the same kind that are kept beside the runs, for whoever changes the
code they are about.  Each configuration checks the one property it names, on the
module its name begins with, and TLC finds it violated
(`tlc -config MCAnalysis_notests.cfg MCAnalysis`):

| Configuration | Property | What the code does | What is written |
|---|---|---|---|
| `MCRaceReport_mixed` | `FramesAreOfStacks` | `race.go` 236: a file line that the program logs inside a report becomes the file of a frame | `race.go` 23: "StackFrame is a single frame in a goroutine's call stack." |
| `MCAnalysis_notests` | `NoTestsIsOfTheTarget` | `runner.go` 102: a package without tests below the target makes the target one without tests, and pass 2 is skipped | `runner.go` 37: "NoTests is true when the target package has no _test.go files." |
| `MCAnalysis_killed` | `ExitCodeTellsOfRaces` | `runner.go` 87: a `go test` killed by a signal after a race (code -1) leaves exit code 0 | `runner.go` 34: "0 = pass, 1 = races found" |
| `MCAnalysis_dwarf` | `NamesAreOfTheBinary` | `dwarf.go` 38: one path for all processes, so the names come from the binary of another one | `dwarf.go` 35: "compiles a debug binary and loads its symbol table" |
| `MCSourceReader_user` | `UserSourceIsShown` | `reader.go` 178: a user's file below a directory `go/src` is taken for Go's, and not shown | `reader.go` 174: "Use component matching to avoid false positives on user files" |
| `MCSourceReader_saved` | `MarkedLineIsTested` | `reader.go` 107: a file saved since the tests has another line at the marked place | `reader.go` 20: "true = this is the exact line the race was detected on" |
| `MCTimelineView_cards` | `CardsAreOfTheTimeline` | `ui/index.html` 1180: the cards of the old timeline stay after a reload | `ui/index.html` 1179: "Rebuild the entire UI with the new timeline data" |
| `MCTimelineView_controls` | `ControlsAreOfTheView` | `ui/index.html` 1678: after a timeline without a trace, one with a trace has no buttons | the same |
| `MCTimelineView_overtaken` | `ReloadsGetFreshData` | `ui/index.html` 1174: of two fetches the older answer arrives last, and the page goes back | `ui/index.html` 1168: "so we always get fresh data" |
| `MCTimelineView_logo` | `LogoComesBack` | `ui/index.html` 1185: two reloads within 1.5 s leave "updated" in place of the logo | `ui/index.html` 1182: "Flash ... so the developer sees it refreshed" |

Why the bounds are enough to be interesting: a channel of 1 is full after one event,
as the code's 4 is after four; two connections suffice for a removal that shifts
another client's index; two edits put one before and one during the
analysis it causes; two reports show what one leaves behind for the next, finished or
not; three events are a birth, its successor and one more that must stay clean;
4 transitions let two goroutines overlap and one start again; three timelines let two
fetches overlap and a third find what they left; two steps give the playhead a place
that is neither end; two packages make a target that is tested in part; two analyses
meet over the one binary; a context of 1 in files of three lines meets both ends
of a file.  The proofs below remove the bounds on connections, capacities, updates, files,
edits, goroutines, stacks, reports, events and transitions of a trace, analyses, races,
timelines, tests, sites, sources and saves.

Runs with `CHECK_DEADLOCK FALSE` end: an input is read, an analysis is finished, a
program is stopped for good.

### Fairness

- `SSEServer`: goroutines that can run do run; the clock reaches the deadlines of a
  blocked writer.  Browsers owe nothing; nobody has to edit a file.
- `WatchPage`: as above, and the page's event loop runs and the network delivers.
  Registration is strongly fair while the stream has not ended: waiting for `mu` does not take
  the 15 s to the deadline every time.
- `Watcher`: the loop runs (`go test` has `-timeout`), and a readable directory is not
  reported unreadable for ever.
- `TimelineView`: the browser calls animation frames and timers.  No fetch has to be
  answered, and a developer who clicks for ever is not assumed to stop.

`Analysis` states none: `AnalysesAdvance` (each step lowers `Left` of one analysis, which is a
natural number, and changes no other) and `NobodyIsStuck` (an analysis that has not ended can
take a step, whatever others do to the files) say what its ending rests on; the rest
is that a command ends, which `-timeout` sees to.

### What the properties except

The properties of the passing runs name what they leave out.  Where a document or a comment
of the repository says otherwise, a run or a configuration of its own shows that violated:

- `ReportsAreParsed` speaks of reports without the main goroutine (`race_main`) and
  without a line of the program's own that the parser takes for a part of them
  (`MCRaceReport_mixed`); what comes after such a report is not excepted.  `OneEventPerBlock` excepts
  nothing of that, but a program that prints the detector's own headings.
- `NoTestsNoRaces` says what a skipped pass 2 can cost: a target with one package
  without tests and no failing test loses its trace (`MCAnalysis_notests`), but never a race,
  unless a run was killed by a signal (`MCAnalysis_killed`).
- `NamesAreOwn` excepts an analysis whose binary another one replaced before it was
  read, or whose package has no tests to build one of (`MCAnalysis_dwarf`).
- `TestedSourceIsShown` claims nothing of a file saved since the tests: a snippet is of the
  disk as it is when it is made (`MCSourceReader_saved`).  Nor of a file that `isStdlib`
  takes for Go's and that is not, which are those below a directory `go/src`, `go/pkg`
  or `go/libexec` and those whose path begins with the text of GOROOT (`MCSourceReader_user`); the
  constant `GoHomes` has where Go really is.
- `PageIsOfTheTimeline` is about the view, the buttons and the open panel.  That the buttons' parent
  `.controls` is hidden by the topology and shown by nothing is `MCTimelineView_controls`; of the cards it says only
  what holds while a test is in focus, and `MCTimelineView_cards` what a reload leaves.
- `QuietPageIsFresh` (proved, and not among the runs: `ListeningPageCatchesUp` is its
  counterpart for the whole of page and server) excepts pages that ever had two fetches under way (`MCTimelineView_overtaken`),
  and a last fetch that failed, which is logged and not repeated (`ui/index.html` 1190).
- `PageSettles` excepts a flash within a flash (`MCTimelineView_logo`).

Excepted and denied by no document:

- an analysis that fails is not repeated before the next save (`WatchedTimelineIsFresh`,
  `WatchedSaveIsShown`; `main.go` 217);
- an interrupted process, and one whose file cannot be closed, leave their file
  (`TempIsClean`; `main.go` 118-121, 204);
- a parse or a scan that failed returns nothing (`ReportsAreParsed`, `EventsAreRecorded`,
  `BirthsAreRead`);
- `ResultsAreOwn` claims the trace of the last attempt; whether the tests of pass 1 and of pass
  2 give a goroutine the same number is up to them, and no property says that they do
  (ADR-005 argues from one run, `runner.go` 120).

## Proofs

TLAPS checks these for every value of the constants that their named assumptions
admit.  Each module proves an inductive invariant `IInv` and has one lemma per action,
or per group of actions that disturb the same conjuncts.

- `WatchPageProofs`, of the server: `TypeCorrect`, `RegistryCorrect`, `NoReloadIsLost`,
  `ImplementsFeed`.  `IInv` adds to the three checked invariants that the
  loop index is 1 outside of the loop, that nobody was told of a version to come
  and that a handler leaves only when its context is done.  `Registry` is what makes
  the loop of a new `UpdateTimeline` come to each registered client; two lemmas show
  that removing the first occurrence keeps all the others in their order, which is
  needed because the loop remembers an index.  For the refinement, each action maps to
  a step of `SSEFeed` or leaves its variables alone.
- `WatchPageProofs`, of the page: `PageTypeCorrect`, `NothingIsDropped`, `ServerSurvivesRestarts`.  The server's
  `IInv` is used as proved: a step of the page leaves it alone, or is a step of the
  server, and a restart begins again with an empty registry.  `PageIInv` adds that nothing
  on its way is newer than the timeline (`VersionsKnown`), that a program that is down
  has no handlers (`DownIsEmpty`) and a closed page no fetches (`ClosedIsEmpty`).
- `WatcherProofs`: `SnapshotsEqualCorrect` (two maps of equal size of which one is
  contained in the other are equal), `TypeCorrect`, `TimelineIsFresh`.  `IInv` adds
  that no snapshot has a time newer than the clock, so a file that still is as in the
  snapshot was not saved since, and that the work of an unfinished analysis is
  as fresh as will be claimed of its timeline.
- `TimelineViewProofs`: `TypeCorrect`, `OneFrame`, `ShownPlayhead`, `PageOfTheTimeline`,
  `FreshWhenQuiet`.  For the last, `OneFetch` says what one fetch at a time, none
  of which failed, means for the event, the request or the answer there still is.
- `RaceReportProofs`: `TypeCorrect`, `ParsedReports`, `OneEventEachBlock`, for
  reports without the main goroutine (with it the claim is
  false, see `race_main`).  `IInv` says that, as long as the report is intact, parser and writer are in step: the parser's
  state is the writer's section, the pending function is the one whose file line comes
  next, and the open event is the report as far as it is written (`BlockStep`).  Once a line of
  the program's own fell into it, or it was cut, all that is known is that the parser is
  somewhere in a block or past its end: no line closes more than one event (`LineKeeps`,
  `SeparatorEnds`), and whatever comes, the events before it stay as they are
  (`DamagedStep`); the next warning begins a new one.
  None of this is in the properties, which speak only of moments between reports.
- `TraceParserProofs`: `TypeCorrect`, `EventsRecorded`, `BirthsRead`, for traces of any
  length, stacks of any depth and sections in either order.  The parser reads a line at a
  time and knows of the event only what it has kept, so `IInv` says for every number
  of lines read what that is: `SectionRead` has the frames read and the pending function
  after `d` lines of a section, and a birth's pending creation is what the sections
  read so far make.  `SectionReadAt`, `ReadFunc`, `ReadFile` and `ReadEmpty` are the
  cases of one line; `CommitClosesBlock` is why nothing of a block reaches the next one.
  `ParseInv` adds that a scan that failed is over, and claims the rest only of one that did not.
  Where an induction over the lines would be used, a least counterexample is taken
  (`Least`), since the library's induction cannot be instantiated here.
- `CorrelatorProofs`: `TypeCorrect`, `LanesAreTheTrace`, `ZonesRun`, `RacesAreShown`,
  `MarksScoped`, for any goroutines, tests, lists of races and number of transitions.
  `IInv` says of each step what is finished: the transitions of a goroutine are in the
  order of time (`TraceInv`), there is a lane for each relevant goroutine no longer in
  `todo` with the segments of its transitions (`LanesInv`), zones are those of the races
  and lanes list them (`ZonesInv`), and there is one group for each name in the order of names
  (`GroupsInv`).  None of the properties holds by this alone: that the state at a time is
  that of the last transition before it (`StateAtProperties`), that one segment covers
  it (`SegmentsShow`) and that the last running period has no later one
  (`LastRunProperties`) follow from the order of times; a race's group has a lane of
  it (`ZoneHasLane`) because a group is named for a goroutine that is not 0.
- `AnalysisProofs`: `TypeCorrect`, `OwnResults`, `CleanTemp`, `OwnNames`, `NoTraceNoRaces`,
  `NoneGoesOnForEver`.
  `OwnInv(p)` is what one analysis knows of its own file, its own output and its own
  binary; a step of another analysis keeps it, because names of temporary files are
  unused when they are given and only the binary is shared (`StepKeeps`).  Races are known to
  come with a code above 0 unless a run was killed (`OutputIsKept`), and names to be the own
  binary's only where there was one to build (`NamesAreKnown`).  `StepAdvances` has the measure's step per action:
  a run of pass 1 and an attempt at a trace count it down, everything else moves to a
  later place (`LaterPlace`), and `LeftIsNat` is why that comes to an end.
- `SourceReaderProofs`: `TypeCorrect`, `SameSnippets`, `TestedIsShown`, `OneMark`.
  `LinesAroundProperties` bounds the window for any context and file.  `IInv` says
  that every snippet given is the cached one of its site (`CacheIsGiven`), that every
  cached one is right for its site (`CacheIsGood`), that a file not saved is as tested
  (`DiskIsTested`), and that what was read of it and what is left make up the tested
  source (`ReadingIsKnown`).

The assumptions are those of the constants' declarations (`CapsAssumption`,
`ReportAssumption`, `AnalysisAssumption`, `SourceAssumption`, `ViewAssumption`, ...):
types, capacities of at least one, values that stand for nothing and are none of the
others.  Records are updated as a whole in the modules that are proved about
(`Becomes(p, s)` in `Analysis`).

Model-checked only, since fairness and ENABLED are beyond TLAPS: the liveness half of `RefinesFeed`, and `UpdateCompletes`,
`EndedConnectionLeaves`, `WatchedSaveIsShown`, `ListeningPageCatchesUp`,
`ConnectedPageComesBack`, `NobodyIsStuck` (an ENABLED) and `PageSettles`.
Every other invariant and action property of a passing run is proved.

## Not modelled

- Port fallback (`server.go` 217-237, with 0 announced as the port for `-port 0`) and
  `Shutdown`, which nothing calls: loops over the operating system, without a state
  that a property could relate to another.
- The UI page, health and logging handlers: no state.
- Flags, JSON and HTML export: one sequence per process.
- Where things are drawn, colours, tooltips and the texts of `suggestFix`.
- `Resolve` (`dwarf.go` 64-86): parsing of the address and a lookup of the library
  (`gosym`'s `PCToFunc`).  It is asked for the function at an address that is, in a race,
  the address of data, so what it may answer is a function's name, where the comments
  speak of a variable's; `Analysis` keeps only which binary the answers come from.
- In the trace parser: the texts of reasons and times, and lines that cannot be
  parsed.
- Network failures other than the end of a connection, a failed fetch and the exit
  of the program; file systems whose times do not change with a save (`main.go` 243).

## Plan

Done, in this order: event stream, watcher, page, race parser, trace parser, correlator,
pipeline, then the view, the source reader, cut reports, the runner's branches, the
proofs of page, view, pipeline and source reader, and those of the trace parser and
the correlator.  Left, most important first:

1. Abstract specifications: a watcher that analyses the newest content, implemented
   by `Watcher`; a pipeline that returns what its tests did, implemented by `Analysis`.
2. Port fallback with two processes.
