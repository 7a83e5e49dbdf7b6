# A verification project for stat_log

stat_log is a C++ library that collects statistics and log entries of a running
program (the *generator*) in shared memory; separate *control* processes attach to
that memory to print, clear or configure them.  This directory holds TLA+ models
of the parts of it whose correctness depends on how threads and processes
interleave, the TLC configurations that check them on small instances, and
theorems about them that the TLA+ proof system checks for every instance.

Paths below are relative to the repository's root; `src/` and `include/` are its
own directories.

## The system

| Component | State | Operations | Talks to |
|---|---|---|---|
| Shared-memory log, writer (`src/shared_memory_logger.cpp`, `loggers/logger_common.h`) | the next free block (`currentLogEntry`), a process-local mutex; in shared memory an interprocess mutex and a ring of 512-byte blocks | constructor (opens, puts a new mutex, clears), `writeData` / `doWriteData` | readers, by the shared ring and mutex |
| Shared-memory log, reader (same file) | a private copy of the ring | constructor (attaches), `getLog` | writers |
| Log proxies and levels (`stat_log.h`, `loggers/logger_common.h`) | one byte per log tag and logger in shared memory; a text per proxy | `getLog`, `<<`, the proxy's destructor, `LOG_LEVEL` command | control processes set what the generator reads; a proxy writes to a logger |
| Accumulator statistics (`stats/accumulator.h`, `stats/accumulator_types/`) | accumulator and mutex in the generator; features and a control word in shared memory | `write`, `serialize`, dump, clear | writers and serializer by the mutex, control processes by shared memory only |
| Histograms (`stats/accumulator_types/histogram.h`, `boost_hist.hpp`) | counts and bounds of bins, in an accumulator and in shared memory | accumulate, result, serialize, dump | an accumulator statistic's feature |
| Serializer thread (`stat_log.h`) | `serializer_running` | `doInit`, `doStop` | calls `serialize` of every deferred statistic once a second |
| Simple statistics (`stats/simple_counter.h`, `simple_status.h`, `stats_common.h`) | one number in shared memory | `write`, dump, clear | no lock at all |
| Arrays of statistics (`stats/stat_array.h`) | one statistic per index | the same, per index and for ranges | printer |
| Start-up and layout (`util/stat_log_impl.h`, `src/shared_mem_backend.cpp`) | one segment: statistics, then levels | `init`: size, clear (generator only), hand out pointers | both sides compute the same layout from the same tree |
| Tags and commands (`util/tag_commander.h`, `util/make_stat_tags.h`) | a tree of tags known at compile time | dispatch of a command to a subtree | printer |
| Printer, command line (`src/printer.cpp`, `src/utils.cpp`) | the output collected so far; options | | |
| Bit status, compile-time proxy, null statistic | none of their own | | |

### What is hard about it

* **Many writers, many readers, one try-lock.**  A thread that logs never waits: it
  *tries* the interprocess mutex and drops its entry when that is taken.  A reader
  waits.  The mutex is not robust: a killed process takes it to the grave.
* **A ring of blocks whose entries have different lengths.**  An entry can wrap
  around the end of memory, overwrite the beginning, the middle or the end of older
  entries, and be longer than the whole ring.  A reader finds entries by headers
  alone and trusts the number of blocks they announce.
* **Order.**  Entries are stamped before the mutex is tried, and the reader begins at
  the smallest stamp.
* **Crashes and restarts.**  The generator starts over the memory that its
  predecessor left, and puts a new mutex over one that somebody may hold.
* **The same number found three ways.**  A write computes the address of an element, a
  command walks all elements, the printer divides a position into indices; generator and
  control process lay the segment out from lists that are built backwards.
* **Lock-free access from control processes.**  Features of an accumulator are read
  while the serializer writes them; a request for reset is a word that a write takes
  with a plain test and a plain store.
* **A level that was read before.**  The level is tested when a proxy is made, the entry is
  written when it is destroyed, and in between a control process may set it or (by way of
  a restart) memory be cleared, in which zero is the lowest level.
* **Boundaries.**  The bin of a sample is found by two comparisons and a binary search, its
  bounds are printed as integers, cut off towards zero; names are cut to fixed fields.
* **A background thread** that must show every sample in the end, and must stop.

`PROJECT.json` lists these as hazards, each at its line, with the properties that
cover it, or why none does.

## The modules

| Module | Models |
|---|---|
| `LogRing` | the shared-memory log: every step of `doWriteData` and `getLog`, by any number of threads and control processes, and their being killed |
| `LogRingInv` | its inductive invariant |
| `EntrySeqs`, `BoundedLog` | the abstract specification: a log with room for so many blocks that forgets its oldest entries |
| `LogRingRefines` | `LogRing` implements `BoundedLog`; the order of the output |
| `LogRingRestart` | `LogRing` with a generator that is started again (constructor) |
| `AccumStat` | one accumulator statistic, its writers, the serializer thread, `stop()` and control processes |
| `HistogramBins` | the bins of a histogram and their bounds (no state) |
| `HistogramStat` | `AccumStat` and `HistogramBins` together: a histogram on its way from the writers to a dump |
| `LogPath` | the way of a log entry: level, proxy, logger, and a printed log with exclusions; levels set by control processes; generators that are killed and started again |
| `TagTree` | the tags: order of a command's visits, layout of shared memory, addressing of arrays, labels of the printer (no state) |
| `ControlSession` | control processes, one after the other, from command line to output, beside threads that write simple statistics |
| `DataLemmas` | lemmas: natural numbers, `div` and `%`, the folds and sequence operators that the models use |
| `LogRingProofs`, `LogRingRestartProofs`, `AccumStatProofs`, `HistogramProofs`, `LogPathProofs`, `TagTreeProofs`, `ControlSessionProofs` | theorems, each about the module it is named after |
| `MC*` | instances for TLC |

### LogRing and the code

State: `ring` is the memory behind `shm_ptr`, one record per block: `numBlocks` and
`ts` of its header, and which chunk (`part`) of which message (`msg`) its bytes are.
`lock` is the interprocess mutex, `currentLogEntry` the member of that name, `gen[t]`
the locals of thread `t`'s call to `doWriteData`, `ret[r]` those of `r`'s call to
`getLog` (`temp` is `temp_log_buf`).  `lastMsg` and `written` are history variables.

A log call is `Stamp` (the clock is read in `writeData`), `TryLock` or `Drop`, `Claim`
(the blocks are taken from `currentLogEntry`), `WriteFirst` (header and first chunk),
`WriteNext` once per further block, and `Unlock`.  `getLog` is `CallGetLog`, `Acquire`,
`CopyBlock` once per block, `Release` and `PrintLog`; `Headers`, `FirstLogEntry` and
`Output` are its search for the smallest stamp and its walk around the copy.
`KillGenerator` and `KillReader` end a process between any two of these steps; when it
held the mutex, the mutex becomes `Dead`.

Lengths keep their arithmetic (`num_log_bufs` rounds up, the loop subtracts what it has
copied); bytes do not appear.  A time stamp is one number, as the pair of seconds and
microseconds is compared lexicographically.  The clock moves by `MinTick..MaxTick`
between two readings; `MinTick < 0` is a clock that is set back.  `mtx`, which `doWriteData`
takes inside the interprocess mutex, protects nothing more and is not modelled
separately: `Claim` is one step.  Output to a file or a terminal and the formatting of a
line are left out; the exclusion of tags and levels is in `LogPath`.

### AccumStat and the code

`acc` is the accumulator, as the set of the samples it has seen since it was reset, with
samples numbered in the order of accumulation; `shm[f]` is a feature's place in shared
memory, as the set of samples it was computed from; `control_word` is the word behind the
features.  Two history fields of a feature tell how many samples there were when it was
serialized, and when it was serialized before.

A write is `WriteLock`, `CheckControlWord`, `Reset` (if asked), `AddSample`; the
serializer thread is `SerializerBegins`, `TestRunning`, `SerializeLock`,
`SerializeFeature` once per feature, `SerializeUnlock`, `WakeUp`; `stop()` is `StopEarly`
or `StopSerializer` and `Join`.  A control process does `ClearStat`, or `DumpStat` with
`ReadControlWord` and `ReadFeature` for each feature in turn, and `EndDump`.  A number in
shared memory is read and written as one step: the code's are doubles or integers of a
machine word.  A histogram is a feature of several numbers; `FirstOf` says which numbers
begin a feature, as `doStatCommand` looks at the control word once per feature.
`serializer_running` is a plain `bool` shared by two threads: a build may forward the
value just stored to the loop's first test, so `SerializerBegins` may skip it; later
loads follow calls the compiler cannot see through and are real.

### HistogramBins, HistogramStat and the code

`bin_positions`, `upper_bound` and `bin` are those of `histogram_impl`, with positions
multiplied by the number of bins, so that they are integers; `bin_start` is the conversion
in `traits_common_hist::serialize`.  `HistogramStat` is `AccumStat` with one feature, a number for
each bin, and values for the samples, `sample`; a bin's number in shared memory is
`histogram` of the set of samples that `AccumStat` has there.  Doubles are not rounded in the
model, and samples are integers.  Bounds are computed where the code stores them with the
counts: the title of a dump before the first serialization, which shows zeros, is not
modelled.

### LogPath and the code

`level` has the bytes of `LogControlStorage` for each tag; `log` the entries of each logger;
`proxy[t]` is thread `t`'s `LogGenProxy`, with whether it is enabled and whether there is
text in it; `gen` is how far a generator has come with its start.  `entries`, `starts`,
`asked` and `late` are history.

`StartGenerator` is `setParams`, `setSharedPtr` gives one tag its levels, `addLogger` is the
construction of a logger and its addition.  A log statement is `getLog`, `Insert` (`<<` or `hexDump`)
and, from the destructor, `Discard`, `writeData` or `Drop`.  A control process does `CallLogLevel`,
`LogLevel` for each tag and `Exit`, or `outputLog`.  Each logger is the bounded log that `LogRing`
implements, so an append and a copy are one step, and the output begins at any entry; what
`getLog` excludes is `should_print_entry`, over names as they are read back (`tagName`).

One proxy per thread is alive at a time.  That the program uses indices of loggers it has
added, and no more loggers than a tag has levels, is assumed (`StatementAssumption`,
`LoggerAssumption`); the code asserts it off by one.

### TagTree, ControlSession and the code

`TagTree` has the tree of `GenTagHierarchy` as a function `children`; `DoCmd` and
`tagCommander` are the two walks over it; `Nodes` is `theStats` and `theLogs`, in the order
`push_front` gives them, and `SharedPtr` what `init` computes on both sides.  `WriteCell` is
`StatArrayImpl::write`, `StatCommand` its `doStatCommand` with the collection of
`dimensionSizes`, `dim_indices` and `do_print` are the printer's.  A hierarchical name is a
sequence of parts, the last of which may be empty; a specification of indices is a
sequence of sets of ranges.

`mem` is the shared memory in cells (a number of a statistic, or a level byte); `thread[g]`
has the writes that a call of `writeStat` or `writeBitStatus` has still to do, and what it
has loaded; `ctl` is the control process: command, descriptions, the tags still to visit
(`todo`), the statistic being visited, and the printer's two vectors.  `stat` and
`ctl.swept` are history.

An increment is `Load` and `Store`.  A session is `parseCommandLineArgs`; for each
description `NextDesc`, and for each tag it reaches `VisitStat`, `DumpCell` or `ClearCell`
per cell and `addStatOutput`, or `ShowLogTag`, or `LogLevel` or `InvalidLogIndex`; and
`showOutput`.  `--help` exits before anything happens and is no step.  Sessions do not
overlap; written values are 1; numbers are unsigned.

## What is checked

A ring of 3 blocks and texts of 2, 4 and 9 characters, with 2 characters in a first and
3 in a further block, make entries of one block, of two, and of four, one more than there
are: every way of wrapping, overwriting and overtaking oneself occurs within three
entries.  A fourth entry repeats a situation of the third.

| Run | Shows | Bounds |
|---|---|---|
| `LogRing` | types; mutual exclusion; **SnapshotIntact**: every header in the reader's copy has all its continuation blocks, in order and of its own message, whatever was overwritten or cut short; the invariant of the proof; **ImplementsBoundedLog**: the ring behaves as a bounded log, readers see each append at once or not at all, just the oldest entries are lost, the output has each retained entry once; a log call always returns, even over a dead mutex; a holder lets go of the mutex or dies | 2 threads, 1 reader, 3 calls, clock may stand still, kills, fair scheduling |
| `LogRingRestart` | after restarts, the output is exactly what this run of the generator has retained, oldest first; still no torn entry | 1 thread, 4 calls, 2 restarts, advancing clock |
| `AccumStat` | a reset request is never lost and takes at most one later sample; features agree between serializations; a dump mixes at most neighbouring serializations; `stop()` leaves no thread behind, but for its early return; samples, and the disappearance of old ones, reach shared memory | 2 writers, 1 control process, 2 features, 4 samples, fair scheduling |
| `HistogramStat` | **BinsHoldTheirSamples**: between serializations each bin has the samples that belong to it, and its printed bounds enclose them; **DumpLosesNothing**: a dump that mixes serializations shows in all its bins together no fewer samples than its first bin's serialization had a predecessor with, unless a reset was asked for; **NumbersOnceSerialized**: a bin without samples (a density that is no number) is printed only as it was serialized before there were any, and not after a bin that shows its second serialization since (`AccumStat`'s type invariant is left to its own run) | 1 writer, 1 control process, 2 inner bins of width 3/2 from -1 to 2, 3 samples |
| `LogPath` | **NothingBelowAsked**: a running generator's logs have nothing below the levels that were asked for, not even by cleared memory, another logger's level or an earlier run; **QuietAfterRaise**: after a level was set, at most one entry below it of each thread; **PrintedIsWhatWasAsked**: what is printed is what is retained, each entry once and in the order of writing round from where the walk begins, without the excluded levels and tags, but for tags with names of 16 bytes or more, which cannot be excluded | 2 threads, 1 control process, 2 tags, 2 loggers of 3 blocks, 3 levels per tag, 3 entries, 2 starts |
| `ControlSession` | **RowsShowOwnWrites**: a printed row counts writes to its own index; **ReportIsWhatWasAsked**: each tag that was named once, with the rows that the last naming selects; **CommandHitsItsTargets**: a clear or a new level stores to all it was limited to and nothing else; a counter is exact, modulo its width, unless a write overlapped another or a clear | 2 threads, 2 writes, statistics R.S and R.P.A (2 x 3), log tags L and L.M, up to two `--tags` of six, counters of one bit |
| `LogRingTail` | finding: the output's last line need not be the newest entry | 2 threads |
| `LogRingDrop` | finding: entries are dropped though nobody reads the log | 2 threads |
| `LogRingTorn` | finding: a generator that starts while a reader copies tears what it prints | 1 restart suffices |
| `AccumStatClear` | finding: a cleared statistic shows old values again until the serializer runs | |
| `ControlSessionClear` | finding: a write that spans a clear puts the counter's old value back | 2 writes |
| `LogPathTags` | finding: an entry of an excluded tag is printed, when its name fills the header's field | 1 entry |

The six findings are disagreements between a comment or the README and what the code
does; `PROJECT.json` quotes both.

Four samples let a request for reset fall before, into and after a write, be repeated, and
still leave samples that must survive it.  Two features are the least that can disagree;
what two neighbours cannot show, three could not (the proof covers any number).

Two bins between three bounds, none of the inner ones an integer and one on each side of
zero, have bounds that are cut off up and down; the samples lie below, above, on both outer
bounds and between.  The first of three samples may be reset away, the second be caught in a
serialization, the third come after.  (Every other choice of bins is proved.)

Two loggers have levels of their own, and a third level belongs to none; a log of two blocks
loses entries within three.  A second start meets what the first has left in the memory, in the
logs and in control processes.  One control process is enough: two of them set bytes one
after the other, as one does.

An array of 2 x 3 is the smallest whose sizes differ, so that exchanged dimensions show; a
statistic at each of two depths, with a parent between them that has no cells, moves every
address when one node's size is wrong.  Of the six `--tags` some overlap, one goes below a
leaf, one ends in a dot, two are of the other tree; two of them are enough for every
relation of a tag to the last description that names it.  Two writes race, wrap a
one-bit counter and overlap a clear.

Deadlock checking is on in all runs.  It finds none, as control processes can always
come, and wait.

**Fairness.**  Each thread that has begun a log call or a `getLog`, and the serializer
thread, is weakly fair: the operating system runs it as long as it can run.  Weakly only,
as nothing makes the mutexes fair: a reader may starve behind loggers, and no property
says otherwise.  That programs make calls, that control processes come, that somebody
calls `stop()` or kills something is not assumed.  In `AccumStat` the samples are bounded,
so writers do fall silent and the serializer gets the mutex; EverySampleShown and
ClearReachesFeatures say what happens then.

## What is proved

For every number of threads, processes, blocks, features, bins, tags and samples, every
length of text and every clock, the proof modules show:

* `TypeCorrect`, `Exclusion`: types and mutual exclusion.
* `RingInvariant`, `PrintsWholeEntries`: **RingInv** is inductive and gives
  **SnapshotIntact**.  SnapshotIntact alone is not inductive: it says nothing of the ring
  while it is being written.  RingInv adds the *frontier*, the next block to be written,
  and says that each header announces only blocks between itself and the frontier, except
  that of the entry being written, and that those which are there are its own.  As the ring
  is filled in one direction, the frontier meets the header of an old entry before its other
  blocks, so no header survives the blocks it announces.  Two more parts tie the arithmetic
  together: what `Claim` computed is what the loop will use (`HeadOK`, `BodyOK`), also when
  an entry overtakes its own header.  With the mutex, a copy is one of a ring at rest.  The
  invariant says nothing of the ring once a holder was killed, as nobody gets to read it.
* `RestartInvariant`, `RestartsPrintWholeEntries`: the same for generators that are killed
  and start again.  While the constructor is at work nobody holds the new mutex and the
  blocks it has cleared stay so (`StartingOK`); when it has cleared the last one, the ring is
  one of `LogRing`'s initial ones.  Its hypothesis is that of the passing run, that control
  processes are away meanwhile (`ReadersAway`); without it the property is false
  (`LogRingTorn`).
* `ClearIsExact`: **ClearNotLost** and **ClearTakesNoMore**.  A request that is pending is at
  most one sample old, and only a write that was past its test can have added it.
* `SnapshotsAgree`, `DumpsStayClose`: **OneSnapshot** and **DumpSkew**.  During a
  serialization the features before the serializer's position are of now, those after it of
  the serialization before; what a dump has printed stays within one serialization of
  whatever it still has to read.
* `StopWaits`: **StopJoins**, from the fact that before a call of `stop()` the thread either
  has not begun or is told to run.
* `BinIsRight`, `BinsCountTheirs`: **BinsHoldTheirSamples**.  Positions rise strictly, so a
  sample between the outer ones has exactly one position to its left with the next one to its
  right (Euclid's division gives it), and the binary search can end nowhere else; `StartCut`
  is the arithmetic of bounds cut off towards zero.
* `DensitiesAreNumbers`: **NumbersOnceSerialized**.  The invariant (`SamplesOK`) is that the
  accumulator is empty only before the first sample, or in a write that holds the mutex, so
  that the serializer never sees it empty again; what a dump has printed without samples is
  from before (`EmptyIsOld`), and `DumpSkew` says how far back in a line that can be.  It is a
  statement about what has been serialized: a sample that was only written does not keep a
  dump from printing what the serializer made of the empty accumulator.
* `DumpsLoseNothing`: **DumpLosesNothing**.  Without a new request for reset every number in
  shared memory has all samples up to its serialization that are not the reset's, and so has
  what a dump has printed (`ShmKept`, `DumpKept`).  With `DumpSkew` each bin of the dump is of
  at least the samples before the first bin's serialization; each of them is in one bin
  (`BinIsRight`), and the sum of the bins bounds their number (`SumOfParts`).
* `FewComeLate`: **QuietAfterRaise**.  Its bound on `late` alone is not inductive; `LateOK` adds
  that a thread that holds a proxy made under another level, and will still log below this one
  (`Late`), has not done so yet.  A thread is one proxy at a time: one that keeps several counts
  as several.
* `LogPathTypes`, `NoneBelowWhatWasAsked`: **TypeOK** and **NothingBelowAsked**, which needs
  (`AskedInv`) that the level bytes of a generator that is up, or those already set of one that
  is starting, are levels that were asked for; that loggers it has added have nothing of the
  last run; and that an enabled proxy was made under a level asked for.
* `PrintsAsAsked`: **PrintedIsWhatWasAsked**.  Entries are numbered in their order, so no two of
  a log are the same; forgetting the oldest and selecting keep them in order, and a rotation
  (`RotationElements`) makes the order a cyclic one (`PlacesRound`, `CyclicIds`).
* `WriteCellOfIndex`, `WriteCellsApart`: a write's way from an index to a cell (a sum of
  products, inside out) and the printer's from a cell to an index (quotients and remainders) are
  inverse to each other, and different numbers have different cells.  The weight of a dimension
  is the product of the sizes behind it; the first sum of weighted indices below a weight is
  what the next division takes off again (`LabelOfOffset`, `OffsetOfLabel`).  Nodes are laid
  out one after the other in the order of the lists that `init` runs through, in which each
  tag is once (`NodesApart`, `CellsApart`).
* `StatCommandWalks`, `LabelsInOrder`: the recursion of `doStatCommand` visits the cells of a
  statistic one by one and returns its sizes, by induction from the innermost dimension out;
  labels of later cells are greater in the first index that differs.
* `TagCommanderReaches`: by induction over the tree (`TreeInduction`), a command reaches the tags
  below the root whose full name the path is a beginning of, each once, where a path that ends
  in a dot names a parent only.
* `SessionInvariant`: the inductive invariant `Inv` of `ControlSession`, in six parts.
  `Types`.  `Numbers`: as long as nothing raced for a counter it is the number of its writes,
  at most one thread is between its load and its store, and what that one has read is still
  there; and no number is more than writes to it have begun.  `Tagged`: the tags still to be
  visited are each there once and named by the current description; the printer's vectors have
  exactly the tags that were reached, once, with the ranges of the last description that reached
  them.  `Visiting`: a statistic that is being visited has been walked up to some cell; what
  was read is bounded by the writes to these cells, or they have been cleared.  `Collected`: the
  same for statistics that are done.  `Swept`: cells were stored to just for tags reached.
  From it follow `SessionTypeOK`, `CountersAreExact` (**CounterExactUnlessRaced**),
  `RowsAreOwnWrites` (**RowsShowOwnWrites**), `ReportsAreWhatWasAsked`
  (**ReportIsWhatWasAsked**) and `CommandsHitTheirTargets` (**CommandHitsItsTargets**).  None of
  them is inductive alone: a row is right because the write, the walk and the label agree
  about cells, so the proofs rest on the theorems of `TagTreeProofs`.

The assumptions are those the modules name, and TLC evaluates them on every run: a ring of at
least one block, blocks with room for at least one character, texts of at least one character
and a NUL (the proxy logs nothing for an empty one), at least one feature, at least one bin and
a range that is not empty, loggers that have levels, actors that are not
values of the mutex; two finite trees in which every tag but the roots has one place under one
parent (what a type list nested in types is), dimensions of at least one element, calls with
legal indices, numbers of at least one bit.  Tags may share names: only the theorems' reference
for a path, `Names`, looks at them.

Recursive definitions are functions or folds.  The library's induction theorems cannot be
used for them, as they take an operator as a parameter; `DataLemmas` states induction
for sets of numbers (`NatSetInduction`) and shows by it that a fold has the values of its
recurrence (`FlattenRecursion`, `SelectInRecursion`, `TotalRecursion` and others), which the
proofs then follow.

Only model-checked: liveness and everything under fairness (`LogCallReturns`, `MutexReleased`,
`EverySampleShown`, `ClearReachesFeatures`), which the prover cannot state; that `LogRing`
implements `BoundedLog`, and `OldestFirst`, which speak of the order of entries that the
invariant so far says nothing of.

## What is not modelled (yet), and the plan

Next, in this order:

1. The proof that `LogRing` implements `BoundedLog`, and of `OldestFirst`: the invariant that
   the blocks from the frontier round are those of the retained entries, one entry after the
   other, and that the walk of `getLog` from header to header gives them.
2. Several control processes at a time in `ControlSession`, and the start of a generator
   under them, which clears statistics.
3. Arrays of accumulators, which are as many independent `AccumStat`s that one serializer
   visits in turn.

Not planned: the compile-time proxy and null statistic (no state), `compound.h`,
`time_series.h` and `stream_logger.h` (empty), the layout of printed columns, and boost's own
accumulators and program options, which are used, not part of the repository.
