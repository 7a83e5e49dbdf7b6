--------------------------- MODULE ControlSession ---------------------------
(***************************************************************************)
(* Control processes of stat_log, one after the other, beside the threads  *)
(* of a generator that write simple statistics.  A control process reads   *)
(* its command line (parseCommandLineArgs), takes one command to the tags  *)
(* that each --tags argument names (parseUserCommands, tagCommander,       *)
(* sendCommand), and prints what it has collected (Printer).  The threads  *)
(* add to counters and set status words (SimpleStat::write), alone or in   *)
(* arrays.  Nobody takes a lock: a counter is read and written back, and   *)
(* a command looks at the cells of a statistic one by one.                 *)
(*                                                                         *)
(* A write adds 1 to a counter, or sets a status to 1.                     *)
(***************************************************************************)
EXTENDS TagTree, EntrySeqs

CONSTANTS
  Threads,     \* the generator's threads
  Counters,    \* the statistics that are counters; the others are status words
  Modulus,     \* numbers that a counter's (unsigned) type has
  MaxWrites,   \* bound of the model: writes to statistics
  Calls,       \* calls of writeStat: pairs of a statistic and an index
  NumBits,     \* bits of a status word
  BitCalls,    \* calls of writeBitStatus: [tag, indices, bitstatus: the bits that are set]
  OptionSets,  \* command lines: the options that are given,
  Descs,       \* what --tags can say: [path, array_indices],
  MaxDescs,    \* how often it is given,
  LevelArgs    \* and the arguments of --log-level: [set_log_level, logger_idx, new_log_level]

ASSUME SessionAssumption ==
  /\ Counters \subseteq StatLeaves
  /\ Modulus \in Nat \ {0, 1}
  /\ MaxWrites \in Nat /\ MaxDescs \in Nat
  /\ \A call \in Calls :
       call = <<call[1], call[2]>> /\ call[1] \in StatLeaves /\ call[2] \in Indices(call[1])
  /\ NumBits \in Nat
  /\ \A call \in BitCalls : call.tag \in StatLeaves /\ \A bit \in call.bitstatus :
       bit \in 0 .. NumBits - 1 /\ Append(call.indices, bit) \in Indices(call.tag)

ASSUME CommandLineAssumption ==
  /\ \A desc \in Descs : desc.path \in Seq(STRING)
       /\ desc = [path |-> desc.path, array_indices |-> desc.array_indices]
  /\ LevelArgs \subseteq [set_log_level : BOOLEAN, logger_idx : Nat, new_log_level : STRING]

VARIABLES
  mem,      \* the shared memory
  thread,   \* each thread's call: the writes still to do, and the number it has read
  ctl,      \* the control process
  writes,   \* writes asked for so far
  stat      \* ghost: what happened to each number, see below

vars == <<mem, thread, ctl, writes, stat>>

----------------------------------------------------------------------------
\* Every number of every statistic, by its tag and index.
Items == UNION {{t} \X Indices(t) : t \in StatLeaves}

ItemCell(item) == WriteCell(item[1], item[2])

\* begun: the writes that have started; count: those that have ended since the
\* last clear; raced: since then a write has overlapped another or the clear.
Unwritten == [begun |-> 0, count |-> 0, raced |-> FALSE]

LogLevelNames == <<"DEBUG", "INFO", "ALERT", "ERROR">>
INFO == 1
Levels == 0 .. Len(LogLevelNames) - 1

AllLevelCells == {LevelCell(t, i) : t \in LogTags, i \in 0 .. numLoggers - 1}

IdleThread == [todo |-> <<>>, read |-> 0, loaded |-> FALSE]

----------------------------------------------------------------------------
(* The generator's threads *)

writeStat(g) == \E item \in Calls :
  /\ thread[g].todo = <<>>
  /\ writes + 1 <= MaxWrites
  /\ thread' = [thread EXCEPT ![g].todo = <<item>>]
  /\ writes' = writes + 1
  /\ UNCHANGED <<mem, ctl, stat>>

\* One write for each bit that is set, from the lowest up: the bit's number is
\* the last index.
writeBitStatus(g) == \E call \in BitCalls :
  LET bits == SelectIn([i \in 1 .. NumBits |-> i - 1], call.bitstatus)
      todo == [i \in DOMAIN bits |-> <<call.tag, Append(call.indices, bits[i])>>] IN
  /\ thread[g].todo = <<>>
  /\ writes + Len(todo) <= MaxWrites
  /\ thread' = [thread EXCEPT ![g].todo = todo]
  /\ writes' = writes + Len(todo)
  /\ UNCHANGED <<mem, ctl, stat>>

\* Threads that are between their load and their store of a number.
Incrementing(item) == {g \in Threads : thread[g].loaded /\ Head(thread[g].todo) = item}

\* IncrementPolicy: (*ptr) += value, the load...
Load(g) ==
  LET item == Head(thread[g].todo) IN
  /\ thread[g].todo # <<>> /\ ~thread[g].loaded
  /\ item[1] \in Counters
  /\ thread' = [thread EXCEPT ![g].loaded = TRUE, ![g].read = mem[ItemCell(item)]]
  /\ stat' = [stat EXCEPT ![item].begun = @ + 1,
                         ![item].raced = @ \/ Incrementing(item) # {}]
  /\ UNCHANGED <<mem, ctl, writes>>

\* Mutant: AssignPolicy.
StoreAssigns(g) ==
  LET item == Head(thread[g].todo) IN
  /\ thread[g].loaded
  /\ mem' = [mem EXCEPT ![ItemCell(item)] = 1]
  /\ thread' = [thread EXCEPT ![g] = [IdleThread EXCEPT !.todo = Tail(thread[g].todo)]]
  /\ stat' = [stat EXCEPT ![item].count = @ + 1]
  /\ UNCHANGED <<ctl, writes>>

\* ... and the store.
Store(g) ==
  LET item == Head(thread[g].todo) IN
  /\ thread[g].loaded
  /\ mem' = [mem EXCEPT ![ItemCell(item)] = (thread[g].read + 1) % Modulus]
  /\ thread' = [thread EXCEPT ![g] = [IdleThread EXCEPT !.todo = Tail(thread[g].todo)]]
  /\ stat' = [stat EXCEPT ![item].count = @ + 1]
  /\ UNCHANGED <<ctl, writes>>

\* AssignPolicy: (*ptr) = value.
Assign(g) ==
  LET item == Head(thread[g].todo) IN
  /\ thread[g].todo # <<>>
  /\ item[1] \notin Counters
  /\ mem' = [mem EXCEPT ![ItemCell(item)] = 1]
  /\ thread' = [thread EXCEPT ![g].todo = Tail(@)]
  /\ stat' = [stat EXCEPT ![item].begun = @ + 1, ![item].count = @ + 1]
  /\ UNCHANGED <<ctl, writes>>

----------------------------------------------------------------------------
(* The control process: the command line *)

\* The first of these that is given decides.  "help" ends the process in any case.
StatCmd(options) ==
  CASE "show-tags" \in options -> "PRINT_TAG"
    [] "show-tags" \notin options /\ "stat-types" \in options -> "PRINT_STAT_TYPE"
    [] {"show-tags", "stat-types"} \cap options = {} /\ "dump-stats" \in options -> "DUMP_STAT"
    [] {"show-tags", "stat-types", "dump-stats"} \cap options = {}
         /\ "clear-stats" \in options -> "CLEAR_STAT"
    [] options = {"log-level"} -> "LOG_LEVEL"
    [] OTHER -> "NO_CMD"

isStatisticCommand(cmd) == cmd \in {"PRINT_STAT_TYPE", "DUMP_STAT", "CLEAR_STAT", "PRINT_TAG"}
isLogCommand(cmd) == cmd \in {"LOG_LEVEL", "PRINT_TAG"}

\* No --tags is one description that limits nothing.
TagDisplayDescs(tags) ==
  IF tags = <<>> THEN <<[path |-> <<>>, array_indices |-> <<>>]>> ELSE tags

NoLevelArg == [set_log_level |-> FALSE, logger_idx |-> 0, new_log_level |-> ""]

\* descs: those named so far; todo: tags to visit for the last of them; cells and
\* stat_output: of the statistic being visited; swept is a ghost, the cells stored to.
NoSession ==
  [on |-> FALSE, cmd |-> "NO_CMD", descs |-> <<>>, desc |-> 0, level |-> NoLevelArg,
   todo |-> <<>>, visiting |-> FALSE, cells |-> <<>>, entries |-> <<>>,
   dimensionSizes |-> <<>>, stat_tags_vector |-> <<>>, log_tags_vector |-> <<>>,
   swept |-> {}]

parseCommandLineArgs ==
  \E options \in OptionSets, n \in 0 .. MaxDescs : \E tags \in [1 .. n -> Descs] :
    \E level \in IF StatCmd(options) = "LOG_LEVEL" THEN LevelArgs ELSE {NoLevelArg} :
      /\ ~ctl.on
      /\ "help" \notin options
      /\ ctl' = [NoSession EXCEPT !.on = TRUE, !.cmd = StatCmd(options),
                                  !.descs = TagDisplayDescs(tags), !.level = level]
      /\ UNCHANGED <<mem, thread, writes, stat>>

----------------------------------------------------------------------------
(* The control process: parseUserCommands and sendCommand *)

Walking == ctl.on /\ ~ctl.visiting

\* The statistics' tree is searched before the log tags'.
NextDesc ==
  LET path == ctl.descs[ctl.desc + 1].path IN
  /\ Walking
  /\ ctl.todo = <<>>
  /\ ctl.desc < Len(ctl.descs)
  /\ ctl' = [ctl EXCEPT
       !.desc = @ + 1,
       !.todo = (IF isStatisticCommand(ctl.cmd) THEN tagCommander(StatTagTree, path) ELSE <<>>)
             \o (IF isLogCommand(ctl.cmd) THEN tagCommander(LogTagTree, path) ELSE <<>>)]
  /\ UNCHANGED <<mem, thread, writes, stat>>

\* doCommand of a statistic; a parent's does nothing, and only two commands touch cells.
VisitStat ==
  LET t == Head(ctl.todo)
      command == StatCommand(t) IN
  /\ Walking
  /\ ctl.todo # <<>>
  /\ t \in StatTags
  /\ ctl' = [ctl EXCEPT
       !.visiting = TRUE,
       !.cells = IF t \in StatLeaves /\ ctl.cmd \in {"DUMP_STAT", "CLEAR_STAT"}
                 THEN command.cells ELSE <<>>,
       !.dimensionSizes = IF t \in StatLeaves THEN command.dimensionSizes ELSE <<>>,
       !.entries = <<>>]
  /\ UNCHANGED <<mem, thread, writes, stat>>

DumpCell ==
  /\ ctl.cells # <<>>
  /\ ctl.cmd = "DUMP_STAT"
  /\ ctl' = [ctl EXCEPT !.cells = Tail(@), !.entries = Append(@, mem[Head(ctl.cells)])]
  /\ UNCHANGED <<mem, thread, writes, stat>>

ClearCell ==
  LET cell == Head(ctl.cells) IN
  /\ ctl.cells # <<>>
  /\ ctl.cmd = "CLEAR_STAT"
  /\ mem' = [mem EXCEPT ![cell] = 0]
  /\ ctl' = [ctl EXCEPT !.cells = Tail(@), !.swept = @ \cup {cell}]
  /\ stat' = [item \in Items |->
                IF ItemCell(item) = cell
                THEN [stat[item] EXCEPT !.count = 0, !.raced = Incrementing(item) # {}]
                ELSE stat[item]]
  /\ UNCHANGED <<thread, writes>>

removeTag(v, t) == SelectIn(v, {elem \in ToSet(v) : elem.tag # t})

\* Mutant: output of the same tag is kept.
AddStatOutputAgain ==
  LET t == Head(ctl.todo) IN
  /\ ctl.visiting
  /\ ctl.cells = <<>>
  /\ ctl' = [ctl EXCEPT
       !.visiting = FALSE, !.todo = Tail(@), !.entries = <<>>, !.dimensionSizes = <<>>,
       !.stat_tags_vector = Append(@,
          [tag |-> t, array_indices |-> ctl.descs[ctl.desc].array_indices,
           entries |-> ctl.entries, dimensionSizes |-> ctl.dimensionSizes])]
  /\ UNCHANGED <<mem, thread, writes, stat>>

addStatOutput ==
  LET t == Head(ctl.todo) IN
  /\ ctl.visiting
  /\ ctl.cells = <<>>
  /\ ctl' = [ctl EXCEPT
       !.visiting = FALSE, !.todo = Tail(@), !.entries = <<>>, !.dimensionSizes = <<>>,
       !.stat_tags_vector = Append(removeTag(@, t),
          [tag |-> t, array_indices |-> ctl.descs[ctl.desc].array_indices,
           entries |-> ctl.entries, dimensionSizes |-> ctl.dimensionSizes])]
  /\ UNCHANGED <<mem, thread, writes, stat>>

----------------------------------------------------------------------------
(* The control process: log levels *)

\* log_output: the levels before and after; nothing but for LOG_LEVEL.
NoLogOutput == [previous |-> INFO, now |-> INFO]

addLogOutput(t, output) ==
  [ctl EXCEPT !.todo = Tail(@),
              !.log_tags_vector = Append(removeTag(@, t), [tag |-> t, output |-> output])]

ShowLogTag ==
  LET t == Head(ctl.todo) IN
  /\ Walking
  /\ ctl.todo # <<>>
  /\ t \in LogTags
  /\ ctl.cmd = "PRINT_TAG"
  /\ ctl' = addLogOutput(t, NoLogOutput)
  /\ UNCHANGED <<mem, thread, writes, stat>>

\* Mutant: find's end is not tested for.
NewLevelUnchecked(level_name, level) ==
  IF \E l \in Levels : LogLevelNames[l + 1] = level_name
  THEN CHOOSE l \in Levels : LogLevelNames[l + 1] = level_name
  ELSE Len(LogLevelNames)

\* The level that a name stands for; an unknown one changes nothing.
NewLevel(level_name, level) ==
  IF \E l \in Levels : LogLevelNames[l + 1] = level_name
  THEN CHOOSE l \in Levels : LogLevelNames[l + 1] = level_name
  ELSE level

\* LogControlProxy::doCommand.  The byte is read, written and read again; nobody
\* else writes it.
LogLevel ==
  LET t == Head(ctl.todo)
      cell == LevelCell(t, ctl.level.logger_idx)
      new == IF ctl.level.set_log_level
             THEN NewLevel(ctl.level.new_log_level, mem[cell]) ELSE mem[cell] IN
  /\ Walking
  /\ ctl.todo # <<>>
  /\ ctl.cmd = "LOG_LEVEL"
  /\ ctl.level.logger_idx < numLoggers
  /\ mem' = [mem EXCEPT ![cell] = new]
  /\ ctl' = [addLogOutput(t, [previous |-> mem[cell], now |-> new]) EXCEPT
               !.swept = IF ctl.level.set_log_level THEN @ \cup {cell} ELSE @]
  /\ UNCHANGED <<thread, writes, stat>>

\* exit(1): the process ends, and has printed nothing.
InvalidLogIndex ==
  /\ Walking
  /\ ctl.todo # <<>>
  /\ ctl.cmd = "LOG_LEVEL"
  /\ ctl.level.logger_idx >= numLoggers
  /\ ctl' = NoSession
  /\ UNCHANGED <<mem, thread, writes, stat>>

----------------------------------------------------------------------------
(* The control process: the output *)

Showing == Walking /\ ctl.todo = <<>> /\ ctl.desc = Len(ctl.descs)

\* printDumpStat: the rows of a statistic, each an index and a value.
Rows(elem) ==
  LET rows == [i \in DOMAIN elem.entries |->
                 [indices |-> dim_indices(i - 1, elem.dimensionSizes),
                  value |-> elem.entries[i]]]
  IN SelectIn(rows, {row \in ToSet(rows) : do_print(elem.array_indices, row.indices)})

\* What showOutput prints is Rows of stat_tags_vector, or the tags of it and of
\* log_tags_vector; the process ends.
showOutput ==
  /\ Showing
  /\ ctl' = NoSession
  /\ UNCHANGED <<mem, thread, writes, stat>>

----------------------------------------------------------------------------
\* The generator has cleared the shared memory and set the levels.
Init ==
  /\ mem = [cell \in Cells |-> IF cell \in AllLevelCells THEN INFO ELSE 0]
  /\ thread = [g \in Threads |-> IdleThread]
  /\ ctl = NoSession
  /\ writes = 0
  /\ stat = [item \in Items |-> Unwritten]

Write(g) == writeStat(g) \/ writeBitStatus(g) \/ Load(g) \/ Store(g) \/ Assign(g)

sendCommand ==
  \/ VisitStat \/ DumpCell \/ ClearCell \/ addStatOutput
  \/ ShowLogTag \/ LogLevel \/ InvalidLogIndex

parseUserCommands == parseCommandLineArgs \/ NextDesc \/ sendCommand \/ showOutput

Next == (\E g \in Threads : Write(g)) \/ parseUserCommands

Spec == Init /\ [][Next]_vars

----------------------------------------------------------------------------
(* Properties *)

\* Types of the shared memory (counters stay within their type, level bytes are
\* the number of a level's name, which LogLevelNames is indexed with) and of the
\* threads and the control process.
TypeOK ==
  /\ mem \in [Cells -> Nat]
  /\ \A cell \in Cells : mem[cell] \in IF cell \in AllLevelCells THEN Levels ELSE 0 .. Modulus - 1
  /\ \A g \in Threads : thread[g].todo \in Seq(Items) /\ thread[g].read \in 0 .. Modulus - 1
  /\ writes \in 0 .. MaxWrites
  /\ ctl.todo \in Seq(Tags) /\ ctl.swept \subseteq Cells /\ ToSet(ctl.cells) \subseteq Cells

\* A counter is never wrong unless two writes to the same number, or a write and
\* a clear, have overlapped since it was last cleared: other indices, statistics,
\* level bytes and commands do not matter to it (simple_counter.h, stat_array.h).
CounterExactUnlessRaced ==
  \A item \in Items : item[1] \in Counters /\ ~stat[item].raced =>
    mem[ItemCell(item)] = stat[item].count % Modulus

\* The descriptions on the command line that name a tag, by position.
Naming(t) == {i \in DOMAIN ctl.descs : Names(ctl.descs[i].path, t)}

\* What is about to be printed is what the command line asked for, whatever names
\* overlap: each named tag once and no other, and of each statistic just the rows
\* that the last --tags naming it selects, by increasing index, each once
\* (tagCommander; Printer::addStatOutput; printDumpStat).
ReportIsWhatWasAsked ==
  Showing =>
    LET stats == ctl.stat_tags_vector
        logs == ctl.log_tags_vector
        named(tags) == {t \in tags : Naming(t) # {}}
        once(v, tags) == /\ {v[i].tag : i \in DOMAIN v} = tags
                         /\ \A i, j \in DOMAIN v : v[i].tag = v[j].tag => i = j IN
    /\ once(stats, IF isStatisticCommand(ctl.cmd) THEN named(StatTags) ELSE {})
    /\ once(logs, IF isLogCommand(ctl.cmd) THEN named(LogTags) ELSE {})
    /\ ctl.cmd = "DUMP_STAT" =>
         \A i \in DOMAIN stats :
           LET t == stats[i].tag
               last == CHOOSE j \in Naming(t) : \A k \in Naming(t) : k <= j
               rows == Rows(stats[i])
               wanted == {idx \in Indices(t) : do_print(ctl.descs[last].array_indices, idx)} IN
           t \in StatLeaves =>
             /\ {rows[j].indices : j \in DOMAIN rows} = wanted
             /\ \A j, k \in DOMAIN rows : j < k =>
                  \E d \in DOMAIN dims[t] :
                    /\ rows[j].indices[d] < rows[k].indices[d]
                    /\ \A e \in 1 .. d - 1 : rows[j].indices[e] = rows[k].indices[e]

\* A row labelled with an index counts writes to that index of that statistic only:
\* the address a write computes, the walk of a command over the same memory and
\* the printer's labels agree (write_idx, doStatCommand, idx_to_dim_string).
RowsShowOwnWrites ==
  ctl.cmd = "DUMP_STAT" /\ ~ctl.visiting =>
    \A i \in DOMAIN ctl.stat_tags_vector :
      LET elem == ctl.stat_tags_vector[i]
          rows == Rows(elem) IN
      \A j \in DOMAIN rows : rows[j].value <= stat[<<elem.tag, rows[j].indices>>].begun

\* A command stores to the cells of the tags it was limited to and to no others,
\* and when it ends it has stored to all of them; a new log level is then in force
\* for each of those tags and the one logger (doStatCommand, LogControlProxy).
CommandHitsItsTargets ==
  LET leveled == /\ ctl.cmd = "LOG_LEVEL" /\ ctl.level.set_log_level
                 /\ ctl.level.logger_idx < numLoggers
      targets ==
        IF ctl.cmd = "CLEAR_STAT"
        THEN UNION {StatCells(t) : t \in {u \in StatLeaves : Naming(u) # {}}}
        ELSE IF leveled
        THEN {LevelCell(t, ctl.level.logger_idx) : t \in {u \in LogTags : Naming(u) # {}}}
        ELSE {} IN
  /\ ctl.swept \subseteq targets
  /\ Showing => ctl.swept = targets
  /\ Showing /\ leveled => \A l \in Levels : LogLevelNames[l + 1] = ctl.level.new_log_level =>
       \A cell \in targets : mem[cell] = l

\* After a clear a counter has only what writes have added that ended after it
\* ("Zero out statistics", src/utils.cpp).
ClearedStaysClear ==
  \A item \in Items : item[1] \in Counters => mem[ItemCell(item)] <= stat[item].count
=============================================================================
