------------------------------ MODULE LogPath ------------------------------
(***************************************************************************)
(* The way of a log entry: a statement of the generator asks for a proxy   *)
(* (LogStatOperational::getLog), which compares the entry's level with the *)
(* byte in shared memory that control processes set (LOG_LEVEL); the text  *)
(* that is inserted goes to one of the loggers when the proxy is destroyed *)
(* (LogGenProxy); a control process prints the log without the tags and    *)
(* levels that it was told to leave out (--output-log, getLog).  The       *)
(* generator may be killed, and started again over the same memory.        *)
(*                                                                         *)
(* Each logger is the bounded log that LogRing implements: an append and   *)
(* a copy are one step.  A copy that the start of a generator overlaps     *)
(* (LogRingTorn) and clocks that disagree about the order are left to      *)
(* LogRing and LogRingRestart.                                             *)
(***************************************************************************)
EXTENDS Naturals, Sequences, EntrySeqs

CONSTANTS
  Threads,       \* logging threads of the generator, each with one proxy at a time
  Controls,      \* control processes
  LogTags,
  theLogs,       \* the log tags in the order of their initialization
  LongNames,     \* tags whose names fill the 16 bytes of the entry's header
  numSlots,      \* log levels per tag (the size of LogControlStorage)
  numLoggers,    \* loggers that were added
  Capacity,      \* blocks a log has room for
  Sizes,         \* blocks of an entry
  Statements,    \* calls of getLog: [tag, level, logger]
  LevelCommands, \* LOG_LEVEL: [tags, logger_idx, new_log_level]
  OutputCommands,\* --output-log: [logger_idx, exclude_tags, exclude_log_levels]
  MaxEntries,    \* bound of the model: entries written
  MaxStarts      \* bound of the model: starts of the generator

DEBUG == 0
INFO  == 1
ALERT == 2
ERROR == 3
Levels == DEBUG .. ERROR

Slots == 0 .. numSlots - 1
Loggers == 0 .. numLoggers - 1

ASSUME LogTagAssumption ==
  theLogs \in Seq(LogTags) /\ ToSet(theLogs) = LogTags /\ LongNames \subseteq LogTags
ASSUME LoggerAssumption ==
  numLoggers \in Nat \ {0} /\ numSlots \in Nat /\ numLoggers <= numSlots
ASSUME StatementAssumption ==
  Statements \subseteq [tag : LogTags, level : Levels, logger : Loggers]
ASSUME LevelCommandAssumption ==
  LevelCommands \subseteq [tags : Seq(LogTags), logger_idx : Nat, new_log_level : Levels]
ASSUME OutputCommandAssumption == \A cmd \in OutputCommands : cmd.logger_idx \in Loggers
ASSUME RoomAssumption == Capacity \in Nat /\ Sizes \subseteq Nat \ {0}
ASSUME BoundAssumption == MaxEntries \in Nat /\ MaxStarts \in Nat \ {0}

VARIABLES
  level,   \* in shared memory: the level bytes of each tag
  log,     \* the loggers' entries
  gen,     \* the generator: what it initializes, and how far
  proxy,   \* each thread's LogGenProxy
  ctl,     \* each control process
  entries, \* ghost: entries written
  starts,  \* ghost: starts of the generator
  asked,   \* ghost: the levels stored since the generator's start
  late     \* ghost: entries a thread wrote below the level since it was stored

vars == <<level, log, gen, proxy, ctl, entries, starts, asked, late>>

----------------------------------------------------------------------------
\* What an entry carries; a proxy's text is empty or not.
Message == [id : 1 .. MaxEntries, tag : LogTags, level : Levels]

NoProxy == [pc |-> "none"]
Proxies == [pc : {"made"}, stmt : Statements, enabled : BOOLEAN, text : BOOLEAN]

Idle == [pc |-> "idle"]

\* The control processes that set levels have tags to do; those that have printed
\* a log have their output, and (ghost) what was in the log.
ControlStates ==
  [pc : {"level"}, cmd : LevelCommands, todo : Seq(LogTags)]
  \cup [pc : {"printed"}, cmd : OutputCommands, output : Seq(Message),
        retained : Seq([msg : Message, blocks : Sizes])]

\* A value for every level byte.
AllLevels(x) == [tag \in LogTags |-> [slot \in Slots |-> x]]

NoneLate == [t \in Threads |-> 0]

----------------------------------------------------------------------------
(* The generator's start, and end. *)

\* shared_mem_backend::setParams clears the memory: all levels are DEBUG.
StartGenerator ==
  /\ gen.pc = "down"
  /\ starts < MaxStarts
  /\ starts' = starts + 1
  /\ level' = AllLevels(DEBUG)
  /\ asked' = AllLevels({})
  /\ late' = AllLevels(NoneLate)
  /\ gen' = [pc |-> "levels", next |-> 1]
  /\ UNCHANGED <<log, proxy, ctl, entries>>

\* The ghosts after a store to the slots of a tag.
Asked(tag, slots, new) ==
  /\ asked' = [asked EXCEPT ![tag] = [slot \in Slots |->
                 IF slot \in slots THEN @[slot] \cup {new} ELSE @[slot]]]
  /\ late' = [late EXCEPT ![tag] = [slot \in Slots |->
                IF slot \in slots THEN NoneLate ELSE @[slot]]]

\* Then come the loggers.
NextLogTag ==
  gen' = IF gen.next = Len(theLogs) THEN [pc |-> "loggers", next |-> 0]
         ELSE [gen EXCEPT !.next = gen.next + 1]

\* Mutant: only the first logger gets the default level.
SetFirstLevel ==
  /\ gen.pc = "levels"
  /\ level' = [level EXCEPT ![theLogs[gen.next]][0] = INFO]
  /\ Asked(theLogs[gen.next], Slots, INFO)
  /\ NextLogTag
  /\ UNCHANGED <<log, proxy, ctl, entries, starts>>

\* LogOpProxy::setSharedPtr sets the levels of one tag; init does all of them.
setSharedPtr ==
  /\ gen.pc = "levels"
  /\ level' = [level EXCEPT ![theLogs[gen.next]] = [slot \in Slots |-> INFO]]
  /\ Asked(theLogs[gen.next], Slots, INFO)
  /\ NextLogTag
  /\ UNCHANGED <<log, proxy, ctl, entries, starts>>

\* A logger is constructed, which clears its memory, and added.
addLogger ==
  /\ gen.pc = "loggers"
  /\ log' = [log EXCEPT ![gen.next] = <<>>]
  /\ gen' = IF gen.next + 1 = numLoggers THEN [pc |-> "up", next |-> 0]
            ELSE [gen EXCEPT !.next = gen.next + 1]
  /\ UNCHANGED <<level, proxy, ctl, entries, starts, asked, late>>

KillGenerator ==
  /\ gen.pc # "down"
  /\ gen' = [pc |-> "down", next |-> 0]
  /\ proxy' = [t \in Threads |-> NoProxy]
  /\ UNCHANGED <<level, log, ctl, entries, starts, asked, late>>

----------------------------------------------------------------------------
(* Logging *)

\* Mutant: all loggers go by the level of the first.
EnabledByFirst(stmt) == stmt.level >= level[stmt.tag][0]

\* getLevel, and the comparison in getLog.
enabled(stmt) == stmt.level >= level[stmt.tag][stmt.logger]

getLog(t, stmt) ==
  /\ gen.pc = "up"
  /\ proxy[t] = NoProxy
  /\ proxy' = [proxy EXCEPT ![t] = [pc |-> "made", stmt |-> stmt,
                                    enabled |-> enabled(stmt), text |-> FALSE]]
  /\ UNCHANGED <<level, log, gen, ctl, entries, starts, asked, late>>

\* operator<< or hexDump; a proxy that is not enabled ignores both.
Insert(t) ==
  /\ proxy[t].pc = "made"
  /\ proxy[t].enabled
  /\ ~proxy[t].text
  /\ proxy' = [proxy EXCEPT ![t].text = TRUE]
  /\ UNCHANGED <<level, log, gen, ctl, entries, starts, asked, late>>

\* The proxy is destroyed without text: nothing was inserted, or nothing but
\* empty strings.
Discard(t) ==
  /\ proxy[t].pc = "made"
  /\ ~proxy[t].text
  /\ proxy' = [proxy EXCEPT ![t] = NoProxy]
  /\ UNCHANGED <<level, log, gen, ctl, entries, starts, asked, late>>

\* It is destroyed with text: that is appended to the log, whatever the level is
\* by now...
writeData(t) ==
  LET stmt == proxy[t].stmt
      msg == [id |-> entries + 1, tag |-> stmt.tag, level |-> stmt.level] IN
  /\ proxy[t].pc = "made"
  /\ proxy[t].text
  /\ entries < MaxEntries
  /\ entries' = entries + 1
  /\ \E blocks \in Sizes :
       log' = [log EXCEPT ![stmt.logger] =
                 Newest(Append(@, [msg |-> msg, blocks |-> blocks]), Capacity)]
  /\ late' = [late EXCEPT ![stmt.tag][stmt.logger][t] =
                IF stmt.level < level[stmt.tag][stmt.logger] THEN @ + 1 ELSE @]
  /\ proxy' = [proxy EXCEPT ![t] = NoProxy]
  /\ UNCHANGED <<level, gen, ctl, starts, asked>>

\* ... or given up, as somebody has the mutex.
Drop(t) ==
  /\ proxy[t].pc = "made"
  /\ proxy[t].text
  /\ proxy' = [proxy EXCEPT ![t] = NoProxy]
  /\ UNCHANGED <<level, log, gen, ctl, entries, starts, asked, late>>

----------------------------------------------------------------------------
(* Control processes *)

\* LOG_LEVEL for the tags that were named, in the order of the visit.
CallLogLevel(c, cmd) ==
  /\ ctl[c] = Idle
  /\ ctl' = [ctl EXCEPT ![c] = [pc |-> "level", cmd |-> cmd, todo |-> cmd.tags]]
  /\ UNCHANGED <<level, log, gen, proxy, entries, starts, asked, late>>

\* Mutant: the names of the levels are counted from one.
LogLevelFromOne(c) ==
  LET cmd == ctl[c].cmd
      tag == Head(ctl[c].todo) IN
  /\ ctl[c].pc = "level"
  /\ ctl[c].todo # <<>>
  /\ cmd.logger_idx \in Slots
  /\ level' = [level EXCEPT ![tag][cmd.logger_idx] = cmd.new_log_level + 1]
  /\ Asked(tag, {cmd.logger_idx}, cmd.new_log_level)
  /\ ctl' = [ctl EXCEPT ![c].todo = Tail(@)]
  /\ UNCHANGED <<log, gen, proxy, entries, starts>>

\* LogControlProxy::doCommand for one tag; with an index of no logger the process
\* exits at once.  (Unknown names of levels, and showing a level: ControlSession.)
LogLevel(c) ==
  LET cmd == ctl[c].cmd
      tag == Head(ctl[c].todo) IN
  /\ ctl[c].pc = "level"
  /\ ctl[c].todo # <<>>
  /\ cmd.logger_idx \in Slots
  /\ level' = [level EXCEPT ![tag][cmd.logger_idx] = cmd.new_log_level]
  /\ Asked(tag, {cmd.logger_idx}, cmd.new_log_level)
  /\ ctl' = [ctl EXCEPT ![c].todo = Tail(@)]
  /\ UNCHANGED <<log, gen, proxy, entries, starts>>

Exit(c) ==
  /\ \/ ctl[c].pc = "level" /\ (ctl[c].todo = <<>> \/ ctl[c].cmd.logger_idx \notin Slots)
     \/ ctl[c].pc = "printed"
  /\ ctl' = [ctl EXCEPT ![c] = Idle]
  /\ UNCHANGED <<level, log, gen, proxy, entries, starts, asked, late>>

\* What strings in the header of an entry are when they are read up to a NUL. A
\* name that fills its bytes has none, and the level, which follows, ends it.
tagName(msg) ==
  IF msg.tag \in LongNames THEN <<msg.tag, msg.level>> ELSE <<msg.tag>>

\* Mutant: the list of levels overrules that of tags.
ShouldPrintByLevel(cmd, msg) ==
  IF cmd.exclude_log_levels = {}
  THEN \A tag \in cmd.exclude_tags : tagName(msg) # <<tag>>
  ELSE msg.level \notin cmd.exclude_log_levels

should_print_entry(cmd, msg) ==
  /\ \A tag \in cmd.exclude_tags : tagName(msg) # <<tag>>
  /\ msg.level \notin cmd.exclude_log_levels

\* The messages of the entries that are printed; the walk begins at any entry of
\* the log, as it does in BoundedLog.
Printed(cmd, texts) ==
  LET messages == [i \in DOMAIN texts |-> texts[i][1][1]] IN
  SelectIn(messages, {msg \in ToSet(messages) : should_print_entry(cmd, msg)})

\* outputLog, for a logger there is, up to the end of getLog; for another one the
\* process exits at once.
outputLog(c, cmd) ==
  LET retained == log[cmd.logger_idx] IN
  /\ ctl[c] = Idle
  /\ \E k \in 1 .. Len(retained) \cup {1} :
       ctl' = [ctl EXCEPT ![c] =
                 [pc |-> "printed", cmd |-> cmd, retained |-> retained,
                  output |-> Printed(cmd, Rotation(retained, k))]]
  /\ UNCHANGED <<level, log, gen, proxy, entries, starts, asked, late>>

----------------------------------------------------------------------------
\* A generator has begun to start; its memory is cleared.
Init ==
  /\ level = AllLevels(DEBUG)
  /\ log = [i \in Loggers |-> <<>>]
  /\ gen = [pc |-> "levels", next |-> 1]
  /\ proxy = [t \in Threads |-> NoProxy]
  /\ ctl = [c \in Controls |-> Idle]
  /\ entries = 0
  /\ starts = 1
  /\ asked = AllLevels({})
  /\ late = AllLevels(NoneLate)

GeneratorStep == StartGenerator \/ setSharedPtr \/ addLogger \/ KillGenerator

ThreadStep(t) ==
  \/ \E stmt \in Statements : getLog(t, stmt)
  \/ Insert(t)
  \/ Discard(t)
  \/ writeData(t)
  \/ Drop(t)

ControlStep(c) ==
  \/ \E cmd \in LevelCommands : CallLogLevel(c, cmd)
  \/ LogLevel(c)
  \/ \E cmd \in OutputCommands : outputLog(c, cmd)
  \/ Exit(c)

Next ==
  \/ GeneratorStep
  \/ \E t \in Threads : ThreadStep(t)
  \/ \E c \in Controls : ControlStep(c)

Spec == Init /\ [][Next]_vars

----------------------------------------------------------------------------
(* Properties *)

\* Types of the shared memory, the generator, the proxies and the processes.
TypeOK ==
  /\ level \in [LogTags -> [Slots -> Levels]]
  /\ log \in [Loggers -> Seq([msg : Message, blocks : Sizes])]
  /\ gen \in [pc : {"down", "levels", "loggers", "up"}, next : Nat]
  /\ proxy \in [Threads -> {NoProxy} \cup Proxies]
  /\ ctl \in [Controls -> {Idle} \cup ControlStates]
  /\ entries \in 0 .. MaxEntries
  /\ starts \in 1 .. MaxStarts
  /\ asked \in [LogTags -> [Slots -> SUBSET Levels]]
  /\ late \in [LogTags -> [Slots -> [Threads -> Nat]]]

\* The log of a running generator has no entry below INFO, or below the least
\* level that was asked for since its start: not from the moment when all bytes
\* are zero, which is DEBUG, nor by the level of another logger or an earlier run
\* (getLog against setParams, setSharedPtr and LOG_LEVEL).
NothingBelowAsked ==
  gen.pc = "up" =>
    \A i \in Loggers : \A e \in ToSet(log[i]) :
      \E asked_level \in asked[e.msg.tag][i] : e.msg.level >= asked_level

\* After a level was set, no thread logs more than one entry below it, that whose
\* proxy it had before (the level is tested when the proxy is made).
QuietAfterRaise ==
  \A tag \in LogTags : \A i \in Loggers : \A t \in Threads : late[tag][i][t] <= 1

\* Numbers that go up, but once may go on from the greatest to the least of them.
InCyclicOrder(ids) ==
  /\ IsInjective(ids)
  /\ \A i, j, k \in DOMAIN ids : i < j /\ j < k =>
       \/ ids[i] < ids[j] /\ ids[j] < ids[k]
       \/ ids[j] < ids[k] /\ ids[k] < ids[i]
       \/ ids[k] < ids[i] /\ ids[i] < ids[j]

\* What is printed is what the log retains, each entry once and in the order they
\* were written, from somewhere in it round to there, without those of an excluded
\* level and those of an excluded tag, except that a tag whose name fills its bytes
\* in the header cannot be excluded (see ExcludedTagsAreLeftOut).
PrintedIsWhatWasAsked ==
  \A c \in Controls : ctl[c].pc = "printed" =>
    LET cmd == ctl[c].cmd
        output == ctl[c].output
        kept == {e.msg : e \in ToSet(ctl[c].retained)} IN
    /\ InCyclicOrder([i \in DOMAIN output |-> output[i].id])
    /\ ToSet(output) =
         {msg \in kept : /\ msg.tag \notin cmd.exclude_tags \ LongNames
                         /\ msg.level \notin cmd.exclude_log_levels}

\* Entries of an excluded tag are not printed ("Do not output log entries
\* corresponding to the supplied list of tags").
ExcludedTagsAreLeftOut ==
  \A c \in Controls : ctl[c].pc = "printed" =>
    \A msg \in ToSet(ctl[c].output) : msg.tag \notin ctl[c].cmd.exclude_tags
============================================================================
