--------------------------- MODULE LogPathProofs ---------------------------
(***************************************************************************)
(* Theorems about LogPath, for every number of threads, control processes, *)
(* tags, loggers, statements and commands: how many entries of a thread can *)
(* still come below a level when it has been set, that nothing comes below what was  *)
(* asked for, and that a process prints what it was asked to.              *)
(***************************************************************************)
EXTENDS LogPath, DataLemmas

\* Threads whose proxies were made under another level than there is now, and will
\* be logged below it.
Late(tag, slot) ==
  {t \in Threads : /\ proxy[t].pc = "made"
                   /\ proxy[t].enabled
                   /\ proxy[t].stmt.tag = tag
                   /\ proxy[t].stmt.logger = slot
                   /\ proxy[t].stmt.level < level[tag][slot]}

\* The types that matter here.
ProxyTypes ==
  /\ level \in [LogTags -> [Slots -> Levels]]
  /\ late \in [LogTags -> [Slots -> [Threads -> Nat]]]
  /\ proxy \in [Threads -> {NoProxy} \cup Proxies]
  /\ \A t \in Threads : proxy[t].pc = "made" /\ proxy[t].text => proxy[t].enabled
  /\ \A c \in Controls : ctl[c].pc = "level" => ctl[c].cmd \in LevelCommands

\* A thread has logged below a level since it was set, once, or can, or neither: not
\* both, as it makes its next proxy under the new level.
LateOK ==
  \A tag \in LogTags : \A slot \in Slots : \A t \in Threads :
    /\ late[tag][slot][t] <= 1
    /\ t \in Late(tag, slot) => late[tag][slot][t] = 0

----------------------------------------------------------------------------
\* LogPath's loggers have levels.
LEMMA LoggersHaveSlots == Loggers \subseteq Slots
  BY LoggerAssumption DEF Loggers, Slots

\* Types are kept.
LEMMA ProxyTypesStep ==
  ASSUME ProxyTypes, [Next]_vars
  PROVE  ProxyTypes'
  <1> USE DEF ProxyTypes
  <1>1. ASSUME NEW t \in Threads, NEW stmt \in Statements, getLog(t, stmt)
        PROVE  ProxyTypes'
    <2> DEFINE p == [pc |-> "made", stmt |-> stmt, enabled |-> enabled(stmt), text |-> FALSE]
    <2>1. enabled(stmt) \in BOOLEAN
      BY DEF enabled
    <2>2. p \in Proxies
      BY <2>1 DEF Proxies
    <2>3. p.pc = "made" /\ ~p.text
      OBVIOUS
    <2> HIDE DEF p
    <2>4. proxy' = [proxy EXCEPT ![t] = p]
      BY <1>1, Zenon DEF getLog, p
    <2>5. UNCHANGED <<level, late, ctl>>
      BY <1>1 DEF getLog
    <2> QED
      BY <2>2, <2>3, <2>4, <2>5
  <1>2. ASSUME NEW t \in Threads, Insert(t)
        PROVE  ProxyTypes'
    <2>1. proxy[t] \in Proxies
      BY <1>2 DEF Insert, NoProxy
    <2>2. [proxy[t] EXCEPT !.text = TRUE] \in Proxies
      BY <2>1 DEF Proxies
    <2> DEFINE p == [proxy[t] EXCEPT !.text = TRUE]
    <2>3. p.enabled
      BY <1>2, <2>1 DEF Insert, Proxies
    <2>4. proxy' = [proxy EXCEPT ![t] = p]
      BY <1>2 DEF Insert
    <2>5. p \in Proxies
      BY <2>2
    <2> HIDE DEF p
    <2> QED
      BY <1>2, <2>3, <2>4, <2>5 DEF Insert
  <1>3. ASSUME NEW t \in Threads, Discard(t) \/ writeData(t) \/ Drop(t)
        PROVE  ProxyTypes'
    <2>1. proxy' = [proxy EXCEPT ![t] = NoProxy]
      BY <1>3 DEF Discard, writeData, Drop
    <2>2. UNCHANGED <<level, ctl>>
      BY <1>3 DEF Discard, writeData, Drop
    <2>3. late' \in [LogTags -> [Slots -> [Threads -> Nat]]]
      <3>1. CASE writeData(t)
        <4> DEFINE a == proxy[t].stmt.tag
                   b == proxy[t].stmt.logger
                   x == IF proxy[t].stmt.level < level[a][b] THEN late[a][b][t] + 1
                        ELSE late[a][b][t]
        <4>1. proxy[t] \in Proxies
          BY <3>1 DEF writeData, NoProxy
        <4>2. a \in LogTags /\ b \in Slots
          BY <4>1, StatementAssumption, LoggersHaveSlots DEF Proxies
        <4>3. x \in Nat
          BY <4>2
        <4>4. late' = [late EXCEPT ![a][b][t] = x]
          BY <3>1 DEF writeData
        <4> HIDE DEF x, a, b
        <4> QED
          BY <4>2, <4>3, <4>4
      <3>2. CASE Discard(t) \/ Drop(t)
        BY <3>2 DEF Discard, Drop
      <3> QED
        BY <1>3, <3>1, <3>2
    <2>4. NoProxy.pc # "made"
      BY DEF NoProxy
    <2> QED
      BY <2>1, <2>2, <2>3, <2>4
  <1>4. ASSUME GeneratorStep
        PROVE  ProxyTypes'
    <2>1. DEBUG \in Levels /\ INFO \in Levels /\ 0 \in Nat
      BY DEF Levels, DEBUG, INFO, ERROR
    <2>2. \A x \in Levels : AllLevels(x) \in [LogTags -> [Slots -> Levels]]
      BY DEF AllLevels
    <2>3. /\ NoneLate \in [Threads -> Nat]
          /\ AllLevels(NoneLate) \in [LogTags -> [Slots -> [Threads -> Nat]]]
      BY DEF AllLevels, NoneLate
    <2>4. CASE StartGenerator
      BY <2>1, <2>2, <2>3, <2>4 DEF StartGenerator
    <2>5. CASE setSharedPtr
      BY <2>1, <2>3, <2>5 DEF setSharedPtr, Asked
    <2>6. CASE addLogger
      BY <2>6 DEF addLogger
    <2>7. CASE KillGenerator
      BY <2>7 DEF KillGenerator, NoProxy
    <2> QED
      BY <1>4, <2>4, <2>5, <2>6, <2>7 DEF GeneratorStep
  <1>5. ASSUME NEW c \in Controls, ControlStep(c)
        PROVE  ProxyTypes'
    <2>1. CASE LogLevel(c)
      <3>1. ctl[c].cmd.new_log_level \in Levels
        BY <2>1, LevelCommandAssumption DEF LogLevel
      <3>2. /\ level' \in [LogTags -> [Slots -> Levels]]
            /\ late' \in [LogTags -> [Slots -> [Threads -> Nat]]]
            /\ proxy' = proxy
        BY <2>1, <3>1 DEF LogLevel, Asked, NoneLate
      <3>3. \A d \in Controls : ctl'[d].pc = ctl[d].pc /\ ctl'[d].cmd = ctl[d].cmd
        BY <2>1 DEF LogLevel
      <3> QED
        BY <3>2, <3>3
    <2>2. CASE Exit(c)
      BY <2>2 DEF Exit, Idle
    <2>3. ASSUME NEW cmd \in LevelCommands, CallLogLevel(c, cmd)
          PROVE  ProxyTypes'
      BY <2>3 DEF CallLogLevel
    <2>4. ASSUME NEW cmd \in OutputCommands, outputLog(c, cmd)
          PROVE  ProxyTypes'
      BY <2>4 DEF outputLog
    <2> QED
      BY <1>5, <2>1, <2>2, <2>3, <2>4 DEF ControlStep
  <1>6. ASSUME UNCHANGED vars
        PROVE  ProxyTypes'
    BY <1>6 DEF vars
  <1> QED
    BY <1>1, <1>2, <1>3, <1>4, <1>5, <1>6 DEF Next, ThreadStep

\* A thread that logs below a level has no proxy then, and gets no such one again.
LEMMA LateStep ==
  ASSUME ProxyTypes, LateOK, [Next]_vars
  PROVE  LateOK'
  <1> SUFFICES ASSUME NEW tag \in LogTags, NEW slot \in Slots, NEW u \in Threads
               PROVE  /\ late'[tag][slot][u] <= 1
                      /\ u \in Late(tag, slot)' => late'[tag][slot][u] = 0
    BY DEF LateOK
  <1> DEFINE L == Late(tag, slot)
             Goal == late'[tag][slot][u] <= 1 /\ (u \in L' => late'[tag][slot][u] = 0)
  <1>1. late[tag][slot] \in [Threads -> Nat] /\ level[tag][slot] \in Levels
    BY DEF ProxyTypes
  <1>2. late[tag][slot][u] <= 1 /\ (u \in L => late[tag][slot][u] = 0)
    BY DEF LateOK
  <1>3. ASSUME late'[tag][slot][u] = late[tag][slot][u], u \in L' => u \in L
        PROVE  Goal
    BY <1>2, <1>3
  <1>4. ASSUME late'[tag][slot][u] = 0
        PROVE  Goal
    BY <1>4
  <1>5. ASSUME NEW t \in Threads, NEW stmt \in Statements, getLog(t, stmt)
        PROVE  Goal
    <2>1. UNCHANGED <<level, late>>
      BY <1>5 DEF getLog
    <2>2. \A v \in Threads : v # t => proxy'[v] = proxy[v]
      BY <1>5 DEF getLog, ProxyTypes
    <2>3. t \notin L'
      <3>1. proxy'[t].stmt = stmt /\ proxy'[t].enabled = enabled(stmt)
        BY <1>5 DEF getLog, ProxyTypes
      <3> SUFFICES ASSUME enabled(stmt), stmt.tag = tag, stmt.logger = slot,
                          stmt.level < level[tag][slot]
                   PROVE  FALSE
        BY <2>1, <3>1 DEF Late
      <3>2. stmt.level \in Int /\ level[tag][slot] \in Int
        BY <1>1, StatementAssumption DEF Levels, DEBUG, ERROR
      <3> QED
        BY <3>2 DEF enabled
    <2>4. u \in L' => u \in L
      BY <2>1, <2>2, <2>3 DEF Late
    <2> QED
      BY <1>3, <2>1, <2>4
  <1>6. ASSUME NEW t \in Threads, Insert(t)
        PROVE  Goal
    <2>1. UNCHANGED <<level, late>>
      BY <1>6 DEF Insert
    <2>2. \A v \in Threads : /\ proxy'[v].pc = proxy[v].pc
                             /\ proxy'[v].stmt = proxy[v].stmt
                             /\ proxy'[v].enabled = proxy[v].enabled
      BY <1>6 DEF Insert, ProxyTypes
    <2>3. u \in L' => u \in L
      BY <2>1, <2>2 DEF Late
    <2> QED
      BY <1>3, <2>1, <2>3
  <1>7. ASSUME NEW t \in Threads, Discard(t) \/ writeData(t) \/ Drop(t)
        PROVE  Goal
    <2>1. level' = level /\ proxy' = [proxy EXCEPT ![t] = NoProxy]
      BY <1>7 DEF Discard, writeData, Drop
    <2>2. (u \in L' => u \in L) /\ t \notin L'
      BY <2>1 DEF Late, NoProxy, ProxyTypes
    <2>3. CASE Discard(t) \/ Drop(t)
      <3>1. late' = late
        BY <2>3 DEF Discard, Drop
      <3> QED
        BY <1>3, <2>2, <3>1
    <2>4. CASE writeData(t)
      <3> DEFINE a == proxy[t].stmt.tag
                 b == proxy[t].stmt.logger
                 x == IF proxy[t].stmt.level < level[a][b] THEN late[a][b][t] + 1
                      ELSE late[a][b][t]
      <3>1. late' = [late EXCEPT ![a][b][t] = x]
        BY <2>4 DEF writeData
      <3>2. CASE t = u /\ t \in L
        <4>1. a = tag /\ b = slot /\ x = late[tag][slot][u] + 1
          BY <3>2 DEF Late
        <4> HIDE DEF a, b, x
        <4>2. late'[tag][slot][u] = late[tag][slot][u] + 1
          BY <3>1, <3>2, <4>1 DEF ProxyTypes
        <4>3. late'[tag][slot][u] = 1
          BY <1>2, <3>2, <4>2
        <4> QED
          BY <2>2, <3>2, <4>3
      <3>3. CASE ~(t = u /\ t \in L)
        <4>1. proxy[t].pc = "made" /\ proxy[t].enabled
          BY <2>4 DEF writeData, ProxyTypes
        <4>2. t = u /\ a = tag /\ b = slot => x = late[tag][slot][u]
          BY <3>3, <4>1 DEF Late
        <4> HIDE DEF a, b, x
        <4>3. late'[tag][slot][u] = late[tag][slot][u]
          BY <3>1, <4>2 DEF ProxyTypes
        <4> QED
          BY <1>3, <2>2, <4>3
      <3> QED
        BY <3>2, <3>3
    <2> QED
      BY <1>7, <2>3, <2>4
  <1>8. ASSUME GeneratorStep
        PROVE  Goal
    <2>1. CASE StartGenerator
      BY <1>4, <2>1 DEF StartGenerator, AllLevels, NoneLate
    <2>2. CASE setSharedPtr
      <3>1. CASE tag = theLogs[gen.next]
        BY <1>4, <2>2, <3>1 DEF setSharedPtr, Asked, ProxyTypes, NoneLate
      <3>2. CASE tag # theLogs[gen.next]
        <4>1. late'[tag] = late[tag] /\ level'[tag] = level[tag] /\ proxy' = proxy
          BY <2>2, <3>2 DEF setSharedPtr, Asked, ProxyTypes
        <4>2. u \in L' => u \in L
          BY <4>1 DEF Late
        <4> QED
          BY <1>3, <4>1, <4>2
      <3> QED
        BY <3>1, <3>2
    <2>3. CASE addLogger
      <3>1. UNCHANGED <<level, late, proxy>>
        BY <2>3 DEF addLogger
      <3> QED
        BY <1>3, <3>1 DEF Late
    <2>4. CASE KillGenerator
      <3>1. late' = late /\ L' = {}
        BY <2>4 DEF KillGenerator, Late, NoProxy
      <3> QED
        BY <1>3, <3>1
    <2> QED
      BY <1>8, <2>1, <2>2, <2>3, <2>4 DEF GeneratorStep
  <1>9. ASSUME NEW c \in Controls, LogLevel(c)
        PROVE  Goal
    <2> DEFINE a == Head(ctl[c].todo)
               b == ctl[c].cmd.logger_idx
    <2>1. proxy' = proxy /\ b \in Slots
      BY <1>9 DEF LogLevel
    <2>2. CASE tag = a /\ slot = b
      <3>1. late'[tag][slot][u] = 0
        BY <1>9, <2>2 DEF LogLevel, Asked, ProxyTypes, NoneLate
      <3> QED
        BY <1>4, <3>1
    <2>3. CASE ~(tag = a /\ slot = b)
      <3>1. late'[tag][slot] = late[tag][slot]
        BY <1>9, <2>3 DEF LogLevel, Asked, ProxyTypes
      <3>2. level'[tag][slot] = level[tag][slot]
        BY <1>9, <2>3 DEF LogLevel, ProxyTypes
      <3>3. u \in L' => u \in L
        BY <2>1, <3>2 DEF Late
      <3> QED
        BY <1>3, <3>1, <3>3
    <2> QED
      BY <2>2, <2>3
  <1>10. ASSUME \/ \E c \in Controls : ControlStep(c) /\ ~LogLevel(c)
                \/ UNCHANGED vars
         PROVE  Goal
    <2>1. UNCHANGED <<level, late, proxy>>
      BY <1>10 DEF ControlStep, CallLogLevel, Exit, outputLog, vars
    <2> QED
      BY <1>3, <2>1 DEF Late
  <1> QED
    BY <1>5, <1>6, <1>7, <1>8, <1>9, <1>10 DEF Next, ThreadStep

\* After a level was set, no thread logs more than one entry below it, whatever the
\* levels before and whoever sets it (getLog, LogGenProxy, LOG_LEVEL).
THEOREM FewComeLate == Spec => []QuietAfterRaise
  <1>1. Init => ProxyTypes /\ LateOK
    <2> SUFFICES ASSUME Init PROVE ProxyTypes /\ LateOK
      OBVIOUS
    <2>1. ProxyTypes
      BY DEF Init, ProxyTypes, AllLevels, NoneLate, Levels, DEBUG, ERROR, NoProxy, Idle
    <2>2. ASSUME NEW tag \in LogTags, NEW slot \in Slots, NEW t \in Threads
          PROVE  late[tag][slot][t] = 0
      BY DEF Init, AllLevels, NoneLate
    <2>3. LateOK
      BY <2>2 DEF LateOK
    <2> QED
      BY <2>1, <2>3
  <1>2. ProxyTypes /\ LateOK /\ [Next]_vars => (ProxyTypes /\ LateOK)'
    BY ProxyTypesStep, LateStep
  <1>3. LateOK => QuietAfterRaise
    BY LoggersHaveSlots DEF LateOK, QuietAfterRaise
  <1> QED
    BY <1>1, <1>2, <1>3, PTL DEF Spec

----------------------------------------------------------------------------
(* Types *)

LogEntry == [msg : Message, blocks : Sizes]

\* Appending to a log keeps an end of what it has, and the new entry if that fits.
LEMMA AppendIsSuffix ==
  ASSUME NEW s \in Seq(LogEntry), NEW e \in LogEntry
  PROVE  LET r == Append(s, e) IN
         \E m \in 1 .. Len(s) + 2 : Newest(r, Capacity) = SubSeq(r, m, Len(r))
  <1> DEFINE r == Append(s, e)
  <1>1. r \in Seq(LogEntry) /\ Len(r) = Len(s) + 1
    OBVIOUS
  <1> HIDE DEF r
  <1>2. ASSUME NEW i \in 1 .. Len(r)
        PROVE  r[i].blocks \in Nat
    <2>1. r[i] \in LogEntry
      BY <1>1, ElementType
    <2> QED
      BY <2>1, RoomAssumption DEF LogEntry
  <1>3. PICK m \in 1 .. Len(r) + 1 : Newest(r, Capacity) = SubSeq(r, m, Len(r))
    BY <1>1, <1>2, RoomAssumption, NewestIsSuffix
  <1>4. m \in 1 .. Len(s) + 2
    BY <1>1
  <1> QED
    BY <1>3, <1>4 DEF r

\* The end of a sequence.
LEMMA EndOfSequence ==
  ASSUME NEW S, NEW r \in Seq(S), NEW m \in 1 .. Len(r) + 1
  PROVE  /\ SubSeq(r, m, Len(r)) \in Seq(S)
         /\ Len(SubSeq(r, m, Len(r))) = Len(r) + 1 - m
         /\ \A i \in 1 .. Len(r) + 1 - m :
              SubSeq(r, m, Len(r))[i] = r[m + i - 1] /\ m + i - 1 \in 1 .. Len(r)
  OBVIOUS

\* Levels and tags of what is logged.
LEMMA MessageType ==
  ASSUME TypeOK, NEW t \in Threads, proxy[t].pc = "made"
  PROVE  /\ proxy[t] \in Proxies
         /\ proxy[t].stmt.tag \in LogTags /\ proxy[t].stmt.level \in Levels
         /\ proxy[t].stmt.logger \in Loggers /\ proxy[t].stmt.logger \in Slots
         /\ entries < MaxEntries =>
              [id |-> entries + 1, tag |-> proxy[t].stmt.tag,
               level |-> proxy[t].stmt.level] \in Message
  <1>1. proxy[t] \in Proxies
    BY DEF TypeOK, NoProxy
  <1>2. proxy[t].stmt \in [tag : LogTags, level : Levels, logger : Loggers]
    BY <1>1, StatementAssumption DEF Proxies
  <1>3. entries < MaxEntries => entries + 1 \in 1 .. MaxEntries
    BY BoundAssumption DEF TypeOK
  <1> QED
    BY <1>1, <1>2, <1>3, LoggersHaveSlots DEF Message

\* What a process prints are messages that the log had.
LEMMA PrintedType ==
  ASSUME NEW s \in Seq(LogEntry), NEW k \in 1 .. Len(s) \cup {1}, NEW cmd
  PROVE  Printed(cmd, Rotation(s, k)) \in Seq(Message)
  <1> DEFINE messages == MessagesOf(Rotation(s, k))
             T == {msg \in ToSet(messages) : should_print_entry(cmd, msg)}
  <1>1. messages \in Seq(Message)
    BY RotationIsOnce, RoomAssumption DEF LogEntry
  <1> HIDE DEF messages
  <1>2. SelectIn(messages, T) \in Seq(Message)
    <2> HIDE DEF T
    <2> QED
      BY <1>1, SelectInIsEmbedded
  <1> QED
    BY <1>2 DEF Printed, MessagesOf, messages

\* The memory after a start, and after a level was set.
LEMMA ClearedTypes ==
  ASSUME NEW S, NEW x \in S
  PROVE  AllLevels(x) \in [LogTags -> [Slots -> S]]
  BY DEF AllLevels

LEMMA NoneLateType == NoneLate \in [Threads -> Nat]
  BY DEF NoneLate

LEMMA AskedTypes ==
  ASSUME TypeOK, NEW tag, NEW slots, NEW new \in Levels, Asked(tag, slots, new)
  PROVE  /\ asked' \in [LogTags -> [Slots -> SUBSET Levels]]
         /\ late' \in [LogTags -> [Slots -> [Threads -> Nat]]]
  BY DEF TypeOK, Asked, NoneLate

LEMMA TypeStep ==
  ASSUME TypeOK, [Next]_vars
  PROVE  TypeOK'
  <1> USE DEF TypeOK
  <1>0. INFO \in Levels /\ DEBUG \in Levels
    BY DEF Levels, INFO, DEBUG, ERROR
  <1>next. [gen EXCEPT !.next = gen.next + 1] \in
           [pc : {"down", "levels", "loggers", "up"}, next : Nat]
    <2>1. gen.next + 1 \in Nat
      OBVIOUS
    <2> QED
      BY <2>1
  <1>1. ASSUME GeneratorStep
        PROVE  TypeOK'
    <2>1. CASE StartGenerator
      <3>1. starts' \in 1 .. MaxStarts
        BY <2>1, BoundAssumption DEF StartGenerator
      <3>2. /\ level' \in [LogTags -> [Slots -> Levels]]
            /\ asked' \in [LogTags -> [Slots -> SUBSET Levels]]
            /\ late' \in [LogTags -> [Slots -> [Threads -> Nat]]]
        BY <1>0, <2>1, ClearedTypes, NoneLateType DEF StartGenerator
      <3>3. gen' \in [pc : {"down", "levels", "loggers", "up"}, next : Nat]
        BY <2>1 DEF StartGenerator
      <3> QED
        BY <2>1, <3>1, <3>2, <3>3 DEF StartGenerator
    <2>2. CASE setSharedPtr
      <3>1. level' \in [LogTags -> [Slots -> Levels]]
        BY <1>0, <2>2 DEF setSharedPtr
      <3>2. /\ asked' \in [LogTags -> [Slots -> SUBSET Levels]]
            /\ late' \in [LogTags -> [Slots -> [Threads -> Nat]]]
        BY <1>0, <2>2, AskedTypes DEF setSharedPtr
      <3>3. gen' \in [pc : {"down", "levels", "loggers", "up"}, next : Nat]
        BY <1>next, <2>2 DEF setSharedPtr, NextLogTag
      <3> QED
        BY <2>2, <3>1, <3>2, <3>3 DEF setSharedPtr
    <2>3. CASE addLogger
      <3>1. log' \in [Loggers -> Seq(LogEntry)]
        <4>1. log \in [Loggers -> Seq(LogEntry)]
          BY DEF LogEntry
        <4>2. <<>> \in Seq(LogEntry)
          OBVIOUS
        <4>3. log' = [log EXCEPT ![gen.next] = <<>>]
          BY <2>3 DEF addLogger
        <4> QED
          BY <4>1, <4>2, <4>3
      <3>2. gen' \in [pc : {"down", "levels", "loggers", "up"}, next : Nat]
        BY <1>next, <2>3 DEF addLogger
      <3> QED
        BY <2>3, <3>1, <3>2 DEF addLogger, LogEntry
    <2>4. CASE KillGenerator
      BY <2>4 DEF KillGenerator
    <2> QED
      BY <1>1, <2>1, <2>2, <2>3, <2>4 DEF GeneratorStep
  <1>2. ASSUME NEW t \in Threads, NEW stmt \in Statements, getLog(t, stmt)
        PROVE  TypeOK'
    <2> DEFINE p == [pc |-> "made", stmt |-> stmt, enabled |-> enabled(stmt), text |-> FALSE]
    <2>1. enabled(stmt) \in BOOLEAN
      BY DEF enabled
    <2>2. p \in Proxies
      BY <2>1 DEF Proxies
    <2> HIDE DEF p
    <2>3. proxy' = [proxy EXCEPT ![t] = p]
      BY <1>2, Zenon DEF getLog, p
    <2>4. UNCHANGED <<level, log, gen, ctl, entries, starts, asked, late>>
      BY <1>2 DEF getLog
    <2> QED
      BY <2>2, <2>3, <2>4
  <1>3. ASSUME NEW t \in Threads, Insert(t)
        PROVE  TypeOK'
    <2>1. proxy[t] \in Proxies
      BY <1>3, MessageType DEF Insert
    <2> DEFINE p == [proxy[t] EXCEPT !.text = TRUE]
    <2>2. p \in Proxies
      BY <2>1 DEF Proxies
    <2>3. proxy' = [proxy EXCEPT ![t] = p]
      BY <1>3 DEF Insert
    <2> HIDE DEF p
    <2> QED
      BY <1>3, <2>2, <2>3 DEF Insert
  <1>4. ASSUME NEW t \in Threads, Discard(t) \/ Drop(t)
        PROVE  TypeOK'
    BY <1>4 DEF Discard, Drop
  <1>5. ASSUME NEW t \in Threads, writeData(t)
        PROVE  TypeOK'
    <2> DEFINE tag == proxy[t].stmt.tag
               i == proxy[t].stmt.logger
               msg == [id |-> entries + 1, tag |-> tag, level |-> proxy[t].stmt.level]
               n == IF proxy[t].stmt.level < level[tag][i] THEN late[tag][i][t] + 1
                    ELSE late[tag][i][t]
    <2>1. tag \in LogTags /\ i \in Loggers /\ i \in Slots /\ msg \in Message
      BY <1>5, MessageType DEF writeData
    <2>2. PICK blocks \in Sizes :
            log' = [log EXCEPT ![i] =
                      Newest(Append(log[i], [msg |-> msg, blocks |-> blocks]), Capacity)]
      BY <1>5 DEF writeData
    <2> DEFINE e == [msg |-> msg, blocks |-> blocks]
               r == Append(log[i], e)
               new == Newest(r, Capacity)
    <2>3. e \in LogEntry /\ log[i] \in Seq(LogEntry)
      BY <2>1 DEF LogEntry
    <2> HIDE DEF msg, e
    <2>4. r \in Seq(LogEntry)
      BY <2>3
    <2>5. new \in Seq(LogEntry)
      <3>1. PICK m \in 1 .. Len(log[i]) + 2 : new = SubSeq(r, m, Len(r))
        BY <2>3, AppendIsSuffix
      <3>2. m \in 1 .. Len(r) + 1
        BY <2>3
      <3> HIDE DEF r
      <3> QED
        BY <2>4, <3>1, <3>2, EndOfSequence
    <2>6. log' = [log EXCEPT ![i] = new]
      BY <2>2 DEF e
    <2> HIDE DEF new
    <2>7. log' \in [Loggers -> Seq(LogEntry)]
      BY <2>1, <2>5, <2>6 DEF LogEntry
    <2>8. late' \in [LogTags -> [Slots -> [Threads -> Nat]]]
      <3>1. n \in Nat
        BY <2>1
      <3>2. late' = [late EXCEPT ![tag][i][t] = n]
        BY <1>5 DEF writeData
      <3> HIDE DEF n, tag, i
      <3> QED
        BY <2>1, <3>1, <3>2
    <2>9. entries' \in 0 .. MaxEntries
      BY <1>5, BoundAssumption DEF writeData
    <2>10. proxy' \in [Threads -> {NoProxy} \cup Proxies]
      BY <1>5 DEF writeData
    <2>11. UNCHANGED <<level, gen, ctl, starts, asked>>
      BY <1>5 DEF writeData
    <2> QED
      BY <2>7, <2>8, <2>9, <2>10, <2>11 DEF LogEntry
  <1>6. ASSUME NEW c \in Controls, NEW new, new \in {Idle} \cup ControlStates,
               ctl' = [ctl EXCEPT ![c] = new]
        PROVE  ctl' \in [Controls -> {Idle} \cup ControlStates]
    BY <1>6
  <1>7. ASSUME NEW c \in Controls, NEW cmd \in LevelCommands, CallLogLevel(c, cmd)
        PROVE  TypeOK'
    <2> DEFINE new == [pc |-> "level", cmd |-> cmd, todo |-> cmd.tags]
    <2>1. new \in ControlStates
      BY LevelCommandAssumption DEF ControlStates
    <2>2. ctl' = [ctl EXCEPT ![c] = new]
      BY <1>7 DEF CallLogLevel
    <2> HIDE DEF new
    <2>3. ctl' \in [Controls -> {Idle} \cup ControlStates]
      BY <1>6, <2>1, <2>2
    <2> QED
      BY <1>7, <2>3 DEF CallLogLevel
  <1>8. ASSUME NEW c \in Controls, LogLevel(c)
        PROVE  TypeOK'
    <2>1. ctl[c] \in [pc : {"level"}, cmd : LevelCommands, todo : Seq(LogTags)]
      <3>1. ctl[c] \in {Idle} \cup ControlStates
        OBVIOUS
      <3>2. ctl[c].pc = "level"
        BY <1>8 DEF LogLevel
      <3> DEFINE x == ctl[c]
      <3> HIDE DEF x, TypeOK
      <3>3. x \in {Idle} \cup ControlStates /\ x.pc = "level"
        BY <3>1, <3>2 DEF x
      <3>4. x \in [pc : {"level"}, cmd : LevelCommands, todo : Seq(LogTags)]
        BY <3>3 DEF Idle, ControlStates
      <3> QED
        BY <3>4 DEF x
    <2> DEFINE new == [ctl[c] EXCEPT !.todo = Tail(@)]
               x == ctl[c].cmd.new_log_level
    <2>2. new \in ControlStates
      <3>1. ctl[c].todo \in Seq(LogTags) /\ ctl[c].todo # <<>>
        BY <1>8, <2>1 DEF LogLevel
      <3>2. Tail(ctl[c].todo) \in Seq(LogTags)
        BY <3>1
      <3> HIDE DEF TypeOK
      <3>3. new \in [pc : {"level"}, cmd : LevelCommands, todo : Seq(LogTags)]
        BY <2>1, <3>2
      <3> QED
        BY <3>3 DEF ControlStates
    <2>3. ctl' = [ctl EXCEPT ![c] = new]
      BY <1>8 DEF LogLevel
    <2> HIDE DEF new
    <2>4. ctl' \in [Controls -> {Idle} \cup ControlStates]
      BY <1>6, <2>2, <2>3
    <2>5. x \in Levels
      BY <2>1, LevelCommandAssumption
    <2>6. level' \in [LogTags -> [Slots -> Levels]]
      <3> HIDE DEF x
      <3>1. level' = [level EXCEPT ![Head(ctl[c].todo)][ctl[c].cmd.logger_idx] = x]
        BY <1>8 DEF LogLevel, x
      <3> QED
        BY <2>5, <3>1
    <2>7. /\ asked' \in [LogTags -> [Slots -> SUBSET Levels]]
          /\ late' \in [LogTags -> [Slots -> [Threads -> Nat]]]
      BY <1>8, <2>5, AskedTypes DEF LogLevel
    <2> QED
      BY <1>8, <2>4, <2>6, <2>7 DEF LogLevel
  <1>9. ASSUME NEW c \in Controls, Exit(c)
        PROVE  TypeOK'
    BY <1>6, <1>9 DEF Exit
  <1>10. ASSUME NEW c \in Controls, NEW cmd \in OutputCommands, outputLog(c, cmd)
         PROVE  TypeOK'
    <2> DEFINE retained == log[cmd.logger_idx]
    <2>1. retained \in Seq(LogEntry)
      BY OutputCommandAssumption DEF LogEntry
    <2>2. PICK k \in 1 .. Len(retained) \cup {1} :
            ctl' = [ctl EXCEPT ![c] =
                      [pc |-> "printed", cmd |-> cmd, retained |-> retained,
                       output |-> Printed(cmd, Rotation(retained, k))]]
      BY <1>10 DEF outputLog
    <2> DEFINE output == Printed(cmd, Rotation(retained, k))
               new == [pc |-> "printed", cmd |-> cmd, retained |-> retained, output |-> output]
    <2> HIDE DEF retained
    <2>3. output \in Seq(Message)
      BY <2>1, PrintedType
    <2> HIDE DEF output
    <2>4. new \in ControlStates
      BY <2>1, <2>3 DEF ControlStates, LogEntry
    <2>5. ctl' = [ctl EXCEPT ![c] = new]
      BY <2>2 DEF output
    <2> HIDE DEF new
    <2>6. ctl' \in [Controls -> {Idle} \cup ControlStates]
      BY <1>6, <2>4, <2>5
    <2> QED
      BY <1>10, <2>6 DEF outputLog
  <1>11. ASSUME UNCHANGED vars
         PROVE  TypeOK'
    BY <1>11 DEF vars
  <1> QED
    BY <1>1, <1>2, <1>3, <1>4, <1>5, <1>7, <1>8, <1>9, <1>10, <1>11
       DEF Next, ThreadStep, ControlStep

\* Memory, logs, proxies and processes have their types.
THEOREM LogPathTypes == Spec => []TypeOK
  <1>1. Init => TypeOK
    <2> SUFFICES ASSUME Init PROVE TypeOK
      OBVIOUS
    <2>1. DEBUG \in Levels /\ 0 \in Nat /\ {} \in SUBSET Levels
      BY DEF Levels, DEBUG, ERROR
    <2>2. /\ level \in [LogTags -> [Slots -> Levels]]
          /\ asked \in [LogTags -> [Slots -> SUBSET Levels]]
          /\ late \in [LogTags -> [Slots -> [Threads -> Nat]]]
      BY <2>1, ClearedTypes, NoneLateType DEF Init
    <2>3. log \in [Loggers -> Seq([msg : Message, blocks : Sizes])]
      BY DEF Init
    <2>4. entries \in 0 .. MaxEntries /\ starts \in 1 .. MaxStarts
      BY BoundAssumption DEF Init
    <2> QED
      BY <2>2, <2>3, <2>4 DEF Init, TypeOK
  <1>2. TypeOK /\ [Next]_vars => TypeOK'
    BY TypeStep
  <1> QED
    BY <1>1, <1>2, PTL DEF Spec

----------------------------------------------------------------------------
(* Levels that were asked for *)

\* The bytes of a tag, once the generator has set them, are levels that somebody
\* asked for; until then the zeroed bytes stand for DEBUG, which nobody did.
LevelsAsked ==
  /\ gen.pc = "levels" =>
       \A j \in DOMAIN theLogs : j < gen.next =>
         \A slot \in Slots : level[theLogs[j]][slot] \in asked[theLogs[j]][slot]
  /\ gen.pc \in {"loggers", "up"} =>
       \A tag \in LogTags : \A slot \in Slots : level[tag][slot] \in asked[tag][slot]

\* Loggers that were added have lost the entries of the run before.
LogsCleared ==
  gen.pc = "loggers" => \A i \in Loggers : i < gen.next => log[i] = <<>>

\* A proxy that is enabled has not less than a level that was asked for.
ProxiesAsked ==
  \A t \in Threads : proxy[t].pc = "made" =>
    /\ gen.pc = "up"
    /\ proxy[t].text => proxy[t].enabled
    /\ proxy[t].enabled =>
         \E x \in asked[proxy[t].stmt.tag][proxy[t].stmt.logger] : proxy[t].stmt.level >= x

AskedInv == LevelsAsked /\ LogsCleared /\ ProxiesAsked /\ NothingBelowAsked

\* Nobody takes back what was asked for, as long as the generator runs, and a level
\* that is stored is among it.
LEMMA AskedGrows ==
  ASSUME TypeOK, NEW tag, NEW slots, NEW new, Asked(tag, slots, new)
  PROVE  /\ \A a \in LogTags : \A slot \in Slots : asked[a][slot] \subseteq asked'[a][slot]
         /\ tag \in LogTags => \A slot \in Slots : slot \in slots => new \in asked'[tag][slot]
  BY DEF Asked, TypeOK

\* Levels are stored: those of the tag are new, the others are as before.
LEMMA LevelsStored ==
  ASSUME TypeOK, NEW tag, NEW slots, NEW new, Asked(tag, slots, new), UNCHANGED <<log, proxy>>,
         \A a \in LogTags : \A slot \in Slots :
           level'[a][slot] = IF a = tag /\ slot \in slots THEN new ELSE level[a][slot]
  PROVE  /\ \A a \in LogTags : \A slot \in Slots :
              level[a][slot] \in asked[a][slot] \/ (a = tag /\ slot \in slots)
                => level'[a][slot] \in asked'[a][slot]
         /\ ProxiesAsked /\ gen'.pc = gen.pc => ProxiesAsked'
         /\ NothingBelowAsked /\ gen'.pc = gen.pc => NothingBelowAsked'
  <1>1. \A a \in LogTags : \A slot \in Slots : asked[a][slot] \subseteq asked'[a][slot]
    BY AskedGrows
  <1>2. ASSUME NEW a \in LogTags, NEW slot \in Slots,
               level[a][slot] \in asked[a][slot] \/ (a = tag /\ slot \in slots)
        PROVE  level'[a][slot] \in asked'[a][slot]
    BY <1>1, <1>2, AskedGrows
  <1>3. ASSUME ProxiesAsked, gen'.pc = gen.pc
        PROVE  ProxiesAsked'
    <2> SUFFICES ASSUME NEW t \in Threads, proxy[t].pc = "made"
                 PROVE  /\ gen.pc = "up"
                        /\ proxy[t].text => proxy[t].enabled
                        /\ proxy[t].enabled =>
                             \E x \in asked'[proxy[t].stmt.tag][proxy[t].stmt.logger] :
                               proxy[t].stmt.level >= x
      BY <1>3 DEF ProxiesAsked
    <2>1. proxy[t].stmt.tag \in LogTags /\ proxy[t].stmt.logger \in Slots
      BY MessageType
    <2> QED
      BY <1>1, <1>3, <2>1 DEF ProxiesAsked
  <1>4. ASSUME NothingBelowAsked, gen'.pc = gen.pc
        PROVE  NothingBelowAsked'
    <2> SUFFICES ASSUME gen.pc = "up", NEW i \in Loggers, NEW e \in ToSet(log[i])
                 PROVE  \E x \in asked'[e.msg.tag][i] : e.msg.level >= x
      BY <1>4 DEF NothingBelowAsked
    <2>1. e.msg.tag \in LogTags
      <3>1. log[i] \in Seq(LogEntry)
        BY DEF TypeOK, LogEntry
      <3>2. e \in LogEntry
        BY <3>1, ElementType DEF ToSet
      <3> QED
        BY <3>2 DEF LogEntry, Message
    <2>2. i \in Slots
      BY LoggersHaveSlots
    <2> QED
      BY <1>1, <1>4, <2>1, <2>2 DEF NothingBelowAsked
  <1> QED
    BY <1>2, <1>3, <1>4

LEMMA AskedStep ==
  ASSUME TypeOK, AskedInv, [Next]_vars
  PROVE  AskedInv'
  <1> USE DEF AskedInv
  <1>1. CASE StartGenerator
    <2>1. gen'.pc = "levels" /\ gen'.next = 1 /\ proxy' = proxy
      BY <1>1 DEF StartGenerator
    <2>2. LevelsAsked'
      <3>1. \A j \in DOMAIN theLogs : ~(j < 1)
        BY LogTagAssumption
      <3> QED
        BY <2>1, <3>1 DEF LevelsAsked
    <2>3. ProxiesAsked'
      BY <1>1, <2>1 DEF ProxiesAsked, StartGenerator
    <2> QED
      BY <2>1, <2>2, <2>3 DEF LogsCleared, NothingBelowAsked
  <1>2. CASE setSharedPtr
    <2> DEFINE tag == theLogs[gen.next]
    <2>1. /\ gen.pc = "levels" /\ Asked(tag, Slots, INFO)
          /\ level' = [level EXCEPT ![tag] = [slot \in Slots |-> INFO]]
          /\ UNCHANGED <<log, proxy>>
      BY <1>2 DEF setSharedPtr
    <2>2. \A a \in LogTags : \A slot \in Slots :
            level'[a][slot] = IF a = tag /\ slot \in Slots THEN INFO ELSE level[a][slot]
      BY <2>1 DEF TypeOK
    <2>3. \A a \in LogTags : \A slot \in Slots :
            level[a][slot] \in asked[a][slot] \/ a = tag => level'[a][slot] \in asked'[a][slot]
      <3> HIDE DEF tag
      <3> QED
        BY <2>1, <2>2, LevelsStored
    <2>4. /\ gen.next \in Nat
          /\ gen' = IF gen.next = Len(theLogs) THEN [pc |-> "loggers", next |-> 0]
                    ELSE [gen EXCEPT !.next = gen.next + 1]
      BY <1>2 DEF setSharedPtr, NextLogTag, TypeOK
    <2>5. \A j \in DOMAIN theLogs : j \in Nat /\ j <= Len(theLogs) /\ theLogs[j] \in LogTags
      BY LogTagAssumption
    <2>6. \A j \in DOMAIN theLogs : j < gen.next \/ j = gen.next =>
            \A slot \in Slots : level'[theLogs[j]][slot] \in asked'[theLogs[j]][slot]
      BY <2>1, <2>3, <2>5 DEF LevelsAsked
    <2>7. LevelsAsked'
      <3>1. CASE gen.next = Len(theLogs)
        <4>1. gen'.pc = "loggers"
          BY <2>4, <3>1
        <4>2. ASSUME NEW a \in LogTags
              PROVE  \A slot \in Slots : level'[a][slot] \in asked'[a][slot]
          <5>1. PICK j \in DOMAIN theLogs : theLogs[j] = a
            BY LogTagAssumption DEF ToSet
          <5>2. j < gen.next \/ j = gen.next
            BY <2>4, <2>5, <3>1
          <5> QED
            BY <2>6, <5>1, <5>2
        <4> QED
          BY <4>1, <4>2 DEF LevelsAsked
      <3>2. CASE gen.next # Len(theLogs)
        <4>1. gen'.pc = "levels" /\ gen'.next = gen.next + 1
          BY <2>1, <2>4, <3>2 DEF TypeOK
        <4>2. \A j \in DOMAIN theLogs : j < gen'.next => j < gen.next \/ j = gen.next
          BY <2>4, <2>5, <4>1
        <4> QED
          BY <2>6, <4>1, <4>2 DEF LevelsAsked
      <3> QED
        BY <3>1, <3>2
    <2>8. gen'.pc # "up" /\ (gen'.pc = "loggers" => gen'.next = 0)
      BY <2>1, <2>4 DEF TypeOK
    <2>9. LogsCleared' /\ NothingBelowAsked'
      BY <2>8 DEF LogsCleared, NothingBelowAsked, Loggers
    <2>10. ProxiesAsked'
      BY <2>1 DEF ProxiesAsked
    <2> QED
      BY <2>7, <2>9, <2>10
  <1>3. CASE addLogger
    <2>1. /\ gen.pc = "loggers" /\ gen.next \in Nat
          /\ log' = [log EXCEPT ![gen.next] = <<>>]
          /\ gen' = IF gen.next + 1 = numLoggers THEN [pc |-> "up", next |-> 0]
                    ELSE [gen EXCEPT !.next = gen.next + 1]
          /\ UNCHANGED <<level, proxy, asked>>
      BY <1>3 DEF addLogger, TypeOK
    <2>2. ASSUME NEW i \in Loggers, i <= gen.next
          PROVE  log'[i] = <<>>
      <3>1. CASE i = gen.next
        BY <2>1, <3>1 DEF TypeOK
      <3>2. CASE i < gen.next
        BY <2>1, <3>2 DEF TypeOK, LogsCleared, Loggers
      <3> QED
        BY <2>1, <2>2, <3>1, <3>2 DEF Loggers
    <2>3. gen'.pc \in {"loggers", "up"}
      BY <2>1 DEF TypeOK
    <2>4. LevelsAsked'
      BY <2>1, <2>3 DEF LevelsAsked
    <2>5. ProxiesAsked'
      BY <2>1 DEF ProxiesAsked
    <2>6. LogsCleared'
      <3>1. gen'.pc = "loggers" => gen'.next = gen.next + 1
        BY <2>1 DEF TypeOK
      <3> QED
        BY <2>1, <2>2, <3>1 DEF LogsCleared, Loggers
    <2>7. NothingBelowAsked'
      <3> SUFFICES ASSUME gen'.pc = "up"
                   PROVE  \A i \in Loggers : log'[i] = <<>>
        BY DEF NothingBelowAsked, ToSet
      <3>1. gen.next + 1 = numLoggers
        BY <2>1 DEF TypeOK
      <3>2. \A i \in Loggers : i <= gen.next
        BY <2>1, <3>1, LoggerAssumption DEF Loggers
      <3> QED
        BY <2>2, <3>2
    <2> QED
      BY <2>4, <2>5, <2>6, <2>7
  <1>4. CASE KillGenerator
    <2>1. gen'.pc = "down" /\ \A t \in Threads : proxy'[t].pc = "none"
      BY <1>4 DEF KillGenerator, NoProxy
    <2> QED
      BY <2>1 DEF LevelsAsked, LogsCleared, ProxiesAsked, NothingBelowAsked
  <1>5. ASSUME UNCHANGED <<level, log, gen, proxy, asked>>
        PROVE  AskedInv'
    BY <1>5 DEF LevelsAsked, LogsCleared, ProxiesAsked, NothingBelowAsked
  <1>6. ASSUME NEW t \in Threads, NEW stmt \in Statements, getLog(t, stmt)
        PROVE  AskedInv'
    <2>1. /\ gen.pc = "up" /\ UNCHANGED <<level, log, gen, asked>>
          /\ \A u \in Threads : u # t => proxy'[u] = proxy[u]
          /\ proxy'[t].stmt = stmt /\ proxy'[t].enabled = enabled(stmt) /\ ~proxy'[t].text
      BY <1>6 DEF getLog, TypeOK
    <2>2. stmt.tag \in LogTags /\ stmt.logger \in Slots
      BY StatementAssumption, LoggersHaveSlots
    <2>3. level[stmt.tag][stmt.logger] \in asked[stmt.tag][stmt.logger]
      BY <2>1, <2>2 DEF LevelsAsked
    <2>4. enabled(stmt) => \E x \in asked[stmt.tag][stmt.logger] : stmt.level >= x
      BY <2>3 DEF enabled
    <2>5. ProxiesAsked'
      BY <2>1, <2>4 DEF ProxiesAsked
    <2> QED
      BY <2>1, <2>5 DEF LevelsAsked, LogsCleared, NothingBelowAsked
  <1>7. ASSUME NEW t \in Threads, Insert(t)
        PROVE  AskedInv'
    <2>1. /\ UNCHANGED <<level, log, gen, asked>>
          /\ \A u \in Threads : u # t => proxy'[u] = proxy[u]
          /\ proxy[t].pc = "made" /\ proxy[t].enabled
          /\ proxy'[t].stmt = proxy[t].stmt /\ proxy'[t].enabled
      BY <1>7 DEF Insert, TypeOK
    <2>2. ProxiesAsked'
      BY <2>1 DEF ProxiesAsked
    <2> QED
      BY <2>1, <2>2 DEF LevelsAsked, LogsCleared, NothingBelowAsked
  <1>8. ASSUME NEW t \in Threads, Discard(t) \/ Drop(t)
        PROVE  AskedInv'
    <2>1. /\ UNCHANGED <<level, log, gen, asked>>
          /\ \A u \in Threads : u # t => proxy'[u] = proxy[u]
          /\ proxy'[t].pc = "none"
      BY <1>8 DEF Discard, Drop, TypeOK, NoProxy
    <2>2. ProxiesAsked'
      BY <2>1 DEF ProxiesAsked
    <2> QED
      BY <2>1, <2>2 DEF LevelsAsked, LogsCleared, NothingBelowAsked
  <1>9. ASSUME NEW t \in Threads, writeData(t)
        PROVE  AskedInv'
    <2> DEFINE tag == proxy[t].stmt.tag
               i == proxy[t].stmt.logger
               msg == [id |-> entries + 1, tag |-> tag, level |-> proxy[t].stmt.level]
    <2>1. /\ UNCHANGED <<level, gen, asked>>
          /\ \A u \in Threads : u # t => proxy'[u] = proxy[u]
          /\ proxy[t].pc = "made" /\ proxy[t].text /\ entries < MaxEntries
          /\ proxy'[t].pc = "none"
      BY <1>9 DEF writeData, TypeOK, NoProxy
    <2>2. tag \in LogTags /\ i \in Loggers /\ msg \in Message
      BY <2>1, MessageType
    <2>3. gen.pc = "up" /\ \E x \in asked[tag][i] : msg.level >= x
      BY <2>1 DEF ProxiesAsked
    <2>4. PICK blocks \in Sizes :
            log' = [log EXCEPT ![i] =
                      Newest(Append(log[i], [msg |-> msg, blocks |-> blocks]), Capacity)]
      BY <1>9 DEF writeData
    <2> DEFINE e == [msg |-> msg, blocks |-> blocks]
               s == log[i]
               r == Append(s, e)
    <2>5. e \in LogEntry /\ s \in Seq(LogEntry)
      BY <2>2 DEF LogEntry, TypeOK
    <2>6. e.msg = msg
      OBVIOUS
    <2> HIDE DEF e, msg, s
    <2>7. PICK m \in 1 .. Len(s) + 2 : Newest(r, Capacity) = SubSeq(r, m, Len(r))
      BY <2>5, AppendIsSuffix
    <2>8. \A f \in ToSet(Newest(r, Capacity)) : f \in ToSet(s) \/ f = e
      <3>1. /\ r \in Seq(LogEntry) /\ Len(r) = Len(s) + 1 /\ m \in 1 .. Len(r) + 1
            /\ \A j \in 1 .. Len(r) : r[j] \in ToSet(s) \/ r[j] = e
        BY <2>5 DEF ToSet
      <3> HIDE DEF r
      <3> DEFINE q == Newest(r, Capacity)
      <3>2. q \in Seq(LogEntry) /\ \A j \in 1 .. Len(q) : \E k \in 1 .. Len(r) : q[j] = r[k]
        BY <2>7, <3>1, EndOfSequence
      <3> HIDE DEF q
      <3>3. \A f \in ToSet(q) : \E k \in 1 .. Len(r) : f = r[k]
        BY <3>2 DEF ToSet
      <3> QED
        BY <3>1, <3>3 DEF q
    <2>9. log'[i] = Newest(r, Capacity) /\ \A j \in Loggers : j # i => log'[j] = log[j]
      <3> DEFINE q == Newest(r, Capacity)
      <3>1. log' = [log EXCEPT ![i] = q]
        BY <2>4 DEF e, s
      <3> HIDE DEF q
      <3>2. log'[i] = q /\ \A j \in Loggers : j # i => log'[j] = log[j]
        BY <2>2, <3>1 DEF TypeOK
      <3> QED
        BY <3>2 DEF q
    <2>10. NothingBelowAsked'
      <3> SUFFICES ASSUME NEW j \in Loggers, NEW f \in ToSet(log'[j])
                   PROVE  \E x \in asked[f.msg.tag][j] : f.msg.level >= x
        BY <2>1 DEF NothingBelowAsked
      <3>1. CASE j = i /\ f = e
        BY <2>3, <2>6, <3>1 DEF msg
      <3>2. CASE f \in ToSet(log[j])
        BY <2>3, <3>2 DEF NothingBelowAsked
      <3> QED
        BY <2>8, <2>9, <3>1, <3>2 DEF s
    <2>11. ProxiesAsked'
      BY <2>1 DEF ProxiesAsked
    <2>12. LevelsAsked' /\ LogsCleared'
      BY <2>1, <2>3 DEF LevelsAsked, LogsCleared
    <2> QED
      BY <2>10, <2>11, <2>12
  <1>10. ASSUME NEW c \in Controls, LogLevel(c)
         PROVE  AskedInv'
    <2> DEFINE tag == Head(ctl[c].todo)
               idx == ctl[c].cmd.logger_idx
               new == ctl[c].cmd.new_log_level
    <2>1. /\ Asked(tag, {idx}, new) /\ level' = [level EXCEPT ![tag][idx] = new]
          /\ UNCHANGED <<log, gen, proxy>>
      BY <1>10 DEF LogLevel
    <2> HIDE DEF tag, idx, new
    <2>2. \A a \in LogTags : \A slot \in Slots :
            level'[a][slot] = IF a = tag /\ slot \in {idx} THEN new ELSE level[a][slot]
      BY <2>1 DEF TypeOK
    <2>3. /\ \A a \in LogTags : \A slot \in Slots :
                level[a][slot] \in asked[a][slot] => level'[a][slot] \in asked'[a][slot]
          /\ ProxiesAsked' /\ NothingBelowAsked'
      BY <2>1, <2>2, LevelsStored
    <2>4. LevelsAsked'
      <3>1. \A j \in DOMAIN theLogs : theLogs[j] \in LogTags
        BY LogTagAssumption
      <3> QED
        BY <2>1, <2>3, <3>1 DEF LevelsAsked
    <2> QED
      BY <2>1, <2>3, <2>4 DEF LogsCleared
  <1>11. ASSUME \/ \E c \in Controls : ControlStep(c) /\ ~LogLevel(c)
                \/ UNCHANGED vars
         PROVE  UNCHANGED <<level, log, gen, proxy, asked>>
    BY <1>11 DEF ControlStep, CallLogLevel, Exit, outputLog, vars
  <1> QED
    BY <1>1, <1>2, <1>3, <1>4, <1>5, <1>6, <1>7, <1>8, <1>9, <1>10, <1>11
       DEF Next, GeneratorStep, ThreadStep

\* The log of a running generator has nothing below all the levels that were asked
\* for since its start, whatever starts, ends and commands come between (getLog
\* against setParams, setSharedPtr and LOG_LEVEL).
THEOREM NoneBelowWhatWasAsked == Spec => []NothingBelowAsked
  <1>1. Init => AskedInv
    <2> SUFFICES ASSUME Init PROVE AskedInv
      OBVIOUS
    <2>1. gen.pc = "levels" /\ gen.next = 1 /\ \A t \in Threads : proxy[t].pc = "none"
      BY DEF Init, NoProxy
    <2>2. \A j \in DOMAIN theLogs : ~(j < 1)
      BY LogTagAssumption
    <2> QED
      BY <2>1, <2>2 DEF AskedInv, LevelsAsked, LogsCleared, ProxiesAsked, NothingBelowAsked
  <1>2. TypeOK /\ AskedInv /\ [Next]_vars => AskedInv'
    BY AskedStep
  <1>3. AskedInv => NothingBelowAsked
    BY DEF AskedInv
  <1> QED
    BY <1>1, <1>2, <1>3, LogPathTypes, PTL DEF Spec

----------------------------------------------------------------------------
(* What is printed *)

\* The entries of a log are numbered in their order.
Ascending(s) == \A j, k \in 1 .. Len(s) : j < k => s[j].msg.id < s[k].msg.id

Numbered ==
  \A i \in Loggers : /\ Ascending(log[i])
                     /\ \A k \in 1 .. Len(log[i]) : log[i][k].msg.id <= entries

\* The numbers of messages.
IdsOf(output) == [i \in DOMAIN output |-> output[i].id]

\* What a process prints is some of the messages, in their order.
Embedded(e, output, messages) ==
  /\ DOMAIN output = 1 .. Len(output)
  /\ \A j \in 1 .. Len(output) : /\ e[j] \in 1 .. Len(messages)
                                 /\ output[j] = messages[e[j]]
  /\ \A i, j \in 1 .. Len(output) : i < j => e[i] < e[j]

\* Positions come round in a cyclic order.
LEMMA PlacesRound ==
  ASSUME NEW n \in Nat, NEW m \in 1 .. n, NEW i \in 1 .. n, NEW j \in 1 .. n, i < j
  PROVE  /\ PlaceRound(n, m, i) # PlaceRound(n, m, j)
         /\ \A k \in 1 .. n : j < k =>
              \/ /\ PlaceRound(n, m, i) < PlaceRound(n, m, j)
                 /\ PlaceRound(n, m, j) < PlaceRound(n, m, k)
              \/ /\ PlaceRound(n, m, j) < PlaceRound(n, m, k)
                 /\ PlaceRound(n, m, k) < PlaceRound(n, m, i)
              \/ /\ PlaceRound(n, m, k) < PlaceRound(n, m, i)
                 /\ PlaceRound(n, m, i) < PlaceRound(n, m, j)
  BY DEF PlaceRound

\* So the numbers that are printed are in a cyclic order, as those of the log ascend.
LEMMA CyclicIds ==
  ASSUME NEW s \in Seq(LogEntry), Ascending(s), NEW m \in 1 .. Len(s) \cup {1},
         NEW output \in Seq(Message), NEW e,
         Embedded(e, output, MessagesOf(Rotation(s, m))),
         Len(MessagesOf(Rotation(s, m))) = Len(s)
  PROVE  InCyclicOrder(IdsOf(output))
  <1> DEFINE n == Len(s)
             ids == IdsOf(output)
             at(j) == PlaceRound(n, m, e[j])
  <1>0. \A i \in 1 .. n : /\ PlaceRound(n, m, i) \in 1 .. n
                          /\ MessagesOf(Rotation(s, m))[i] = s[PlaceRound(n, m, i)].msg
    BY RoomAssumption, RotationElements, ZenonT(40) DEF LogEntry
  <1>1. n \in Nat /\ Len(output) \in Nat /\ DOMAIN ids = 1 .. Len(output)
    BY DEF IdsOf, Embedded
  <1>2. ASSUME NEW i \in 1 .. n
        PROVE  s[i].msg.id \in Nat
    <2>1. s[i] \in LogEntry
      BY ElementType
    <2> QED
      BY <2>1 DEF LogEntry, Message
  <1>3. ASSUME NEW j \in 1 .. Len(output)
        PROVE  e[j] \in 1 .. n /\ at(j) \in 1 .. n /\ ids[j] = s[at(j)].msg.id
    <2>1. e[j] \in 1 .. n /\ output[j] = MessagesOf(Rotation(s, m))[e[j]]
      BY DEF Embedded
    <2>2. at(j) \in 1 .. n /\ MessagesOf(Rotation(s, m))[e[j]] = s[at(j)].msg
      BY <2>1, <1>0
    <2>3. ids[j] = output[j].id
      BY DEF IdsOf, Embedded
    <2> QED
      BY <2>1, <2>2, <2>3
  <1>4. ASSUME NEW i \in 1 .. Len(output), NEW j \in 1 .. Len(output)
        PROVE  at(i) < at(j) => ids[i] < ids[j]
    <2>1. at(i) < at(j) => s[at(i)].msg.id < s[at(j)].msg.id
      BY <1>3 DEF Ascending
    <2> QED
      BY <1>3, <2>1
  <1>5. ASSUME NEW i \in 1 .. Len(output), NEW j \in 1 .. Len(output), i < j
        PROVE  /\ m \in 1 .. n /\ e[i] < e[j] /\ at(i) # at(j)
               /\ \A k \in 1 .. Len(output) : j < k =>
                    \/ at(i) < at(j) /\ at(j) < at(k)
                    \/ at(j) < at(k) /\ at(k) < at(i)
                    \/ at(k) < at(i) /\ at(i) < at(j)
    <2>1. e[i] < e[j] /\ \A k \in 1 .. Len(output) : j < k => e[j] < e[k]
      BY <1>5 DEF Embedded
    <2>2. e[i] \in 1 .. n /\ e[j] \in 1 .. n /\ \A k \in 1 .. Len(output) : e[k] \in 1 .. n
      BY <1>3
    <2>3. m \in 1 .. n
      BY <1>1, <2>2
    <2> HIDE DEF n
    <2> QED
      BY <1>1, <2>1, <2>2, <2>3, PlacesRound
  <1>6. ASSUME NEW j \in 1 .. Len(output)
        PROVE  ids[j] \in Nat /\ at(j) \in Nat
    BY <1>1, <1>2, <1>3
  <1> HIDE DEF n, at, ids
  <1>7. ASSUME NEW i \in 1 .. Len(output), NEW j \in 1 .. Len(output), i < j
        PROVE  ids[i] # ids[j]
    <2>1. at(i) < at(j) \/ at(j) < at(i)
      BY <1>5, <1>6, <1>7
    <2> QED
      BY <1>4, <1>6, <2>1
  <1>8. IsInjective(ids)
    <2>1. \A i, j \in 1 .. Len(output) : i < j \/ j < i \/ i = j
      BY <1>1
    <2> QED
      BY <1>1, <1>7, <2>1 DEF IsInjective
  <1>9. ASSUME NEW i \in 1 .. Len(output), NEW j \in 1 .. Len(output),
               NEW k \in 1 .. Len(output), i < j, j < k
        PROVE  \/ ids[i] < ids[j] /\ ids[j] < ids[k]
               \/ ids[j] < ids[k] /\ ids[k] < ids[i]
               \/ ids[k] < ids[i] /\ ids[i] < ids[j]
    BY <1>4, <1>5, <1>9
  <1> QED
    BY <1>1, <1>8, <1>9 DEF InCyclicOrder, ids

\* What a process prints of such a log, wherever its walk begins.
LEMMA PrintsWhatWasAsked ==
  ASSUME NEW s \in Seq(LogEntry), Ascending(s), NEW k \in 1 .. Len(s) \cup {1}, NEW cmd
  PROVE  LET output == Printed(cmd, Rotation(s, k)) IN
         /\ InCyclicOrder(IdsOf(output))
         /\ ToSet(output) =
              {msg \in {e.msg : e \in ToSet(s)} :
                 /\ msg.tag \notin cmd.exclude_tags \ LongNames
                 /\ msg.level \notin cmd.exclude_log_levels}
  <1> DEFINE messages == MessagesOf(Rotation(s, k))
             T == {msg \in ToSet(messages) : should_print_entry(cmd, msg)}
             output == SelectIn(messages, T)
             kept == {e.msg : e \in ToSet(s)}
  <1>1. Printed(cmd, Rotation(s, k)) = output
    BY DEF Printed, MessagesOf
  <1>2. \A i, j \in 1 .. Len(s) : i < j => s[i].msg # s[j].msg
    <2> SUFFICES ASSUME NEW i \in 1 .. Len(s), NEW j \in 1 .. Len(s), i < j
                 PROVE  s[i].msg # s[j].msg
      OBVIOUS
    <2>1. s[i] \in LogEntry
      BY ElementType
    <2>2. s[i].msg.id \in Nat
      BY <2>1 DEF LogEntry, Message
    <2>3. s[i].msg.id < s[j].msg.id
      BY DEF Ascending
    <2> QED
      BY <2>2, <2>3
  <1>3. /\ messages \in Seq(Message) /\ ToSet(messages) = kept /\ AllDiffer(messages)
        /\ Len(messages) = Len(s)
    BY <1>2, RotationIsOnce, RoomAssumption DEF LogEntry
  <1> HIDE DEF messages, kept
  <1>4. output \in Seq(Message) /\ \E e : Embedding(e, output, messages, T, Len(messages))
    <2> HIDE DEF T
    <2> QED
      BY <1>3, SelectInIsEmbedded
  <1>5. PICK e : Embedding(e, output, messages, T, Len(messages))
    BY <1>4
  <1> HIDE DEF output
  <1>6. /\ \A j \in 1 .. Len(output) : /\ e[j] \in 1 .. Len(messages)
                                      /\ output[j] = messages[e[j]] /\ output[j] \in T
        /\ \A i, j \in 1 .. Len(output) : i < j => e[i] < e[j]
        /\ \A i \in 1 .. Len(messages) : messages[i] \in T =>
             \E j \in 1 .. Len(output) : e[j] = i
    <2> HIDE DEF T
    <2> QED
      BY <1>5 DEF Embedding
  <1>7. DOMAIN output = 1 .. Len(output)
    BY <1>4
  <1>8. InCyclicOrder(IdsOf(output))
    <2>1. Embedded(e, output, messages)
      BY <1>4, <1>6, <1>7 DEF Embedded
    <2> QED
      BY <1>3, <1>4, <2>1, CyclicIds DEF messages
  <1>9. ToSet(output) = T
    <2>1. ASSUME NEW x \in T
          PROVE  x \in ToSet(output)
      <3>1. PICK i \in 1 .. Len(messages) : messages[i] = x
        BY <1>3 DEF ToSet
      <3>2. PICK j \in 1 .. Len(output) : e[j] = i
        BY <1>6, <3>1
      <3> QED
        BY <1>6, <1>7, <3>1, <3>2 DEF ToSet
    <2>2. \A x \in ToSet(output) : x \in T
      <3> HIDE DEF T
      <3> QED
        BY <1>6, <1>7 DEF ToSet
    <2> QED
      BY <2>1, <2>2
  <1>10. ASSUME NEW msg
         PROVE  should_print_entry(cmd, msg) <=>
                  /\ msg.tag \notin cmd.exclude_tags \ LongNames
                  /\ msg.level \notin cmd.exclude_log_levels
    <2>1. \A x : <<msg.tag>> = <<x>> <=> msg.tag = x
      OBVIOUS
    <2>2. \A x : <<msg.tag, msg.level>> # <<x>>
      OBVIOUS
    <2> QED
      BY <2>1, <2>2 DEF should_print_entry, tagName
  <1>11. ToSet(output) =
           {msg \in kept : /\ msg.tag \notin cmd.exclude_tags \ LongNames
                           /\ msg.level \notin cmd.exclude_log_levels}
    BY <1>3, <1>9, <1>10
  <1> QED
    BY <1>1, <1>8, <1>11 DEF kept, output

LEMMA PrintedStep ==
  ASSUME TypeOK, Numbered, PrintedIsWhatWasAsked, [Next]_vars
  PROVE  Numbered' /\ PrintedIsWhatWasAsked'
  <1>1. ASSUME NEW t \in Threads, writeData(t)
        PROVE  Numbered' /\ PrintedIsWhatWasAsked'
    <2> DEFINE i == proxy[t].stmt.logger
               msg == [id |-> entries + 1, tag |-> proxy[t].stmt.tag,
                       level |-> proxy[t].stmt.level]
    <2>1. entries' = entries + 1 /\ ctl' = ctl /\ entries \in Nat
      <3>1. entries \in Nat
        BY DEF TypeOK
      <3> QED
        BY <1>1, <3>1, SMTT(30) DEF writeData
    <2>2. i \in Loggers /\ msg \in Message
      <3>1. proxy[t].pc = "made" /\ entries < MaxEntries
        BY <1>1 DEF writeData
      <3> QED
        BY <3>1, MessageType
    <2>3. PICK blocks \in Sizes :
            log' = [log EXCEPT ![i] =
                      Newest(Append(log[i], [msg |-> msg, blocks |-> blocks]), Capacity)]
      BY <1>1 DEF writeData
    <2> DEFINE e == [msg |-> msg, blocks |-> blocks]
               s == log[i]
               r == Append(s, e)
               q == Newest(r, Capacity)
    <2>4. e \in LogEntry /\ s \in Seq(LogEntry) /\ e.msg.id = entries + 1
      BY <2>2 DEF LogEntry, TypeOK
    <2> HIDE DEF msg, e
    <2>5. log' = [log EXCEPT ![i] = q]
      BY <2>3 DEF e
    <2>6. PICK m \in 1 .. Len(s) + 2 : q = SubSeq(r, m, Len(r))
      BY <2>4, AppendIsSuffix
    <2> HIDE DEF q
    <2>7. log'[i] = q /\ \A j \in Loggers : j # i => log'[j] = log[j]
      BY <2>2, <2>5 DEF TypeOK
    <2>8. Ascending(s) /\ \A k \in 1 .. Len(s) : s[k].msg.id <= entries /\ s[k].msg.id \in Nat
      <3>1. ASSUME NEW k \in 1 .. Len(s)
            PROVE  s[k].msg.id \in Nat
        <4>1. s[k] \in LogEntry
          BY <2>4, ElementType
        <4> QED
          BY <4>1 DEF LogEntry, Message
      <3> QED
        BY <2>2, <3>1 DEF Numbered
    <2> HIDE DEF s
    <2>9. /\ r \in Seq(LogEntry) /\ Len(r) = Len(s) + 1 /\ Len(s) \in Nat
          /\ r[Len(s) + 1] = e /\ \A k \in 1 .. Len(s) : r[k] = s[k]
      BY <2>4
    <2> HIDE DEF r
    <2>10. Ascending(r) /\ \A k \in 1 .. Len(r) : r[k].msg.id <= entries + 1
      <3>1. \A k \in 1 .. Len(r) : k \in 1 .. Len(s) \/ k = Len(s) + 1
        BY <2>9
      <3>2. \A k \in 1 .. Len(r) : r[k].msg.id <= entries + 1
        BY <2>1, <2>4, <2>8, <2>9, <3>1
      <3>3. ASSUME NEW j \in 1 .. Len(r), NEW k \in 1 .. Len(r), j < k
            PROVE  r[j].msg.id < r[k].msg.id
        <4>1. j \in 1 .. Len(s)
          BY <2>9, <3>3
        <4>2. CASE k \in 1 .. Len(s)
          BY <2>8, <2>9, <3>3, <4>1, <4>2 DEF Ascending
        <4>3. CASE k = Len(s) + 1
          BY <2>1, <2>4, <2>8, <2>9, <4>1, <4>3
        <4> QED
          BY <3>1, <4>2, <4>3
      <3> QED
        BY <3>2, <3>3 DEF Ascending
    <2>11. m \in 1 .. Len(r) + 1 /\ Len(r) \in Nat
      BY <2>9
    <2>12. /\ Len(q) = Len(r) + 1 - m
           /\ \A k \in 1 .. Len(q) : q[k] = r[m + k - 1] /\ m + k - 1 \in 1 .. Len(r)
      BY <2>6, <2>9, <2>11, EndOfSequence
    <2>13. Ascending(q) /\ \A k \in 1 .. Len(q) : q[k].msg.id <= entries + 1
      <3>1. \A j, k \in 1 .. Len(q) : j < k => m + j - 1 < m + k - 1
        BY <2>11
      <3> QED
        BY <2>10, <2>12, <3>1 DEF Ascending
    <2>14. ASSUME NEW j \in Loggers
           PROVE  Ascending(log'[j]) /\ \A k \in 1 .. Len(log'[j]) : log'[j][k].msg.id <= entries'
      <3>1. CASE j = i
        BY <2>1, <2>7, <2>13, <3>1
      <3>2. CASE j # i
        <4>1. log'[j] = log[j] /\ log[j] \in Seq(LogEntry)
          BY <2>7, <3>2 DEF TypeOK, LogEntry
        <4>2. \A k \in 1 .. Len(log[j]) : log[j][k].msg.id <= entries /\ log[j][k].msg.id \in Nat
          <5> SUFFICES ASSUME NEW k \in 1 .. Len(log[j])
                       PROVE  log[j][k].msg.id <= entries /\ log[j][k].msg.id \in Nat
            OBVIOUS
          <5>1. log[j][k] \in LogEntry
            BY <4>1, ElementType
          <5> QED
            BY <5>1 DEF Numbered, LogEntry, Message
        <4> QED
          BY <2>1, <4>1, <4>2 DEF Numbered
      <3> QED
        BY <3>1, <3>2
    <2> QED
      BY <2>1, <2>14 DEF Numbered, PrintedIsWhatWasAsked
  <1>2. CASE addLogger
    <2>1. ctl' = ctl /\ entries' = entries
      BY <1>2 DEF addLogger
    <2>2. \A j \in Loggers : log'[j] = log[j] \/ log'[j] = <<>>
      BY <1>2 DEF addLogger, TypeOK
    <2>3. Ascending(<<>>) /\ Len(<<>>) = 0
      BY DEF Ascending
    <2> QED
      BY <2>1, <2>2, <2>3 DEF Numbered, PrintedIsWhatWasAsked
  <1>3. ASSUME UNCHANGED <<log, entries>>, NEW c \in Controls,
               \A d \in Controls : d # c => ctl'[d] = ctl[d],
               ctl'[c].pc # "printed"
        PROVE  Numbered' /\ PrintedIsWhatWasAsked'
    BY <1>3 DEF Numbered, PrintedIsWhatWasAsked
  <1>4. ASSUME NEW c \in Controls, NEW cmd \in LevelCommands, CallLogLevel(c, cmd)
        PROVE  Numbered' /\ PrintedIsWhatWasAsked'
    <2>1. ctl'[c].pc = "level" /\ \A d \in Controls : d # c => ctl'[d] = ctl[d]
      BY <1>4 DEF CallLogLevel, TypeOK
    <2> QED
      BY <1>3, <1>4, <2>1 DEF CallLogLevel
  <1>5. ASSUME NEW c \in Controls, LogLevel(c)
        PROVE  Numbered' /\ PrintedIsWhatWasAsked'
    <2>1. ctl'[c].pc = "level" /\ \A d \in Controls : d # c => ctl'[d] = ctl[d]
      BY <1>5 DEF LogLevel, TypeOK
    <2> QED
      BY <1>3, <1>5, <2>1 DEF LogLevel
  <1>6. ASSUME NEW c \in Controls, Exit(c)
        PROVE  Numbered' /\ PrintedIsWhatWasAsked'
    <2>1. ctl'[c].pc = "idle" /\ \A d \in Controls : d # c => ctl'[d] = ctl[d]
      BY <1>6 DEF Exit, TypeOK, Idle
    <2> QED
      BY <1>3, <1>6, <2>1 DEF Exit
  <1>7. ASSUME NEW c \in Controls, NEW cmd \in OutputCommands, outputLog(c, cmd)
        PROVE  Numbered' /\ PrintedIsWhatWasAsked'
    <2> DEFINE retained == log[cmd.logger_idx]
    <2>1. retained \in Seq(LogEntry) /\ Ascending(retained)
      BY OutputCommandAssumption DEF TypeOK, LogEntry, Numbered
    <2>2. PICK k \in 1 .. Len(retained) \cup {1} :
            ctl' = [ctl EXCEPT ![c] =
                      [pc |-> "printed", cmd |-> cmd, retained |-> retained,
                       output |-> Printed(cmd, Rotation(retained, k))]]
      BY <1>7 DEF outputLog
    <2> HIDE DEF retained
    <2>3. /\ ctl'[c].cmd = cmd /\ ctl'[c].retained = retained
          /\ ctl'[c].output = Printed(cmd, Rotation(retained, k))
          /\ \A d \in Controls : d # c => ctl'[d] = ctl[d]
      BY <2>2 DEF TypeOK
    <2>4. UNCHANGED <<log, entries>>
      BY <1>7 DEF outputLog
    <2>5. /\ InCyclicOrder(IdsOf(ctl'[c].output))
          /\ ToSet(ctl'[c].output) =
               {msg \in {e.msg : e \in ToSet(ctl'[c].retained)} :
                  /\ msg.tag \notin ctl'[c].cmd.exclude_tags \ LongNames
                  /\ msg.level \notin ctl'[c].cmd.exclude_log_levels}
      BY <2>1, <2>3, PrintsWhatWasAsked
    <2>6. PrintedIsWhatWasAsked'
      BY <2>3, <2>5 DEF PrintedIsWhatWasAsked, IdsOf
    <2> QED
      BY <2>4, <2>6 DEF Numbered
  <1>8. ASSUME UNCHANGED <<log, entries, ctl>>
        PROVE  Numbered' /\ PrintedIsWhatWasAsked'
    BY <1>8 DEF Numbered, PrintedIsWhatWasAsked
  <1>9. ASSUME \/ StartGenerator \/ setSharedPtr \/ KillGenerator
               \/ \E t \in Threads : ThreadStep(t) /\ ~writeData(t)
               \/ UNCHANGED vars
        PROVE  UNCHANGED <<log, entries, ctl>>
    BY <1>9 DEF StartGenerator, setSharedPtr, KillGenerator, ThreadStep, getLog, Insert,
                Discard, Drop, vars
  <1> QED
    BY <1>1, <1>2, <1>4, <1>5, <1>6, <1>7, <1>8, <1>9
       DEF Next, GeneratorStep, ThreadStep, ControlStep

\* A control process prints what the log retained of what it was not told to leave
\* out, and the entries of tags with long names, each entry once and in the order of
\* writing round from where the walk begins (outputLog, should_print_entry, getLog).
THEOREM PrintsAsAsked == Spec => []PrintedIsWhatWasAsked
  <1>1. Init => Numbered /\ PrintedIsWhatWasAsked
    BY DEF Init, Numbered, Ascending, PrintedIsWhatWasAsked, Idle
  <1>2. TypeOK /\ Numbered /\ PrintedIsWhatWasAsked /\ [Next]_vars =>
          (Numbered /\ PrintedIsWhatWasAsked)'
    BY PrintedStep
  <1> QED
    BY <1>1, <1>2, LogPathTypes, PTL DEF Spec
============================================================================
