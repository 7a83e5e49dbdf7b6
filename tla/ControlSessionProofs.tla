------------------------ MODULE ControlSessionProofs ------------------------
(***************************************************************************)
(* What control processes show and change, beside threads that write: for  *)
(* any tags, arrays, names, command lines, threads and interleavings.      *)
(***************************************************************************)
EXTENDS ControlSession, TagTreeProofs

----------------------------------------------------------------------------
(* The inductive invariant: types *)

AllCommands ==
  {"PRINT_TAG", "PRINT_STAT_TYPE", "DUMP_STAT", "CLEAR_STAT", "LOG_LEVEL", "NO_CMD"}

AllDescs == Descs \cup {[path |-> <<>>, array_indices |-> <<>>]}

StatElems ==
  [tag : StatTags, array_indices : {desc.array_indices : desc \in AllDescs},
   entries : Seq(Nat), dimensionSizes : Seq(Nat)]

LogElems == [tag : LogTags, output : [previous : Levels, now : Levels]]

Sessions ==
  [on : BOOLEAN, cmd : AllCommands, descs : Seq(AllDescs), desc : Nat,
   level : LevelArgs \cup {NoLevelArg}, todo : Seq(Tags), visiting : BOOLEAN,
   cells : Seq(Nat), entries : Seq(Nat), dimensionSizes : Seq(Nat),
   stat_tags_vector : Seq(StatElems), log_tags_vector : Seq(LogElems),
   swept : SUBSET Cells]

ThreadStates == [todo : Seq(Items), read : 0 .. Modulus - 1, loaded : BOOLEAN]

ItemStates == [begun : Nat, count : Nat, raced : BOOLEAN]

Types ==
  /\ mem \in [Cells -> Nat]
  /\ \A cell \in Cells : mem[cell] \in IF cell \in AllLevelCells THEN Levels ELSE 0 .. Modulus - 1
  /\ thread \in [Threads -> ThreadStates]
  /\ \A g \in Threads : thread[g].loaded =>
       thread[g].todo # <<>> /\ Head(thread[g].todo)[1] \in Counters
  /\ writes \in 0 .. MaxWrites
  /\ stat \in [Items -> ItemStates]
  /\ ctl \in Sessions /\ ctl.desc <= Len(ctl.descs)
  /\ ~ctl.on => ctl = NoSession

----------------------------------------------------------------------------
(* The inductive invariant: numbers *)

\* Without a race only one thread at a time is between its load and its store, and
\* nothing has changed what it has read.
Counted(item) ==
  ~stat[item].raced =>
    /\ mem[ItemCell(item)] = stat[item].count % Modulus
    /\ \A g, h \in Incrementing(item) : g = h
    /\ \A g \in Incrementing(item) : thread[g].read = mem[ItemCell(item)]

\* No more is in a number, or about to be, than writes that have begun.
Bounded(item) ==
  /\ mem[ItemCell(item)] <= stat[item].begun
  /\ \A g \in Incrementing(item) : thread[g].read + 1 <= stat[item].begun

Numbers ==
  /\ \A item \in Items : item[1] \in Counters => Counted(item)
  /\ \A item \in Items : Bounded(item)

----------------------------------------------------------------------------
(* The inductive invariant: tags *)

StatScope == IF isStatisticCommand(ctl.cmd) THEN StatTags ELSE {}
LogScope == IF isLogCommand(ctl.cmd) THEN LogTags ELSE {}

\* The i-th description names t, and the command has come to t for it.
Reached(t, i) ==
  /\ i \in 1 .. ctl.desc /\ Names(ctl.descs[i].path, t)
  /\ i = ctl.desc => t \notin ToSet(ctl.todo)

TagsIn(v) == {v[i].tag : i \in DOMAIN v}
OncePerTag(v) == \A i, j \in DOMAIN v : v[i].tag = v[j].tag => i = j

Reports(v, tags) ==
  /\ TagsIn(v) = {t \in tags : \E k \in Nat : Reached(t, k)}
  /\ OncePerTag(v)

\* An element of the report has the ranges of the last description that names it.
LastAsked(elem) ==
  \E i \in Nat : /\ Reached(elem.tag, i) /\ elem.array_indices = ctl.descs[i].array_indices
                 /\ \A k \in Nat : Reached(elem.tag, k) => k <= i

Tagged ==
  /\ IsOnce(ctl.todo)
  /\ ctl.todo # <<>> => ctl.desc > 0
  /\ \A t \in ToSet(ctl.todo) :
       t \in StatScope \cup LogScope /\ Names(ctl.descs[ctl.desc].path, t)
  /\ Reports(ctl.stat_tags_vector, StatScope)
  /\ Reports(ctl.log_tags_vector, LogScope)
  /\ \A i \in DOMAIN ctl.stat_tags_vector : LastAsked(ctl.stat_tags_vector[i])

----------------------------------------------------------------------------
(* The inductive invariant: cells *)

ItemAt(t, cell) == <<t, IndexOfCell(t, cell)>>

\* entries are those of the first cells of a statistic.
Bound(t, entries) ==
  \A i \in 1 .. Len(entries) : entries[i] <= stat[ItemAt(t, shared_ptr(t) + i - 1)].begun

\* Through the first k cells of a statistic.
Walked(t, k) ==
  /\ ctl.cells = Run(shared_ptr(t) + k, NumCells(dims[t]) - k)
  /\ ctl.cmd = "DUMP_STAT" => Len(ctl.entries) = k /\ Bound(t, ctl.entries)
  /\ ctl.cmd = "CLEAR_STAT" => \A i \in 0 .. k - 1 : shared_ptr(t) + i \in ctl.swept

TouchesCells(t) == t \in StatLeaves /\ ctl.cmd \in {"DUMP_STAT", "CLEAR_STAT"}

At(t) ==
  /\ t \in StatScope
  /\ t \in StatLeaves => ctl.dimensionSizes = dims[t]
  /\ TouchesCells(t) => \E k \in 0 .. NumCells(dims[t]) : Walked(t, k)
  /\ ~TouchesCells(t) => ctl.cells = <<>> /\ ctl.entries = <<>>

Visiting ==
  IF ctl.visiting THEN ctl.todo # <<>> /\ At(Head(ctl.todo)) ELSE ctl.cells = <<>>

Collected ==
  \A i \in DOMAIN ctl.stat_tags_vector :
    LET elem == ctl.stat_tags_vector[i] IN
    ctl.cmd = "DUMP_STAT" =>
      IF elem.tag \in StatLeaves
      THEN /\ elem.dimensionSizes = dims[elem.tag]
           /\ Len(elem.entries) = NumCells(dims[elem.tag])
           /\ Bound(elem.tag, elem.entries)
      ELSE elem.entries = <<>>

Leveled ==
  ctl.cmd = "LOG_LEVEL" /\ ctl.level.set_log_level /\ ctl.level.logger_idx < numLoggers

TargetCells(t) ==
  IF ctl.cmd = "CLEAR_STAT" /\ t \in StatLeaves THEN StatCells(t)
  ELSE IF Leveled /\ t \in LogTags THEN {LevelCell(t, ctl.level.logger_idx)}
  ELSE {}

SweptAll ==
  \A t \in StatTags \cup LogTags : (\E i \in Nat : Reached(t, i)) => TargetCells(t) \subseteq ctl.swept

SweptOnly ==
  \A cell \in ctl.swept : \E t \in StatTags \cup LogTags, i \in 1 .. ctl.desc :
    cell \in TargetCells(t) /\ Names(ctl.descs[i].path, t)

InForce ==
  Leveled => \A l \in Levels : LogLevelNames[l + 1] = ctl.level.new_log_level =>
    \A cell \in ctl.swept : mem[cell] = l

Swept == SweptAll /\ SweptOnly /\ InForce

Inv == Types /\ Numbers /\ Tagged /\ Visiting /\ Collected /\ Swept

----------------------------------------------------------------------------
(* Where numbers and levels lie *)

LEMMA ItemFacts ==
  ASSUME NEW item \in Items
  PROVE  /\ item[1] \in StatLeaves /\ item[2] \in Indices(item[1])
         /\ item = <<item[1], item[2]>>
         /\ ItemCell(item) \in StatCells(item[1]) /\ ItemCell(item) \in Cells
         /\ ItemCell(item) \notin AllLevelCells
         /\ ItemAt(item[1], ItemCell(item)) = item
  <1>1. item[1] \in StatLeaves /\ item[2] \in Indices(item[1]) /\ item = <<item[1], item[2]>>
    BY DEF Items
  <1> DEFINE t == item[1]
             idx == item[2]
  <1> HIDE DEF t, idx
  <1>2. /\ WriteCell(t, idx) \in StatCells(t)
        /\ IndexOfCell(t, WriteCell(t, idx)) = idx
    BY <1>1, WriteCellOfIndex DEF t, idx
  <1>3. StatCells(t) \subseteq Cells /\ \A cell \in StatCells(t) : cell \notin AllLevelCells
    BY <1>1, CellsApart DEF AllLevelCells, t
  <1> QED
    BY <1>1, <1>2, <1>3 DEF ItemCell, ItemAt, t, idx

LEMMA ItemsApart ==
  ASSUME NEW item \in Items, NEW jtem \in Items, ItemCell(item) = ItemCell(jtem)
  PROVE  item = jtem
  <1>1. item[1] = jtem[1]
    BY ItemFacts, CellsApart
  <1> QED
    BY <1>1, ItemFacts

LEMMA ItemOfCell ==
  ASSUME NEW t \in StatLeaves, NEW cell \in StatCells(t)
  PROVE  /\ cell \in Cells /\ cell \in Nat /\ cell \notin AllLevelCells
         /\ ItemAt(t, cell) \in Items /\ ItemCell(ItemAt(t, cell)) = cell
  <1>1. cell \in Cells /\ cell \notin AllLevelCells
    BY CellsApart DEF AllLevelCells
  <1>2. IndexOfCell(t, cell) \in Indices(t) /\ WriteCell(t, IndexOfCell(t, cell)) = cell
    BY WriteCellOfIndex
  <1>3. cell \in Nat
    BY <1>1 DEF Cells
  <1> QED
    BY <1>1, <1>2, <1>3 DEF ItemAt, Items, ItemCell

LEMMA LevelCells ==
  ASSUME NEW t \in LogTags, NEW i \in Nat, i < numLoggers
  PROVE  LevelCell(t, i) \in Cells /\ LevelCell(t, i) \in AllLevelCells
  <1>1. i \in 0 .. numLoggers - 1
    BY LoggersAssumption
  <1> QED
    BY <1>1, CellsApart DEF AllLevelCells

LEMMA LevelsAre == Levels = 0 .. 3
  BY DEF Levels, LogLevelNames

\* A known name stands for its level.
LEMMA NewLevelType ==
  ASSUME NEW level_name, NEW level \in Levels
  PROVE  /\ NewLevel(level_name, level) \in Levels
         /\ \A l \in Levels : LogLevelNames[l + 1] = level_name => NewLevel(level_name, level) = l
  <1>1. \A l, k \in Levels : LogLevelNames[l + 1] = LogLevelNames[k + 1] => l = k
    <2>1. /\ LogLevelNames[0 + 1] = "DEBUG" /\ LogLevelNames[1 + 1] = "INFO"
          /\ LogLevelNames[2 + 1] = "ALERT" /\ LogLevelNames[3 + 1] = "ERROR"
      BY DEF LogLevelNames
    <2>2. \A l \in 0 .. 3 : l = 0 \/ l = 1 \/ l = 2 \/ l = 3
      OBVIOUS
    <2> QED
      BY <2>1, <2>2, LevelsAre
  <1>2. CASE \E l \in Levels : LogLevelNames[l + 1] = level_name
    BY <1>1, <1>2 DEF NewLevel
  <1>3. CASE ~ \E l \in Levels : LogLevelNames[l + 1] = level_name
    BY <1>3 DEF NewLevel
  <1> QED
    BY <1>2, <1>3

----------------------------------------------------------------------------
(* Types *)

LEMMA ItemType ==
  ASSUME NEW t \in StatLeaves, NEW idx \in Indices(t)
  PROVE  <<t, idx>> \in Items
  BY DEF Items

\* What changes of a number's history.
LEMMA ItemStateTypes ==
  ASSUME NEW s \in ItemStates, NEW n \in Nat, NEW m \in Nat, NEW r \in BOOLEAN
  PROVE  /\ s.begun \in Nat /\ s.count \in Nat /\ s.raced \in BOOLEAN
         /\ [s EXCEPT !.begun = n] \in ItemStates
         /\ [s EXCEPT !.count = n] \in ItemStates
         /\ [s EXCEPT !.raced = r] \in ItemStates
  BY DEF ItemStates

LEMMA BitWrites ==
  ASSUME NEW call \in BitCalls, NEW bits,
         bits = SelectIn([i \in 1 .. NumBits |-> i - 1], call.bitstatus)
  PROVE  [i \in DOMAIN bits |-> <<call.tag, Append(call.indices, bits[i])>>] \in Seq(Items)
  <1> DEFINE all == [i \in 1 .. NumBits |-> i - 1]
             todo == [i \in DOMAIN bits |-> <<call.tag, Append(call.indices, bits[i])>>]
             n == Len(bits)
  <1>1. all \in Seq(Nat)
    <2>1. NumBits \in Nat
      BY SessionAssumption
    <2>2. all = [i \in 1 .. NumBits |-> all[i]] /\ \A i \in 1 .. NumBits : all[i] \in Nat
      OBVIOUS
    <2> HIDE DEF all
    <2> QED
      BY <2>1, <2>2, FunctionIsSequence
  <1> HIDE DEF all
  <1>2. bits \in Seq(Nat) /\ \E e : Embedding(e, bits, all, call.bitstatus, Len(all))
    BY <1>1, SelectInIsEmbedded DEF all
  <1>3. n \in Nat /\ DOMAIN bits = 1 .. n
    BY <1>2
  <1>4. \A i \in 1 .. n : bits[i] \in call.bitstatus
    BY <1>2 DEF Embedding
  <1>5. \A i \in 1 .. n : <<call.tag, Append(call.indices, bits[i])>> \in Items
    <2>1. ASSUME NEW i \in 1 .. n
          PROVE  <<call.tag, Append(call.indices, bits[i])>> \in Items
      <3>1. call.tag \in StatLeaves /\ Append(call.indices, bits[i]) \in Indices(call.tag)
        BY <1>4, SessionAssumption
      <3> QED
        BY <3>1, ItemType
    <2> QED
      BY <2>1
  <1>6. todo = [i \in 1 .. n |-> todo[i]]
        /\ \A i \in 1 .. n : todo[i] = <<call.tag, Append(call.indices, bits[i])>>
    BY <1>3
  <1> HIDE DEF todo, n
  <1>7. todo \in Seq(Items)
    <2>1. \A i \in 1 .. n : todo[i] \in Items
      BY <1>5, <1>6
    <2> QED
      BY <1>3, <1>6, <2>1, FunctionIsSequence
  <1> QED
    BY <1>7 DEF todo

\* What a thread that has something to do is at.
LEMMA HeadItem ==
  ASSUME Types, NEW g \in Threads, thread[g].todo # <<>>
  PROVE  /\ Head(thread[g].todo) \in Items /\ Tail(thread[g].todo) \in Seq(Items)
         /\ thread[g] \in ThreadStates
  <1>1. thread[g] \in ThreadStates
    BY DEF Types
  <1>2. thread[g].todo \in Seq(Items)
    BY <1>1 DEF ThreadStates
  <1> QED
    BY <1>1, <1>2

\* Memory keeps its types when a number or a level is stored.
LEMMA StoreTypes ==
  ASSUME Types, NEW cell \in Cells, NEW value \in Nat,
         IF cell \in AllLevelCells THEN value \in Levels ELSE value < Modulus
  PROVE  LET m == [mem EXCEPT ![cell] = value] IN
         /\ m \in [Cells -> Nat]
         /\ \A c \in Cells : m[c] \in IF c \in AllLevelCells THEN Levels ELSE 0 .. Modulus - 1
  <1>1. Modulus \in Nat
    BY SessionAssumption
  <1> QED
    BY <1>1 DEF Types

LEMMA ThreadTypes ==
  ASSUME Types, NEW g \in Threads, Write(g)
  PROVE  Types'
  <1>1. /\ Modulus \in Nat \ {0, 1} /\ MaxWrites \in Nat
        /\ \A call \in Calls : call \in Items
    BY SessionAssumption DEF Items
  <1>2. thread \in [Threads -> ThreadStates] /\ stat \in [Items -> ItemStates] /\ writes \in Nat
    BY <1>1 DEF Types
  <1>3. CASE writeStat(g)
    <2>1. PICK item \in Calls :
            /\ writes + 1 <= MaxWrites /\ writes' = writes + 1
            /\ thread' = [thread EXCEPT ![g].todo = <<item>>]
            /\ thread[g].todo = <<>>
            /\ UNCHANGED <<mem, ctl, stat>>
      BY <1>3 DEF writeStat
    <2>2. <<item>> \in Seq(Items)
      BY <1>1
    <2>3. ~thread[g].loaded
      BY <2>1 DEF Types
    <2>4. thread' \in [Threads -> ThreadStates]
      BY <1>2, <2>1, <2>2 DEF ThreadStates
    <2>5. \A h \in Threads : thread'[h].loaded =>
            thread'[h].todo # <<>> /\ Head(thread'[h].todo)[1] \in Counters
      BY <1>2, <2>1, <2>3 DEF Types, ThreadStates
    <2>6. writes' \in 0 .. MaxWrites
      BY <1>1, <1>2, <2>1
    <2> QED
      BY <2>1, <2>4, <2>5, <2>6 DEF Types, AllLevelCells
  <1>4. CASE writeBitStatus(g)
    <2>1. PICK todo \in Seq(Items) :
            /\ writes + Len(todo) <= MaxWrites /\ writes' = writes + Len(todo)
            /\ thread' = [thread EXCEPT ![g].todo = todo]
            /\ thread[g].todo = <<>>
            /\ UNCHANGED <<mem, ctl, stat>>
      BY <1>4, BitWrites DEF writeBitStatus
    <2>3. ~thread[g].loaded
      BY <2>1 DEF Types
    <2>4. thread' \in [Threads -> ThreadStates]
      BY <1>2, <2>1 DEF ThreadStates
    <2>5. \A h \in Threads : thread'[h].loaded =>
            thread'[h].todo # <<>> /\ Head(thread'[h].todo)[1] \in Counters
      BY <1>2, <2>1, <2>3 DEF Types, ThreadStates
    <2>6. writes' \in 0 .. MaxWrites
      BY <1>1, <1>2, <2>1
    <2> QED
      BY <2>1, <2>4, <2>5, <2>6 DEF Types, AllLevelCells
  <1>5. CASE Load(g)
    <2> DEFINE item == Head(thread[g].todo)
    <2>1. /\ item[1] \in Counters /\ thread[g].todo # <<>>
          /\ thread' = [thread EXCEPT ![g].loaded = TRUE, ![g].read = mem[ItemCell(item)]]
          /\ stat' = [stat EXCEPT ![item].begun = @ + 1,
                                 ![item].raced = @ \/ Incrementing(item) # {}]
          /\ UNCHANGED <<mem, ctl, writes>>
      BY <1>5 DEF Load
    <2>2. item \in Items
      BY <2>1, HeadItem
    <2>3. mem[ItemCell(item)] \in 0 .. Modulus - 1
      BY <2>2, ItemFacts DEF Types
    <2> HIDE DEF item
    <2>4. thread' \in [Threads -> ThreadStates]
      BY <1>2, <2>1, <2>3 DEF ThreadStates
    <2>5. \A h \in Threads : thread'[h].loaded =>
            thread'[h].todo # <<>> /\ Head(thread'[h].todo)[1] \in Counters
      BY <1>2, <2>1 DEF Types, ThreadStates, item
    <2>6. stat' \in [Items -> ItemStates]
      <3> DEFINE n == stat[item].begun + 1
                 s == [stat EXCEPT ![item].begun = n]
                 r == s[item].raced \/ Incrementing(item) # {}
      <3>1. stat[item] \in ItemStates /\ s[item] = [stat[item] EXCEPT !.begun = n]
        BY <1>2, <2>2
      <3>2. n \in Nat
        <4>1. stat[item].begun \in Nat
          BY <3>1, ItemStateTypes
        <4> QED
          BY <4>1
      <3>3. stat' = [s EXCEPT ![item].raced = r]
        BY <2>1
      <3>4. r \in BOOLEAN
        OBVIOUS
      <3> HIDE DEF n, r
      <3>5. s[item] \in ItemStates
        BY <3>1, <3>2, ItemStateTypes
      <3>6. s \in [Items -> ItemStates]
        BY <1>2, <2>2, <3>1, <3>5
      <3> HIDE DEF s
      <3>7. [s[item] EXCEPT !.raced = r] \in ItemStates
        BY <3>4, <3>5, ItemStateTypes
      <3> QED
        BY <2>2, <3>3, <3>6, <3>7
    <2> QED
      BY <2>1, <2>4, <2>5, <2>6 DEF Types, AllLevelCells
  <1>6. CASE Store(g)
    <2> DEFINE item == Head(thread[g].todo)
               value == (thread[g].read + 1) % Modulus
    <2>1. /\ thread[g].loaded
          /\ mem' = [mem EXCEPT ![ItemCell(item)] = value]
          /\ thread' = [thread EXCEPT ![g] = [IdleThread EXCEPT !.todo = Tail(thread[g].todo)]]
          /\ stat' = [stat EXCEPT ![item].count = @ + 1]
          /\ UNCHANGED <<ctl, writes>>
      BY <1>6 DEF Store
    <2>2. item \in Items /\ Tail(thread[g].todo) \in Seq(Items) /\ thread[g] \in ThreadStates
      <3>1. thread[g].todo # <<>>
        BY <2>1 DEF Types
      <3> QED
        BY <3>1, HeadItem
    <2>3. value \in 0 .. Modulus - 1
      <3>1. thread[g].read + 1 \in Nat
        BY <1>1, <2>2 DEF ThreadStates
      <3> QED
        BY <1>1, <3>1, DivMod
    <2> HIDE DEF item, value
    <2>4. [IdleThread EXCEPT !.todo = Tail(thread[g].todo)] \in ThreadStates
      <3>1. 0 \in 0 .. Modulus - 1
        BY <1>1
      <3> QED
        BY <2>2, <3>1 DEF ThreadStates, IdleThread
    <2>5. \A h \in Threads : thread'[h].loaded =>
            thread'[h].todo # <<>> /\ Head(thread'[h].todo)[1] \in Counters
      BY <1>2, <2>1 DEF Types, ThreadStates, IdleThread
    <2>6. stat' \in [Items -> ItemStates]
      <3>1. stat[item] \in ItemStates
        BY <1>2, <2>2
      <3>2. stat[item].count + 1 \in Nat
        <4>1. stat[item].count \in Nat
          BY <3>1, ItemStateTypes
        <4> QED
          BY <4>1
      <3>3. [stat[item] EXCEPT !.count = stat[item].count + 1] \in ItemStates
        BY <3>1, <3>2, ItemStateTypes
      <3> QED
        BY <1>2, <2>1, <2>2, <3>3
    <2>7. /\ mem' \in [Cells -> Nat]
          /\ \A c \in Cells : mem'[c] \in IF c \in AllLevelCells THEN Levels ELSE 0 .. Modulus - 1
      <3>1. /\ ItemCell(item) \in Cells /\ ItemCell(item) \notin AllLevelCells
            /\ value \in Nat /\ value < Modulus
        BY <1>1, <2>2, <2>3, ItemFacts
      <3> QED
        BY <2>1, <3>1, StoreTypes
    <2>8. thread' \in [Threads -> ThreadStates]
      BY <1>2, <2>1, <2>4
    <2> QED
      BY <2>1, <2>5, <2>6, <2>7, <2>8 DEF Types, AllLevelCells
  <1>7. CASE Assign(g)
    <2> DEFINE item == Head(thread[g].todo)
    <2>1. /\ thread[g].todo # <<>> /\ item[1] \notin Counters
          /\ mem' = [mem EXCEPT ![ItemCell(item)] = 1]
          /\ thread' = [thread EXCEPT ![g].todo = Tail(@)]
          /\ stat' = [stat EXCEPT ![item].begun = @ + 1, ![item].count = @ + 1]
          /\ UNCHANGED <<ctl, writes>>
      BY <1>7 DEF Assign
    <2>2. item \in Items /\ Tail(thread[g].todo) \in Seq(Items) /\ thread[g] \in ThreadStates
      BY <2>1, HeadItem
    <2>3. ~thread[g].loaded
      BY <2>1 DEF Types
    <2> HIDE DEF item
    <2>4. thread' \in [Threads -> ThreadStates]
      BY <1>2, <2>1, <2>2 DEF ThreadStates
    <2>5. \A h \in Threads : thread'[h].loaded =>
            thread'[h].todo # <<>> /\ Head(thread'[h].todo)[1] \in Counters
      BY <1>2, <2>1, <2>3 DEF Types, ThreadStates
    <2>6. stat' \in [Items -> ItemStates]
      <3> DEFINE n == stat[item].begun + 1
                 s == [stat EXCEPT ![item].begun = n]
                 m == s[item].count + 1
      <3>1. stat[item] \in ItemStates /\ s[item] = [stat[item] EXCEPT !.begun = n]
        BY <1>2, <2>2
      <3>2. n \in Nat
        <4>1. stat[item].begun \in Nat
          BY <3>1, ItemStateTypes
        <4> QED
          BY <4>1
      <3>3. stat' = [s EXCEPT ![item].count = m]
        BY <2>1
      <3> HIDE DEF n
      <3>5. s[item] \in ItemStates
        BY <3>1, <3>2, ItemStateTypes
      <3>6. s \in [Items -> ItemStates]
        BY <1>2, <2>2, <3>1, <3>5
      <3> HIDE DEF s
      <3>7. m \in Nat
        <4>1. s[item].count \in Nat
          BY <3>5, ItemStateTypes
        <4> QED
          BY <4>1
      <3>8. [s[item] EXCEPT !.count = m] \in ItemStates
        BY <3>5, <3>7, ItemStateTypes
      <3> QED
        BY <2>2, <3>3, <3>6, <3>8
    <2>7. /\ mem' \in [Cells -> Nat]
          /\ \A c \in Cells : mem'[c] \in IF c \in AllLevelCells THEN Levels ELSE 0 .. Modulus - 1
      <3>1. /\ ItemCell(item) \in Cells /\ ItemCell(item) \notin AllLevelCells
            /\ 1 \in Nat /\ 1 < Modulus
        BY <1>1, <2>2, ItemFacts
      <3> QED
        BY <2>1, <3>1, StoreTypes
    <2> QED
      BY <2>1, <2>4, <2>5, <2>6, <2>7 DEF Types, AllLevelCells
  <1> QED
    BY <1>3, <1>4, <1>5, <1>6, <1>7 DEF Write

----------------------------------------------------------------------------
(* The report *)

\* What is in a report after a tag's output has taken the place of its last one.
Replaced(r, v, e) ==
  /\ TagsIn(r) = TagsIn(v) \cup {e.tag}
  /\ OncePerTag(v) => OncePerTag(r)
  /\ \A i \in DOMAIN r : r[i] = e \/ (r[i].tag # e.tag /\ \E j \in DOMAIN v : r[i] = v[j])

\* addStatOutput and addLogOutput: what is removed and what is added.
LEMMA OutputReplaces ==
  ASSUME NEW S, NEW v \in Seq(S), NEW e \in S, NEW t, e.tag = t, NEW r,
         r = Append(removeTag(v, t), e)
  PROVE  r \in Seq(S) /\ Replaced(r, v, e)
  <1> DEFINE T == {elem \in ToSet(v) : elem.tag # t}
             u == SelectIn(v, T)
             m == Len(u)
             n == Len(v)
  <1>1. u \in Seq(S) /\ \E f : Embedding(f, u, v, T, n)
    BY SelectInIsEmbedded
  <1>2. PICK f : Embedding(f, u, v, T, n)
    BY <1>1
  <1>3. n \in Nat /\ m \in Nat /\ DOMAIN u = 1 .. m /\ DOMAIN v = 1 .. n
    BY <1>1
  <1>4. \A i \in 1 .. n : v[i] \in T <=> v[i].tag # t
    BY <1>3 DEF ToSet
  <1>5. r = Append(u, e)
    BY DEF removeTag
  <1> HIDE DEF u, T
  <1>6. /\ r \in Seq(S) /\ Len(r) = m + 1 /\ DOMAIN r = 1 .. m + 1
        /\ r[m + 1] = e /\ \A i \in 1 .. m : r[i] = u[i]
    BY <1>1, <1>3, <1>5
  <1>7. /\ f \in [1 .. m -> 1 .. n]
        /\ \A j \in 1 .. m : u[j] = v[f[j]] /\ v[f[j]] \in T
        /\ \A i, j \in 1 .. m : i < j => f[i] < f[j]
        /\ \A i \in 1 .. n : v[i] \in T => \E j \in 1 .. m : f[j] = i
    BY <1>2 DEF Embedding
  <1> HIDE DEF m, n
  <1>8. \A j \in 1 .. m : f[j] \in 1 .. n /\ u[j] = v[f[j]] /\ u[j].tag # t
    BY <1>4, <1>7
  <1>9. \A i \in 1 .. n : v[i].tag # t => \E j \in 1 .. m : u[j] = v[i]
    BY <1>4, <1>7
  <1>10. \A i \in 1 .. m + 1 : i \in 1 .. m \/ i = m + 1
    BY <1>3
  <1>11. TagsIn(r) = TagsIn(v) \cup {e.tag}
    <2>1. TagsIn(r) \subseteq TagsIn(v) \cup {e.tag}
      BY <1>3, <1>6, <1>8, <1>10 DEF TagsIn
    <2>2. ASSUME NEW i \in 1 .. n
          PROVE  v[i].tag \in TagsIn(r)
      <3>1. m + 1 \in 1 .. m + 1 /\ 1 .. m \subseteq 1 .. m + 1
        BY <1>3
      <3>2. CASE v[i].tag = t
        BY <1>6, <3>1, <3>2 DEF TagsIn
      <3>3. CASE v[i].tag # t
        <4>1. PICK j \in 1 .. m : u[j] = v[i]
          BY <1>9, <3>3
        <4> QED
          BY <1>6, <3>1, <4>1 DEF TagsIn
      <3> QED
        BY <3>2, <3>3
    <2>3. e.tag \in TagsIn(r)
      <3>1. m + 1 \in 1 .. m + 1
        BY <1>3
      <3> QED
        BY <1>6, <3>1 DEF TagsIn
    <2> QED
      BY <1>3, <2>1, <2>2, <2>3, ZenonT(40) DEF TagsIn
  <1>12. ASSUME OncePerTag(v)
         PROVE  OncePerTag(r)
    <2>1. ASSUME NEW i \in 1 .. m, NEW j \in 1 .. m, r[i].tag = r[j].tag
          PROVE  i = j
      <3>1. f[i] = f[j]
        BY <1>3, <1>6, <1>8, <1>12, <2>1 DEF OncePerTag
      <3>2. f[i] \in Nat /\ f[j] \in Nat
        BY <1>3, <1>8
      <3>3. ~(i < j) /\ ~(j < i)
        BY <1>7, <3>1, <3>2
      <3> QED
        BY <1>3, <3>3
    <2>2. \A i \in 1 .. m : r[i].tag # r[m + 1].tag
      BY <1>6, <1>8
    <2> QED
      BY <1>6, <1>10, <2>1, <2>2 DEF OncePerTag
  <1>13. \A i \in DOMAIN r : r[i] = e \/ (r[i].tag # e.tag /\ \E j \in DOMAIN v : r[i] = v[j])
    BY <1>3, <1>6, <1>8, <1>10
  <1> QED
    BY <1>6, <1>11, <1>12, <1>13 DEF Replaced

----------------------------------------------------------------------------
(* Types: the control process *)

\* What a session is made of.
LEMMA SessionFields ==
  ASSUME Types
  PROVE  /\ ctl \in Sessions /\ ctl.on \in BOOLEAN /\ ctl.cmd \in AllCommands
         /\ ctl.descs \in Seq(AllDescs) /\ Len(ctl.descs) \in Nat
         /\ ctl.desc \in Nat /\ ctl.desc <= Len(ctl.descs)
         /\ ctl.level \in LevelArgs \cup {NoLevelArg} /\ ctl.level.logger_idx \in Nat
         /\ ctl.todo \in Seq(Tags) /\ ctl.visiting \in BOOLEAN
         /\ ctl.cells \in Seq(Nat) /\ ctl.entries \in Seq(Nat)
         /\ ctl.dimensionSizes \in Seq(Nat)
         /\ ctl.stat_tags_vector \in Seq(StatElems) /\ ctl.log_tags_vector \in Seq(LogElems)
         /\ ctl.swept \in SUBSET Cells
  <1>1. ctl \in Sessions /\ ctl.desc <= Len(ctl.descs)
    BY DEF Types
  <1>2. \A level \in LevelArgs \cup {NoLevelArg} : level.logger_idx \in Nat
    <2>1. \A level \in LevelArgs : level.logger_idx \in Nat
      BY CommandLineAssumption
    <2>2. NoLevelArg.logger_idx = 0
      BY Zenon DEF NoLevelArg
    <2> QED
      BY <2>1, <2>2
  <1>3. ctl.level \in LevelArgs \cup {NoLevelArg}
    BY <1>1 DEF Sessions
  <1>4. ctl.descs \in Seq(AllDescs)
    BY <1>1 DEF Sessions
  <1>5. Len(ctl.descs) \in Nat
    BY <1>4
  <1> QED
    BY <1>1, <1>2, <1>3, <1>4, <1>5 DEF Sessions

LEMMA DescTypes ==
  \A desc \in AllDescs : desc.path \in Seq(STRING)
  <1> DEFINE whole == [path |-> <<>>, array_indices |-> <<>>]
  <1>1. <<>> \in Seq(STRING)
    OBVIOUS
  <1>2. \A desc \in Descs : desc.path \in Seq(STRING)
    BY CommandLineAssumption
  <1>3. whole.path = <<>>
    OBVIOUS
  <1> HIDE DEF whole
  <1>4. AllDescs = Descs \cup {whole}
    BY DEF AllDescs, whole
  <1> QED
    BY <1>1, <1>2, <1>3, <1>4

LEMMA EmptySequences ==
  ASSUME NEW S
  PROVE  <<>> \in Seq(S)
  OBVIOUS

LEMMA NoSessionType == NoSession \in Sessions /\ NoSession.desc <= Len(NoSession.descs)
  <1>1. <<>> \in Seq(AllDescs) /\ <<>> \in Seq(Nat) /\ <<>> \in Seq(StatElems)
        /\ <<>> \in Seq(LogElems) /\ <<>> \in Seq(Tags) /\ Len(<<>>) = 0
    BY EmptySequences
  <1> QED
    BY <1>1 DEF NoSession, Sessions, AllCommands

LEMMA StatCmdType ==
  \A options : StatCmd(options) \in AllCommands
  BY DEF StatCmd, AllCommands

\* Where the control process changes no memory, only its own types are in question.
LEMMA SessionTypes ==
  ASSUME Types, UNCHANGED <<mem, thread, writes, stat>>,
         ctl' \in Sessions, ctl'.desc <= Len(ctl'.descs), ctl'.on
  PROVE  Types'
  BY DEF Types, AllLevelCells

LEMMA StartTypes ==
  ASSUME Types, parseCommandLineArgs
  PROVE  Types'
  <1>1. PICK options \in OptionSets, n \in 0 .. MaxDescs : \E tags \in [1 .. n -> Descs] :
          \E level \in IF StatCmd(options) = "LOG_LEVEL" THEN LevelArgs ELSE {NoLevelArg} :
            /\ ctl' = [NoSession EXCEPT !.on = TRUE, !.cmd = StatCmd(options),
                                        !.descs = TagDisplayDescs(tags), !.level = level]
            /\ UNCHANGED <<mem, thread, writes, stat>>
    BY DEF parseCommandLineArgs
  <1>2. PICK tags \in [1 .. n -> Descs] :
          \E level \in IF StatCmd(options) = "LOG_LEVEL" THEN LevelArgs ELSE {NoLevelArg} :
            ctl' = [NoSession EXCEPT !.on = TRUE, !.cmd = StatCmd(options),
                                     !.descs = TagDisplayDescs(tags), !.level = level]
    BY <1>1
  <1>3. PICK level \in LevelArgs \cup {NoLevelArg} :
          ctl' = [NoSession EXCEPT !.on = TRUE, !.cmd = StatCmd(options),
                                   !.descs = TagDisplayDescs(tags), !.level = level]
    BY <1>2
  <1> DEFINE cmd == StatCmd(options)
             descs == TagDisplayDescs(tags)
  <1>4. descs \in Seq(AllDescs)
    <2>1. n \in Nat
      BY SessionAssumption
    <2>2. tags = [i \in 1 .. n |-> tags[i]] /\ \A i \in 1 .. n : tags[i] \in AllDescs
      BY DEF AllDescs
    <2>3. tags \in Seq(AllDescs)
      BY <2>1, <2>2, FunctionIsSequence
    <2>4. [path |-> <<>>, array_indices |-> <<>>] \in AllDescs
      BY DEF AllDescs
    <2> QED
      BY <2>3, <2>4 DEF TagDisplayDescs
  <1>5. cmd \in AllCommands
    BY StatCmdType
  <1> HIDE DEF cmd, descs
  <1>6. ctl' = [NoSession EXCEPT !.on = TRUE, !.cmd = cmd, !.descs = descs, !.level = level]
    BY <1>3 DEF cmd, descs
  <1>7. ctl' \in Sessions
    BY <1>4, <1>5, <1>6, NoSessionType DEF Sessions
  <1>8. ctl'.on /\ ctl'.desc = 0 /\ Len(ctl'.descs) \in Nat
    BY <1>4, <1>6 DEF NoSession
  <1> QED
    BY <1>1, <1>7, <1>8, SessionTypes

\* The tags that NextDesc takes a command to.
Reachable(path) ==
  (IF isStatisticCommand(ctl.cmd) THEN tagCommander(StatTagTree, path) ELSE <<>>)
    \o (IF isLogCommand(ctl.cmd) THEN tagCommander(LogTagTree, path) ELSE <<>>)

LEMMA ReachableTags ==
  ASSUME NEW path \in Seq(STRING)
  PROVE  /\ Reachable(path) \in Seq(Tags) /\ IsOnce(Reachable(path))
         /\ ToSet(Reachable(path)) = {t \in StatScope \cup LogScope : Names(path, t)}
  <1> DEFINE stats == IF isStatisticCommand(ctl.cmd) THEN tagCommander(StatTagTree, path) ELSE <<>>
             logs == IF isLogCommand(ctl.cmd) THEN tagCommander(LogTagTree, path) ELSE <<>>
  <1>1. IsOnce(<<>>) /\ ToSet(<<>>) = {} /\ <<>> \in Seq(Tags)
    BY EmptySequences DEF IsOnce, ToSet
  <1>2. Under(StatTagTree) = StatTags /\ Under(LogTagTree) = LogTags
    BY DEF Under, StatTags, LogTags
  <1>3. /\ stats \in Seq(Tags) /\ IsOnce(stats)
        /\ ToSet(stats) = {t \in StatScope : Names(path, t)}
    BY <1>1, <1>2, TagCommanderReaches DEF StatScope
  <1>4. /\ logs \in Seq(Tags) /\ IsOnce(logs)
        /\ ToSet(logs) = {t \in LogScope : Names(path, t)}
    BY <1>1, <1>2, TagCommanderReaches DEF LogScope
  <1>5. Reachable(path) = stats \o logs
    BY DEF Reachable
  <1>6. StatScope \cap LogScope = {}
    BY TreesAreDisjoint DEF StatScope, LogScope
  <1> HIDE DEF stats, logs
  <1>7. ToSet(stats) \cap ToSet(logs) = {}
    BY <1>3, <1>4, <1>6
  <1>8. IsOnce(stats \o logs)
    BY <1>3, <1>4, <1>7, ConcatOnce
  <1>9. stats \o logs \in Seq(Tags) /\ ToSet(stats \o logs) = ToSet(stats) \cup ToSet(logs)
    BY <1>3, <1>4, ToSetOfConcat
  <1> QED
    BY <1>3, <1>4, <1>5, <1>8, <1>9

LEMMA NextDescIs ==
  ASSUME Types, NextDesc
  PROVE  /\ ctl.on /\ ~ctl.visiting /\ ctl.todo = <<>> /\ ctl.desc < Len(ctl.descs)
         /\ ctl.descs[ctl.desc + 1].path \in Seq(STRING)
         /\ ctl' = [ctl EXCEPT !.desc = ctl.desc + 1,
                               !.todo = Reachable(ctl.descs[ctl.desc + 1].path)]
         /\ UNCHANGED <<mem, thread, writes, stat>>
  <1>1. ctl.desc < Len(ctl.descs)
    BY DEF NextDesc
  <1>2. ctl.descs[ctl.desc + 1] \in AllDescs
    <2>1. ctl.desc + 1 \in 1 .. Len(ctl.descs) /\ ctl.descs \in Seq(AllDescs)
      BY <1>1, SessionFields
    <2> QED
      BY <2>1, ElementType
  <1>3. ctl.descs[ctl.desc + 1].path \in Seq(STRING)
    BY <1>2, DescTypes
  <1> QED
    BY <1>1, <1>3 DEF NextDesc, Reachable, Walking

LEMMA NextDescTypes ==
  ASSUME Types, NextDesc
  PROVE  Types'
  <1> DEFINE d == ctl.desc + 1
             todo == Reachable(ctl.descs[ctl.desc + 1].path)
  <1>1. todo \in Seq(Tags)
    BY NextDescIs, ReachableTags
  <1>2. d \in Nat /\ d <= Len(ctl.descs)
    <2>1. ctl.desc \in Nat /\ Len(ctl.descs) \in Nat
      BY SessionFields
    <2>2. ctl.desc < Len(ctl.descs)
      BY NextDescIs
    <2> QED
      BY <2>1, <2>2
  <1>3. ctl' = [ctl EXCEPT !.desc = d, !.todo = todo] /\ ctl.on /\ ctl \in Sessions
    BY NextDescIs, SessionFields
  <1> HIDE DEF d, todo
  <1>4. ctl' \in Sessions
    BY <1>1, <1>2, <1>3 DEF Sessions
  <1>5. ctl'.desc <= Len(ctl'.descs) /\ ctl'.on
    BY <1>2, <1>3 DEF Sessions
  <1>6. UNCHANGED <<mem, thread, writes, stat>>
    BY NextDescIs
  <1> QED
    BY <1>4, <1>5, <1>6, SessionTypes

LEMMA RestOfRun ==
  ASSUME NEW first \in Nat, NEW n \in Nat
  PROVE  /\ Run(first, n) = <<>> <=> n = 0
         /\ n > 0 => Head(Run(first, n)) = first /\ Tail(Run(first, n)) = Run(first + 1, n - 1)
  <1>1. Run(first, n) \in Seq(Nat) /\ Len(Run(first, n)) = n
    BY RunType
  <1>2. Run(first, n) = <<>> <=> n = 0
    BY <1>1
  <1>3. ASSUME n > 0
        PROVE  Head(Run(first, n)) = first /\ Tail(Run(first, n)) = Run(first + 1, n - 1)
    <2>1. Head(Run(first, n)) = first
      <3>1. Run(first, n)[1] = first
        BY <1>3 DEF Run
      <3> QED
        BY <1>1, <1>3, <3>1
    <2> DEFINE r == Tail(Run(first, n))
               s == Run(first + 1, n - 1)
    <2>2. s \in Seq(Nat) /\ Len(s) = n - 1
      <3>1. first + 1 \in Nat /\ n - 1 \in Nat
        BY <1>3
      <3> QED
        BY <3>1, RunType
    <2>3. /\ r \in Seq(Nat) /\ Len(r) = n - 1
          /\ \A i \in 1 .. n - 1 : r[i] = Run(first, n)[i + 1]
      BY <1>1, <1>3
    <2>4. \A i \in 1 .. n - 1 : Run(first, n)[i + 1] = s[i]
      BY <1>3 DEF Run
    <2> HIDE DEF r, s
    <2>5. r = s
      BY <2>2, <2>3, <2>4, SameSequence
    <2> QED
      BY <2>1, <2>5 DEF r, s
  <1> QED
    BY <1>2, <1>3

\* The cell that a command looks at next.
LEMMA NextCell ==
  ASSUME Types, Visiting, ctl.cells # <<>>
  PROVE  LET t == Head(ctl.todo) IN
         /\ ctl.on /\ ctl.visiting /\ ctl.todo # <<>> /\ t \in StatLeaves /\ t \in StatScope
         /\ shared_ptr(t) \in Nat /\ NumCells(dims[t]) \in Nat
         /\ ctl.cmd \in {"DUMP_STAT", "CLEAR_STAT"}
         /\ \E k \in 0 .. NumCells(dims[t]) - 1 :
              /\ Walked(t, k) /\ Head(ctl.cells) = shared_ptr(t) + k
              /\ Tail(ctl.cells) = Run(shared_ptr(t) + (k + 1), NumCells(dims[t]) - (k + 1))
         /\ Head(ctl.cells) \in StatCells(t)
         /\ Tail(ctl.cells) \in Seq(Nat)
  <1> DEFINE t == Head(ctl.todo)
             n == NumCells(dims[t])
             first == shared_ptr(t)
  <1>1. ctl.visiting /\ ctl.todo # <<>> /\ t \in StatScope
    BY DEF Visiting, At
  <1>2. t \in StatLeaves /\ ctl.cmd \in {"DUMP_STAT", "CLEAR_STAT"}
    BY <1>1 DEF Visiting, At, TouchesCells
  <1>3. PICK k \in 0 .. n : Walked(t, k)
    BY <1>1, <1>2 DEF Visiting, At, TouchesCells
  <1>4. n \in Nat /\ first \in Nat
    BY <1>2, SizeOfLeaf, CellsOfTags
  <1>5. ctl.on
    BY <1>1 DEF Types, NoSession
  <1>6. ctl.cells = Run(first + k, n - k)
    BY <1>3 DEF Walked
  <1>7. Tail(ctl.cells) \in Seq(Nat)
    BY SessionFields
  <1>8. StatCells(t) = first .. first + n - 1
    BY DEF StatCells
  <1> HIDE DEF t, n, first
  <1>9. n - k > 0 /\ Head(ctl.cells) = first + k /\ Tail(ctl.cells) = Run(first + (k + 1), n - (k + 1))
    <2> DEFINE a == first + k
               b == n - k
    <2>1. a \in Nat /\ b \in Nat /\ a + 1 = first + (k + 1) /\ b - 1 = n - (k + 1)
          /\ ctl.cells = Run(a, b)
      BY <1>4, <1>6
    <2> HIDE DEF a, b
    <2>2. b > 0 /\ Head(Run(a, b)) = a /\ Tail(Run(a, b)) = Run(a + 1, b - 1)
      BY <2>1, RestOfRun
    <2> QED
      BY <2>1, <2>2 DEF a, b
  <1>10. k \in 0 .. n - 1 /\ first + k \in StatCells(t)
    BY <1>4, <1>8, <1>9
  <1> QED
    BY <1>1, <1>2, <1>3, <1>4, <1>5, <1>7, <1>9, <1>10 DEF t, n, first

\* The tag that a command is at or comes to next.
LEMMA NextTag ==
  ASSUME Types, ctl.todo # <<>>
  PROVE  /\ Head(ctl.todo) \in Tags /\ Tail(ctl.todo) \in Seq(Tags)
  <1>1. ctl.todo \in Seq(Tags)
    BY SessionFields
  <1> QED
    BY <1>1

LEMMA VisitStatTypes ==
  ASSUME Types, VisitStat
  PROVE  Types'
  <1> DEFINE t == Head(ctl.todo)
             cells == IF t \in StatLeaves /\ ctl.cmd \in {"DUMP_STAT", "CLEAR_STAT"}
                      THEN StatCommand(t).cells ELSE <<>>
             sizes == IF t \in StatLeaves THEN StatCommand(t).dimensionSizes ELSE <<>>
  <1>1. cells \in Seq(Nat)
    <2>1. <<>> \in Seq(Nat)
      BY EmptySequences
    <2>2. ASSUME t \in StatLeaves
          PROVE  StatCommand(t).cells \in Seq(Nat)
      <3>1. StatCommand(t).cells = Run(shared_ptr(t), NumCells(dims[t]))
        BY <2>2, StatCommandWalks
      <3>2. shared_ptr(t) \in Nat /\ NumCells(dims[t]) \in Nat
        BY <2>2, SizeOfLeaf, CellsOfTags
      <3> QED
        BY <3>1, <3>2, RunType
    <2> QED
      BY <2>1, <2>2
  <1>2. sizes \in Seq(Nat)
    <2>1. <<>> \in Seq(Nat)
      BY EmptySequences
    <2>2. ASSUME t \in StatLeaves
          PROVE  StatCommand(t).dimensionSizes \in Seq(Nat)
      <3>1. StatCommand(t).dimensionSizes = dims[t] /\ dims[t] \in Seq(Nat \ {0})
        BY <2>2, StatCommandWalks, SizeOfLeaf
      <3> QED
        BY <3>1
    <2> QED
      BY <2>1, <2>2
  <1>3. /\ ctl' = [ctl EXCEPT !.visiting = TRUE, !.cells = cells, !.dimensionSizes = sizes,
                              !.entries = <<>>]
        /\ ctl.on /\ UNCHANGED <<mem, thread, writes, stat>>
    BY DEF VisitStat, Walking
  <1> HIDE DEF cells, sizes
  <1>4. ctl' \in Sessions
    <2>1. <<>> \in Seq(Nat)
      BY EmptySequences
    <2> QED
      BY <1>1, <1>2, <1>3, <2>1, SessionFields DEF Sessions
  <1>5. ctl'.desc <= Len(ctl'.descs) /\ ctl'.on
    BY <1>3, SessionFields DEF Sessions
  <1> QED
    BY <1>3, <1>4, <1>5, SessionTypes

LEMMA DumpCellTypes ==
  ASSUME Types, Visiting, DumpCell
  PROVE  Types'
  <1> DEFINE value == mem[Head(ctl.cells)]
             cells == Tail(ctl.cells)
             entries == Append(ctl.entries, value)
  <1>1. ctl.cells # <<>>
    BY DEF DumpCell
  <1>2. value \in Nat /\ cells \in Seq(Nat) /\ ctl.on
    <2>1. Head(ctl.cells) \in Cells
      BY <1>1, NextCell, CellsApart
    <2> QED
      BY <1>1, <2>1, NextCell DEF Types
  <1>3. ctl' = [ctl EXCEPT !.cells = cells, !.entries = entries]
        /\ UNCHANGED <<mem, thread, writes, stat>>
    BY DEF DumpCell
  <1> HIDE DEF value, cells
  <1>4. entries \in Seq(Nat)
    BY <1>2, SessionFields
  <1> HIDE DEF entries
  <1>5. ctl' \in Sessions
    BY <1>2, <1>3, <1>4, SessionFields DEF Sessions
  <1>6. ctl'.desc <= Len(ctl'.descs) /\ ctl'.on
    BY <1>2, <1>3, SessionFields DEF Sessions
  <1> QED
    BY <1>3, <1>5, <1>6, SessionTypes

LEMMA ClearCellTypes ==
  ASSUME Types, Visiting, ClearCell
  PROVE  Types'
  <1> DEFINE cell == Head(ctl.cells)
             cells == Tail(ctl.cells)
             swept == ctl.swept \cup {cell}
  <1>1. ctl.cells # <<>>
    BY DEF ClearCell
  <1>2. cell \in Cells /\ cell \notin AllLevelCells /\ cells \in Seq(Nat) /\ ctl.on
    <2>1. cell \in Cells /\ cell \notin AllLevelCells
      BY <1>1, NextCell, ItemOfCell
    <2> QED
      BY <1>1, <2>1, NextCell
  <1>3. /\ ctl' = [ctl EXCEPT !.cells = cells, !.swept = swept]
        /\ mem' = [mem EXCEPT ![cell] = 0]
        /\ stat' = [item \in Items |->
                IF ItemCell(item) = cell
                THEN [stat[item] EXCEPT !.count = 0, !.raced = Incrementing(item) # {}]
                ELSE stat[item]]
        /\ UNCHANGED <<thread, writes>>
    BY DEF ClearCell
  <1>4. swept \in SUBSET Cells
    BY <1>2, SessionFields
  <1> HIDE DEF cell, cells, swept
  <1>5. ctl' \in Sessions
    BY <1>2, <1>3, <1>4, SessionFields DEF Sessions
  <1>6. ctl'.desc <= Len(ctl'.descs) /\ ctl'.on
    BY <1>2, <1>3, SessionFields DEF Sessions
  <1>7. /\ mem' \in [Cells -> Nat]
        /\ \A c \in Cells : mem'[c] \in IF c \in AllLevelCells THEN Levels ELSE 0 .. Modulus - 1
    <2>1. 0 \in Nat /\ 0 < Modulus
      BY SessionAssumption
    <2> QED
      BY <1>2, <1>3, <2>1, StoreTypes
  <1>8. stat' \in [Items -> ItemStates]
    <2>1. ASSUME NEW item \in Items
          PROVE  [stat[item] EXCEPT !.count = 0, !.raced = Incrementing(item) # {}] \in ItemStates
      <3> DEFINE r == Incrementing(item) # {}
                 s == [stat[item] EXCEPT !.count = 0]
      <3>1. stat[item] \in ItemStates /\ r \in BOOLEAN
        BY DEF Types
      <3> HIDE DEF r
      <3>2. s \in ItemStates
        BY <3>1, ItemStateTypes
      <3> HIDE DEF s
      <3>3. [s EXCEPT !.raced = r] \in ItemStates
        BY <3>1, <3>2, ItemStateTypes
      <3> QED
        BY <3>3 DEF r, s
    <2> QED
      BY <1>3, <2>1 DEF Types
  <1>9. UNCHANGED <<thread, writes>>
    BY <1>3
  <1> QED
    BY <1>5, <1>6, <1>7, <1>8, <1>9 DEF Types, AllLevelCells

\* What addStatOutput adds to the report.
StatOutput ==
  [tag |-> Head(ctl.todo), array_indices |-> ctl.descs[ctl.desc].array_indices,
   entries |-> ctl.entries, dimensionSizes |-> ctl.dimensionSizes]

LEMMA StatOutputIs ==
  ASSUME Types, Tagged, Visiting, addStatOutput
  PROVE  /\ ctl.on /\ ctl.visiting /\ ctl.cells = <<>> /\ ctl.todo # <<>>
         /\ Head(ctl.todo) \in StatScope /\ StatOutput \in StatElems
         /\ ctl'.stat_tags_vector \in Seq(StatElems)
         /\ Replaced(ctl'.stat_tags_vector, ctl.stat_tags_vector, StatOutput)
         /\ ctl' = [ctl EXCEPT
              !.visiting = FALSE, !.todo = Tail(ctl.todo), !.entries = <<>>,
              !.dimensionSizes = <<>>, !.stat_tags_vector = ctl'.stat_tags_vector]
         /\ UNCHANGED <<mem, thread, writes, stat>>
  <1> DEFINE v == Append(removeTag(ctl.stat_tags_vector, Head(ctl.todo)), StatOutput)
  <1>1. /\ ctl.visiting /\ ctl.cells = <<>>
        /\ ctl' = [ctl EXCEPT
              !.visiting = FALSE, !.todo = Tail(ctl.todo), !.entries = <<>>,
              !.dimensionSizes = <<>>, !.stat_tags_vector = v]
        /\ UNCHANGED <<mem, thread, writes, stat>>
    BY DEF addStatOutput, StatOutput
  <1>2. ctl.todo # <<>> /\ Head(ctl.todo) \in StatScope /\ ctl.on
    BY <1>1 DEF Visiting, At, Types, NoSession
  <1>3. StatOutput \in StatElems
    <2>1. Head(ctl.todo) \in StatTags
      BY <1>2 DEF StatScope
    <2>2. ctl.descs[ctl.desc] \in AllDescs
      <3>1. ctl.desc > 0
        BY <1>2 DEF Tagged
      <3>2. ctl.desc \in 1 .. Len(ctl.descs) /\ ctl.descs \in Seq(AllDescs)
        BY <3>1, SessionFields
      <3> QED
        BY <3>2, ElementType
    <2>3. ctl.descs[ctl.desc].array_indices \in {desc.array_indices : desc \in AllDescs}
      BY <2>2
    <2> QED
      BY <2>1, <2>3, SessionFields DEF StatOutput, StatElems
  <1>4. StatOutput.tag = Head(ctl.todo)
    BY DEF StatOutput
  <1>5. ctl.stat_tags_vector \in Seq(StatElems) /\ ctl \in Sessions
    BY SessionFields
  <1>6. v \in Seq(StatElems) /\ Replaced(v, ctl.stat_tags_vector, StatOutput)
    BY <1>3, <1>4, <1>5, OutputReplaces, ZenonT(40)
  <1> HIDE DEF v
  <1>7. ctl'.stat_tags_vector = v
    BY <1>1, <1>5 DEF Sessions
  <1> QED
    BY <1>1, <1>2, <1>3, <1>6, <1>7

LEMMA StatOutputTypes ==
  ASSUME Types, Tagged, Visiting, addStatOutput
  PROVE  Types'
  <1> DEFINE todo == Tail(ctl.todo)
             v == ctl'.stat_tags_vector
  <1>1. todo \in Seq(Tags) /\ v \in Seq(StatElems) /\ <<>> \in Seq(Nat)
    BY StatOutputIs, NextTag, EmptySequences
  <1>2. /\ ctl' = [ctl EXCEPT
            !.visiting = FALSE, !.todo = todo, !.entries = <<>>,
            !.dimensionSizes = <<>>, !.stat_tags_vector = v]
        /\ ctl.on /\ UNCHANGED <<mem, thread, writes, stat>>
    BY StatOutputIs
  <1> HIDE DEF todo, v
  <1>3. ctl' \in Sessions
    BY <1>1, <1>2, SessionFields DEF Sessions
  <1>4. ctl'.desc <= Len(ctl'.descs) /\ ctl'.on
    BY <1>2, SessionFields DEF Sessions
  <1> QED
    BY <1>2, <1>3, <1>4, SessionTypes

\* What ShowLogTag and LogLevel do to the session.
LogOutputStep(output, swept) ==
  /\ ctl'.log_tags_vector \in Seq(LogElems)
  /\ Replaced(ctl'.log_tags_vector, ctl.log_tags_vector, [tag |-> Head(ctl.todo), output |-> output])
  /\ ctl' = [ctl EXCEPT !.todo = Tail(ctl.todo), !.log_tags_vector = ctl'.log_tags_vector,
                        !.swept = swept]

LEMMA LogOutputs ==
  ASSUME Types, ctl.todo # <<>>, Head(ctl.todo) \in LogTags,
         NEW previous \in Levels, NEW now \in Levels, NEW swept \in SUBSET Cells,
         ctl' = [addLogOutput(Head(ctl.todo), [previous |-> previous, now |-> now])
                   EXCEPT !.swept = swept]
  PROVE  /\ LogOutputStep([previous |-> previous, now |-> now], swept)
         /\ ctl' \in Sessions /\ ctl'.desc <= Len(ctl'.descs)
  <1> DEFINE output == [previous |-> previous, now |-> now]
             e == [tag |-> Head(ctl.todo), output |-> output]
             v == Append(removeTag(ctl.log_tags_vector, Head(ctl.todo)), e)
             todo == Tail(ctl.todo)
  <1>1. e \in LogElems /\ e.tag = Head(ctl.todo)
    BY DEF LogElems
  <1>2. ctl' = [ctl EXCEPT !.todo = todo, !.log_tags_vector = v, !.swept = swept]
    BY DEF addLogOutput
  <1>3. todo \in Seq(Tags)
    BY NextTag
  <1> HIDE DEF e, todo
  <1>4. v \in Seq(LogElems) /\ Replaced(v, ctl.log_tags_vector, e)
    BY <1>1, OutputReplaces, SessionFields
  <1> HIDE DEF v
  <1>5. ctl' \in Sessions
    BY <1>2, <1>3, <1>4, SessionFields DEF Sessions
  <1>6. ctl'.desc <= Len(ctl'.descs) /\ ctl'.log_tags_vector = v
    BY <1>2, SessionFields DEF Sessions
  <1> QED
    BY <1>2, <1>4, <1>5, <1>6 DEF LogOutputStep, e, todo

LEMMA ShowLogTagIs ==
  ASSUME Types, ShowLogTag
  PROVE  /\ LogOutputStep(NoLogOutput, ctl.swept) /\ ctl.todo # <<>> /\ Head(ctl.todo) \in LogTags
         /\ ctl.on /\ ~ctl.visiting /\ ctl.cmd = "PRINT_TAG"
         /\ UNCHANGED <<mem, thread, writes, stat>> /\ Types'
  <1>1. /\ ctl.todo # <<>> /\ Head(ctl.todo) \in LogTags /\ ctl.cmd = "PRINT_TAG"
        /\ ctl.on /\ ~ctl.visiting
        /\ UNCHANGED <<mem, thread, writes, stat>>
        /\ ctl' = addLogOutput(Head(ctl.todo), NoLogOutput)
    BY DEF ShowLogTag, Walking
  <1>2. NoLogOutput = [previous |-> INFO, now |-> INFO] /\ INFO \in Levels
    BY LevelsAre DEF NoLogOutput, INFO
  <1>3. ctl' = [addLogOutput(Head(ctl.todo), NoLogOutput) EXCEPT !.swept = ctl.swept]
    BY <1>1, SessionFields DEF addLogOutput, Sessions
  <1>4. /\ LogOutputStep(NoLogOutput, ctl.swept)
        /\ ctl' \in Sessions /\ ctl'.desc <= Len(ctl'.descs)
    BY <1>1, <1>2, <1>3, LogOutputs, SessionFields
  <1>5. ctl'.on
    BY <1>1, <1>4 DEF LogOutputStep, Sessions
  <1> QED
    BY <1>1, <1>4, <1>5, SessionTypes

\* What LogLevel does: the level that is stored, and the cell it is stored to.
LevelStep(cell, new) ==
  /\ cell = LevelCell(Head(ctl.todo), ctl.level.logger_idx)
  /\ new = (IF ctl.level.set_log_level
            THEN NewLevel(ctl.level.new_log_level, mem[cell]) ELSE mem[cell])
  /\ ctl.on /\ ~ctl.visiting /\ ctl.todo # <<>> /\ ctl.cmd = "LOG_LEVEL"
  /\ ctl.level.logger_idx < numLoggers
  /\ mem' = [mem EXCEPT ![cell] = new]
  /\ LogOutputStep([previous |-> mem[cell], now |-> new],
       IF ctl.level.set_log_level THEN ctl.swept \cup {cell} ELSE ctl.swept)
  /\ UNCHANGED <<thread, writes, stat>>

LEMMA LogLevelIs ==
  ASSUME Types, Tagged, LogLevel
  PROVE  /\ \E cell \in Cells, new \in Levels : LevelStep(cell, new) /\ cell \in AllLevelCells
         /\ Head(ctl.todo) \in LogTags /\ Types'
  <1> DEFINE cell == LevelCell(Head(ctl.todo), ctl.level.logger_idx)
             new == IF ctl.level.set_log_level
                    THEN NewLevel(ctl.level.new_log_level, mem[cell]) ELSE mem[cell]
             swept == IF ctl.level.set_log_level THEN ctl.swept \cup {cell} ELSE ctl.swept
  <1>1. /\ ctl.on /\ ~ctl.visiting /\ ctl.todo # <<>> /\ ctl.cmd = "LOG_LEVEL"
        /\ ctl.level.logger_idx < numLoggers
        /\ mem' = [mem EXCEPT ![cell] = new]
        /\ UNCHANGED <<thread, writes, stat>>
        /\ ctl' = [addLogOutput(Head(ctl.todo), [previous |-> mem[cell], now |-> new])
                     EXCEPT !.swept = swept]
    BY SessionFields DEF LogLevel, Walking, addLogOutput, Sessions
  <1>2. Head(ctl.todo) \in LogTags
    <2>1. Head(ctl.todo) \in ToSet(ctl.todo)
      <3>1. ctl.todo \in Seq(Tags) /\ ctl.todo # <<>>
        BY <1>1, SessionFields
      <3> QED
        BY <3>1 DEF ToSet
    <2> QED
      BY <1>1, <2>1 DEF Tagged, StatScope, LogScope, isStatisticCommand, isLogCommand
  <1>3. cell \in Cells /\ cell \in AllLevelCells
    BY <1>1, <1>2, LevelCells, SessionFields
  <1>4. mem[cell] \in Levels
    BY <1>3 DEF Types
  <1>5. swept \in SUBSET Cells
    BY <1>3, SessionFields
  <1> HIDE DEF cell, swept
  <1>6. new \in Levels
    BY <1>4, NewLevelType
  <1> HIDE DEF new
  <1>7. /\ LogOutputStep([previous |-> mem[cell], now |-> new], swept)
        /\ ctl' \in Sessions /\ ctl'.desc <= Len(ctl'.descs)
    BY <1>1, <1>2, <1>4, <1>5, <1>6, LogOutputs
  <1>8. LevelStep(cell, new)
    BY <1>1, <1>7 DEF LevelStep, new, cell, swept
  <1>9. /\ mem' \in [Cells -> Nat]
        /\ \A c \in Cells : mem'[c] \in IF c \in AllLevelCells THEN Levels ELSE 0 .. Modulus - 1
    <2>1. new \in Nat
      BY <1>6, LevelsAre
    <2> QED
      BY <1>1, <1>3, <1>6, <2>1, StoreTypes
  <1>10. ctl'.on
    BY <1>1, <1>7 DEF LogOutputStep, Sessions
  <1>11. UNCHANGED <<thread, writes, stat>>
    BY <1>1
  <1>12. Types'
    BY <1>7, <1>9, <1>10, <1>11 DEF Types, AllLevelCells
  <1> QED
    BY <1>2, <1>3, <1>6, <1>8, <1>12

LEMMA EndTypes ==
  ASSUME Types, InvalidLogIndex \/ showOutput
  PROVE  Types' /\ ctl' = NoSession /\ UNCHANGED <<mem, thread, writes, stat>>
  <1>1. ctl' = NoSession /\ UNCHANGED <<mem, thread, writes, stat>>
    BY DEF InvalidLogIndex, showOutput
  <1> QED
    BY <1>1, NoSessionType DEF Types, AllLevelCells

----------------------------------------------------------------------------
(* Numbers *)

\* What a number and its history are.
LEMMA NumberTypes ==
  ASSUME Types, NEW item \in Items
  PROVE  /\ mem[ItemCell(item)] \in Nat /\ mem[ItemCell(item)] < Modulus
         /\ stat[item] \in ItemStates
         /\ stat[item].begun \in Nat /\ stat[item].count \in Nat
         /\ stat[item].raced \in BOOLEAN
  <1>1. stat[item] \in ItemStates
    BY DEF Types
  <1>2. mem[ItemCell(item)] \in 0 .. Modulus - 1
    BY ItemFacts DEF Types
  <1>3. Modulus \in Nat
    BY SessionAssumption
  <1>4. mem[ItemCell(item)] \in Nat /\ mem[ItemCell(item)] < Modulus
    BY <1>2, <1>3
  <1> QED
    BY <1>1, <1>4 DEF ItemStates

\* A step that does not touch a number, its history or the threads that are adding
\* to it.
LEMMA NumberUntouched ==
  ASSUME NEW item \in Items,
         mem'[ItemCell(item)] = mem[ItemCell(item)], stat'[item] = stat[item],
         \A h \in Incrementing(item)' : h \in Incrementing(item) /\ thread'[h].read = thread[h].read
  PROVE  /\ Counted(item) => Counted(item)'
         /\ Bounded(item) => Bounded(item)'
  BY DEF Counted, Bounded, ItemCell

\* The threads that are adding to a number, after a step of a thread g.
LEMMA AddingTo ==
  ASSUME NEW g \in Threads, NEW item \in Items, \A h \in Threads \ {g} : thread'[h] = thread[h]
  PROVE  /\ \A h \in Incrementing(item)' : h # g =>
              h \in Incrementing(item) /\ thread'[h].read = thread[h].read
         /\ g \in Incrementing(item)' => thread'[g].loaded /\ Head(thread'[g].todo) = item
         /\ \A h \in Incrementing(item) : h # g => h \in Incrementing(item)'
  BY DEF Incrementing

LEMMA ThreadNumbers ==
  ASSUME Types, Numbers, NEW g \in Threads, Write(g)
  PROVE  Numbers'
  <1>1. Modulus \in Nat \ {0} /\ 0 < Modulus /\ thread \in [Threads -> ThreadStates]
        /\ stat \in [Items -> ItemStates] /\ mem \in [Cells -> Nat]
    BY SessionAssumption DEF Types
  <1>2. \A item \in Items : (item[1] \in Counters => Counted(item)) /\ Bounded(item)
    BY DEF Numbers
  <1>3. ASSUME \A item \in Items : (Counted(item) => Counted(item)') /\ (Bounded(item) => Bounded(item)')
        PROVE  Numbers'
    BY <1>2, <1>3 DEF Numbers
  <1>4. CASE writeStat(g) \/ writeBitStatus(g)
    <2>1. PICK todo : /\ thread' = [thread EXCEPT ![g].todo = todo]
                      /\ thread[g].todo = <<>> /\ UNCHANGED <<mem, ctl, stat>>
      BY <1>4 DEF writeStat, writeBitStatus
    <2>2. ~thread'[g].loaded
      BY <1>1, <2>1 DEF Types, ThreadStates
    <2>3. \A h \in Threads \ {g} : thread'[h] = thread[h]
      BY <1>1, <2>1
    <2>4. ASSUME NEW item \in Items
          PROVE  (Counted(item) => Counted(item)') /\ (Bounded(item) => Bounded(item)')
      <3>1. \A h \in Incrementing(item)' :
              h \in Incrementing(item) /\ thread'[h].read = thread[h].read
        BY <2>2, <2>3, AddingTo
      <3> QED
        BY <2>1, <3>1, NumberUntouched
    <2> QED
      BY <1>3, <2>4
  <1>5. CASE Load(g)
    <2>2. PICK item \in Items : item = Head(thread[g].todo)
      BY <1>5, HeadItem DEF Load
    <2>1. /\ item[1] \in Counters /\ thread[g].todo # <<>> /\ ~thread[g].loaded
          /\ thread' = [thread EXCEPT ![g].loaded = TRUE, ![g].read = mem[ItemCell(item)]]
          /\ stat' = [stat EXCEPT ![item].begun = @ + 1,
                                 ![item].raced = @ \/ Incrementing(item) # {}]
          /\ UNCHANGED <<mem, ctl, writes>>
      BY <1>5, <2>2 DEF Load
    <2>3. /\ \A h \in Threads \ {g} : thread'[h] = thread[h]
          /\ thread'[g].read = mem[ItemCell(item)] /\ Head(thread'[g].todo) = item
      BY <1>1, <2>1, <2>2 DEF ThreadStates
    <2>4. /\ \A jtem \in Items : jtem # item => stat'[jtem] = stat[jtem]
          /\ stat'[item].begun = stat[item].begun + 1 /\ stat'[item].count = stat[item].count
          /\ ~stat'[item].raced => ~stat[item].raced /\ Incrementing(item) = {}
      <3> DEFINE r == stat[item].raced \/ Incrementing(item) # {}
      <3>1. stat' = [stat EXCEPT ![item].begun = stat[item].begun + 1, ![item].raced = r]
        BY <1>1, <2>1, <2>2 DEF ItemStates
      <3> HIDE DEF r
      <3>2. stat'[item].raced = r /\ stat'[item].begun = stat[item].begun + 1
            /\ stat'[item].count = stat[item].count
        BY <1>1, <2>2, <3>1 DEF ItemStates
      <3>3. \A jtem \in Items : jtem # item => stat'[jtem] = stat[jtem]
        BY <1>1, <3>1
      <3> QED
        BY <3>2, <3>3 DEF r
    <2>5. ASSUME NEW jtem \in Items, jtem # item
          PROVE  (Counted(jtem) => Counted(jtem)') /\ (Bounded(jtem) => Bounded(jtem)')
      <3>1. \A h \in Incrementing(jtem)' :
              h \in Incrementing(jtem) /\ thread'[h].read = thread[h].read
        BY <2>3, <2>5, AddingTo
      <3> QED
        BY <2>1, <2>4, <2>5, <3>1, NumberUntouched
    <2>6. mem'[ItemCell(item)] = mem[ItemCell(item)]
      BY <2>1
    <2>7. \A h \in Incrementing(item)' : \/ h = g /\ thread'[h].read = mem[ItemCell(item)]
                                         \/ h \in Incrementing(item) /\ thread'[h].read = thread[h].read
      BY <2>2, <2>3, AddingTo
    <2>8. Counted(item) => Counted(item)'
      BY <2>4, <2>6, <2>7 DEF Counted, ItemCell
    <2>9. Bounded(item) => Bounded(item)'
      <3>1. mem[ItemCell(item)] \in Nat /\ stat[item].begun \in Nat
        BY <2>2, NumberTypes
      <3>2. \A h \in Incrementing(item) : thread[h].read \in Int
        BY <1>1 DEF ThreadStates, Incrementing
      <3> QED
        BY <2>4, <2>6, <2>7, <3>1, <3>2 DEF Bounded, ItemCell
    <2> QED
      BY <1>3, <2>5, <2>8, <2>9
  <1>6. CASE Store(g)
    <2> DEFINE value == (thread[g].read + 1) % Modulus
    <2>2. PICK item \in Items : item = Head(thread[g].todo)
      <3>1. thread[g].todo # <<>>
        BY <1>6 DEF Types, Store
      <3> QED
        BY <3>1, HeadItem
    <2>0. thread[g].read \in Nat
      BY <1>1 DEF ThreadStates
    <2>1. /\ thread[g].loaded
          /\ mem' = [mem EXCEPT ![ItemCell(item)] = value]
          /\ thread' = [thread EXCEPT ![g] = [IdleThread EXCEPT !.todo = Tail(thread[g].todo)]]
          /\ stat' = [stat EXCEPT ![item].count = @ + 1]
          /\ UNCHANGED <<ctl, writes>>
      BY <1>6, <2>2 DEF Store
    <2>3. /\ \A h \in Threads \ {g} : thread'[h] = thread[h]
          /\ ~thread'[g].loaded
      BY <1>1, <2>1 DEF IdleThread
    <2>4. value \in Nat /\ value <= thread[g].read + 1
      <3>1. thread[g].read + 1 \in Nat
        BY <2>0
      <3> DEFINE a == thread[g].read + 1
      <3> HIDE DEF a
      <3>2. a \in Nat
        BY <3>1 DEF a
      <3>3. a = Modulus * (a \div Modulus) + (a % Modulus) /\ a % Modulus \in 0 .. Modulus - 1
        BY <1>1, <3>2, DivMod
      <3>4. Modulus * (a \div Modulus) \in Nat
        <4>1. a \div Modulus \in Nat
          BY <1>1, <3>2, DivType
        <4> QED
          BY <1>1, <4>1, TimesMonotone
      <3> QED
        BY <1>1, <3>2, <3>3, <3>4 DEF a
    <2>5. g \in Incrementing(item)
      BY <2>1, <2>2 DEF Incrementing
    <2>6. /\ \A jtem \in Items : jtem # item => stat'[jtem] = stat[jtem]
          /\ stat'[item].begun = stat[item].begun /\ stat'[item].count = stat[item].count + 1
          /\ stat'[item].raced = stat[item].raced
      BY <1>1, <2>1, <2>2 DEF ItemStates
    <2>7. ItemCell(item) \in Cells /\ mem'[ItemCell(item)] = value
      BY <1>1, <2>1, <2>2, ItemFacts
    <2>8. ASSUME NEW jtem \in Items, jtem # item
          PROVE  (Counted(jtem) => Counted(jtem)') /\ (Bounded(jtem) => Bounded(jtem)')
      <3>1. \A h \in Incrementing(jtem)' :
              h \in Incrementing(jtem) /\ thread'[h].read = thread[h].read
        BY <2>3, AddingTo
      <3>2. ItemCell(jtem) # ItemCell(item) /\ ItemCell(jtem) \in Cells
        BY <2>2, <2>8, ItemsApart, ItemFacts
      <3>3. mem'[ItemCell(jtem)] = mem[ItemCell(jtem)]
        BY <1>1, <2>1, <3>2
      <3> QED
        BY <2>6, <2>8, <3>1, <3>3, NumberUntouched
    <2>9. \A h \in Incrementing(item)' :
            h # g /\ h \in Incrementing(item) /\ thread'[h].read = thread[h].read
      BY <2>2, <2>3, AddingTo
    <2>10. ASSUME Counted(item)
           PROVE  Counted(item)'
      <3>1. SUFFICES ASSUME ~stat[item].raced
                     PROVE  /\ mem'[ItemCell(item)] = stat'[item].count % Modulus
                            /\ Incrementing(item)' = {}
        BY <2>6 DEF Counted, ItemCell
      <3>2. /\ mem[ItemCell(item)] = stat[item].count % Modulus
            /\ \A h \in Incrementing(item) : h = g
            /\ thread[g].read = mem[ItemCell(item)]
        BY <2>5, <2>10, <3>1 DEF Counted
      <3>3. Incrementing(item)' = {}
        BY <2>9, <3>2
      <3>4. stat[item].count \in Nat
        BY <2>2, NumberTypes
      <3>5. value = (stat[item].count + 1) % Modulus
        <4>1. ((stat[item].count % Modulus) + 1) % Modulus = (stat[item].count + 1) % Modulus
          BY <1>1, <3>4, ModSuccessor
        <4> QED
          BY <3>2, <4>1
      <3> QED
        BY <2>6, <2>7, <3>3, <3>5
    <2> HIDE DEF value
    <2>11. Bounded(item) => Bounded(item)'
      <3>1. stat[item].begun \in Nat
        BY <2>2, NumberTypes
      <3>2. ASSUME Bounded(item)
            PROVE  Bounded(item)'
        <4>1. thread[g].read + 1 <= stat[item].begun
          BY <2>5, <3>2 DEF Bounded
        <4>2. value <= stat[item].begun
          BY <2>0, <2>4, <3>1, <4>1
        <4>3. mem'[ItemCell(item)] <= stat'[item].begun
          BY <2>6, <2>7, <4>2
        <4>4. ASSUME NEW h \in Incrementing(item)'
              PROVE  thread'[h].read + 1 <= stat'[item].begun
          <5>1. thread[h].read + 1 <= stat[item].begun
            BY <2>9, <3>2 DEF Bounded
          <5> QED
            BY <2>6, <2>9, <5>1
        <4> QED
          BY <4>3, <4>4 DEF Bounded, ItemCell
      <3> QED
        BY <3>2
    <2> QED
      BY <1>3, <2>8, <2>10, <2>11
  <1>7. CASE Assign(g)
    <2>2. PICK item \in Items : item = Head(thread[g].todo)
      BY <1>7, HeadItem DEF Assign
    <2>1. /\ thread[g].todo # <<>> /\ item[1] \notin Counters
          /\ mem' = [mem EXCEPT ![ItemCell(item)] = 1]
          /\ thread' = [thread EXCEPT ![g].todo = Tail(@)]
          /\ stat' = [stat EXCEPT ![item].begun = @ + 1, ![item].count = @ + 1]
          /\ UNCHANGED <<ctl, writes>>
      BY <1>7, <2>2 DEF Assign
    <2>3. ~thread'[g].loaded /\ \A h \in Threads \ {g} : thread'[h] = thread[h]
      BY <1>1, <2>1, <2>2 DEF Types, ThreadStates
    <2>4. ItemCell(item) \in Cells /\ mem'[ItemCell(item)] = 1
      BY <1>1, <2>1, <2>2, ItemFacts
    <2>5. /\ \A jtem \in Items : jtem # item => stat'[jtem] = stat[jtem]
          /\ stat'[item].begun = stat[item].begun + 1
      BY <1>1, <2>1, <2>2 DEF ItemStates
    <2>6. \A jtem \in Items : \A h \in Incrementing(jtem)' :
            h \in Incrementing(jtem) /\ thread'[h].read = thread[h].read
      BY <2>3, AddingTo
    <2>7. ASSUME NEW jtem \in Items, jtem # item
          PROVE  (Counted(jtem) => Counted(jtem)') /\ (Bounded(jtem) => Bounded(jtem)')
      <3>2. ItemCell(jtem) # ItemCell(item) /\ ItemCell(jtem) \in Cells
        BY <2>2, <2>7, ItemsApart, ItemFacts
      <3>3. mem'[ItemCell(jtem)] = mem[ItemCell(jtem)]
        BY <1>1, <2>1, <3>2
      <3> QED
        BY <2>5, <2>6, <2>7, <3>3, NumberUntouched
    <2>8. Bounded(item) => Bounded(item)'
      <3>1. stat[item].begun \in Nat
        BY <2>2, NumberTypes
      <3>2. \A h \in Incrementing(item) : thread[h].read \in Int
        BY <1>1 DEF ThreadStates, Incrementing
      <3> QED
        BY <2>2, <2>4, <2>5, <2>6, <3>1, <3>2 DEF Bounded, ItemCell
    <2> QED
      BY <1>2, <2>1, <2>7, <2>8 DEF Numbers
  <1> QED
    BY <1>4, <1>5, <1>6, <1>7 DEF Write

\* Where neither memory nor threads change.
LEMMA NumbersUntouched ==
  ASSUME Numbers, UNCHANGED <<mem, thread, stat>>
  PROVE  Numbers'
  <1>1. ASSUME NEW item \in Items
        PROVE  (Counted(item) => Counted(item)') /\ (Bounded(item) => Bounded(item)')
    BY DEF Counted, Bounded, ItemCell, Incrementing
  <1> QED
    BY <1>1 DEF Numbers

LEMMA ClearNumbers ==
  ASSUME Types, Numbers, Visiting, ClearCell
  PROVE  Numbers'
  <1>1. PICK cell \in Cells : cell = Head(ctl.cells)
    <2>1. ctl.cells # <<>>
      BY DEF ClearCell
    <2> QED
      BY <2>1, NextCell, CellsApart
  <1>2. /\ mem' = [mem EXCEPT ![cell] = 0]
        /\ stat' = [item \in Items |->
                IF ItemCell(item) = cell
                THEN [stat[item] EXCEPT !.count = 0, !.raced = Incrementing(item) # {}]
                ELSE stat[item]]
        /\ UNCHANGED <<thread, writes>>
    BY <1>1 DEF ClearCell
  <1>3. mem \in [Cells -> Nat] /\ Modulus \in Nat \ {0} /\ 0 < Modulus
    BY SessionAssumption DEF Types
  <1>4. \A item \in Items : Incrementing(item)' = Incrementing(item)
    BY <1>2 DEF Incrementing
  <1>5. ASSUME NEW item \in Items, ItemCell(item) # cell
        PROVE  (Counted(item) => Counted(item)') /\ (Bounded(item) => Bounded(item)')
    <2>1. mem'[ItemCell(item)] = mem[ItemCell(item)]
      BY <1>2, <1>3, <1>5, ItemFacts
    <2>2. stat'[item] = stat[item]
      BY <1>2, <1>5
    <2> QED
      BY <1>2, <1>4, <2>1, <2>2, NumberUntouched
  <1>6. ASSUME NEW item \in Items, ItemCell(item) = cell
        PROVE  Counted(item)' /\ (Bounded(item) => Bounded(item)')
    <2> DEFINE r == Incrementing(item) # {}
    <2>1. mem'[ItemCell(item)] = 0
      BY <1>1, <1>2, <1>3, <1>6
    <2>2. stat'[item] = [stat[item] EXCEPT !.count = 0, !.raced = r]
      BY <1>2, <1>6
    <2> HIDE DEF r
    <2>3. stat'[item].count = 0 /\ stat'[item].raced = r /\ stat'[item].begun = stat[item].begun
      BY <2>2, NumberTypes DEF ItemStates
    <2>4. 0 % Modulus = 0
      BY <1>3, ModSmall
    <2>5. Counted(item)'
      BY <1>4, <2>1, <2>3, <2>4 DEF Counted, ItemCell, r
    <2>6. Bounded(item) => Bounded(item)'
      <3>1. stat[item].begun \in Nat
        BY NumberTypes
      <3>2. stat'[item].begun = stat[item].begun
        BY <2>3
      <3>3. thread' = thread
        BY <1>2
      <3> QED
        BY <1>4, <2>1, <3>1, <3>2, <3>3 DEF Bounded, ItemCell
    <2> QED
      BY <2>5, <2>6
  <1> QED
    BY <1>5, <1>6 DEF Numbers

LEMMA LevelNumbers ==
  ASSUME Types, Numbers, Tagged, LogLevel
  PROVE  Numbers'
  <1>1. PICK cell \in Cells, new \in Levels : LevelStep(cell, new) /\ cell \in AllLevelCells
    BY LogLevelIs
  <1>2. mem' = [mem EXCEPT ![cell] = new] /\ UNCHANGED <<thread, stat>> /\ mem \in [Cells -> Nat]
    BY <1>1 DEF LevelStep, Types
  <1>3. ASSUME NEW item \in Items
        PROVE  (Counted(item) => Counted(item)') /\ (Bounded(item) => Bounded(item)')
    <2>1. ItemCell(item) # cell /\ ItemCell(item) \in Cells
      BY <1>1, ItemFacts
    <2>2. mem'[ItemCell(item)] = mem[ItemCell(item)]
      BY <1>2, <2>1
    <2>3. \A h \in Incrementing(item)' :
            h \in Incrementing(item) /\ thread'[h].read = thread[h].read
      BY <1>2 DEF Incrementing
    <2> QED
      BY <1>2, <2>2, <2>3, NumberUntouched
  <1> QED
    BY <1>3 DEF Numbers

----------------------------------------------------------------------------
(* Tags *)

LEMMA RestOnce ==
  ASSUME NEW S, NEW s \in Seq(S), s # <<>>, IsOnce(s)
  PROVE  /\ IsOnce(Tail(s)) /\ Head(s) \in ToSet(s)
         /\ ToSet(Tail(s)) = ToSet(s) \ {Head(s)}
  <1> DEFINE r == Tail(s)
             n == Len(s)
  <1>1. /\ n \in Nat /\ n > 0 /\ DOMAIN s = 1 .. n /\ DOMAIN r = 1 .. n - 1 /\ Head(s) = s[1]
        /\ \A i \in 1 .. n - 1 : r[i] = s[i + 1]
    OBVIOUS
  <1> HIDE DEF r, n
  <1>2. \A i, j \in 1 .. n : s[i] = s[j] => i = j
    BY <1>1 DEF IsOnce
  <1>3. IsOnce(r)
    <2>1. ASSUME NEW i \in 1 .. n - 1, NEW j \in 1 .. n - 1, r[i] = r[j]
          PROVE  i = j
      <3>1. i + 1 \in 1 .. n /\ j + 1 \in 1 .. n /\ s[i + 1] = s[j + 1]
        BY <1>1, <2>1
      <3>2. i + 1 = j + 1
        BY <1>2, <3>1
      <3> QED
        BY <1>1, <3>2
    <2> QED
      BY <1>1, <2>1 DEF IsOnce
  <1>4. ToSet(s) = {s[i] : i \in 1 .. n} /\ ToSet(r) = {r[i] : i \in 1 .. n - 1}
    BY <1>1 DEF ToSet
  <1>5. 1 \in 1 .. n
    BY <1>1
  <1>6. ASSUME NEW x \in ToSet(r)
        PROVE  x \in ToSet(s) \ {Head(s)}
    <2>1. PICK i \in 1 .. n - 1 : x = s[i + 1]
      BY <1>1, <1>4
    <2>2. i + 1 \in 1 .. n /\ i + 1 # 1
      BY <1>1
    <2> QED
      BY <1>1, <1>2, <1>4, <1>5, <2>1, <2>2
  <1>7. ASSUME NEW x \in ToSet(s), x # Head(s)
        PROVE  x \in ToSet(r)
    <2>1. PICK i \in 1 .. n : x = s[i]
      BY <1>4
    <2>2. i - 1 \in 1 .. n - 1 /\ (i - 1) + 1 = i
      BY <1>1, <1>7, <2>1
    <2>3. r[i - 1] = x
      BY <1>1, <2>1, <2>2
    <2> QED
      BY <1>4, <2>2, <2>3
  <1> QED
    BY <1>1, <1>3, <1>4, <1>5, <1>6, <1>7 DEF r

\* Where the session's position does not change.
LEMMA TagsUntouched ==
  ASSUME Tagged, ctl'.cmd = ctl.cmd, ctl'.desc = ctl.desc, ctl'.descs = ctl.descs,
         ctl'.todo = ctl.todo, ctl'.stat_tags_vector = ctl.stat_tags_vector,
         ctl'.log_tags_vector = ctl.log_tags_vector
  PROVE  Tagged'
  <1>1. \A t, i : Reached(t, i)' <=> Reached(t, i)
    BY DEF Reached
  <1>2. StatScope' = StatScope /\ LogScope' = LogScope
    BY DEF StatScope, LogScope
  <1>3. Reports(ctl.stat_tags_vector, StatScope)' /\ Reports(ctl.log_tags_vector, LogScope)'
    BY <1>1, <1>2 DEF Tagged, Reports
  <1>4. \A i \in DOMAIN ctl'.stat_tags_vector : LastAsked(ctl.stat_tags_vector[i])'
    BY <1>1 DEF Tagged, LastAsked
  <1> QED
    BY <1>2, <1>3, <1>4 DEF Tagged

\* A session that has just begun or ended.
LEMMA NothingTagged ==
  ASSUME ctl'.desc = 0, ctl'.todo = <<>>, ctl'.stat_tags_vector = <<>>, ctl'.log_tags_vector = <<>>
  PROVE  Tagged'
  <1>1. \A t, i : ~Reached(t, i)'
    BY DEF Reached
  <1>2. TagsIn(<<>>) = {} /\ OncePerTag(<<>>) /\ IsOnce(<<>>) /\ ToSet(<<>>) = {}
    BY DEF TagsIn, OncePerTag, IsOnce, ToSet
  <1>3. Reports(ctl.stat_tags_vector, StatScope)' /\ Reports(ctl.log_tags_vector, LogScope)'
    BY <1>1, <1>2 DEF Reports
  <1> QED
    BY <1>2, <1>3 DEF Tagged

LEMMA NextDescTags ==
  ASSUME Types, Tagged, NextDesc
  PROVE  Tagged'
  <1> DEFINE d == ctl.desc + 1
             path == ctl.descs[ctl.desc + 1].path
             todo == Reachable(path)
  <1>1. /\ ctl.todo = <<>> /\ path \in Seq(STRING)
        /\ ctl' = [ctl EXCEPT !.desc = d, !.todo = todo]
    BY NextDescIs
  <1>2. ctl.desc \in Nat /\ d \in Nat /\ d > 0 /\ d > ctl.desc /\ ctl \in Sessions
    BY SessionFields
  <1>3. todo \in Seq(Tags) /\ IsOnce(todo)
        /\ ToSet(todo) = {t \in StatScope \cup LogScope : Names(path, t)}
    BY <1>1, ReachableTags
  <1> HIDE DEF path, todo
  <1>4. /\ ctl'.cmd = ctl.cmd /\ ctl'.descs = ctl.descs /\ ctl'.desc = d /\ ctl'.todo = todo
        /\ ctl'.stat_tags_vector = ctl.stat_tags_vector /\ ctl'.log_tags_vector = ctl.log_tags_vector
    BY <1>1, <1>2 DEF Sessions
  <1>5. StatScope' = StatScope /\ LogScope' = LogScope
    BY <1>4 DEF StatScope, LogScope
  <1>6. ASSUME NEW t \in StatScope \cup LogScope, NEW i
        PROVE  Reached(t, i)' <=> Reached(t, i)
    <2>1. Reached(t, i) <=> i \in 1 .. ctl.desc /\ Names(ctl.descs[i].path, t)
      BY <1>1 DEF Reached, ToSet
    <2>2. Reached(t, i)' <=> /\ i \in 1 .. d /\ Names(ctl.descs[i].path, t)
                             /\ i = d => t \notin ToSet(todo)
      BY <1>4 DEF Reached
    <2>3. ctl.descs[d].path = path
      BY DEF path
    <2>4. i = d /\ Names(ctl.descs[i].path, t) => t \in ToSet(todo)
      BY <1>3, <2>3
    <2>5. i \in 1 .. d <=> i \in 1 .. ctl.desc \/ i = d
      BY <1>2
    <2>6. i \in 1 .. ctl.desc => i # d
      BY <1>2
    <2> HIDE DEF d
    <2> QED
      BY <2>1, <2>2, <2>4, <2>5, <2>6
  <1>7. Reports(ctl.stat_tags_vector, StatScope)' /\ Reports(ctl.log_tags_vector, LogScope)'
    BY <1>4, <1>5, <1>6 DEF Tagged, Reports
  <1>8. \A i \in DOMAIN ctl'.stat_tags_vector : LastAsked(ctl.stat_tags_vector[i])'
    <2>1. ASSUME NEW i \in DOMAIN ctl.stat_tags_vector
          PROVE  LastAsked(ctl.stat_tags_vector[i])'
      <3> DEFINE elem == ctl.stat_tags_vector[i]
      <3>1. elem.tag \in StatScope
        BY DEF Tagged, Reports, TagsIn
      <3>2. LastAsked(elem)
        BY DEF Tagged
      <3> QED
        BY <1>4, <1>6, <3>1, <3>2 DEF LastAsked
    <2> QED
      BY <1>4, <2>1
  <1>9. \A t \in ToSet(todo) :
          t \in StatScope \cup LogScope /\ Names(ctl.descs[d].path, t)
    BY <1>3 DEF path
  <1> QED
    BY <1>2, <1>3, <1>4, <1>5, <1>7, <1>8, <1>9 DEF Tagged

\* The command leaves the tag that it was at.
LEMMA ReachedNext ==
  ASSUME Types, Tagged, NEW h \in Tags, ctl.todo # <<>>, h = Head(ctl.todo),
         NEW d \in Nat, d = ctl.desc,
         ctl'.todo = Tail(ctl.todo), ctl'.desc = ctl.desc, ctl'.descs = ctl.descs
  PROVE  /\ \A t, i : t # h => (Reached(t, i)' <=> Reached(t, i))
         /\ Reached(h, d)' /\ \A i \in Nat : Reached(h, i)' => i <= d
         /\ \A i : Reached(h, i) => Reached(h, i)'
         /\ \A i : Reached(h, i)' => Reached(h, i) \/ i = d
  <1>1. /\ h \in ToSet(ctl.todo) /\ ToSet(ctl'.todo) = ToSet(ctl.todo) \ {h}
        /\ IsOnce(ctl'.todo)
    BY RestOnce, SessionFields DEF Tagged
  <1>2. Names(ctl.descs[ctl.desc].path, h) /\ ctl.desc > 0 /\ ctl.desc \in Nat
    BY <1>1, SessionFields DEF Tagged
  <1>3. ctl.desc \in 1 .. ctl.desc /\ \A i \in 1 .. ctl.desc : i <= ctl.desc
    BY <1>2
  <1> QED
    BY <1>1, <1>2, <1>3 DEF Reached

\* The report grows by the tag that the command leaves.
LEMMA ReportGrows ==
  ASSUME NEW v, NEW w, NEW e, NEW tags, NEW h \in tags, e.tag = h,
         Replaced(w, v, e), Reports(v, tags), NEW d \in Nat, Reached(h, d)',
         \A t, i : t # h => (Reached(t, i)' <=> Reached(t, i))
  PROVE  TagsIn(w) = {t \in tags : \E k \in Nat : Reached(t, k)'} /\ OncePerTag(w)
  BY DEF Replaced, Reports

LEMMA StatOutputTags ==
  ASSUME Types, Tagged, Visiting, addStatOutput
  PROVE  Tagged'
  <1>1. PICK h \in Tags : h = Head(ctl.todo)
    BY StatOutputIs, NextTag
  <1>2. /\ ctl.todo # <<>> /\ h \in StatScope /\ StatOutput \in StatElems
        /\ Replaced(ctl'.stat_tags_vector, ctl.stat_tags_vector, StatOutput)
        /\ ctl' = [ctl EXCEPT
              !.visiting = FALSE, !.todo = Tail(ctl.todo), !.entries = <<>>,
              !.dimensionSizes = <<>>, !.stat_tags_vector = ctl'.stat_tags_vector]
    BY <1>1, StatOutputIs
  <1>3. ctl'.todo = Tail(ctl.todo) /\ ctl'.desc = ctl.desc /\ ctl'.descs = ctl.descs
        /\ ctl'.cmd = ctl.cmd /\ ctl'.log_tags_vector = ctl.log_tags_vector
    BY <1>2, SessionFields DEF Sessions
  <1>0. PICK d \in Nat : d = ctl.desc
    BY SessionFields
  <1>4. /\ \A t, i : t # h => (Reached(t, i)' <=> Reached(t, i))
        /\ Reached(h, d)' /\ \A i \in Nat : Reached(h, i)' => i <= d
    BY <1>0, <1>1, <1>2, <1>3, ReachedNext
  <1>5. StatScope' = StatScope /\ LogScope' = LogScope /\ h \notin LogScope
    BY <1>2, <1>3, TreesAreDisjoint DEF StatScope, LogScope
  <1>6. StatOutput.tag = h /\ StatOutput.array_indices = ctl.descs[d].array_indices
    BY <1>0, <1>1 DEF StatOutput
  <1>7. Reports(ctl.stat_tags_vector, StatScope)
    BY DEF Tagged
  <1>8. Reports(ctl.stat_tags_vector, StatScope)'
    BY <1>2, <1>4, <1>5, <1>6, <1>7, ReportGrows DEF Reports
  <1>9. Reports(ctl.log_tags_vector, LogScope)'
    BY <1>3, <1>4, <1>5 DEF Tagged, Reports
  <1>10. \A i \in DOMAIN ctl'.stat_tags_vector : LastAsked(ctl.stat_tags_vector[i])'
    <2>1. ASSUME NEW i \in DOMAIN ctl'.stat_tags_vector
          PROVE  LastAsked(ctl.stat_tags_vector[i])'
      <3>1. CASE ctl'.stat_tags_vector[i] = StatOutput
        BY <1>3, <1>4, <1>6, <1>7, <3>1 DEF LastAsked
      <3>2. CASE ctl'.stat_tags_vector[i] # StatOutput
        <4>1. PICK j \in DOMAIN ctl.stat_tags_vector :
                ctl'.stat_tags_vector[i] = ctl.stat_tags_vector[j] /\ ctl.stat_tags_vector[j].tag # h
          BY <1>2, <1>6, <3>2 DEF Replaced
        <4>2. LastAsked(ctl.stat_tags_vector[j])
          BY DEF Tagged
        <4> QED
          BY <1>3, <1>4, <4>1, <4>2 DEF LastAsked
      <3> QED
        BY <3>1, <3>2
    <2> QED
      BY <2>1
  <1>11. IsOnce(ctl'.todo) /\ ToSet(ctl'.todo) \subseteq ToSet(ctl.todo)
    BY <1>1, <1>2, <1>3, RestOnce, SessionFields DEF Tagged
  <1> QED
    BY <1>2, <1>3, <1>5, <1>8, <1>9, <1>10, <1>11 DEF Tagged

LEMMA LogStepFields ==
  ASSUME Types, NEW output, NEW swept, LogOutputStep(output, swept)
  PROVE  /\ ctl'.on = ctl.on /\ ctl'.cmd = ctl.cmd /\ ctl'.descs = ctl.descs
         /\ ctl'.desc = ctl.desc /\ ctl'.level = ctl.level /\ ctl'.todo = Tail(ctl.todo)
         /\ ctl'.visiting = ctl.visiting /\ ctl'.cells = ctl.cells /\ ctl'.entries = ctl.entries
         /\ ctl'.stat_tags_vector = ctl.stat_tags_vector /\ ctl'.swept = swept
  BY SessionFields DEF LogOutputStep, Sessions

LEMMA LogOutputTags ==
  ASSUME Types, Tagged, NEW output, NEW swept, LogOutputStep(output, swept),
         ctl.todo # <<>>, Head(ctl.todo) \in LogTags, isLogCommand(ctl.cmd)
  PROVE  Tagged'
  <1>1. PICK h \in Tags : h = Head(ctl.todo)
    BY NextTag
  <1>0. PICK d \in Nat : d = ctl.desc
    BY SessionFields
  <1>2. PICK e : e = [tag |-> h, output |-> output]
    OBVIOUS
  <1>3. /\ h \in LogScope /\ e.tag = h
        /\ Replaced(ctl'.log_tags_vector, ctl.log_tags_vector, e)
    BY <1>1, <1>2 DEF LogOutputStep, LogScope
  <1>4. /\ ctl'.cmd = ctl.cmd /\ ctl'.descs = ctl.descs /\ ctl'.desc = ctl.desc
        /\ ctl'.todo = Tail(ctl.todo) /\ ctl'.stat_tags_vector = ctl.stat_tags_vector
    BY LogStepFields
  <1>5. /\ \A t, i : t # h => (Reached(t, i)' <=> Reached(t, i))
        /\ Reached(h, d)'
    BY <1>0, <1>1, <1>4, ReachedNext
  <1>6. StatScope' = StatScope /\ LogScope' = LogScope /\ h \notin StatScope
    BY <1>3, <1>4, TreesAreDisjoint DEF StatScope, LogScope
  <1>7. Reports(ctl.log_tags_vector, LogScope)
    BY DEF Tagged
  <1>8. Reports(ctl.log_tags_vector, LogScope)'
    BY <1>3, <1>5, <1>6, <1>7, ReportGrows DEF Reports
  <1>9. Reports(ctl.stat_tags_vector, StatScope)'
    BY <1>4, <1>5, <1>6 DEF Tagged, Reports
  <1>10. \A i \in DOMAIN ctl'.stat_tags_vector : LastAsked(ctl.stat_tags_vector[i])'
    <2>1. ASSUME NEW i \in DOMAIN ctl.stat_tags_vector
          PROVE  LastAsked(ctl.stat_tags_vector[i])'
      <3>1. ctl.stat_tags_vector[i].tag \in StatScope
        BY DEF Tagged, Reports, TagsIn
      <3>2. LastAsked(ctl.stat_tags_vector[i])
        BY DEF Tagged
      <3> QED
        BY <1>4, <1>5, <1>6, <3>1, <3>2 DEF LastAsked
    <2> QED
      BY <1>4, <2>1
  <1>11. IsOnce(ctl'.todo) /\ ToSet(ctl'.todo) \subseteq ToSet(ctl.todo)
    BY <1>4, RestOnce, SessionFields DEF Tagged
  <1>12. ctl'.todo # <<>> => ctl'.desc > 0
    BY <1>4 DEF Tagged
  <1>13. \A t \in ToSet(ctl'.todo) :
           t \in StatScope' \cup LogScope' /\ Names(ctl'.descs[ctl'.desc].path, t)
    BY <1>4, <1>6, <1>11 DEF Tagged
  <1> QED
    BY <1>8, <1>9, <1>10, <1>11, <1>12, <1>13 DEF Tagged

----------------------------------------------------------------------------
(* Cells *)

LEMMA FieldsOfEnd ==
  /\ NoSession.on = FALSE /\ NoSession.cmd = "NO_CMD" /\ NoSession.descs = <<>>
  /\ NoSession.desc = 0 /\ NoSession.todo = <<>> /\ NoSession.visiting = FALSE
  /\ NoSession.cells = <<>> /\ NoSession.stat_tags_vector = <<>>
  /\ NoSession.log_tags_vector = <<>> /\ NoSession.swept = {}
  BY DEF NoSession

LEMMA StartFields ==
  ASSUME parseCommandLineArgs
  PROVE  /\ ctl'.desc = 0 /\ ctl'.todo = <<>> /\ ctl'.visiting = FALSE
         /\ ctl'.cells = <<>> /\ ctl'.stat_tags_vector = <<>>
         /\ ctl'.log_tags_vector = <<>> /\ ctl'.swept = {}
         /\ UNCHANGED <<mem, thread, writes, stat>>
  BY DEF parseCommandLineArgs, NoSession

\* A number counts no fewer writes later: what has been read of it stays bounded.
LEMMA BoundStays ==
  ASSUME Types, NEW t \in StatLeaves, NEW entries \in Seq(Nat), Len(entries) <= NumCells(dims[t]),
         \A item \in Items : stat'[item].begun \in Nat /\ stat'[item].begun >= stat[item].begun,
         Bound(t, entries)
  PROVE  Bound(t, entries)'
  <1>1. ASSUME NEW i \in 1 .. Len(entries)
        PROVE  entries[i] <= stat'[ItemAt(t, shared_ptr(t) + i - 1)].begun
    <2> DEFINE cell == shared_ptr(t) + i - 1
    <2>1. shared_ptr(t) \in Nat /\ NumCells(dims[t]) \in Nat /\ Len(entries) \in Nat
      BY SizeOfLeaf, CellsOfTags
    <2>2. cell \in StatCells(t)
      BY <2>1 DEF StatCells
    <2>3. entries[i] <= stat[ItemAt(t, cell)].begun
      BY DEF Bound
    <2> HIDE DEF cell
    <2>4. ItemAt(t, cell) \in Items
      BY <2>2, ItemOfCell
    <2> DEFINE item == ItemAt(t, cell)
    <2>5. item \in Items
      BY <2>4
    <2>6. entries[i] <= stat[item].begun
      BY <2>3
    <2> HIDE DEF item
    <2>7. stat[item].begun \in Nat /\ stat'[item].begun \in Nat /\ stat'[item].begun >= stat[item].begun
      BY <2>5, NumberTypes
    <2>8. entries[i] \in Nat
      BY ElementType
    <2>9. entries[i] <= stat'[item].begun
      BY <2>6, <2>7, <2>8
    <2> QED
      BY <2>9 DEF item, cell
  <1> QED
    BY <1>1 DEF Bound, ItemAt

LEMMA ThreadsBegin ==
  ASSUME Types, NEW g \in Threads, Write(g)
  PROVE  \A item \in Items : stat'[item].begun \in Nat /\ stat'[item].begun >= stat[item].begun
  <1>1. \A item \in Items : stat[item].begun \in Nat /\ stat[item] \in ItemStates
    BY NumberTypes
  <1>2. stat \in [Items -> ItemStates]
    BY DEF Types
  <1>3. CASE writeStat(g) \/ writeBitStatus(g)
    <2>1. stat' = stat
      BY <1>3 DEF writeStat, writeBitStatus
    <2> QED
      BY <1>1, <2>1
  <1>4. CASE Load(g)
    <2>1. PICK item, r : stat' = [stat EXCEPT ![item].begun = @ + 1, ![item].raced = r]
      BY <1>4 DEF Load
    <2> QED
      BY <1>1, <1>2, <2>1 DEF ItemStates
  <1>5. CASE Store(g)
    <2>1. PICK item : stat' = [stat EXCEPT ![item].count = @ + 1]
      BY <1>5 DEF Store
    <2> QED
      BY <1>1, <1>2, <2>1 DEF ItemStates
  <1>6. CASE Assign(g)
    <2>1. PICK item : stat' = [stat EXCEPT ![item].begun = @ + 1, ![item].count = @ + 1]
      BY <1>6 DEF Assign
    <2> QED
      BY <1>1, <1>2, <2>1 DEF ItemStates
  <1> QED
    BY <1>3, <1>4, <1>5, <1>6 DEF Write

\* Where a command is, when threads write.
LEMMA ThreadCells ==
  ASSUME Types, Visiting, Collected, NEW g \in Threads, Write(g)
  PROVE  Visiting' /\ Collected'
  <1>1. ctl' = ctl
    BY DEF Write, writeStat, writeBitStatus, Load, Store, Assign
  <1>2. ASSUME NEW t \in StatLeaves, NEW entries \in Seq(Nat), Bound(t, entries),
               Len(entries) <= NumCells(dims[t])
        PROVE  Bound(t, entries)'
    BY <1>2, BoundStays, ThreadsBegin
  <1>3. ASSUME NEW t \in Tags, At(t)
        PROVE  At(t)'
    <2>1. TouchesCells(t)' <=> TouchesCells(t)
      BY <1>1 DEF TouchesCells
    <2>2. ASSUME NEW k \in 0 .. NumCells(dims[t]), t \in StatLeaves, Walked(t, k)
          PROVE  Walked(t, k)'
      <3>1. PICK entries \in Seq(Nat) : entries = ctl.entries
        BY SessionFields
      <3>2. NumCells(dims[t]) \in Nat
        BY <2>2, SizeOfLeaf
      <3>3. ctl.cmd = "DUMP_STAT" => Bound(t, entries)'
        BY <1>2, <2>2, <3>1, <3>2 DEF Walked
      <3>4. ctl.cmd = "DUMP_STAT" => Bound(t, ctl.entries)'
        BY <1>1, <3>1, <3>3 DEF Bound, ItemAt
      <3> QED
        BY <1>1, <2>2, <3>4 DEF Walked
    <2>3. TouchesCells(t)' => \E k \in 0 .. NumCells(dims[t]) : Walked(t, k)'
      BY <1>3, <2>1, <2>2 DEF At, TouchesCells
    <2> QED
      BY <1>1, <1>3, <2>1, <2>3 DEF At, StatScope
  <1>4. Visiting'
    <2>1. CASE ctl.visiting
      <3>1. PICK t \in Tags : t = Head(ctl.todo)
        BY <2>1, NextTag DEF Visiting
      <3>2. At(t) /\ ctl.todo # <<>>
        BY <2>1, <3>1 DEF Visiting
      <3>3. At(t)'
        BY <1>3, <3>2
      <3>4. At(Head(ctl.todo))'
        BY <1>1, <3>1, <3>3 DEF At, TouchesCells, Walked, Bound
      <3> QED
        BY <1>1, <2>1, <3>2, <3>4 DEF Visiting
    <2>2. CASE ~ctl.visiting
      BY <1>1, <2>2 DEF Visiting
    <2> QED
      BY <2>1, <2>2
  <1>5. Collected'
    <2>1. ASSUME NEW i \in DOMAIN ctl.stat_tags_vector, ctl.cmd = "DUMP_STAT",
                 ctl.stat_tags_vector[i].tag \in StatLeaves
          PROVE  Bound(ctl.stat_tags_vector[i].tag, ctl.stat_tags_vector[i].entries)'
      <3> DEFINE elem == ctl.stat_tags_vector[i]
      <3>1. PICK t \in StatLeaves : t = elem.tag
        BY <2>1
      <3>2. elem \in StatElems
        BY SessionFields, ElementType
      <3>3. PICK entries \in Seq(Nat) : entries = elem.entries
        BY <3>2 DEF StatElems
      <3>4. Bound(t, entries) /\ Len(entries) = NumCells(dims[t])
        BY <2>1, <3>1, <3>3 DEF Collected
      <3>5. NumCells(dims[t]) \in Nat
        BY SizeOfLeaf
      <3>6. Bound(t, entries)'
        BY <1>2, <3>4, <3>5
      <3> QED
        BY <1>1, <3>1, <3>3, <3>6 DEF Bound, ItemAt
    <2> QED
      BY <1>1, <2>1 DEF Collected
  <1> QED
    BY <1>4, <1>5

\* A step in which the control process is not at a statistic.
LEMMA NotVisiting ==
  ASSUME ctl'.visiting = FALSE, ctl'.cells = <<>>
  PROVE  Visiting'
  BY DEF Visiting

\* A step that leaves the report and what is in memory alone.
LEMMA CollectedUntouched ==
  ASSUME Collected, ctl'.stat_tags_vector = ctl.stat_tags_vector, ctl'.cmd = ctl.cmd,
         \A item : stat'[item].begun = stat[item].begun
  PROVE  Collected'
  <1>1. \A t, entries : Bound(t, entries)' <=> Bound(t, entries)
    BY DEF Bound, ItemAt
  <1>2. ASSUME NEW i \in DOMAIN ctl.stat_tags_vector, ctl.cmd = "DUMP_STAT",
               ctl.stat_tags_vector[i].tag \in StatLeaves
        PROVE  Bound(ctl.stat_tags_vector[i].tag, ctl.stat_tags_vector[i].entries)'
    <2>1. Bound(ctl.stat_tags_vector[i].tag, ctl.stat_tags_vector[i].entries)
      BY <1>2 DEF Collected
    <2> QED
      BY <2>1 DEF Bound, ItemAt
  <1> QED
    BY <1>2 DEF Collected

LEMMA VisitStatCells ==
  ASSUME Types, Tagged, Visiting, Collected, VisitStat
  PROVE  Visiting' /\ Collected'
  <1> DEFINE cells == IF Head(ctl.todo) \in StatLeaves /\ ctl.cmd \in {"DUMP_STAT", "CLEAR_STAT"}
                      THEN StatCommand(Head(ctl.todo)).cells ELSE <<>>
             sizes == IF Head(ctl.todo) \in StatLeaves
                      THEN StatCommand(Head(ctl.todo)).dimensionSizes ELSE <<>>
  <1>1. /\ ctl.todo # <<>> /\ Head(ctl.todo) \in StatTags
        /\ ctl' = [ctl EXCEPT !.visiting = TRUE, !.cells = cells, !.dimensionSizes = sizes,
                              !.entries = <<>>]
        /\ UNCHANGED <<mem, thread, writes, stat>>
    BY DEF VisitStat
  <1>2. PICK t \in Tags : t = Head(ctl.todo)
    BY <1>1, NextTag
  <1> HIDE DEF cells, sizes
  <1>3. /\ ctl'.visiting = TRUE /\ ctl'.cells = cells /\ ctl'.dimensionSizes = sizes
        /\ ctl'.entries = <<>> /\ ctl'.cmd = ctl.cmd /\ ctl'.todo = ctl.todo
        /\ ctl'.stat_tags_vector = ctl.stat_tags_vector
    BY <1>1, SessionFields DEF Sessions
  <1>4. t \in StatScope
    <2>1. t \in ToSet(ctl.todo)
      BY <1>1, <1>2, RestOnce, SessionFields DEF Tagged
    <2>2. t \notin LogTags
      BY <1>1, <1>2, TreesAreDisjoint
    <2> QED
      BY <2>1, <2>2 DEF Tagged, LogScope
  <1>5. At(t)'
    <2>1. t \in StatScope'
      BY <1>3, <1>4 DEF StatScope
    <2>2. ASSUME t \in StatLeaves
          PROVE  ctl'.dimensionSizes = dims[t]
      BY <1>2, <1>3, <2>2, StatCommandWalks DEF sizes
    <2>3. ASSUME TouchesCells(t)
          PROVE  \E k \in 0 .. NumCells(dims[t]) : Walked(t, k)'
      <3>1. t \in StatLeaves
        BY <2>3 DEF TouchesCells
      <3>2. ctl'.cells = Run(shared_ptr(t), NumCells(dims[t]))
        BY <1>2, <1>3, <2>3, StatCommandWalks DEF cells, TouchesCells
      <3>3. shared_ptr(t) \in Nat /\ NumCells(dims[t]) \in Nat
        BY <3>1, SizeOfLeaf, CellsOfTags
      <3>4. /\ shared_ptr(t) + 0 = shared_ptr(t) /\ NumCells(dims[t]) - 0 = NumCells(dims[t])
            /\ 0 \in 0 .. NumCells(dims[t]) /\ \A i \in 0 .. 0 - 1 : FALSE
        BY <3>3
      <3>5. Len(ctl'.entries) = 0 /\ Bound(t, ctl.entries)'
        BY <1>3 DEF Bound
      <3>6. Walked(t, 0)'
        BY <3>2, <3>4, <3>5 DEF Walked
      <3> QED
        BY <3>4, <3>6
    <2>4. TouchesCells(t)' <=> TouchesCells(t)
      BY <1>3 DEF TouchesCells
    <2>5. ASSUME ~TouchesCells(t)
          PROVE  ctl'.cells = <<>> /\ ctl'.entries = <<>>
      BY <1>2, <1>3, <2>5 DEF TouchesCells, cells
    <2> QED
      BY <2>1, <2>2, <2>3, <2>4, <2>5 DEF At
  <1>6. Visiting'
    <2>1. At(Head(ctl.todo))'
      BY <1>2, <1>3, <1>5 DEF At, TouchesCells, Walked, Bound
    <2> QED
      BY <1>1, <1>3, <2>1 DEF Visiting
  <1>7. Collected'
    BY <1>1, <1>3, CollectedUntouched
  <1> QED
    BY <1>6, <1>7

LEMMA DumpCellCells ==
  ASSUME Types, Numbers, Visiting, Collected, DumpCell
  PROVE  Visiting' /\ Collected'
  <1> DEFINE cells == Tail(ctl.cells)
             entries == Append(ctl.entries, mem[Head(ctl.cells)])
  <1>1. /\ ctl.cells # <<>> /\ ctl.cmd = "DUMP_STAT"
        /\ ctl' = [ctl EXCEPT !.cells = cells, !.entries = entries]
        /\ UNCHANGED <<mem, thread, writes, stat>>
    BY DEF DumpCell
  <1>2. PICK t \in StatLeaves : t = Head(ctl.todo)
    BY <1>1, NextCell
  <1>3. PICK k \in 0 .. NumCells(dims[t]) - 1 :
          /\ Walked(t, k) /\ Head(ctl.cells) = shared_ptr(t) + k
          /\ Tail(ctl.cells) = Run(shared_ptr(t) + (k + 1), NumCells(dims[t]) - (k + 1))
    BY <1>1, <1>2, NextCell
  <1>4. /\ ctl.visiting /\ ctl.todo # <<>> /\ t \in StatScope
        /\ shared_ptr(t) \in Nat /\ NumCells(dims[t]) \in Nat
        /\ Head(ctl.cells) \in StatCells(t)
    BY <1>1, <1>2, NextCell
  <1>5. /\ ctl'.visiting = ctl.visiting /\ ctl'.todo = ctl.todo /\ ctl'.cmd = ctl.cmd
        /\ ctl'.dimensionSizes = ctl.dimensionSizes
        /\ ctl'.stat_tags_vector = ctl.stat_tags_vector
        /\ ctl'.cells = cells /\ ctl'.entries = entries
    BY <1>1, SessionFields DEF Sessions
  <1>6. Len(ctl.entries) = k /\ Bound(t, ctl.entries) /\ ctl.entries \in Seq(Nat)
    BY <1>1, <1>3, SessionFields DEF Walked
  <1>7. mem[Head(ctl.cells)] <= stat[ItemAt(t, Head(ctl.cells))].begun
        /\ mem[Head(ctl.cells)] \in Nat
    <2>1. PICK cell \in StatCells(t) : cell = Head(ctl.cells)
      BY <1>4
    <2>2. ItemAt(t, cell) \in Items /\ ItemCell(ItemAt(t, cell)) = cell
      BY <2>1, ItemOfCell
    <2>3. PICK item \in Items : item = ItemAt(t, cell)
      BY <2>2
    <2>4. Bounded(item)
      BY DEF Numbers
    <2>5. mem[cell] <= stat[item].begun /\ mem[cell] \in Nat
      BY <2>2, <2>3, <2>4, NumberTypes DEF Bounded
    <2> QED
      BY <2>1, <2>3, <2>5
  <1>8. /\ entries \in Seq(Nat) /\ Len(entries) = k + 1
        /\ \A i \in 1 .. k : entries[i] = ctl.entries[i]
        /\ entries[k + 1] = mem[Head(ctl.cells)]
    BY <1>6, <1>7
  <1> HIDE DEF entries, cells
  <1>9. Bound(t, entries)
    <2>1. ASSUME NEW i \in 1 .. k + 1
          PROVE  entries[i] <= stat[ItemAt(t, shared_ptr(t) + i - 1)].begun
      <3>1. CASE i \in 1 .. k
        BY <1>6, <1>8, <3>1 DEF Bound
      <3>2. CASE i = k + 1
        <4>1. shared_ptr(t) + i - 1 = Head(ctl.cells)
          BY <1>3, <1>4, <3>2
        <4> QED
          BY <1>7, <1>8, <3>2, <4>1
      <3> QED
        BY <3>1, <3>2
    <2> QED
      BY <1>8, <2>1 DEF Bound
  <1>10. Bound(t, ctl.entries)'
    BY <1>1, <1>5, <1>9 DEF Bound, ItemAt
  <1>11. Walked(t, k + 1)' /\ k + 1 \in 0 .. NumCells(dims[t])
    BY <1>1, <1>3, <1>4, <1>5, <1>8, <1>10, SMTT(30) DEF Walked, cells
  <1>12. TouchesCells(t) /\ TouchesCells(t)'
    BY <1>1, <1>5 DEF TouchesCells
  <1>13. At(t)
    BY <1>2, <1>4 DEF Visiting
  <1>14. At(t)'
    BY <1>5, <1>11, <1>12, <1>13 DEF At, StatScope
  <1>15. At(Head(ctl.todo))'
    BY <1>2, <1>5, <1>14 DEF At, TouchesCells, Walked, Bound
  <1>16. Visiting'
    BY <1>4, <1>5, <1>15 DEF Visiting
  <1>17. Collected'
    BY <1>1, <1>5, CollectedUntouched
  <1> QED
    BY <1>16, <1>17

LEMMA ClearCellCells ==
  ASSUME Types, Visiting, Collected, ClearCell
  PROVE  Visiting' /\ Collected'
  <1> DEFINE cells == Tail(ctl.cells)
             swept == ctl.swept \cup {Head(ctl.cells)}
  <1>1. /\ ctl.cells # <<>> /\ ctl.cmd = "CLEAR_STAT"
        /\ ctl' = [ctl EXCEPT !.cells = cells, !.swept = swept]
    BY DEF ClearCell
  <1>2. PICK t \in StatLeaves : t = Head(ctl.todo)
    BY <1>1, NextCell
  <1>3. PICK k \in 0 .. NumCells(dims[t]) - 1 :
          /\ Walked(t, k) /\ Head(ctl.cells) = shared_ptr(t) + k
          /\ Tail(ctl.cells) = Run(shared_ptr(t) + (k + 1), NumCells(dims[t]) - (k + 1))
    BY <1>1, <1>2, NextCell
  <1>4. /\ ctl.visiting /\ ctl.todo # <<>> /\ t \in StatScope
        /\ shared_ptr(t) \in Nat /\ NumCells(dims[t]) \in Nat
    BY <1>1, <1>2, NextCell
  <1> HIDE DEF cells, swept
  <1>5. /\ ctl'.visiting = ctl.visiting /\ ctl'.todo = ctl.todo /\ ctl'.cmd = ctl.cmd
        /\ ctl'.dimensionSizes = ctl.dimensionSizes
        /\ ctl'.stat_tags_vector = ctl.stat_tags_vector
        /\ ctl'.cells = cells /\ ctl'.swept = swept
    BY <1>1, SessionFields DEF Sessions
  <1>6. \A i \in 0 .. (k + 1) - 1 : shared_ptr(t) + i \in swept
    <2>1. \A i \in 0 .. k - 1 : shared_ptr(t) + i \in ctl.swept
      BY <1>1, <1>3 DEF Walked
    <2>2. \A i \in 0 .. (k + 1) - 1 : i \in 0 .. k - 1 \/ i = k
      OBVIOUS
    <2> QED
      BY <1>3, <2>1, <2>2 DEF swept
  <1>7. Walked(t, k + 1)' /\ k + 1 \in 0 .. NumCells(dims[t])
    BY <1>1, <1>3, <1>4, <1>5, <1>6 DEF Walked, cells
  <1>8. TouchesCells(t) /\ TouchesCells(t)'
    BY <1>1, <1>5 DEF TouchesCells
  <1>9. At(t)
    BY <1>2, <1>4 DEF Visiting
  <1>10. At(t)'
    BY <1>5, <1>7, <1>8, <1>9 DEF At, StatScope
  <1>11. At(Head(ctl.todo))'
    BY <1>2, <1>5, <1>10 DEF At, TouchesCells, Walked, Bound
  <1>12. Visiting'
    BY <1>4, <1>5, <1>11 DEF Visiting
  <1>13. Collected'
    BY <1>1, <1>5 DEF Collected
  <1> QED
    BY <1>12, <1>13

LEMMA StatOutputCells ==
  ASSUME Types, Tagged, Visiting, Collected, addStatOutput
  PROVE  Visiting' /\ Collected'
  <1>1. PICK h \in StatTags : h = Head(ctl.todo)
    BY StatOutputIs DEF StatScope
  <1>2. /\ ctl.visiting /\ ctl.cells = <<>> /\ ctl.todo # <<>> /\ StatOutput \in StatElems
        /\ Replaced(ctl'.stat_tags_vector, ctl.stat_tags_vector, StatOutput)
        /\ ctl' = [ctl EXCEPT
              !.visiting = FALSE, !.todo = Tail(ctl.todo), !.entries = <<>>,
              !.dimensionSizes = <<>>, !.stat_tags_vector = ctl'.stat_tags_vector]
        /\ UNCHANGED <<mem, thread, writes, stat>>
    BY StatOutputIs
  <1>3. ctl'.visiting = FALSE /\ ctl'.cells = <<>> /\ ctl'.cmd = ctl.cmd
    BY <1>2, SessionFields DEF Sessions
  <1>4. At(h)
    BY <1>1, <1>2 DEF Visiting
  <1>5. /\ StatOutput.tag = h /\ StatOutput.entries = ctl.entries
        /\ StatOutput.dimensionSizes = ctl.dimensionSizes
    BY <1>1 DEF StatOutput
  <1>6. ASSUME ctl.cmd = "DUMP_STAT"
        PROVE  IF h \in StatLeaves
               THEN /\ ctl.dimensionSizes = dims[h] /\ Len(ctl.entries) = NumCells(dims[h])
                    /\ Bound(h, ctl.entries)
               ELSE ctl.entries = <<>>
    <2>1. CASE h \in StatLeaves
      <3>1. PICK k \in 0 .. NumCells(dims[h]) : Walked(h, k)
        BY <1>4, <1>6, <2>1 DEF At, TouchesCells
      <3>2. NumCells(dims[h]) \in Nat /\ shared_ptr(h) \in Nat
        BY <2>1, SizeOfLeaf, CellsOfTags
      <3>3. NumCells(dims[h]) - k \in Nat /\ shared_ptr(h) + k \in Nat
        BY <3>2
      <3>4. NumCells(dims[h]) - k = 0
        BY <1>2, <3>1, <3>3, RestOfRun DEF Walked
      <3>5. k = NumCells(dims[h])
        BY <3>2, <3>4
      <3> QED
        BY <1>4, <1>6, <2>1, <3>1, <3>5 DEF At, Walked
    <2>2. CASE h \notin StatLeaves
      BY <1>4, <2>2 DEF At, TouchesCells
    <2> QED
      BY <2>1, <2>2
  <1>7. \A t, entries : Bound(t, entries)' <=> Bound(t, entries)
    BY <1>2 DEF Bound, ItemAt
  <1>8. ASSUME NEW i \in DOMAIN ctl'.stat_tags_vector, ctl.cmd = "DUMP_STAT"
        PROVE  LET elem == ctl'.stat_tags_vector[i] IN
               IF elem.tag \in StatLeaves
               THEN /\ elem.dimensionSizes = dims[elem.tag]
                    /\ Len(elem.entries) = NumCells(dims[elem.tag])
                    /\ Bound(elem.tag, elem.entries)
               ELSE elem.entries = <<>>
    <2>1. CASE ctl'.stat_tags_vector[i] = StatOutput
      BY <1>5, <1>6, <1>8, <2>1
    <2>2. CASE ctl'.stat_tags_vector[i] # StatOutput
      <3>1. PICK j \in DOMAIN ctl.stat_tags_vector :
              ctl'.stat_tags_vector[i] = ctl.stat_tags_vector[j]
        BY <1>2, <2>2 DEF Replaced
      <3> QED
        BY <1>8, <3>1 DEF Collected
    <2> QED
      BY <2>1, <2>2
  <1>9. Collected'
    <2>1. ASSUME NEW i \in DOMAIN ctl'.stat_tags_vector, ctl.cmd = "DUMP_STAT",
                 ctl'.stat_tags_vector[i].tag \in StatLeaves
          PROVE  Bound(ctl.stat_tags_vector[i].tag, ctl.stat_tags_vector[i].entries)'
      <3>1. Bound(ctl'.stat_tags_vector[i].tag, ctl'.stat_tags_vector[i].entries)
        BY <1>8, <2>1
      <3> QED
        BY <1>2, <3>1 DEF Bound, ItemAt
    <2> QED
      BY <1>3, <1>8, <2>1 DEF Collected
  <1>10. Visiting'
    BY <1>3, NotVisiting
  <1> QED
    BY <1>9, <1>10

----------------------------------------------------------------------------
(* Targets *)

LEMMA TargetsUntouched ==
  ASSUME ctl'.cmd = ctl.cmd, ctl'.level = ctl.level
  PROVE  /\ Leveled' <=> Leveled
         /\ \A t : TargetCells(t)' = TargetCells(t)
  BY DEF Leveled, TargetCells, StatCells, LevelCell

\* Only tags that a command is for have cells that it stores to.
LEMMA TargetsInScope ==
  ASSUME Types
  PROVE  \A t : /\ TargetCells(t) # {} => t \in StatScope \cup LogScope
                /\ Leveled => \A cell \in TargetCells(t) : cell \in AllLevelCells
  <1>1. ASSUME NEW t, TargetCells(t) # {}
        PROVE  t \in StatScope \cup LogScope
    BY <1>1 DEF TargetCells, StatScope, LogScope, Leveled, isStatisticCommand, isLogCommand, StatLeaves
  <1>2. ASSUME Leveled, NEW t, NEW cell \in TargetCells(t)
        PROVE  cell \in AllLevelCells
    BY <1>2, LevelCells, SessionFields DEF TargetCells, Leveled
  <1> QED
    BY <1>1, <1>2

\* Where the session's position, its targets and what it has stored do not change.
LEMMA SweptUntouched ==
  ASSUME Swept, ctl'.cmd = ctl.cmd, ctl'.level = ctl.level, ctl'.desc = ctl.desc,
         ctl'.descs = ctl.descs, ctl'.todo = ctl.todo, ctl'.swept = ctl.swept,
         Leveled => \A cell \in ctl.swept : mem'[cell] = mem[cell]
  PROVE  Swept'
  <1>1. \A t, i : Reached(t, i)' <=> Reached(t, i)
    BY DEF Reached
  <1>2. (Leveled' <=> Leveled) /\ \A t : TargetCells(t)' = TargetCells(t)
    BY TargetsUntouched
  <1>3. SweptAll'
    BY <1>1, <1>2 DEF Swept, SweptAll
  <1>4. SweptOnly'
    BY <1>2 DEF Swept, SweptOnly
  <1>5. InForce'
    BY <1>2 DEF Swept, InForce
  <1> QED
    BY <1>3, <1>4, <1>5 DEF Swept

\* A session that has just begun or ended.
LEMMA NothingSwept ==
  ASSUME ctl'.desc = 0, ctl'.swept = {}
  PROVE  Swept'
  BY DEF Swept, SweptAll, SweptOnly, InForce, Reached

\* Threads store to numbers, and a command that stores levels to levels only.
LEMMA ThreadSwept ==
  ASSUME Types, Swept, NEW g \in Threads, Write(g)
  PROVE  Swept'
  <1>1. ctl' = ctl
    BY DEF Write, writeStat, writeBitStatus, Load, Store, Assign
  <1>2. ASSUME Leveled, NEW cell \in ctl.swept
        PROVE  mem'[cell] = mem[cell]
    <2>1. cell \in AllLevelCells
      BY <1>2, TargetsInScope DEF Swept, SweptOnly
    <2>2. cell \in Cells /\ mem \in [Cells -> Nat]
      BY <1>2, SessionFields DEF Types
    <2>3. CASE writeStat(g) \/ writeBitStatus(g) \/ Load(g)
      <3>1. mem' = mem
        BY <2>3 DEF writeStat, writeBitStatus, Load
      <3> QED
        BY <3>1
    <2>4. CASE Store(g) \/ Assign(g)
      <3>1. thread[g].todo # <<>>
        BY <2>4 DEF Types, Store, Assign
      <3>2. PICK item \in Items : item = Head(thread[g].todo)
        BY <3>1, HeadItem
      <3>3. PICK value : mem' = [mem EXCEPT ![ItemCell(item)] = value]
        BY <2>4, <3>2 DEF Store, Assign
      <3>4. ItemCell(item) # cell
        BY <2>1, ItemFacts
      <3> QED
        BY <2>2, <3>3, <3>4
    <2> QED
      BY <2>3, <2>4 DEF Write
  <1> QED
    BY <1>1, <1>2, SweptUntouched

LEMMA NextDescSwept ==
  ASSUME Types, Tagged, Swept, NextDesc
  PROVE  Swept'
  <1> DEFINE path == ctl.descs[ctl.desc + 1].path
             todo == Reachable(path)
  <1>1. /\ ctl.todo = <<>> /\ path \in Seq(STRING) /\ mem' = mem
        /\ ctl' = [ctl EXCEPT !.desc = ctl.desc + 1, !.todo = todo]
    BY NextDescIs
  <1>2. ctl.desc \in Nat /\ ctl \in Sessions
    BY SessionFields
  <1>3. ToSet(todo) = {t \in StatScope \cup LogScope : Names(path, t)}
    BY <1>1, ReachableTags
  <1>0. PICK d \in Nat : d = ctl.desc + 1
    BY <1>2
  <1>4. /\ ctl'.cmd = ctl.cmd /\ ctl'.level = ctl.level /\ ctl'.descs = ctl.descs
        /\ ctl'.desc = d /\ ctl'.todo = todo /\ ctl'.swept = ctl.swept
    <2> HIDE DEF todo
    <2> QED
      BY <1>0, <1>1, <1>2 DEF Sessions
  <1> HIDE DEF todo
  <1>5. (Leveled' <=> Leveled) /\ \A t : TargetCells(t)' = TargetCells(t)
    BY <1>4, TargetsUntouched
  <1>6. 1 .. ctl.desc \subseteq 1 .. d /\ \A i \in 1 .. d : i \in 1 .. ctl.desc \/ i = d
    BY <1>0, <1>2
  <1>7. ASSUME NEW t \in StatScope \cup LogScope, NEW i \in Nat, Reached(t, i)'
        PROVE  Reached(t, i)
    <2>1. /\ i \in 1 .. d /\ Names(ctl.descs[i].path, t)
          /\ i = d => t \notin ToSet(todo)
      BY <1>4, <1>7 DEF Reached
    <2>2. i # d
      BY <1>0, <1>3, <2>1
    <2> QED
      BY <1>1, <1>6, <2>1, <2>2 DEF Reached, ToSet
  <1>8. SweptAll'
    <2>1. ASSUME NEW t \in StatTags \cup LogTags, NEW i \in Nat, Reached(t, i)'
          PROVE  TargetCells(t) \subseteq ctl.swept
      <3>1. CASE TargetCells(t) = {}
        BY <3>1
      <3>2. CASE TargetCells(t) # {}
        BY <1>7, <2>1, <3>2, TargetsInScope DEF Swept, SweptAll
      <3> QED
        BY <3>1, <3>2
    <2> QED
      BY <1>4, <1>5, <2>1 DEF SweptAll
  <1>9. SweptOnly'
    BY <1>4, <1>5, <1>6 DEF Swept, SweptOnly
  <1>10. InForce'
    BY <1>1, <1>4, <1>5 DEF Swept, InForce
  <1> QED
    BY <1>8, <1>9, <1>10 DEF Swept

LEMMA ClearSwept ==
  ASSUME Types, Tagged, Visiting, Swept, ClearCell
  PROVE  Swept'
  <1>1. PICK cell : cell = Head(ctl.cells)
    OBVIOUS
  <1>2. /\ ctl.cells # <<>> /\ ctl.cmd = "CLEAR_STAT"
        /\ ctl' = [ctl EXCEPT !.cells = Tail(ctl.cells), !.swept = ctl.swept \cup {cell}]
    BY <1>1 DEF ClearCell
  <1>3. PICK h \in StatLeaves : h = Head(ctl.todo)
    BY <1>2, NextCell
  <1>4. cell \in StatCells(h) /\ ctl.todo # <<>>
    BY <1>1, <1>2, <1>3, NextCell
  <1>5. /\ ctl'.cmd = ctl.cmd /\ ctl'.level = ctl.level /\ ctl'.descs = ctl.descs
        /\ ctl'.desc = ctl.desc /\ ctl'.todo = ctl.todo /\ ctl'.swept = ctl.swept \cup {cell}
    BY <1>2, SessionFields DEF Sessions
  <1>6. (Leveled' <=> Leveled) /\ \A t : TargetCells(t)' = TargetCells(t)
    BY <1>5, TargetsUntouched
  <1>7. \A t, i : Reached(t, i)' <=> Reached(t, i)
    BY <1>5 DEF Reached
  <1>8. SweptAll'
    BY <1>5, <1>6, <1>7 DEF Swept, SweptAll
  <1>9. h \in StatTags /\ Names(ctl.descs[ctl.desc].path, h) /\ ctl.desc \in 1 .. ctl.desc
    <2>1. h \in ToSet(ctl.todo)
      BY <1>3, <1>4, RestOnce, SessionFields DEF Tagged
    <2>2. ctl.desc > 0 /\ ctl.desc \in Nat
      BY <1>4, SessionFields DEF Tagged
    <2> QED
      BY <2>1, <2>2 DEF Tagged, StatLeaves
  <1>10. cell \in TargetCells(h)
    BY <1>2, <1>4 DEF TargetCells
  <1>11. SweptOnly'
    BY <1>5, <1>6, <1>9, <1>10 DEF Swept, SweptOnly
  <1>12. ~Leveled'
    BY <1>2, <1>6 DEF Leveled
  <1> QED
    BY <1>8, <1>11, <1>12 DEF Swept, InForce

\* The command leaves a tag, all of whose cells it has stored to by then.
LEMMA LeavesSwept ==
  ASSUME Types, Tagged, Swept, NEW h \in Tags, ctl.todo # <<>>, h = Head(ctl.todo),
         NEW swept, ctl.swept \subseteq swept, TargetCells(h) \subseteq swept,
         ctl'.todo = Tail(ctl.todo), ctl'.desc = ctl.desc, ctl'.descs = ctl.descs,
         ctl'.cmd = ctl.cmd, ctl'.level = ctl.level, ctl'.swept = swept,
         \A cell \in swept : cell \in ctl.swept \/ cell \in TargetCells(h),
         InForce'
  PROVE  Swept'
  <1>1. (Leveled' <=> Leveled) /\ \A t : TargetCells(t)' = TargetCells(t)
    BY TargetsUntouched
  <1>2. \A t, i : t # h => (Reached(t, i)' <=> Reached(t, i))
    <2>1. PICK d \in Nat : d = ctl.desc
      BY SessionFields
    <2> QED
      BY <2>1, ReachedNext
  <1>3. SweptAll'
    BY <1>1, <1>2 DEF Swept, SweptAll
  <1>4. h \in StatTags \cup LogTags /\ Names(ctl.descs[ctl.desc].path, h) /\ ctl.desc \in 1 .. ctl.desc
    <2>1. h \in ToSet(ctl.todo)
      BY RestOnce, SessionFields DEF Tagged
    <2>2. ctl.desc > 0 /\ ctl.desc \in Nat
      BY SessionFields DEF Tagged
    <2> QED
      BY <2>1, <2>2 DEF Tagged, StatScope, LogScope
  <1>5. SweptOnly'
    BY <1>1, <1>4 DEF Swept, SweptOnly
  <1> QED
    BY <1>3, <1>5 DEF Swept

LEMMA StatOutputSwept ==
  ASSUME Types, Tagged, Visiting, Swept, addStatOutput
  PROVE  Swept'
  <1>1. PICK h \in Tags : h = Head(ctl.todo)
    BY StatOutputIs, NextTag
  <1>2. /\ ctl.todo # <<>> /\ ctl.visiting /\ ctl.cells = <<>> /\ h \in StatScope
        /\ ctl' = [ctl EXCEPT
              !.visiting = FALSE, !.todo = Tail(ctl.todo), !.entries = <<>>,
              !.dimensionSizes = <<>>, !.stat_tags_vector = ctl'.stat_tags_vector]
        /\ mem' = mem
    BY <1>1, StatOutputIs
  <1>3. ctl'.todo = Tail(ctl.todo) /\ ctl'.desc = ctl.desc /\ ctl'.descs = ctl.descs
        /\ ctl'.cmd = ctl.cmd /\ ctl'.level = ctl.level /\ ctl'.swept = ctl.swept
    BY <1>2, SessionFields DEF Sessions
  <1>4. TargetCells(h) \subseteq ctl.swept
    <2>1. CASE ctl.cmd = "CLEAR_STAT" /\ h \in StatLeaves
      <3>1. At(h)
        BY <1>1, <1>2 DEF Visiting
      <3>2. PICK k \in 0 .. NumCells(dims[h]) : Walked(h, k)
        BY <2>1, <3>1 DEF At, TouchesCells
      <3>3. NumCells(dims[h]) \in Nat /\ shared_ptr(h) \in Nat
        BY <2>1, SizeOfLeaf, CellsOfTags
      <3>4. NumCells(dims[h]) - k \in Nat /\ shared_ptr(h) + k \in Nat
        BY <3>3
      <3>5. NumCells(dims[h]) - k = 0
        BY <1>2, <3>2, <3>4, RestOfRun DEF Walked
      <3>6. \A i \in 0 .. NumCells(dims[h]) - 1 : shared_ptr(h) + i \in ctl.swept
        BY <2>1, <3>2, <3>3, <3>5 DEF Walked
      <3>7. ASSUME NEW cell \in StatCells(h)
            PROVE  cell \in ctl.swept
        <4>1. cell - shared_ptr(h) \in 0 .. NumCells(dims[h]) - 1
              /\ shared_ptr(h) + (cell - shared_ptr(h)) = cell
          BY <3>3 DEF StatCells
        <4> QED
          BY <3>6, <4>1
      <3> QED
        BY <2>1, <3>7 DEF TargetCells
    <2>2. CASE ~(ctl.cmd = "CLEAR_STAT" /\ h \in StatLeaves)
      <3>1. ctl.cmd # "LOG_LEVEL"
        BY <1>2 DEF StatScope, isStatisticCommand
      <3> QED
        BY <2>2, <3>1 DEF TargetCells, Leveled
    <2> QED
      BY <2>1, <2>2
  <1>5. InForce'
    BY <1>2, <1>3, TargetsUntouched DEF Swept, InForce
  <1>6. PICK swept : swept = ctl.swept
    OBVIOUS
  <1> QED
    BY <1>1, <1>2, <1>3, <1>4, <1>5, <1>6, LeavesSwept

LEMMA ShowSwept ==
  ASSUME Types, Tagged, Swept, ShowLogTag
  PROVE  Swept'
  <1>1. PICK h \in Tags : h = Head(ctl.todo)
    BY ShowLogTagIs, NextTag
  <1>2. PICK swept : swept = ctl.swept
    OBVIOUS
  <1>3. /\ LogOutputStep(NoLogOutput, swept) /\ ctl.todo # <<>> /\ ctl.cmd = "PRINT_TAG"
        /\ mem' = mem
    BY <1>2, ShowLogTagIs
  <1>4. TargetCells(h) = {}
    BY <1>3 DEF TargetCells, Leveled
  <1>5. /\ ctl'.todo = Tail(ctl.todo) /\ ctl'.desc = ctl.desc /\ ctl'.descs = ctl.descs
        /\ ctl'.cmd = ctl.cmd /\ ctl'.level = ctl.level /\ ctl'.swept = swept
    BY <1>3, LogStepFields
  <1>6. InForce'
    BY <1>3, <1>5 DEF InForce, Leveled
  <1> QED
    BY <1>1, <1>2, <1>3, <1>4, <1>5, <1>6, LeavesSwept

LEMMA LevelSwept ==
  ASSUME Types, Tagged, Swept, LogLevel
  PROVE  Swept'
  <1>1. PICK cell \in Cells, new \in Levels : LevelStep(cell, new)
    BY LogLevelIs
  <1>2. PICK h \in LogTags : h = Head(ctl.todo)
    BY LogLevelIs
  <1>3. PICK swept : swept = IF ctl.level.set_log_level THEN ctl.swept \cup {cell} ELSE ctl.swept
    OBVIOUS
  <1>4. /\ LogOutputStep([previous |-> mem[cell], now |-> new], swept)
        /\ ctl.todo # <<>> /\ ctl.cmd = "LOG_LEVEL" /\ ctl.level.logger_idx < numLoggers
        /\ mem' = [mem EXCEPT ![cell] = new]
        /\ cell = LevelCell(h, ctl.level.logger_idx)
        /\ new = (IF ctl.level.set_log_level
                  THEN NewLevel(ctl.level.new_log_level, mem[cell]) ELSE mem[cell])
    BY <1>1, <1>2, <1>3 DEF LevelStep
  <1>5. /\ ctl'.todo = Tail(ctl.todo) /\ ctl'.desc = ctl.desc /\ ctl'.descs = ctl.descs
        /\ ctl'.cmd = ctl.cmd /\ ctl'.level = ctl.level /\ ctl'.swept = swept
    BY <1>4, LogStepFields
  <1>6. Leveled <=> ctl.level.set_log_level
    BY <1>4 DEF Leveled
  <1>7. TargetCells(h) = IF Leveled THEN {cell} ELSE {}
    BY <1>4 DEF TargetCells
  <1>8. InForce'
    <2>1. SUFFICES ASSUME Leveled, NEW l \in Levels,
                          LogLevelNames[l + 1] = ctl.level.new_log_level, NEW c \in swept
                   PROVE  mem'[c] = l
      BY <1>5, TargetsUntouched DEF InForce
    <2>2. mem \in [Cells -> Nat] /\ ctl.swept \subseteq Cells
      BY SessionFields DEF Types
    <2>3. CASE c = cell
      <3>1. new = l
        <4>1. mem[cell] \in Levels
          <5>1. cell \in AllLevelCells
            BY <1>4, LevelCells, SessionFields
          <5> QED
            BY <5>1 DEF Types
        <4> QED
          BY <1>4, <1>6, <2>1, <4>1, NewLevelType
      <3> QED
        BY <1>4, <2>2, <2>3, <3>1
    <2>4. CASE c # cell
      <3>1. c \in ctl.swept
        BY <1>3, <2>4
      <3>2. mem[c] = l
        BY <2>1, <3>1 DEF Swept, InForce
      <3> QED
        BY <1>4, <2>2, <2>4, <3>1, <3>2
    <2> QED
      BY <2>3, <2>4
  <1>9. h \in Tags /\ ctl.swept \subseteq swept /\ TargetCells(h) \subseteq swept
        /\ \A c \in swept : c \in ctl.swept \/ c \in TargetCells(h)
    BY <1>3, <1>6, <1>7, TreesAreDisjoint
  <1> QED
    BY <1>2, <1>4, <1>5, <1>8, <1>9, LeavesSwept

----------------------------------------------------------------------------
(* The invariant is inductive *)

LEMMA InitialInv ==
  ASSUME Init
  PROVE  Inv
  <1>1. /\ Modulus \in Nat \ {0, 1} /\ MaxWrites \in Nat /\ 0 < Modulus
        /\ 0 \in 0 .. Modulus - 1 /\ 0 \in 0 .. MaxWrites
    BY SessionAssumption
  <1>2. INFO \in Levels /\ INFO \in Nat
    BY LevelsAre DEF INFO
  <1>3. mem = [cell \in Cells |-> IF cell \in AllLevelCells THEN INFO ELSE 0]
    BY DEF Init
  <1>4. /\ mem \in [Cells -> Nat]
        /\ \A cell \in Cells : mem[cell] \in IF cell \in AllLevelCells THEN Levels ELSE 0 .. Modulus - 1
    <2> HIDE DEF INFO
    <2> QED
      BY <1>1, <1>2, <1>3
  <1>5. IdleThread \in ThreadStates /\ ~IdleThread.loaded /\ IdleThread.todo = <<>>
    <2>1. <<>> \in Seq(Items)
      BY EmptySequences
    <2> QED
      BY <1>1, <2>1 DEF IdleThread, ThreadStates
  <1>6. /\ Unwritten \in ItemStates /\ Unwritten.begun = 0 /\ Unwritten.count = 0
        /\ Unwritten.raced = FALSE
    BY DEF Unwritten, ItemStates
  <1>7. /\ thread = [g \in Threads |-> IdleThread] /\ ctl = NoSession /\ writes = 0
        /\ stat = [item \in Items |-> Unwritten]
    BY DEF Init
  <1>8. Types
    BY <1>1, <1>4, <1>5, <1>6, <1>7, NoSessionType DEF Types
  <1>9. Numbers
    <2>1. ASSUME NEW item \in Items
          PROVE  Counted(item) /\ Bounded(item)
      <3>1. mem[ItemCell(item)] = 0
        BY <1>3, ItemFacts
      <3>2. Incrementing(item) = {}
        BY <1>5, <1>7 DEF Incrementing
      <3>3. 0 % Modulus = 0
        BY <1>1, ModSmall
      <3> QED
        BY <1>6, <1>7, <3>1, <3>2, <3>3 DEF Counted, Bounded
    <2> QED
      BY <2>1 DEF Numbers
  <1>10. /\ ctl.desc = 0 /\ ctl.todo = <<>> /\ ctl.visiting = FALSE /\ ctl.cells = <<>>
         /\ ctl.stat_tags_vector = <<>> /\ ctl.log_tags_vector = <<>> /\ ctl.swept = {}
    BY <1>7, FieldsOfEnd
  <1>11. \A t, i : ~Reached(t, i)
    BY <1>10 DEF Reached
  <1>12. TagsIn(<<>>) = {} /\ OncePerTag(<<>>) /\ IsOnce(<<>>) /\ ToSet(<<>>) = {}
    BY DEF TagsIn, OncePerTag, IsOnce, ToSet
  <1>13. Tagged
    BY <1>10, <1>11, <1>12 DEF Tagged, Reports
  <1>14. Visiting /\ Collected
    BY <1>10 DEF Visiting, Collected
  <1>15. Swept
    BY <1>10, <1>11 DEF Swept, SweptAll, SweptOnly, InForce
  <1> QED
    BY <1>8, <1>9, <1>13, <1>14, <1>15 DEF Inv

LEMMA ThreadInv ==
  ASSUME Inv, NEW g \in Threads, Write(g)
  PROVE  Inv'
  <1>1. Types'
    BY ThreadTypes DEF Inv
  <1>2. Numbers'
    BY ThreadNumbers DEF Inv
  <1>3. ctl' = ctl
    BY DEF Write, writeStat, writeBitStatus, Load, Store, Assign
  <1>4. Tagged'
    BY <1>3, TagsUntouched DEF Inv
  <1>5. Visiting' /\ Collected'
    BY ThreadCells DEF Inv
  <1>6. Swept'
    BY ThreadSwept DEF Inv
  <1> QED
    BY <1>1, <1>2, <1>4, <1>5, <1>6 DEF Inv

\* A session begins, goes on to the next description, or ends.
LEMMA SessionInv ==
  ASSUME Inv, parseCommandLineArgs \/ NextDesc \/ InvalidLogIndex \/ showOutput
  PROVE  Inv'
  <1>1. UNCHANGED <<mem, thread, writes, stat>>
    BY DEF parseCommandLineArgs, NextDesc, InvalidLogIndex, showOutput
  <1>2. Numbers'
    BY <1>1, NumbersUntouched DEF Inv
  <1>3. CASE parseCommandLineArgs
    <2>1. Types'
      BY <1>3, StartTypes DEF Inv
    <2>2. /\ ctl'.desc = 0 /\ ctl'.todo = <<>> /\ ctl'.visiting = FALSE
          /\ ctl'.cells = <<>> /\ ctl'.stat_tags_vector = <<>>
          /\ ctl'.log_tags_vector = <<>> /\ ctl'.swept = {}
      BY <1>3, StartFields
    <2>3. Tagged' /\ Visiting' /\ Swept'
      BY <2>2, NothingTagged, NotVisiting, NothingSwept
    <2>4. Collected'
      BY <2>2 DEF Collected
    <2> QED
      BY <1>2, <2>1, <2>3, <2>4 DEF Inv
  <1>4. CASE NextDesc
    <2>1. Types' /\ Tagged' /\ Swept'
      BY <1>4, NextDescTypes, NextDescTags, NextDescSwept DEF Inv
    <2>2. /\ ctl'.visiting = ctl.visiting /\ ctl'.cells = ctl.cells /\ ctl'.cmd = ctl.cmd
          /\ ctl'.stat_tags_vector = ctl.stat_tags_vector /\ ~ctl.visiting
      BY <1>4, NextDescIs, SessionFields DEF Inv, Sessions
    <2>3. Visiting'
      BY <2>2 DEF Inv, Visiting
    <2>4. Collected'
      BY <1>1, <2>2, CollectedUntouched DEF Inv
    <2> QED
      BY <1>2, <2>1, <2>3, <2>4 DEF Inv
  <1>5. CASE InvalidLogIndex \/ showOutput
    <2>1. Types' /\ ctl' = NoSession
      BY <1>5, EndTypes DEF Inv
    <2>2. /\ ctl'.desc = 0 /\ ctl'.todo = <<>> /\ ctl'.visiting = FALSE
          /\ ctl'.cells = <<>> /\ ctl'.stat_tags_vector = <<>>
          /\ ctl'.log_tags_vector = <<>> /\ ctl'.swept = {}
      BY <2>1, FieldsOfEnd
    <2>3. Tagged' /\ Visiting' /\ Swept'
      BY <2>2, NothingTagged, NotVisiting, NothingSwept
    <2>4. Collected'
      BY <2>2 DEF Collected
    <2> QED
      BY <1>2, <2>1, <2>3, <2>4 DEF Inv
  <1> QED
    BY <1>3, <1>4, <1>5

\* A command visits a statistic.
LEMMA StatInv ==
  ASSUME Inv, VisitStat \/ DumpCell \/ ClearCell \/ addStatOutput
  PROVE  Inv'
  <1>1. CASE VisitStat
    <2>1. Types' /\ Visiting' /\ Collected'
      BY <1>1, VisitStatTypes, VisitStatCells DEF Inv
    <2>2. UNCHANGED <<mem, thread, writes, stat>>
      BY <1>1 DEF VisitStat
    <2>3. /\ ctl'.cmd = ctl.cmd /\ ctl'.desc = ctl.desc /\ ctl'.descs = ctl.descs
          /\ ctl'.level = ctl.level /\ ctl'.todo = ctl.todo /\ ctl'.swept = ctl.swept
          /\ ctl'.stat_tags_vector = ctl.stat_tags_vector
          /\ ctl'.log_tags_vector = ctl.log_tags_vector
      <3>1. PICK cells, sizes :
              ctl' = [ctl EXCEPT !.visiting = TRUE, !.cells = cells, !.dimensionSizes = sizes,
                                 !.entries = <<>>]
        BY <1>1 DEF VisitStat
      <3> QED
        BY <3>1, SessionFields DEF Inv, Sessions
    <2>4. Numbers' /\ Tagged' /\ Swept'
      BY <2>2, <2>3, NumbersUntouched, TagsUntouched, SweptUntouched DEF Inv
    <2> QED
      BY <2>1, <2>4 DEF Inv
  <1>2. CASE DumpCell
    <2>1. Types' /\ Visiting' /\ Collected'
      BY <1>2, DumpCellTypes, DumpCellCells DEF Inv
    <2>2. UNCHANGED <<mem, thread, writes, stat>>
      BY <1>2 DEF DumpCell
    <2>3. /\ ctl'.cmd = ctl.cmd /\ ctl'.desc = ctl.desc /\ ctl'.descs = ctl.descs
          /\ ctl'.level = ctl.level /\ ctl'.todo = ctl.todo /\ ctl'.swept = ctl.swept
          /\ ctl'.stat_tags_vector = ctl.stat_tags_vector
          /\ ctl'.log_tags_vector = ctl.log_tags_vector
      BY <1>2, SessionFields DEF Inv, DumpCell, Sessions
    <2>4. Numbers' /\ Tagged' /\ Swept'
      BY <2>2, <2>3, NumbersUntouched, TagsUntouched, SweptUntouched DEF Inv
    <2> QED
      BY <2>1, <2>4 DEF Inv
  <1>3. CASE ClearCell
    <2>1. Types' /\ Visiting' /\ Collected'
      BY <1>3, ClearCellTypes, ClearCellCells DEF Inv
    <2>2. /\ ctl'.cmd = ctl.cmd /\ ctl'.desc = ctl.desc /\ ctl'.descs = ctl.descs
          /\ ctl'.todo = ctl.todo /\ ctl'.stat_tags_vector = ctl.stat_tags_vector
          /\ ctl'.log_tags_vector = ctl.log_tags_vector
      <3>1. PICK cells, swept : ctl' = [ctl EXCEPT !.cells = cells, !.swept = swept]
        BY <1>3 DEF ClearCell
      <3> QED
        BY <3>1, SessionFields DEF Inv, Sessions
    <2>3. Numbers' /\ Tagged' /\ Swept'
      BY <1>3, <2>2, ClearNumbers, TagsUntouched, ClearSwept DEF Inv
    <2> QED
      BY <2>1, <2>3 DEF Inv
  <1>4. CASE addStatOutput
    <2>1. Types' /\ Tagged' /\ Visiting' /\ Collected' /\ Swept'
      BY <1>4, StatOutputTypes, StatOutputTags, StatOutputCells, StatOutputSwept DEF Inv
    <2>2. Numbers'
      BY <1>4, NumbersUntouched DEF addStatOutput, Inv
    <2> QED
      BY <2>1, <2>2 DEF Inv
  <1> QED
    BY <1>1, <1>2, <1>3, <1>4

\* A command visits a log tag.
LEMMA LogInv ==
  ASSUME Inv, ShowLogTag \/ LogLevel
  PROVE  Inv'
  <1>1. PICK output, swept : LogOutputStep(output, swept)
    <2>1. CASE ShowLogTag
      BY <2>1, ShowLogTagIs DEF Inv
    <2>2. CASE LogLevel
      BY <2>2, LogLevelIs DEF Inv, LevelStep
    <2> QED
      BY <2>1, <2>2
  <1>2. /\ ctl'.cmd = ctl.cmd /\ ctl'.visiting = ctl.visiting /\ ctl'.cells = ctl.cells
        /\ ctl'.stat_tags_vector = ctl.stat_tags_vector
    BY <1>1, LogStepFields DEF Inv
  <1>3. /\ ~ctl.visiting /\ ctl.todo # <<>> /\ Head(ctl.todo) \in LogTags /\ stat' = stat
        /\ isLogCommand(ctl.cmd) /\ Types' /\ Numbers' /\ Swept'
    <2>1. CASE ShowLogTag
      <3>1. UNCHANGED <<mem, thread, writes, stat>>
        BY <2>1, ShowLogTagIs DEF Inv
      <3>2. Numbers' /\ Swept'
        BY <2>1, <3>1, NumbersUntouched, ShowSwept DEF Inv
      <3> QED
        BY <2>1, <3>1, <3>2, ShowLogTagIs DEF Inv, isLogCommand
    <2>2. CASE LogLevel
      BY <2>2, LogLevelIs, LevelNumbers, LevelSwept DEF Inv, LevelStep, isLogCommand
    <2> QED
      BY <2>1, <2>2
  <1>4. Tagged'
    BY <1>1, <1>3, LogOutputTags DEF Inv
  <1>5. Visiting'
    BY <1>2, <1>3 DEF Inv, Visiting
  <1>6. Collected'
    BY <1>2, <1>3, CollectedUntouched DEF Inv
  <1> QED
    BY <1>3, <1>4, <1>5, <1>6 DEF Inv

\* Nothing happens.
LEMMA StutterInv ==
  ASSUME Inv, UNCHANGED vars
  PROVE  Inv'
  <1>1. UNCHANGED <<mem, thread, ctl, writes, stat>>
    BY DEF vars
  <1>2. Types'
    BY <1>1 DEF Inv, Types, AllLevelCells
  <1>3. Numbers' /\ Tagged' /\ Collected' /\ Swept'
    BY <1>1, NumbersUntouched, TagsUntouched, CollectedUntouched, SweptUntouched DEF Inv
  <1>4. Visiting'
    <2>1. CASE ctl.visiting
      BY <1>1, <2>1 DEF Inv, Visiting, At, TouchesCells, StatScope, Walked, Bound, ItemAt
    <2>2. CASE ~ctl.visiting
      BY <1>1, <2>2 DEF Inv, Visiting
    <2> QED
      BY <2>1, <2>2
  <1> QED
    BY <1>2, <1>3, <1>4 DEF Inv

\* The invariant holds in every state, whatever the tags, names, arrays, threads and
\* command lines, and however threads and commands interleave.
THEOREM SessionInvariant == Spec => []Inv
  <1>1. Init => Inv
    BY InitialInv
  <1>2. Inv /\ [Next]_vars => Inv'
    <2>1. SUFFICES ASSUME Inv, [Next]_vars
                   PROVE  Inv'
      OBVIOUS
    <2>2. CASE \E g \in Threads : Write(g)
      BY <2>1, <2>2, ThreadInv
    <2>3. CASE parseCommandLineArgs \/ NextDesc \/ InvalidLogIndex \/ showOutput
      BY <2>1, <2>3, SessionInv
    <2>4. CASE VisitStat \/ DumpCell \/ ClearCell \/ addStatOutput
      BY <2>1, <2>4, StatInv
    <2>5. CASE ShowLogTag \/ LogLevel
      BY <2>1, <2>5, LogInv
    <2>6. CASE UNCHANGED vars
      BY <2>1, <2>6, StutterInv
    <2> QED
      BY <2>1, <2>2, <2>3, <2>4, <2>5, <2>6 DEF Next, parseUserCommands, sendCommand
  <1> QED
    BY <1>1, <1>2, PTL DEF Spec

----------------------------------------------------------------------------
(* What the invariant says of the program *)

\* Memory, threads and the control process keep their types: counters stay within
\* theirs, and level bytes are numbers of levels (simple_counter.h, stat_log.h).
THEOREM SessionTypeOK == Spec => []TypeOK
  <1>1. Inv => TypeOK
    <2>1. SUFFICES ASSUME Inv PROVE TypeOK
      OBVIOUS
    <2>2. Types /\ Visiting
      BY <2>1 DEF Inv
    <2>3. ToSet(ctl.cells) \subseteq Cells
      <3>1. CASE ctl.cells = <<>>
        BY <3>1 DEF ToSet
      <3>2. CASE ctl.cells # <<>>
        <4>1. PICK t \in StatLeaves : t = Head(ctl.todo)
          BY <2>2, <3>2, NextCell
        <4>2. PICK k \in 0 .. NumCells(dims[t]) - 1 : Walked(t, k)
          BY <2>2, <3>2, <4>1, NextCell
        <4>3. shared_ptr(t) \in Nat /\ NumCells(dims[t]) \in Nat
          BY <4>1, SizeOfLeaf, CellsOfTags
        <4>4. /\ DOMAIN ctl.cells = 1 .. NumCells(dims[t]) - k
              /\ \A i \in 1 .. NumCells(dims[t]) - k : ctl.cells[i] = shared_ptr(t) + k + i - 1
          BY <4>2 DEF Walked, Run
        <4>5. \A i \in 1 .. NumCells(dims[t]) - k : shared_ptr(t) + k + i - 1 \in StatCells(t)
          BY <4>3 DEF StatCells
        <4> QED
          BY <4>4, <4>5, CellsApart DEF ToSet
      <3> QED
        BY <3>1, <3>2
    <2>4. \A g \in Threads : thread[g].todo \in Seq(Items) /\ thread[g].read \in 0 .. Modulus - 1
      BY <2>2 DEF Types, ThreadStates
    <2> QED
      BY <2>2, <2>3, <2>4, SessionFields DEF Types, TypeOK
  <1> QED
    BY <1>1, SessionInvariant, PTL

\* A counter whose writes and clears have not overlapped is exact, for any number of
\* threads, statistics, indices and sessions (simple_counter.h, stat_array.h).
THEOREM CountersAreExact == Spec => []CounterExactUnlessRaced
  <1>1. Inv => CounterExactUnlessRaced
    BY DEF Inv, Numbers, Counted, CounterExactUnlessRaced
  <1> QED
    BY <1>1, SessionInvariant, PTL

\* At the end of a session every description has been gone through.
LEMMA ReachedInTheEnd ==
  ASSUME Types, Showing
  PROVE  \A t : /\ \A i \in Nat : Reached(t, i) <=> i \in Naming(t)
                /\ (\E i \in Nat : Reached(t, i)) <=> Naming(t) # {}
  <1>1. ctl.todo = <<>> /\ ctl.desc = Len(ctl.descs)
    BY DEF Showing
  <1>2. ctl.descs \in Seq(AllDescs) /\ ctl.desc \in Nat /\ DOMAIN ctl.descs = 1 .. Len(ctl.descs)
        /\ ToSet(ctl.todo) = {}
    BY <1>1, SessionFields DEF ToSet
  <1>3. Len(ctl.descs) \in Nat
    BY <1>1, <1>2
  <1>4. ASSUME NEW t
        PROVE  \A i \in Nat : Reached(t, i) <=> i \in Naming(t)
    BY <1>1, <1>2 DEF Reached, Naming
  <1>5. \A t : Naming(t) \subseteq Nat
    BY <1>2, <1>3 DEF Naming
  <1> QED
    BY <1>4, <1>5

\* A command stores to the cells of the tags that it was limited to, to all of them
\* and to no others, and a new level is then in force: for any hierarchy, arrays and
\* command line (doStatCommand, LogControlProxy::doCommand).
THEOREM CommandsHitTheirTargets == Spec => []CommandHitsItsTargets
  <1>1. Inv => CommandHitsItsTargets
    <2>1. SUFFICES ASSUME Inv PROVE CommandHitsItsTargets
      OBVIOUS
    <2>2. Types /\ Tagged /\ SweptAll /\ SweptOnly /\ InForce
      BY <2>1 DEF Inv, Swept
    <2> DEFINE targets ==
          IF ctl.cmd = "CLEAR_STAT"
          THEN UNION {StatCells(t) : t \in {u \in StatLeaves : Naming(u) # {}}}
          ELSE IF Leveled
          THEN {LevelCell(t, ctl.level.logger_idx) : t \in {u \in LogTags : Naming(u) # {}}}
          ELSE {}
    <2>3. targets = UNION {TargetCells(t) : t \in {u \in StatTags \cup LogTags : Naming(u) # {}}}
      <3>1. CASE ctl.cmd = "CLEAR_STAT"
        <4>1. ~Leveled /\ \A t : TargetCells(t) = IF t \in StatLeaves THEN StatCells(t) ELSE {}
          BY <3>1 DEF Leveled, TargetCells
        <4>2. StatLeaves \subseteq StatTags
          BY DEF StatLeaves
        <4> QED
          BY <3>1, <4>1, <4>2
      <3>2. CASE ctl.cmd # "CLEAR_STAT" /\ Leveled
        <4>1. \A t : TargetCells(t) =
                       IF t \in LogTags THEN {LevelCell(t, ctl.level.logger_idx)} ELSE {}
          BY <3>2 DEF TargetCells
        <4> QED
          BY <3>2, <4>1
      <3>3. CASE ctl.cmd # "CLEAR_STAT" /\ ~Leveled
        <4>1. \A t : TargetCells(t) = {}
          BY <3>3 DEF TargetCells
        <4> QED
          BY <3>3, <4>1
      <3> QED
        BY <3>1, <3>2, <3>3
    <2> HIDE DEF targets
    <2>4. ctl.swept \subseteq targets
      <3>1. ASSUME NEW cell \in ctl.swept
            PROVE  cell \in targets
        <4>1. PICK t \in StatTags \cup LogTags, i \in 1 .. ctl.desc :
                cell \in TargetCells(t) /\ Names(ctl.descs[i].path, t)
          BY <2>2 DEF SweptOnly
        <4>2. i \in DOMAIN ctl.descs
          <5>1. /\ ctl.desc \in Nat /\ Len(ctl.descs) \in Nat /\ ctl.desc <= Len(ctl.descs)
                /\ DOMAIN ctl.descs = 1 .. Len(ctl.descs)
            BY <2>2, SessionFields
          <5> QED
            BY <5>1
        <4>3. i \in Naming(t)
          BY <4>1, <4>2 DEF Naming
        <4> QED
          BY <2>3, <4>1, <4>3
      <3> QED
        BY <3>1
    <2>5. ASSUME Showing
          PROVE  ctl.swept = targets
      <3>1. ASSUME NEW t \in StatTags \cup LogTags, Naming(t) # {}
            PROVE  TargetCells(t) \subseteq ctl.swept
        BY <2>2, <2>5, <3>1, ReachedInTheEnd DEF SweptAll
      <3> QED
        BY <2>3, <2>4, <3>1
    <2>6. ASSUME Showing, Leveled, NEW l \in Levels, LogLevelNames[l + 1] = ctl.level.new_log_level,
                 NEW cell \in targets
          PROVE  mem[cell] = l
      BY <2>2, <2>5, <2>6 DEF InForce
    <2> QED
      BY <2>4, <2>5, <2>6 DEF CommandHitsItsTargets, targets, Leveled
  <1> QED
    BY <1>1, SessionInvariant, PTL

----------------------------------------------------------------------------
(* The rows that are printed *)

\* The i-th entry of a statistic, as a row.
RowAt(elem, i) ==
  [indices |-> dim_indices(i - 1, elem.dimensionSizes), value |-> elem.entries[i]]

\* Rows are those of an increasing choice of entries: all whose index is to be printed.
RowsFrom(rows, elem, e) ==
  /\ e \in [1 .. Len(rows) -> 1 .. Len(elem.entries)]
  /\ \A j \in 1 .. Len(rows) :
       rows[j] = RowAt(elem, e[j]) /\ do_print(elem.array_indices, rows[j].indices)
  /\ \A i, j \in 1 .. Len(rows) : i < j => e[i] < e[j]
  /\ \A i \in 1 .. Len(elem.entries) :
       do_print(elem.array_indices, RowAt(elem, i).indices) => \E j \in 1 .. Len(rows) : e[j] = i

LEMMA RowsAre ==
  ASSUME NEW elem, elem.entries \in Seq(Nat)
  PROVE  /\ DOMAIN Rows(elem) = 1 .. Len(Rows(elem)) /\ Len(Rows(elem)) \in Nat
         /\ \E e : RowsFrom(Rows(elem), elem, e)
  <1> DEFINE n == Len(elem.entries)
             all == [i \in DOMAIN elem.entries |->
                       [indices |-> dim_indices(i - 1, elem.dimensionSizes),
                        value |-> elem.entries[i]]]
             S == {RowAt(elem, i) : i \in 1 .. n}
             T == {row \in ToSet(all) : do_print(elem.array_indices, row.indices)}
  <1>1. n \in Nat /\ DOMAIN elem.entries = 1 .. n
    OBVIOUS
  <1>2. all = [i \in 1 .. n |-> all[i]] /\ \A i \in 1 .. n : all[i] = RowAt(elem, i)
    BY <1>1 DEF RowAt
  <1>3. Rows(elem) = SelectIn(all, T)
    BY DEF Rows
  <1> HIDE DEF all, n
  <1>4. \A i \in 1 .. n : all[i] \in S
    BY <1>2
  <1> HIDE DEF S
  <1>5. all \in Seq(S) /\ Len(all) = n /\ DOMAIN all = 1 .. n
    BY <1>1, <1>2, <1>4, FunctionIsSequence
  <1>6. \A i \in 1 .. n : all[i] \in T <=> do_print(elem.array_indices, RowAt(elem, i).indices)
    BY <1>2, <1>5 DEF ToSet
  <1> HIDE DEF T
  <1>7. SelectIn(all, T) \in Seq(S) /\ \E e : Embedding(e, SelectIn(all, T), all, T, n)
    BY <1>5, SelectInIsEmbedded
  <1>8. PICK e : Embedding(e, Rows(elem), all, T, n)
    BY <1>3, <1>7
  <1>9. Rows(elem) \in Seq(S)
    BY <1>3, <1>7
  <1>10. DOMAIN Rows(elem) = 1 .. Len(Rows(elem)) /\ Len(Rows(elem)) \in Nat
    BY <1>9
  <1>11. PICK rows : rows = Rows(elem)
    OBVIOUS
  <1>12. RowsFrom(rows, elem, e)
    <2>1. /\ e \in [1 .. Len(rows) -> 1 .. n]
          /\ \A j \in 1 .. Len(rows) : rows[j] = all[e[j]] /\ all[e[j]] \in T
          /\ \A k, j \in 1 .. Len(rows) : k < j => e[k] < e[j]
          /\ \A i \in 1 .. n : all[i] \in T => \E j \in 1 .. Len(rows) : e[j] = i
      BY <1>8, <1>11 DEF Embedding
    <2>2. \A j \in 1 .. Len(rows) :
            rows[j] = RowAt(elem, e[j]) /\ do_print(elem.array_indices, rows[j].indices)
      <3>1. ASSUME NEW j \in 1 .. Len(rows)
            PROVE  rows[j] = RowAt(elem, e[j]) /\ do_print(elem.array_indices, rows[j].indices)
        <4>1. PICK i \in 1 .. n : i = e[j]
          BY <2>1
        <4>2. rows[j] = all[i] /\ all[i] \in T
          BY <2>1, <4>1
        <4>3. all[i] = RowAt(elem, i) /\ do_print(elem.array_indices, RowAt(elem, i).indices)
          BY <1>2, <1>6, <4>2
        <4> QED
          BY <4>1, <4>2, <4>3
      <3> QED
        BY <3>1
    <2>3. \A i \in 1 .. n : do_print(elem.array_indices, RowAt(elem, i).indices) =>
            \E j \in 1 .. Len(rows) : e[j] = i
      BY <1>6, <2>1
    <2> QED
      BY <2>1, <2>2, <2>3 DEF RowsFrom, n
  <1> QED
    BY <1>10, <1>11, <1>12

\* What a collected statistic is.
LEMMA CollectedStat ==
  ASSUME Types, Collected, NEW i \in DOMAIN ctl.stat_tags_vector, ctl.cmd = "DUMP_STAT",
         NEW elem, elem = ctl.stat_tags_vector[i]
  PROVE  /\ elem.tag \in StatTags /\ elem.entries \in Seq(Nat)
         /\ elem.tag \in StatLeaves =>
              /\ elem.dimensionSizes = dims[elem.tag]
              /\ Len(elem.entries) = NumCells(dims[elem.tag])
              /\ Bound(elem.tag, elem.entries)
         /\ elem.tag \notin StatLeaves => elem.entries = <<>>
  <1>1. elem \in StatElems
    BY SessionFields, ElementType
  <1> QED
    BY <1>1 DEF StatElems, Collected

\* A row labelled with an index counts writes to that index of that statistic only:
\* write's addresses, the walk of a command over the same memory and the printer's
\* labels agree, for arrays of any number of dimensions and any sizes (write_idx,
\* doStatCommand, idx_to_dim_string).
THEOREM RowsAreOwnWrites == Spec => []RowsShowOwnWrites
  <1>1. Inv => RowsShowOwnWrites
    <2>1. SUFFICES ASSUME Inv, ctl.cmd = "DUMP_STAT", NEW i \in DOMAIN ctl.stat_tags_vector,
                          NEW j \in DOMAIN Rows(ctl.stat_tags_vector[i])
                   PROVE  Rows(ctl.stat_tags_vector[i])[j].value <=
                            stat[<<ctl.stat_tags_vector[i].tag,
                                   Rows(ctl.stat_tags_vector[i])[j].indices>>].begun
      BY DEF RowsShowOwnWrites
    <2>2. Types /\ Collected
      BY <2>1 DEF Inv
    <2>3. PICK elem : elem = ctl.stat_tags_vector[i]
      OBVIOUS
    <2>4. /\ elem.entries \in Seq(Nat)
          /\ elem.tag \in StatLeaves =>
               /\ elem.dimensionSizes = dims[elem.tag]
               /\ Len(elem.entries) = NumCells(dims[elem.tag])
               /\ Bound(elem.tag, elem.entries)
          /\ elem.tag \notin StatLeaves => elem.entries = <<>>
      BY <2>1, <2>2, <2>3, CollectedStat
    <2>5. PICK e : RowsFrom(Rows(elem), elem, e)
      BY <2>4, RowsAre
    <2>6. j \in 1 .. Len(Rows(elem))
      BY <2>1, <2>3, <2>4, RowsAre
    <2>7. e[j] \in 1 .. Len(elem.entries) /\ Rows(elem)[j] = RowAt(elem, e[j])
      BY <2>5, <2>6 DEF RowsFrom
    <2>8. PICK k \in 1 .. Len(elem.entries) : k = e[j]
      BY <2>7
    <2>9. elem.tag \in StatLeaves
      <3>1. elem.entries # <<>>
        BY <2>4, <2>8
      <3> QED
        BY <2>4, <3>1
    <2>10. elem.entries[k] <= stat[ItemAt(elem.tag, shared_ptr(elem.tag) + k - 1)].begun
      BY <2>4, <2>8, <2>9 DEF Bound
    <2>11. ItemAt(elem.tag, shared_ptr(elem.tag) + k - 1) = <<elem.tag, dim_indices(k - 1, dims[elem.tag])>>
      <3>1. shared_ptr(elem.tag) \in Nat /\ Len(elem.entries) \in Nat
        BY <2>4, <2>9, CellsOfTags
      <3>2. (shared_ptr(elem.tag) + k - 1) - shared_ptr(elem.tag) = k - 1
        BY <2>8, <3>1
      <3> QED
        BY <3>2 DEF ItemAt, IndexOfCell
    <2>12. Rows(elem)[j] = [indices |-> dim_indices(k - 1, dims[elem.tag]), value |-> elem.entries[k]]
      BY <2>4, <2>7, <2>8, <2>9 DEF RowAt
    <2>13. Rows(elem)[j].value <= stat[<<elem.tag, Rows(elem)[j].indices>>].begun
      BY <2>10, <2>11, <2>12
    <2> QED
      BY <2>3, <2>13
  <1> QED
    BY <1>1, SessionInvariant, PTL

\* One index of a statistic comes before another: in the first dimension that differs.
Precedes(idx, jdx, t) ==
  \E d \in DOMAIN dims[t] : idx[d] < jdx[d] /\ \A c \in 1 .. d - 1 : idx[c] = jdx[c]

\* The rows of a statistic: those that the ranges select, by increasing index.
InOrder(rows, t) ==
  \A j, k \in DOMAIN rows : j < k => Precedes(rows[j].indices, rows[k].indices, t)

Selected(rows, t, array_indices) ==
  {rows[j].indices : j \in DOMAIN rows} = {idx \in Indices(t) : do_print(array_indices, idx)}

LastNaming(t) == CHOOSE j \in Naming(t) : \A k \in Naming(t) : k <= j

\* The rows of a whole statistic are the indices that are to be printed, in order.
LEMMA RowsOfStat ==
  ASSUME NEW t \in StatLeaves, NEW elem, elem.entries \in Seq(Nat),
         elem.dimensionSizes = dims[t], Len(elem.entries) = NumCells(dims[t]),
         NEW rows, rows = Rows(elem)
  PROVE  Selected(rows, t, elem.array_indices) /\ InOrder(rows, t)
  <1> DEFINE sizes == dims[t]
             n == NumCells(dims[t])
             m == Len(rows)
  <1>1. sizes \in Seq(Nat \ {0}) /\ n \in Nat /\ DOMAIN sizes = 1 .. Len(sizes)
    BY SizeOfLeaf
  <1>2. DOMAIN rows = 1 .. m /\ m \in Nat /\ \E e : RowsFrom(rows, elem, e)
    BY RowsAre
  <1>3. PICK e : RowsFrom(rows, elem, e)
    BY <1>2
  <1>4. /\ e \in [1 .. m -> 1 .. n]
        /\ \A j \in 1 .. m : rows[j] = RowAt(elem, e[j]) /\ do_print(elem.array_indices, rows[j].indices)
        /\ \A i, j \in 1 .. m : i < j => e[i] < e[j]
        /\ \A i \in 1 .. n :
             do_print(elem.array_indices, RowAt(elem, i).indices) => \E j \in 1 .. m : e[j] = i
    BY <1>3 DEF RowsFrom
  <1>5. \A i : RowAt(elem, i).indices = dim_indices(i - 1, sizes)
    BY DEF RowAt
  <1>6. \A x \in 0 .. n - 1 : IsIndex(dim_indices(x, sizes), sizes)
    BY <1>1, OffsetOfLabel
  <1>7. \A idx : idx \in Indices(t) <=> IsIndex(idx, sizes)
    BY IndicesAre
  <1>8. \A idx : IsIndex(idx, sizes) =>
          Offset(sizes, idx) \in 0 .. n - 1 /\ dim_indices(Offset(sizes, idx), sizes) = idx
    BY <1>1, LabelOfOffset
  <1>9. \A x \in 0 .. n - 1, y \in 0 .. n - 1 : x < y =>
          Precedes(dim_indices(x, sizes), dim_indices(y, sizes), t)
    BY <1>1, LabelsInOrder, ZenonT(40) DEF Precedes
  <1> HIDE DEF sizes, n, m
  <1>10. ASSUME NEW j \in 1 .. m
         PROVE  /\ e[j] \in 1 .. n /\ e[j] - 1 \in 0 .. n - 1
                /\ rows[j].indices = dim_indices(e[j] - 1, sizes)
                /\ rows[j].indices \in Indices(t) /\ do_print(elem.array_indices, rows[j].indices)
    <2>1. e[j] \in 1 .. n
      BY <1>4
    <2>2. e[j] - 1 \in 0 .. n - 1
      BY <1>1, <2>1
    <2>3. rows[j].indices = dim_indices(e[j] - 1, sizes)
      BY <1>4, <1>5
    <2> QED
      BY <1>4, <1>6, <1>7, <2>1, <2>2, <2>3
  <1>11. ASSUME NEW idx \in Indices(t), do_print(elem.array_indices, idx)
         PROVE  \E j \in 1 .. m : rows[j].indices = idx
    <2>1. PICK x \in 0 .. n - 1 : dim_indices(x, sizes) = idx
      BY <1>7, <1>8
    <2>2. PICK i \in 1 .. n : i - 1 = x
      <3>1. x + 1 \in 1 .. n /\ (x + 1) - 1 = x
        BY <1>1
      <3> QED
        BY <3>1
    <2>3. RowAt(elem, i).indices = idx
      BY <1>5, <2>1, <2>2
    <2>4. PICK j \in 1 .. m : e[j] = i
      BY <1>4, <1>11, <2>3
    <2> QED
      BY <1>4, <2>3, <2>4
  <1>12. ASSUME NEW j \in 1 .. m, NEW k \in 1 .. m, j < k
         PROVE  Precedes(rows[j].indices, rows[k].indices, t)
    <2>1. PICK x \in 0 .. n - 1 : x = e[j] - 1 /\ rows[j].indices = dim_indices(x, sizes)
      BY <1>10
    <2>2. PICK y \in 0 .. n - 1 : y = e[k] - 1 /\ rows[k].indices = dim_indices(y, sizes)
      BY <1>10
    <2>3. x < y
      <3>1. e[j] < e[k] /\ e[j] \in Int /\ e[k] \in Int
        BY <1>4, <1>10, <1>12
      <3> QED
        BY <2>1, <2>2, <3>1
    <2> QED
      BY <1>9, <2>1, <2>2, <2>3
  <1>13. \A x : x \in {rows[j].indices : j \in 1 .. m} <=>
               x \in Indices(t) /\ do_print(elem.array_indices, x)
    BY <1>10, <1>11
  <1>14. Selected(rows, t, elem.array_indices)
    BY <1>2, <1>13 DEF Selected
  <1>15. InOrder(rows, t)
    BY <1>2, <1>12 DEF InOrder
  <1> QED
    BY <1>14, <1>15

\* What is about to be printed is what the command line asked for: each named tag once
\* and no other, and of each statistic the rows that the last description naming it
\* selects, by increasing index, each once; for any hierarchy, names, arrays, ranges
\* and descriptions (tagCommander, Printer::addStatOutput, printDumpStat).
THEOREM ReportsAreWhatWasAsked == Spec => []ReportIsWhatWasAsked
  <1>1. Inv => ReportIsWhatWasAsked
    <2>1. SUFFICES ASSUME Inv, Showing PROVE ReportIsWhatWasAsked
      BY DEF ReportIsWhatWasAsked
    <2>2. Types /\ Tagged /\ Collected
      BY <2>1 DEF Inv
    <2> DEFINE stats == ctl.stat_tags_vector
               logs == ctl.log_tags_vector
               named(tags) == {t \in tags : Naming(t) # {}}
    <2>3. \A t : /\ \A i \in Nat : Reached(t, i) <=> i \in Naming(t)
                 /\ (\E i \in Nat : Reached(t, i)) <=> Naming(t) # {}
      BY <2>1, <2>2, ReachedInTheEnd
    <2>4. /\ TagsIn(stats) = (IF isStatisticCommand(ctl.cmd) THEN named(StatTags) ELSE {})
          /\ OncePerTag(stats)
      BY <2>2, <2>3 DEF Tagged, Reports, StatScope
    <2>5. /\ TagsIn(logs) = (IF isLogCommand(ctl.cmd) THEN named(LogTags) ELSE {})
          /\ OncePerTag(logs)
      BY <2>2, <2>3 DEF Tagged, Reports, LogScope
    <2>6. ASSUME ctl.cmd = "DUMP_STAT", NEW i \in DOMAIN stats, stats[i].tag \in StatLeaves
          PROVE  /\ Selected(Rows(stats[i]), stats[i].tag,
                             ctl.descs[LastNaming(stats[i].tag)].array_indices)
                 /\ InOrder(Rows(stats[i]), stats[i].tag)
      <3>1. PICK elem : elem = stats[i]
        OBVIOUS
      <3>2. PICK t \in StatLeaves : t = elem.tag
        BY <2>6, <3>1
      <3>3. /\ elem.entries \in Seq(Nat) /\ elem.dimensionSizes = dims[t]
            /\ Len(elem.entries) = NumCells(dims[t])
        BY <2>2, <2>6, <3>1, <3>2, CollectedStat
      <3>4. PICK last \in Nat : /\ Reached(t, last)
                                /\ elem.array_indices = ctl.descs[last].array_indices
                                /\ \A k \in Nat : Reached(t, k) => k <= last
        <4>1. LastAsked(elem)
          BY <2>2, <2>6, <3>1 DEF Tagged
        <4> QED
          BY <3>2, <4>1 DEF LastAsked
      <3>5. Naming(t) \subseteq Nat
        <4>1. DOMAIN ctl.descs \subseteq Nat
          BY <2>2, SessionFields
        <4> QED
          BY <4>1 DEF Naming
      <3>6. last \in Naming(t) /\ \A k \in Naming(t) : k <= last
        BY <2>3, <3>4, <3>5
      <3>7. last = LastNaming(t)
        <4>1. \A j \in Naming(t) : (\A k \in Naming(t) : k <= j) => j = last
          BY <3>5, <3>6
        <4> QED
          BY <3>6, <4>1 DEF LastNaming
      <3>8. PICK rows : rows = Rows(elem)
        OBVIOUS
      <3>9. Selected(rows, t, elem.array_indices) /\ InOrder(rows, t)
        BY <3>3, <3>8, RowsOfStat
      <3>10. stats[i].tag = t /\ Rows(stats[i]) = rows
        BY <3>1, <3>2, <3>8
      <3>11. ctl.descs[LastNaming(t)].array_indices = elem.array_indices
        BY <3>4, <3>7
      <3> HIDE DEF stats
      <3> QED
        BY <3>9, <3>10, <3>11
    <2>7. ASSUME ctl.cmd = "DUMP_STAT", NEW i \in DOMAIN stats, stats[i].tag \in StatLeaves
          PROVE  LET t == stats[i].tag
                     last == CHOOSE j \in Naming(t) : \A k \in Naming(t) : k <= j
                     rows == Rows(stats[i])
                     wanted == {idx \in Indices(t) : do_print(ctl.descs[last].array_indices, idx)} IN
                 /\ {rows[j].indices : j \in DOMAIN rows} = wanted
                 /\ \A j, k \in DOMAIN rows : j < k =>
                      \E d \in DOMAIN dims[t] :
                        /\ rows[j].indices[d] < rows[k].indices[d]
                        /\ \A e \in 1 .. d - 1 : rows[j].indices[e] = rows[k].indices[e]
      <3>1. /\ Selected(Rows(stats[i]), stats[i].tag, ctl.descs[LastNaming(stats[i].tag)].array_indices)
            /\ InOrder(Rows(stats[i]), stats[i].tag)
        BY <2>6, <2>7
      <3> HIDE DEF stats
      <3> QED
        BY <3>1 DEF Selected, InOrder, Precedes, LastNaming
    <2> QED
      BY <2>4, <2>5, <2>7 DEF ReportIsWhatWasAsked, TagsIn, OncePerTag
  <1> QED
    BY <1>1, SessionInvariant, PTL
=============================================================================
