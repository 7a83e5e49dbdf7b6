------------------------ MODULE LogRingRestartProofs ------------------------
(***************************************************************************)
(* Theorems about LogRingRestart, for every number of starts, threads,     *)
(* control processes and blocks: a generator that starts again over the    *)
(* memory of a killed one does no harm, as long as the control processes   *)
(* stay away while it starts.                                              *)
(***************************************************************************)
EXTENDS LogRingRestart, LogRingProofs

USE RingAssumption, ActorAssumption

\* The constructor is at work: nobody else is, and what it has cleared stays so.
StartingOK ==
  /\ GeneratorDown
  /\ lock = Free
  /\ currentLogEntry = 0
  /\ \A i \in Index : i < zeroed => ring[i] = ZeroBlock
  /\ \A r \in Readers : ret[r].pc \in {"idle", "print"} /\ CopyOK(r)

\* LogRing's invariant, but for the time of a start.
RestartInv ==
  /\ TypeOK
  /\ zeroed \in 0 .. numLogEntries
  /\ zeroed = numLogEntries => RingInv
  /\ zeroed < numLogEntries => StartingOK

\* The first step of a start finds nobody in the middle of anything.
LEMMA NewMutexStep ==
  ASSUME ReadersAway, RestartInv, NewMutex
  PROVE  RestartInv'
  <1>1. /\ GeneratorDown /\ zeroed' = 0 /\ lock' = Free /\ currentLogEntry' = 0
        /\ written' = <<>> /\ UNCHANGED <<ring, now, lastMsg, gen, ret>>
        /\ \A r \in Readers : ret[r].pc \notin {"wait", "copy"}
    BY DEF NewMutex
  <1>2. TypeOK'
    BY <1>1 DEF RestartInv, TypeOK, Index
  <1>3. ASSUME NEW r \in Readers
        PROVE  ret[r].pc \in {"idle", "print"} /\ CopyOK(r)
    <2>1. ret[r].pc \in {"idle", "print"}
      BY <1>1 DEF RestartInv, TypeOK, Reader
    <2>2. CASE zeroed = numLogEntries
      BY <2>1, <2>2 DEF RestartInv, RingInv
    <2>3. CASE zeroed < numLogEntries
      BY <2>3 DEF RestartInv, StartingOK
    <2> QED
      BY <2>1, <2>2, <2>3 DEF RestartInv
  <1>4. \A r \in Readers : ret'[r].pc \in {"idle", "print"} /\ CopyOK(r)'
    BY <1>1, <1>3 DEF CopyOK
  <1>5. StartingOK'
    BY <1>1, <1>4 DEF StartingOK, GeneratorDown, Index
  <1> QED
    BY <1>1, <1>2, <1>5 DEF RestartInv

\* Block by block the memory becomes that of LogRing's initial states.
LEMMA ClearBlockStep ==
  ASSUME RestartInv, ClearBlock
  PROVE  RestartInv'
  <1>1. /\ zeroed < numLogEntries /\ zeroed \in Index
        /\ zeroed' = zeroed + 1 /\ zeroed' \in 0 .. numLogEntries
        /\ ring' = [ring EXCEPT ![zeroed] = ZeroBlock]
        /\ gen' = IF zeroed' = numLogEntries THEN [t \in Threads |-> IdleWriter] ELSE gen
        /\ UNCHANGED <<lock, currentLogEntry, now, lastMsg, ret, written>>
    BY DEF ClearBlock, RestartInv, Index
  <1>2. StartingOK
    BY <1>1 DEF RestartInv
  <1>3. TypeOK'
    <2>1. ring' \in [Index -> Block]
      BY <1>1 DEF RestartInv, TypeOK, ZeroBlock, Block
    <2>2. gen' \in [Threads -> Writer]
      BY <1>1, IdleTypes DEF RestartInv, TypeOK
    <2> QED
      BY <1>1, <2>1, <2>2 DEF RestartInv, TypeOK
  <1>4. \A i \in Index : i < zeroed' => ring'[i] = ZeroBlock
    BY <1>1, <1>2 DEF RestartInv, TypeOK, StartingOK, Index
  <1>5. \A r \in Readers : ret'[r].pc \in {"idle", "print"} /\ CopyOK(r)'
    BY <1>1, <1>2 DEF StartingOK, CopyOK
  <1>6. CASE zeroed' < numLogEntries
    <2>1. StartingOK'
      BY <1>1, <1>2, <1>4, <1>5, <1>6 DEF StartingOK, GeneratorDown
    <2> QED
      BY <1>1, <1>3, <1>6, <2>1 DEF RestartInv
  <1>7. CASE zeroed' = numLogEntries
    <2>1. gen' = [t \in Threads |-> IdleWriter] /\ lock' = Free
      BY <1>1, <1>2, <1>7 DEF StartingOK
    <2>2. LockOK'
      BY <1>5, <2>1 DEF LockOK, Holding, IdleWriter
    <2>3. RingOK'
      <3>1. \A i \in Index : ring'[i] = ZeroBlock
        BY <1>4, <1>7 DEF Index
      <3>2. Headers(ring') = {}
        BY <1>3, <3>1 DEF Headers, ZeroBlock, TypeOK
      <3> QED
        BY <3>2 DEF RingOK
    <2>4. \A t \in Threads : gen'[t].pc = "idle"
      BY <2>1 DEF IdleWriter
    <2>5. RingInv'
      BY <1>5, <2>2, <2>3, <2>4 DEF RingInv
    <2> QED
      BY <1>1, <1>3, <1>7, <2>5 DEF RestartInv
  <1> QED
    BY <1>1, <1>6, <1>7

\* During a start nothing can happen but that processes which have their copies end.
LEMMA RunWhileStarting ==
  ASSUME ReadersAway, RestartInv, RunStep, zeroed < numLogEntries
  PROVE  RestartInv'
  <1>1. StartingOK
    BY DEF RestartInv
  <1>2. /\ Next /\ UNCHANGED zeroed
        /\ \A r \in Readers : ret[r].pc = "idle" => ret'[r].pc = "idle"
    BY DEF RunStep
  <1>3. TypeOK'
    BY <1>2, TypeStep DEF RestartInv
  <1>4. PICK r \in Readers : PrintLog(r) \/ KillReader(r)
    <2>1. ~\E t \in Threads : Call(t) \/ WriterStep(t)
      BY <1>1 DEF StartingOK, GeneratorDown, Call, WriterStep, Stamp, TryLock, Drop, Claim,
                  WriteFirst, WriteNext, Unlock
    <2>2. ~KillGenerator
      BY <1>1 DEF StartingOK, GeneratorDown, KillGenerator
    <2>3. ASSUME NEW r \in Readers, CallGetLog(r) \/ Acquire(r) \/ CopyBlock(r) \/ Release(r)
          PROVE  FALSE
      <3>1. ret[r].pc \in {"idle", "print"}
        BY <1>1 DEF StartingOK
      <3>2. CallGetLog(r)
        BY <2>3, <3>1 DEF Acquire, CopyBlock, Release
      <3> QED
        BY <1>2, <3>2 DEF CallGetLog, RestartInv, TypeOK
    <2> QED
      BY <1>2, <2>1, <2>2, <2>3 DEF Next, ReaderStep, Kill
  <1>5. /\ UNCHANGED <<ring, currentLogEntry, gen>>
        /\ \A q \in Readers : q # r => ret'[q] = ret[q]
        /\ ret'[r] = IdleReader
    BY <1>4 DEF PrintLog, KillReader, RestartInv, TypeOK
  <1>6. lock' = Free
    BY <1>1, <1>4 DEF StartingOK, PrintLog, KillReader
  <1>7. \A q \in Readers : ret'[q].pc \in {"idle", "print"} /\ CopyOK(q)'
    BY <1>1, <1>5 DEF StartingOK, CopyOK, IdleReader
  <1>8. StartingOK'
    BY <1>1, <1>2, <1>5, <1>6, <1>7 DEF StartingOK, GeneratorDown
  <1> QED
    BY <1>2, <1>3, <1>8 DEF RestartInv

LEMMA RestartStep ==
  ASSUME ReadersAway, RestartInv, [RNext]_rvars
  PROVE  RestartInv'
  <1>1. ASSUME RunStep, zeroed = numLogEntries
        PROVE  RestartInv'
    <2>1. TypeOK' /\ RingInv' /\ zeroed' = zeroed
      BY <1>1, TypeStep, InvStep DEF RestartInv, RunStep
    <2> QED
      BY <1>1, <2>1 DEF RestartInv
  <1>2. ASSUME UNCHANGED rvars
        PROVE  RestartInv'
    <2>1. UNCHANGED vars /\ UNCHANGED zeroed
      BY <1>2 DEF rvars
    <2>2. TypeOK' /\ (RingInv => RingInv')
      BY <2>1, TypeStep, InvStep DEF RestartInv
    <2>3. StartingOK => StartingOK'
      BY <2>1 DEF StartingOK, GeneratorDown, CopyOK, vars
    <2> QED
      BY <2>1, <2>2, <2>3 DEF RestartInv
  <1> QED
    BY <1>1, <1>2, NewMutexStep, ClearBlockStep, RunWhileStarting DEF RNext, RestartInv

\* The memory is sound again after every start, whatever run was killed in it, and
\* wherever (shared_mem_logger_generator's constructor).
THEOREM RestartInvariant ==
  ASSUME ReadersAway
  PROVE  RSpec => []RestartInv
  <1>1. RInit => RestartInv
    BY TypeInit, InvInit DEF RInit, RestartInv
  <1>2. RestartInv /\ [RNext]_rvars => RestartInv'
    BY RestartStep
  <1> QED
    BY <1>1, <1>2, PTL DEF RSpec

\* What getLog prints is made of whole entries also when generators are killed and
\* started again, if no control process is in getLog while one starts; with one in
\* it that is false (the run LogRingTorn).
THEOREM RestartsPrintWholeEntries ==
  ASSUME ReadersAway
  PROVE  RSpec => []SnapshotIntact
  <1>1. RestartInv => SnapshotIntact
    <2> SUFFICES ASSUME RestartInv, NEW r \in Readers, ret[r].pc = "print"
                 PROVE  Intact(ret[r].temp)
      BY DEF SnapshotIntact
    <2>1. CopyOK(r)
      BY DEF RestartInv, RingInv, StartingOK
    <2> QED
      BY <2>1 DEF CopyOK
  <1> QED
    BY <1>1, RestartInvariant, PTL
=============================================================================
