------------------------------ MODULE LogRing ------------------------------
(***************************************************************************)
(* The shared-memory log of stat_log: the threads of one generator process *)
(* append entries to a ring of fixed-size blocks                           *)
(* (shared_mem_logger_generator::doWriteData) and control processes read   *)
(* it (shared_mem_logger_retriever::getLog), under one interprocess mutex. *)
(*                                                                         *)
(* A writer only tries the mutex and gives its entry up when it is taken;  *)
(* a reader waits for it.  Any process may be killed at any point, and the *)
(* mutex is not robust: its holder takes it to the grave.                  *)
(*                                                                         *)
(* The bytes of a chunk are abstracted to the message they belong to and   *)
(* the number of the chunk; lengths keep their arithmetic.  Locals of a    *)
(* call are reset when it returns.                                         *)
(***************************************************************************)
EXTENDS Integers, Sequences

CONSTANTS
  Threads,        \* the generator's threads that log
  Readers,        \* control processes that call getLog
  numLogEntries,  \* blocks in the ring
  FirstCap,       \* max_chars_in_first_block
  OtherCap,       \* max_chars_in_other_blocks
  Lens,           \* lengths of the logged texts, terminating NUL included
  MaxMsgs,        \* bound of the model: log calls in one behaviour
  MinTick,        \* the system clock moves by MinTick..MaxTick microseconds
  MaxTick,        \*   between two readings; it may be set back
  CanKill,        \* whether processes are killed
  Free,           \* value of the mutex: nobody holds it
  Dead            \* value of the mutex: its holder was killed

ASSUME RingAssumption ==
  /\ numLogEntries \in Nat \ {0}
  /\ FirstCap \in Nat \ {0}
  /\ OtherCap \in Nat \ {0}

ASSUME LensAssumption == Lens \subseteq Nat \ {0, 1}

ASSUME BoundAssumption ==
  /\ MaxMsgs \in Nat
  /\ MinTick \in Int
  /\ MaxTick \in Int
  /\ CanKill \in BOOLEAN

ASSUME ActorAssumption ==
  /\ Threads \cap Readers = {}
  /\ Free \notin Threads \cup Readers
  /\ Dead \notin Threads \cup Readers
  /\ Free # Dead

VARIABLES
  ring,            \* the blocks in shared memory (shm_ptr)
  lock,            \* the interprocess mutex: Free, Dead or its holder
  currentLogEntry, \* the generator's next free block
  now,             \* the system clock, in microseconds
  lastMsg,         \* ghost: log calls so far; message m is the m-th
  gen,             \* each thread's call to doWriteData
  ret,             \* each control process's call to getLog
  written          \* ghost: entries completed, in the order of the ring

vars == <<ring, lock, currentLogEntry, now, lastMsg, gen, ret, written>>

----------------------------------------------------------------------------
Index == 0 .. numLogEntries - 1

Block == [numBlocks : Nat, ts : Nat, msg : Nat, part : Nat]

\* A block as memset leaves it; messages are numbered from 1.
ZeroBlock == [numBlocks |-> 0, ts |-> 0, msg |-> 0, part |-> 0]

ZeroRing == [i \in Index |-> ZeroBlock]

Entry == [msg : Nat, ts : Nat, blocks : Nat]

Writer == [pc    : {"idle", "trylock", "claim", "head", "body", "dead"},
           msg   : Nat,
           ts    : Nat,
           blocks: Nat,
           len   : Nat,
           start : Index,
           idx   : Index,
           part  : Nat]

IdleWriter == [pc |-> "idle", msg |-> 0, ts |-> 0, blocks |-> 0, len |-> 0,
               start |-> 0, idx |-> 0, part |-> 0]

DeadWriter == [IdleWriter EXCEPT !.pc = "dead"]

Reader == [pc     : {"idle", "wait", "copy", "print"},
           copied : 0 .. numLogEntries,
           temp   : [Index -> Block]]

IdleReader == [pc |-> "idle", copied |-> 0, temp |-> ZeroRing]

----------------------------------------------------------------------------
(* Arithmetic of doWriteData. *)

CeilDivide(a, b) == (a + b - 1) \div b

\* Mutant: the division rounds down.
NumLogBufsFloor(len) == 1 + (IF len > FirstCap THEN (len - FirstCap) \div OtherCap ELSE 0)

num_log_bufs(len) ==
  1 + (IF len > FirstCap THEN CeilDivide(len - FirstCap, OtherCap) ELSE 0)

\* len after a chunk of at most cap bytes has been copied.
Remaining(len, cap) == IF len > cap THEN len - cap ELSE 0

\* Mutant: the index does not wrap.
IndexPastEnd(i) == i + 1

NextIndex(i) == (i + 1) % numLogEntries

----------------------------------------------------------------------------
(* The generator's threads. *)

\* A call reaches writeData: the clock is read before the mutex is tried.
Stamp(t, len) ==
  /\ gen[t].pc = "idle"
  /\ lastMsg < MaxMsgs
  /\ lastMsg' = lastMsg + 1
  /\ now' \in {n \in now + MinTick .. now + MaxTick : n >= 0}
  /\ gen' = [gen EXCEPT ![t] = [@ EXCEPT !.pc = "trylock", !.msg = lastMsg + 1,
                                         !.ts = now', !.len = len]]
  /\ UNCHANGED <<ring, lock, currentLogEntry, ret, written>>

\* Mutant: the result of try_to_lock is not tested.
TryLockUntested(t) ==
  /\ gen[t].pc = "trylock"
  /\ lock' = IF lock = Free THEN t ELSE lock
  /\ gen' = [gen EXCEPT ![t].pc = "claim"]
  /\ UNCHANGED <<ring, currentLogEntry, now, lastMsg, ret, written>>

TryLock(t) ==
  /\ gen[t].pc = "trylock"
  /\ lock = Free
  /\ lock' = t
  /\ gen' = [gen EXCEPT ![t].pc = "claim"]
  /\ UNCHANGED <<ring, currentLogEntry, now, lastMsg, ret, written>>

\* Mutant: the lock is not a try-lock, so a call never gives up.
WaitForLock(t) == FALSE /\ gen[t].pc = "trylock" /\ UNCHANGED vars

\* The mutex is taken: the call returns and the entry is lost.
Drop(t) ==
  /\ gen[t].pc = "trylock"
  /\ lock # Free
  /\ gen' = [gen EXCEPT ![t] = IdleWriter]
  /\ UNCHANGED <<ring, lock, currentLogEntry, now, lastMsg, ret, written>>

\* Mutant: one block is taken, whatever the entry needs.
ClaimOneBlock(t) ==
  /\ gen[t].pc = "claim"
  /\ currentLogEntry' = NextIndex(currentLogEntry)
  /\ gen' = [gen EXCEPT ![t] = [@ EXCEPT !.pc = "head",
                                         !.blocks = num_log_bufs(gen[t].len),
                                         !.start = currentLogEntry,
                                         !.idx = currentLogEntry]]
  /\ UNCHANGED <<ring, lock, now, lastMsg, ret, written>>

\* Under mtx: take num_log_bufs consecutive blocks.
Claim(t) ==
  LET n == num_log_bufs(gen[t].len) IN
  /\ gen[t].pc = "claim"
  /\ currentLogEntry' = (currentLogEntry + n) % numLogEntries
  /\ gen' = [gen EXCEPT ![t] = [@ EXCEPT !.pc = "head", !.blocks = n,
                                         !.start = currentLogEntry,
                                         !.idx = currentLogEntry]]
  /\ UNCHANGED <<ring, lock, now, lastMsg, ret, written>>

\* The header and the first chunk.
WriteFirst(t) ==
  /\ gen[t].pc = "head"
  /\ ring' = [ring EXCEPT ![gen[t].idx] =
                [numBlocks |-> gen[t].blocks, ts |-> gen[t].ts,
                 msg |-> gen[t].msg, part |-> 0]]
  /\ gen' = [gen EXCEPT ![t] = [@ EXCEPT !.pc = "body", !.part = 1,
                                         !.len = Remaining(gen[t].len, FirstCap)]]
  /\ UNCHANGED <<lock, currentLogEntry, now, lastMsg, ret, written>>

\* Mutant: the header of the next block is not zeroed.
WriteNextOldHeader(t) ==
  LET j == NextIndex(gen[t].idx) IN
  /\ gen[t].pc = "body"
  /\ gen[t].len > 0
  /\ ring' = [ring EXCEPT ![j].msg = gen[t].msg, ![j].part = gen[t].part]
  /\ gen' = [gen EXCEPT ![t] = [@ EXCEPT !.idx = j, !.part = gen[t].part + 1,
                                         !.len = Remaining(gen[t].len, OtherCap)]]
  /\ UNCHANGED <<lock, currentLogEntry, now, lastMsg, ret, written>>

\* One more turn of the loop: the next block gets a zero header and a chunk.
WriteNext(t) ==
  LET j == NextIndex(gen[t].idx) IN
  /\ gen[t].pc = "body"
  /\ gen[t].len > 0
  /\ ring' = [ring EXCEPT ![j] = [numBlocks |-> 0, ts |-> 0,
                                  msg |-> gen[t].msg, part |-> gen[t].part]]
  /\ gen' = [gen EXCEPT ![t] = [@ EXCEPT !.idx = j, !.part = gen[t].part + 1,
                                         !.len = Remaining(gen[t].len, OtherCap)]]
  /\ UNCHANGED <<lock, currentLogEntry, now, lastMsg, ret, written>>

\* Everything is copied: the scoped lock is released and the call returns.
Unlock(t) ==
  /\ gen[t].pc = "body"
  /\ gen[t].len = 0
  /\ lock' = Free
  /\ written' = Append(written, [msg |-> gen[t].msg, ts |-> gen[t].ts,
                                 blocks |-> gen[t].blocks])
  /\ gen' = [gen EXCEPT ![t] = IdleWriter]
  /\ UNCHANGED <<ring, currentLogEntry, now, lastMsg, ret>>

\* The generator process is killed with all its threads.
KillGenerator ==
  /\ CanKill
  /\ \E t \in Threads : gen[t].pc # "dead"
  /\ gen' = [t \in Threads |-> DeadWriter]
  /\ lock' = IF lock \in Threads THEN Dead ELSE lock
  /\ UNCHANGED <<ring, currentLogEntry, now, lastMsg, ret, written>>

----------------------------------------------------------------------------
(* The control processes.  A reader that is killed or done is free to be    *)
(* the next control process.                                                *)

CallGetLog(r) ==
  /\ ret[r].pc = "idle"
  /\ ret' = [ret EXCEPT ![r].pc = "wait"]
  /\ UNCHANGED <<ring, lock, currentLogEntry, now, lastMsg, gen, written>>

Acquire(r) ==
  /\ ret[r].pc = "wait"
  /\ lock = Free
  /\ lock' = r
  /\ ret' = [ret EXCEPT ![r].pc = "copy"]
  /\ UNCHANGED <<ring, currentLogEntry, now, lastMsg, gen, written>>

\* std::copy of the ring into temp_log_buf, block by block.
CopyBlock(r) ==
  /\ ret[r].pc = "copy"
  /\ ret[r].copied < numLogEntries
  /\ ret' = [ret EXCEPT ![r] = [@ EXCEPT !.copied = ret[r].copied + 1,
                                         !.temp[ret[r].copied] = ring[ret[r].copied]]]
  /\ UNCHANGED <<ring, lock, currentLogEntry, now, lastMsg, gen, written>>

\* Mutant: the mutex is not released.
ReleaseForgotten(r) ==
  /\ ret[r].pc = "copy"
  /\ ret[r].copied = numLogEntries
  /\ ret' = [ret EXCEPT ![r].pc = "print"]
  /\ UNCHANGED <<ring, lock, currentLogEntry, now, lastMsg, gen, written>>

Release(r) ==
  /\ ret[r].pc = "copy"
  /\ ret[r].copied = numLogEntries
  /\ lock' = Free
  /\ ret' = [ret EXCEPT ![r].pc = "print"]
  /\ UNCHANGED <<ring, currentLogEntry, now, lastMsg, gen, written>>

\* Output(ret[r].temp) goes to the stream and the process exits.
PrintLog(r) ==
  /\ ret[r].pc = "print"
  /\ ret' = [ret EXCEPT ![r] = IdleReader]
  /\ UNCHANGED <<ring, lock, currentLogEntry, now, lastMsg, gen, written>>

KillReader(r) ==
  /\ CanKill
  /\ ret[r].pc # "idle"
  /\ ret' = [ret EXCEPT ![r] = IdleReader]
  /\ lock' = IF lock = r THEN Dead ELSE lock
  /\ UNCHANGED <<ring, currentLogEntry, now, lastMsg, gen, written>>

----------------------------------------------------------------------------
(* What getLog prints from its copy of the ring. *)

Headers(mem) == {i \in Index : mem[i].numBlocks > 0}

\* Mutant: the search keeps the first valid entry it meets.
FirstInMemory(mem) == CHOOSE i \in Headers(mem) : \A j \in Headers(mem) : i <= j

\* The smallest time stamp; of equal ones, the first in memory.
FirstLogEntry(mem) ==
  CHOOSE i \in Headers(mem) : \A j \in Headers(mem) :
    \/ mem[i].ts < mem[j].ts
    \/ mem[i].ts = mem[j].ts /\ i <= j

\* The texts printed, each the sequence of its chunks, from the first entry
\* once around the ring.
Output(mem) ==
  LET at(k) == mem[(FirstLogEntry(mem) + k) % numLogEntries]
      text(k) == [p \in 1 .. at(k).numBlocks |->
                    <<at(k + p - 1).msg, at(k + p - 1).part>>]
      walk[k \in Nat] ==
        IF k >= numLogEntries THEN <<>>
        ELSE IF at(k).numBlocks = 0 THEN walk[k + 1]
        ELSE <<text(k)>> \o walk[k + at(k).numBlocks]
  IN IF Headers(mem) = {} THEN <<>> ELSE walk[0]

----------------------------------------------------------------------------
Init ==
  /\ ring = ZeroRing
  /\ lock = Free
  /\ currentLogEntry = 0
  /\ now = 0
  /\ lastMsg = 0
  /\ gen = [t \in Threads |-> IdleWriter]
  /\ ret = [r \in Readers |-> IdleReader]
  /\ written = <<>>

Call(t) == \E len \in Lens : Stamp(t, len)

\* A log call that has begun goes on.
WriterStep(t) ==
  \/ TryLock(t)
  \/ Drop(t)
  \/ Claim(t)
  \/ WriteFirst(t)
  \/ WriteNext(t)
  \/ Unlock(t)

\* A getLog that has begun goes on.
ReaderStep(r) ==
  \/ Acquire(r)
  \/ CopyBlock(r)
  \/ Release(r)
  \/ PrintLog(r)

Kill ==
  \/ KillGenerator
  \/ \E r \in Readers : KillReader(r)

Next ==
  \/ \E t \in Threads : Call(t) \/ WriterStep(t)
  \/ \E r \in Readers : CallGetLog(r) \/ ReaderStep(r)
  \/ Kill

Spec == Init /\ [][Next]_vars

\* The operating system schedules every runnable thread; nothing makes the
\* mutex fair, so a waiting reader has weak fairness only.
Fairness ==
  /\ \A t \in Threads : WF_vars(WriterStep(t))
  /\ \A r \in Readers : WF_vars(ReaderStep(r))

FairSpec == Spec /\ Fairness

----------------------------------------------------------------------------
(* Properties *)

Holding == {"claim", "head", "body"}

\* Types of all variables (shared_mem_logger_generator's members, the shared
\* memory and the locals of doWriteData and getLog).
TypeOK ==
  /\ ring \in [Index -> Block]
  /\ lock \in Threads \cup Readers \cup {Free, Dead}
  /\ currentLogEntry \in Index
  /\ now \in Nat
  /\ lastMsg \in Nat
  /\ gen \in [Threads -> Writer]
  /\ ret \in [Readers -> Reader]
  /\ written \in Seq(Entry)

\* The mutex has at most one holder, and every call past its acquisition is
\* that holder: no two threads write the ring, and nobody writes while
\* getLog copies it.
MutualExclusion ==
  /\ \A t \in Threads : gen[t].pc \in Holding => lock = t
  /\ \A r \in Readers : ret[r].pc = "copy" => lock = r

\* Every header of mem announces an entry that is there in full: its
\* continuation blocks follow it, in order, all of the same message.
Intact(mem) ==
  \A i \in Headers(mem) :
    /\ mem[i].numBlocks <= numLogEntries
    /\ mem[i].part = 0
    /\ \A k \in 1 .. mem[i].numBlocks - 1 :
         mem[(i + k) % numLogEntries] =
           [numBlocks |-> 0, ts |-> 0, msg |-> mem[i].msg, part |-> k]

\* What getLog is about to print is made of whole entries, however the ring
\* wrapped, whatever was cut short or overwritten before, and whoever was
\* killed: getLog prints numBlocks blocks from each header without a check.
SnapshotIntact ==
  \A r \in Readers : ret[r].pc = "print" => Intact(ret[r].temp)

\* A log call always returns to the program that logs, even when the mutex is
\* held for ever by a killed process (doWriteData never blocks).
LogCallReturns ==
  \A t \in Threads :
    gen[t].pc = "trylock" ~> gen[t].pc \in {"idle", "dead"}

\* Whoever holds the mutex lets go of it, or is killed with it: neither
\* doWriteData nor getLog waits for anything, or loops, while holding it.
MutexReleased == lock \notin {Free, Dead} ~> lock \in {Free, Dead}

============================================================================
