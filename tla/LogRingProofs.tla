--------------------------- MODULE LogRingProofs ---------------------------
(***************************************************************************)
(* Theorems about LogRing, for every number of threads, readers, blocks,   *)
(* block capacities and text lengths, and any number of kills.             *)
(***************************************************************************)
EXTENDS LogRingInv, DataLemmas, TLAPS

USE RingAssumption, LensAssumption, BoundAssumption, ActorAssumption

----------------------------------------------------------------------------
(* Arithmetic of the ring. *)

\* A text that is all copied takes no further block.
LEMMA CeilZero == CeilDivide(0, OtherCap) = 0
  <1>1. OtherCap - 1 \in Nat /\ OtherCap - 1 < OtherCap
    OBVIOUS
  <1>2. (OtherCap - 1) \div OtherCap = 0
    BY <1>1, DivSmall
  <1> QED
    BY <1>2 DEF CeilDivide

\* Block counts are natural numbers.
LEMMA CeilType ==
  ASSUME NEW n \in Nat
  PROVE  CeilDivide(n, OtherCap) \in Nat
  <1>1. n + OtherCap - 1 \in Nat
    OBVIOUS
  <1> QED
    BY <1>1, DivType DEF CeilDivide

\* Each further block takes one from the blocks that are still needed.
LEMMA CeilStep ==
  ASSUME NEW n \in Nat, n > 0
  PROVE  CeilDivide(n, OtherCap) =
           1 + CeilDivide(Remaining(n, OtherCap), OtherCap)
  <1>1. CASE n > OtherCap
    <2> DEFINE m == n - 1
    <2>1. m - OtherCap \in Nat /\ m = (m - OtherCap) + OtherCap
      BY <1>1
    <2>2. m \in Nat
      OBVIOUS
    <2>4. (m + OtherCap) \div OtherCap = 1 + (m \div OtherCap)
      BY <2>2, DivStep
    <2>3. n + OtherCap - 1 = m + OtherCap
          /\ Remaining(n, OtherCap) + OtherCap - 1 = m
      BY <1>1 DEF Remaining
    <2> QED
      BY <2>3, <2>4 DEF CeilDivide
  <1>2. CASE n <= OtherCap
    <2>1. n - 1 \in Nat /\ n - 1 < OtherCap
          /\ n + OtherCap - 1 = (n - 1) + OtherCap
      BY <1>2
    <2>2. (n + OtherCap - 1) \div OtherCap = 1 + 0
      BY <2>1, DivStep, DivSmall
    <2>3. Remaining(n, OtherCap) = 0
      BY <1>2 DEF Remaining
    <2> QED
      BY <2>2, <2>3, CeilZero DEF CeilDivide
  <1> QED
    BY <1>1, <1>2

\* The blocks of doWriteData's formula: one, and those of the rest.
LEMMA BlocksOf ==
  ASSUME NEW len \in Nat
  PROVE  /\ num_log_bufs(len) =
              1 + CeilDivide(Remaining(len, FirstCap), OtherCap)
         /\ num_log_bufs(len) \in Nat \ {0}
  <1>1. Remaining(len, FirstCap) \in Nat
    BY DEF Remaining
  <1>2. CeilDivide(Remaining(len, FirstCap), OtherCap) \in Nat
    BY <1>1, CeilType
  <1> QED
    BY <1>2, CeilZero DEF num_log_bufs, Remaining

\* The remainder modulo the size of the ring is a block.
LEMMA ModIndex ==
  ASSUME NEW a \in Nat
  PROVE  a % numLogEntries \in Index
  BY DivMod DEF Index

\* Walking one block and then k more.
LEMMA ModShift ==
  ASSUME NEW i \in Index, NEW k \in Nat
  PROVE  (i + (1 + k)) % numLogEntries = (NextIndex(i) + k) % numLogEntries
  <1>1. CASE i + 1 < numLogEntries
    <2>1. NextIndex(i) = i + 1
      BY <1>1, ModSmall DEF NextIndex, Index
    <2> QED
      <3>1. i + (1 + k) = NextIndex(i) + k
        BY <2>1 DEF Index
      <3> QED
        BY <3>1
  <1>2. CASE i + 1 = numLogEntries
    <2>1. (0 + numLogEntries) % numLogEntries = 0 % numLogEntries
      BY ModStep
    <2>2. numLogEntries % numLogEntries = 0
      BY <2>1, ModSmall
    <2>3. NextIndex(i) = 0
      BY <1>2, <2>2 DEF NextIndex
    <2>4. i + (1 + k) = k + numLogEntries
      BY <1>2 DEF Index
    <2>5. NextIndex(i) + k = k
      BY <2>3
    <2>6. (k + numLogEntries) % numLogEntries = k % numLogEntries
      BY ModStep
    <2> QED
      BY <2>4, <2>5, <2>6
  <1> QED
    BY <1>1, <1>2 DEF Index

\* The next block is the next one in memory, or the first.
LEMMA NextIs ==
  ASSUME NEW i \in Index
  PROVE  /\ NextIndex(i) \in Index
         /\ NextIndex(i) = IF i = numLogEntries - 1 THEN 0 ELSE i + 1
  <1>1. CASE i + 1 < numLogEntries
    BY <1>1, ModSmall DEF NextIndex, Index
  <1>2. CASE i + 1 = numLogEntries
    <2>1. (0 + numLogEntries) % numLogEntries = 0 % numLogEntries
      BY ModStep
    <2>2. numLogEntries % numLogEntries = 0
      BY <2>1, ModSmall
    <2> QED
      BY <1>2, <2>2 DEF NextIndex, Index
  <1> QED
    BY <1>1, <1>2 DEF Index

\* The frontier moves one step away from every block but the one it passes.
LEMMA GapStep ==
  ASSUME NEW i \in Index, NEW p \in Index
  PROVE  /\ i # p => Gap(i, NextIndex(p)) = Gap(i, p) + 1
         /\ Gap(p, NextIndex(p)) = 1
         /\ i # p => Dist(i, p) = Gap(i, p)
         /\ Gap(i, p) \in 1 .. numLogEntries
         /\ Dist(i, p) \in Nat
         /\ Dist(i, p) = 0 => i = p
  BY NextIs DEF Gap, Dist, Index

\* getLog's way to the k-th block of an entry.
LEMMA WalkIs ==
  ASSUME NEW i \in Index, NEW k \in 1 .. numLogEntries - 1
  PROVE  /\ (i + k) % numLogEntries \in Index \ {i}
         /\ Dist(i, (i + k) % numLogEntries) = k
  <1>1. CASE i + k < numLogEntries
    BY <1>1, ModSmall DEF Dist, Index
  <1>2. CASE i + k >= numLogEntries
    <2>1. i + k - numLogEntries \in Nat /\ i + k - numLogEntries < i
          /\ (i + k - numLogEntries) + numLogEntries = i + k
      BY <1>2 DEF Index
    <2>2. (i + k) % numLogEntries = (i + k - numLogEntries) % numLogEntries
      <3> DEFINE m == i + k - numLogEntries
      <3>1. m \in Nat /\ m + numLogEntries = i + k
        BY <2>1
      <3> HIDE DEF m
      <3>2. (m + numLogEntries) % numLogEntries = m % numLogEntries
        BY <3>1, ModStep
      <3> QED
        BY <3>1, <3>2 DEF m
    <2>3. (i + k - numLogEntries) % numLogEntries = i + k - numLogEntries
      BY <2>1, ModSmall DEF Index
    <2> QED
      BY <2>1, <2>2, <2>3 DEF Dist, Index
  <1> QED
    BY <1>1, <1>2 DEF Index

----------------------------------------------------------------------------
(* Types. *)

\* The values the locals are reset to have their types.
LEMMA IdleTypes ==
  /\ ZeroRing \in [Index -> Block]
  /\ IdleWriter \in Writer
  /\ DeadWriter \in Writer
  /\ IdleReader \in Reader
  BY DEF ZeroRing, ZeroBlock, Block, Index, IdleWriter, DeadWriter, Writer,
         IdleReader, Reader

\* The updates of a log call's locals.
LEMMA WriterUpdates ==
  ASSUME NEW w \in Writer, NEW a \in Nat, NEW b \in Nat, NEW c \in Nat,
         NEW i \in Index
  PROVE  /\ [w EXCEPT !.pc = "trylock", !.msg = a, !.ts = b, !.len = c] \in Writer
         /\ [w EXCEPT !.pc = "head", !.blocks = a, !.start = i, !.idx = i] \in Writer
         /\ [w EXCEPT !.pc = "body", !.part = a, !.len = b] \in Writer
         /\ [w EXCEPT !.idx = i, !.part = a, !.len = b] \in Writer
  <1>1. [w EXCEPT !.pc = "trylock", !.msg = a, !.ts = b, !.len = c] \in Writer
    BY Zenon DEF Writer
  <1>2. [w EXCEPT !.pc = "head", !.blocks = a, !.start = i, !.idx = i] \in Writer
    BY Zenon DEF Writer
  <1>3. [w EXCEPT !.pc = "body", !.part = a, !.len = b] \in Writer
    BY Zenon DEF Writer
  <1>4. [w EXCEPT !.idx = i, !.part = a, !.len = b] \in Writer
    BY Zenon DEF Writer
  <1> QED
    BY <1>1, <1>2, <1>3, <1>4

\* The update of getLog's locals as it copies a block.
LEMMA ReaderUpdate ==
  ASSUME NEW q \in Reader, NEW n \in 0 .. numLogEntries, NEW i \in Index,
         NEW x \in Block
  PROVE  [q EXCEPT !.copied = n, !.temp[i] = x] \in Reader
  <1>1. q.temp \in [Index -> Block]
    BY DEF Reader
  <1>2. [q.temp EXCEPT ![i] = x] \in [Index -> Block]
    BY <1>1
  <1> QED
    BY <1>2, Zenon DEF Reader

\* The variables have their types at the start.
LEMMA TypeInit == Init => TypeOK
  BY IdleTypes DEF Init, TypeOK, Index

\* No step takes a variable out of its type.
LEMMA TypeStep ==
  ASSUME TypeOK, [Next]_vars
  PROVE  TypeOK'
  <1> USE DEF TypeOK
  <1>1. ASSUME NEW t \in Threads, NEW len \in Lens, Stamp(t, len)
        PROVE  TypeOK'
    <2>1. gen[t] \in Writer /\ len \in Nat /\ now' \in Nat /\ lastMsg' \in Nat
      BY <1>1 DEF Stamp
    <2>2. [gen[t] EXCEPT !.pc = "trylock", !.msg = lastMsg + 1,
                         !.ts = now', !.len = len] \in Writer
      BY <1>1, <2>1, WriterUpdates DEF Stamp
    <2> QED
      BY <1>1, <2>1, <2>2 DEF Stamp
  <1>2. ASSUME NEW t \in Threads, TryLock(t)
        PROVE  TypeOK'
    BY <1>2, ZenonT(40) DEF TryLock, Writer
  <1>3. ASSUME NEW t \in Threads, Drop(t)
        PROVE  TypeOK'
    BY <1>3, IdleTypes DEF Drop
  <1>4. ASSUME NEW t \in Threads, Claim(t)
        PROVE  TypeOK'
    <2>1. gen[t].len \in Nat /\ gen[t] \in Writer
      BY DEF Writer
    <2>2. num_log_bufs(gen[t].len) \in Nat
      BY <2>1, BlocksOf
    <2>3. currentLogEntry' \in Index
      BY <1>4, <2>2, ModIndex DEF Claim, Index
    <2> QED
      BY <1>4, <2>1, <2>2, <2>3 DEF Claim, Writer
  <1>5. ASSUME NEW t \in Threads, WriteFirst(t)
        PROVE  TypeOK'
    <2>1. gen[t] \in Writer /\ gen[t].idx \in Index
      BY DEF Writer
    <2> DEFINE left == Remaining(gen[t].len, FirstCap)
    <2>4. left \in Nat /\ 1 \in Nat
      BY <2>1 DEF Writer, Remaining
    <2> HIDE DEF left
    <2>2. [gen[t] EXCEPT !.pc = "body", !.part = 1, !.len = left] \in Writer
      BY <2>1, <2>4, WriterUpdates
    <2>3. [numBlocks |-> gen[t].blocks, ts |-> gen[t].ts,
           msg |-> gen[t].msg, part |-> 0] \in Block
      BY <2>1 DEF Writer, Block
    <2>5. gen' = [gen EXCEPT ![t] = [gen[t] EXCEPT !.pc = "body", !.part = 1,
                                                   !.len = left]]
      BY <1>5, Zenon DEF WriteFirst, left
    <2>6. gen' \in [Threads -> Writer]
      BY <2>2, <2>5
    <2>7. ring' \in [Index -> Block]
      BY <1>5, <2>1, <2>3 DEF WriteFirst
    <2> QED
      BY <1>5, <2>6, <2>7 DEF WriteFirst
  <1>6. ASSUME NEW t \in Threads, WriteNext(t)
        PROVE  TypeOK'
    <2> DEFINE j == NextIndex(gen[t].idx)
    <2>1. gen[t] \in Writer /\ j \in Index
      BY NextIs DEF Writer
    <2> HIDE DEF j
    <2> DEFINE left == Remaining(gen[t].len, OtherCap)
               next == gen[t].part + 1
    <2>4. left \in Nat /\ next \in Nat
      BY <2>1 DEF Writer, Remaining
    <2> HIDE DEF left, next
    <2>2. [gen[t] EXCEPT !.idx = j, !.part = next, !.len = left] \in Writer
      BY <2>1, <2>4, WriterUpdates
    <2>3. [numBlocks |-> 0, ts |-> 0, msg |-> gen[t].msg,
           part |-> gen[t].part] \in Block
      BY <2>1 DEF Writer, Block
    <2>5. gen' = [gen EXCEPT ![t] = [gen[t] EXCEPT !.idx = j, !.part = next,
                                                   !.len = left]]
      BY <1>6, Zenon DEF WriteNext, j, left, next
    <2>6. gen' \in [Threads -> Writer]
      BY <2>2, <2>5
    <2>7. ring' \in [Index -> Block]
      BY <1>6, <2>1, <2>3 DEF WriteNext, j
    <2> QED
      BY <1>6, <2>6, <2>7 DEF WriteNext
  <1>7. ASSUME NEW t \in Threads, Unlock(t)
        PROVE  TypeOK'
    <2>1. [msg |-> gen[t].msg, ts |-> gen[t].ts,
           blocks |-> gen[t].blocks] \in Entry
      BY DEF Writer, Entry
    <2>2. written' \in Seq(Entry)
      BY <1>7, <2>1 DEF Unlock
    <2> QED
      BY <1>7, <2>2, IdleTypes DEF Unlock
  <1>8. ASSUME KillGenerator
        PROVE  TypeOK'
    BY <1>8, IdleTypes DEF KillGenerator
  <1>9. ASSUME NEW r \in Readers, CallGetLog(r) \/ Acquire(r) \/ Release(r)
        PROVE  TypeOK'
    <2>1. ret[r] \in Reader
      OBVIOUS
    <2>2. \A p \in {"wait", "copy", "print"} :
            [ret EXCEPT ![r].pc = p] \in [Readers -> Reader]
      BY <2>1 DEF Reader
    <2> QED
      BY <1>9, <2>2 DEF CallGetLog, Acquire, Release
  <1>10. ASSUME NEW r \in Readers, CopyBlock(r)
         PROVE  TypeOK'
    <2> DEFINE k == ret[r].copied
    <2>1. ret[r] \in Reader /\ k \in Index
      BY <1>10 DEF CopyBlock, Reader, Index
    <2> DEFINE n == k + 1
    <2>2. n \in 0 .. numLogEntries /\ ring[k] \in Block
      BY <2>1 DEF Index
    <2> HIDE DEF k, n
    <2>3. [ret[r] EXCEPT !.copied = n, !.temp[k] = ring[k]] \in Reader
      BY <2>1, <2>2, ReaderUpdate
    <2>4. ret' = [ret EXCEPT ![r] = [ret[r] EXCEPT !.copied = n, !.temp[k] = ring[k]]]
      BY <1>10, Zenon DEF CopyBlock, n, k
    <2> QED
      BY <1>10, <2>1, <2>3, <2>4 DEF CopyBlock
  <1>11. ASSUME NEW r \in Readers, PrintLog(r) \/ KillReader(r)
         PROVE  TypeOK'
    BY <1>11, IdleTypes DEF PrintLog, KillReader
  <1>12. CASE UNCHANGED vars
    BY <1>12 DEF vars
  <1> QED
    BY <1>1, <1>2, <1>3, <1>4, <1>5, <1>6, <1>7, <1>8, <1>9, <1>10, <1>11,
       <1>12 DEF Next, Call, WriterStep, ReaderStep, Kill

\* All variables keep their types (the members of shared_mem_logger_generator,
\* the shared memory, the locals of doWriteData and getLog).
THEOREM TypeCorrect == Spec => []TypeOK
  <1> QED
    BY TypeInit, TypeStep, PTL DEF Spec

----------------------------------------------------------------------------
(* Who holds the mutex. *)

\* Mutual exclusion and the program counters agree with the mutex.
LEMMA LockStep ==
  ASSUME TypeOK, LockOK, [Next]_vars
  PROVE  LockOK'
  <1> USE DEF TypeOK, LockOK, Holding
  <1>1. ASSUME NEW t \in Threads, NEW len \in Lens, Stamp(t, len)
        PROVE  LockOK'
    BY <1>1, SMTT(30) DEF Stamp, Writer
  <1>2. ASSUME NEW t \in Threads, TryLock(t) \/ Drop(t)
        PROVE  LockOK'
    <2>1. CASE TryLock(t)
      BY <2>1 DEF TryLock, Writer
    <2>2. CASE Drop(t)
      BY <2>2 DEF Drop, Writer, IdleWriter
    <2> QED
      BY <1>2, <2>1, <2>2
  <1>3. ASSUME NEW t \in Threads, Claim(t)
        PROVE  LockOK'
    BY <1>3 DEF Claim, Writer
  <1>4. ASSUME NEW t \in Threads, WriteFirst(t)
        PROVE  LockOK'
    BY <1>4 DEF WriteFirst, Writer
  <1>5. ASSUME NEW t \in Threads, WriteNext(t)
        PROVE  LockOK'
    BY <1>5, SMTT(30) DEF WriteNext, Writer
  <1>6. ASSUME NEW t \in Threads, Unlock(t)
        PROVE  LockOK'
    BY <1>6 DEF Unlock, Writer, IdleWriter
  <1>7. ASSUME KillGenerator
        PROVE  LockOK'
    BY <1>7 DEF KillGenerator, IdleWriter, DeadWriter
  <1>8. ASSUME NEW r \in Readers, CallGetLog(r) \/ Acquire(r) \/ Release(r)
        PROVE  LockOK'
    <2>1. CASE CallGetLog(r)
      BY <2>1 DEF CallGetLog, Reader
    <2>2. CASE Acquire(r)
      BY <2>2 DEF Acquire, Reader
    <2>3. CASE Release(r)
      BY <2>3 DEF Release, Reader
    <2> QED
      BY <1>8, <2>1, <2>2, <2>3
  <1>9. ASSUME NEW r \in Readers, CopyBlock(r)
        PROVE  LockOK'
    BY <1>9 DEF CopyBlock, Reader
  <1>10. ASSUME NEW r \in Readers, PrintLog(r) \/ KillReader(r)
         PROVE  LockOK'
    BY <1>10 DEF PrintLog, KillReader, IdleReader
  <1>11. CASE UNCHANGED vars
    BY <1>11 DEF vars
  <1> QED
    BY <1>1, <1>2, <1>3, <1>4, <1>5, <1>6, <1>7, <1>8, <1>9, <1>10, <1>11
       DEF Next, Call, WriterStep, ReaderStep, Kill

----------------------------------------------------------------------------
(* The ring. *)

\* What is known of the ring depends on its blocks and the frontier only.
LEMMA RingKept ==
  ASSUME RingOK, UNCHANGED ring, UNCHANGED Frontier, UNCHANGED Open
  PROVE  RingOK'
  BY DEF RingOK, HeaderOK, Headers

\* A ring nobody writes to is made of whole entries.
LEMMA RingIntact ==
  ASSUME TypeOK, RingOK, Open = {}
  PROVE  Intact(ring)
  <1> SUFFICES ASSUME NEW i \in Headers(ring)
               PROVE  /\ ring[i].numBlocks <= numLogEntries
                      /\ ring[i].part = 0
                      /\ \A k \in 1 .. ring[i].numBlocks - 1 :
                           ring[(i + k) % numLogEntries] =
                             [numBlocks |-> 0, ts |-> 0, msg |-> ring[i].msg,
                              part |-> k]
    BY DEF Intact
  <1>1. i \in Index /\ HeaderOK(i)
    BY DEF RingOK, Headers
  <1>2. Frontier \in Index
    BY NextIs DEF Frontier, InPc, TypeOK, Writer
  <1>3. ring[i].numBlocks \in Nat /\ Gap(i, Frontier) \in 1 .. numLogEntries
    BY <1>1, <1>2, GapStep DEF TypeOK, Block
  <1>4. ring[i].part = 0 /\ ring[i].numBlocks <= Gap(i, Frontier)
    BY <1>1 DEF HeaderOK
  <1>5. ASSUME NEW k \in 1 .. ring[i].numBlocks - 1
        PROVE  ring[(i + k) % numLogEntries] =
                 [numBlocks |-> 0, ts |-> 0, msg |-> ring[i].msg, part |-> k]
    <2> DEFINE j == (i + k) % numLogEntries
    <2>1. k \in 1 .. numLogEntries - 1
      BY <1>3, <1>4
    <2>2. j \in Index \ {i} /\ Dist(i, j) = k
      BY <1>1, <2>1, WalkIs
    <2>3. Dist(i, j) < ring[i].numBlocks /\ Dist(i, j) < Gap(i, Frontier)
      BY <1>3, <1>4, <2>2
    <2> QED
      BY <1>1, <2>2, <2>3 DEF HeaderOK, Continuation
  <1> QED
    BY <1>3, <1>4, <1>5

\* The header of a new entry overwrites the oldest block: what older headers
\* announce ends before it.
LEMMA WriteFirstRing ==
  ASSUME TypeOK, RingInv, NEW t \in Threads, WriteFirst(t)
  PROVE  RingOK' /\ BodyOK(t)'
  <1> DEFINE p == gen[t].idx
             n == gen[t].blocks
             left == Remaining(gen[t].len, FirstCap)
  <1>1. lock = t /\ gen[t].pc = "head" /\ t \in Threads
    BY DEF WriteFirst, RingInv, LockOK, Holding
  <1>2. RingOK /\ HeadOK(t)
    BY <1>1, ActorAssumption DEF RingInv
  <1>3. Frontier = p /\ Open = {}
    BY <1>1 DEF Frontier, Open, InPc
  <1>4. lock' = t /\ currentLogEntry' = currentLogEntry
    BY <1>1 DEF WriteFirst
  <1>5. /\ gen'[t].pc = "body" /\ gen'[t].idx = p /\ gen'[t].start = gen[t].start
        /\ gen'[t].part = 1 /\ gen'[t].len = left /\ gen'[t].msg = gen[t].msg
    BY DEF WriteFirst, TypeOK, Writer
  <1>6. gen[t].start = p /\ n = 1 + CeilDivide(left, OtherCap)
        /\ currentLogEntry = (p + n) % numLogEntries
    BY <1>2 DEF HeadOK
  <1>7. p \in Index /\ n \in Nat /\ left \in Nat
    BY SMTT(30) DEF TypeOK, Writer, Remaining
  <1>8. Frontier' = NextIndex(p) /\ Open' = {p}
    BY <1>1, <1>4, <1>5, <1>6 DEF Frontier, Open, InPc
  <1>9. CeilDivide(left, OtherCap) \in Nat
    BY <1>7, CeilType
  <1>10. /\ ring'[p] = [numBlocks |-> n, ts |-> gen[t].ts, msg |-> gen[t].msg,
                        part |-> 0]
         /\ \A i \in Index \ {p} : ring'[i] = ring[i]
    BY <1>7 DEF WriteFirst, TypeOK
  <1> HIDE DEF p, n, left
  <1>11. RingOK'
    <2> SUFFICES ASSUME NEW i \in Index, ring'[i].numBlocks > 0
                 PROVE  HeaderOK(i)'
      BY DEF RingOK, Headers
    <2>1. CASE i = p
      <3>1. \A j \in Index : j # p => ~(Dist(p, j) < Gap(p, NextIndex(p)))
        BY <1>7, GapStep
      <3> QED
        BY <2>1, <3>1, <1>8, <1>10 DEF HeaderOK
    <2>2. CASE i # p
      <3>1. ring'[i] = ring[i] /\ i \in Headers(ring)
        BY <2>2, <1>10 DEF Headers
      <3>2. ring[i].part = 0 /\ ring[i].numBlocks <= Gap(i, p)
            /\ \A j \in Index : j # i /\ Dist(i, j) < ring[i].numBlocks
                               /\ Dist(i, j) < Gap(i, p)
                 => ring[j] = Continuation(ring[i].msg, Dist(i, j))
        BY <1>2, <1>3, <3>1 DEF RingOK, HeaderOK
      <3>3. Gap(i, NextIndex(p)) = Gap(i, p) + 1 /\ Dist(i, p) = Gap(i, p)
            /\ Gap(i, p) \in Nat /\ ring[i].numBlocks \in Nat
        BY <2>2, <1>7, GapStep DEF TypeOK, Block
      <3>4. ring'[i].numBlocks <= Gap(i, NextIndex(p))
        BY <3>1, <3>2, <3>3
      <3>5. ASSUME NEW j \in Index, j # i, Dist(i, j) < ring[i].numBlocks
            PROVE  ring'[j] = Continuation(ring[i].msg, Dist(i, j))
        <4>1. Dist(i, j) < Gap(i, p) /\ j # p
          BY <3>2, <3>3, <3>5, GapStep, <1>7
        <4> QED
          BY <4>1, <3>2, <3>5, <1>10
      <3> QED
        BY <1>8, <3>1, <3>2, <3>4, <3>5 DEF HeaderOK
    <2> QED
      BY <2>1, <2>2
  <1>12. BodyOK(t)'
    <2>1. (p + n) % numLogEntries =
            (NextIndex(p) + CeilDivide(left, OtherCap)) % numLogEntries
      BY <1>6, <1>7, <1>9, ModShift
    <2>2. Gap(p, NextIndex(p)) = 1
      BY <1>7, GapStep
    <2> QED
      BY <2>1, <2>2, <1>4, <1>5, <1>6, <1>9, <1>10 DEF BodyOK
  <1> QED
    BY <1>11, <1>12

\* A further block lies at the frontier: it is the next one of the open entry,
\* and no header but that entry's announces it.
LEMMA WriteNextRing ==
  ASSUME TypeOK, RingInv, NEW t \in Threads, WriteNext(t)
  PROVE  RingOK' /\ BodyOK(t)'
  <1> DEFINE p == NextIndex(gen[t].idx)
             s == gen[t].start
             k == gen[t].part
             left == Remaining(gen[t].len, OtherCap)
             rest == CeilDivide(left, OtherCap)
  <1>1. lock = t /\ gen[t].pc = "body"
    BY DEF WriteNext, RingInv, LockOK, Holding
  <1>2. RingOK /\ BodyOK(t)
    BY <1>1, ActorAssumption DEF RingInv
  <1>3. Frontier = p /\ Open = {s}
    BY <1>1 DEF Frontier, Open, InPc
  <1>4. lock' = t /\ currentLogEntry' = currentLogEntry
    BY <1>1 DEF WriteNext
  <1>5. /\ gen'[t].pc = "body" /\ gen'[t].idx = p /\ gen'[t].start = s
        /\ gen'[t].part = k + 1 /\ gen'[t].len = left /\ gen'[t].msg = gen[t].msg
    BY <1>1 DEF WriteNext, TypeOK, Writer
  <1>6. gen[t].len \in Nat /\ gen[t].len > 0
    BY DEF WriteNext, TypeOK, Writer
  <1>7. /\ p \in Index /\ s \in Index /\ k \in Nat /\ left \in Nat
        /\ NextIndex(p) \in Index
    BY NextIs DEF TypeOK, Writer, Remaining
  <1>8. rest \in Nat /\ CeilDivide(gen[t].len, OtherCap) = 1 + rest
    BY <1>6, <1>7, CeilType, CeilStep
  <1>9. /\ currentLogEntry = (p + (1 + rest)) % numLogEntries
        /\ ring[s].numBlocks > 0 =>
             /\ ring[s].msg = gen[t].msg
             /\ ring[s].numBlocks = k + (1 + rest)
             /\ k = Gap(s, p)
    BY <1>2, <1>8 DEF BodyOK
  <1>10. Frontier' = NextIndex(p) /\ Open' = {s}
    BY <1>1, <1>4, <1>5 DEF Frontier, Open, InPc
  <1>11. /\ ring'[p] = Continuation(gen[t].msg, k)
         /\ \A i \in Index \ {p} : ring'[i] = ring[i]
    BY <1>7 DEF WriteNext, TypeOK, Continuation
  <1>12. ring'[p].numBlocks = 0
    BY <1>11 DEF Continuation
  <1> HIDE DEF p, s, k, left, rest
  <1>13. RingOK'
    <2> SUFFICES ASSUME NEW i \in Index, ring'[i].numBlocks > 0
                 PROVE  HeaderOK(i)'
      BY DEF RingOK, Headers
    <2>1. i # p /\ ring'[i] = ring[i] /\ i \in Headers(ring)
      BY <1>11, <1>12 DEF Headers
    <2>2. /\ ring[i].part = 0
          /\ i # s => ring[i].numBlocks <= Gap(i, p)
          /\ \A j \in Index : j # i /\ Dist(i, j) < ring[i].numBlocks
                             /\ Dist(i, j) < Gap(i, p)
               => ring[j] = Continuation(ring[i].msg, Dist(i, j))
      BY <1>2, <1>3, <2>1 DEF RingOK, HeaderOK
    <2>3. Gap(i, NextIndex(p)) = Gap(i, p) + 1 /\ Dist(i, p) = Gap(i, p)
          /\ Gap(i, p) \in Nat /\ ring[i].numBlocks \in Nat
      BY <2>1, <1>7, GapStep DEF TypeOK, Block
    <2>4. i # s => ring'[i].numBlocks <= Gap(i, NextIndex(p))
      BY <2>1, <2>2, <2>3
    <2>5. ASSUME NEW j \in Index, j # i, Dist(i, j) < ring[i].numBlocks,
                 Dist(i, j) < Gap(i, NextIndex(p))
          PROVE  ring'[j] = Continuation(ring[i].msg, Dist(i, j))
      <3>1. CASE j = p
        <4>1. i = s
          BY <3>1, <2>2, <2>3, <2>5
        <4>2. ring[s].msg = gen[t].msg /\ k = Gap(s, p)
          BY <4>1, <2>1, <1>9
        <4> QED
          BY <3>1, <4>1, <4>2, <2>3, <1>11
      <3>2. CASE j # p
        <4>1. Dist(i, j) # Gap(i, p)
          BY <2>1, <3>2, <1>7 DEF Dist, Gap, Index
        <4>2. Dist(i, j) < Gap(i, p)
          BY <4>1, <2>3, <2>5, GapStep
        <4> QED
          BY <4>2, <3>2, <2>2, <2>5, <1>11
      <3> QED
        BY <3>1, <3>2
    <2> QED
      BY <1>10, <2>1, <2>2, <2>4, <2>5 DEF HeaderOK
  <1>14. BodyOK(t)'
    <2>1. (p + (1 + rest)) % numLogEntries = (NextIndex(p) + rest) % numLogEntries
      BY <1>7, <1>8, ModShift
    <2>2. ASSUME ring'[s].numBlocks > 0
          PROVE  /\ ring'[s].msg = gen[t].msg
                 /\ ring'[s].numBlocks = (k + 1) + rest
                 /\ k + 1 = Gap(s, NextIndex(p))
      <3>1. s # p /\ ring'[s] = ring[s]
        BY <2>2, <1>7, <1>11, <1>12
      <3>2. ring[s].msg = gen[t].msg /\ ring[s].numBlocks = k + (1 + rest)
            /\ k = Gap(s, p)
        BY <2>2, <3>1, <1>9
      <3>3. Gap(s, NextIndex(p)) = Gap(s, p) + 1
        BY <3>1, <1>7, GapStep
      <3> QED
        BY <3>1, <3>2, <3>3, <1>7, <1>8
    <2> QED
      BY <2>1, <2>2, <1>4, <1>5, <1>9 DEF BodyOK, rest
  <1> QED
    BY <1>13, <1>14

\* When the text is all there, the entry has the blocks it announced.
LEMMA UnlockRing ==
  ASSUME TypeOK, RingInv, NEW t \in Threads, Unlock(t)
  PROVE  RingOK'
  <1> DEFINE p == NextIndex(gen[t].idx)
             s == gen[t].start
  <1>1. lock = t /\ gen[t].pc = "body" /\ gen[t].len = 0
    BY DEF Unlock, RingInv, LockOK, Holding
  <1>2. RingOK /\ BodyOK(t)
    BY <1>1, ActorAssumption DEF RingInv
  <1>3. Frontier = p /\ Open = {s}
    BY <1>1 DEF Frontier, Open, InPc
  <1>4. lock' = Free /\ ring' = ring /\ currentLogEntry' = currentLogEntry
    BY DEF Unlock
  <1>5. p \in Index /\ s \in Index /\ gen[t].part \in Nat
    BY NextIs DEF TypeOK, Writer
  <1>6. p < numLogEntries /\ p + 0 = p /\ p \in Nat
    BY <1>5 DEF Index
  <1>7. currentLogEntry = p
    BY <1>1, <1>2, <1>6, CeilZero, ModSmall DEF BodyOK
  <1>8. ring[s].numBlocks > 0 => ring[s].numBlocks = Gap(s, p)
    BY <1>1, <1>2, <1>5, CeilZero DEF BodyOK
  <1>9. Frontier' = p /\ Open' = {}
    BY <1>4, <1>7, ActorAssumption DEF Frontier, Open, InPc
  <1> HIDE DEF p, s
  <1> SUFFICES ASSUME NEW i \in Index, ring[i].numBlocks > 0
               PROVE  HeaderOK(i)'
    BY <1>4 DEF RingOK, Headers
  <1>10. HeaderOK(i)
    BY <1>2 DEF RingOK, Headers
  <1>11. ring[i].numBlocks <= Gap(i, p)
    BY <1>3, <1>5, <1>8, <1>10, GapStep DEF HeaderOK
  <1> QED
    BY <1>3, <1>4, <1>9, <1>10, <1>11 DEF HeaderOK

----------------------------------------------------------------------------
(* The inductive invariant. *)

\* The inductive invariant holds at the start.
LEMMA InvInit == Init => RingInv
  <1> SUFFICES ASSUME Init PROVE RingInv
    OBVIOUS
  <1>1. Headers(ring) = {}
    BY DEF Init, ZeroRing, ZeroBlock, Headers
  <1>2. LockOK
    BY ActorAssumption DEF Init, LockOK, Holding, IdleWriter, IdleReader
  <1> QED
    BY <1>1, <1>2 DEF Init, RingInv, RingOK, CopyOK, IdleWriter, IdleReader

\* A step that neither writes the ring nor moves a holder of the mutex in it.
LEMMA ElsewhereStep ==
  ASSUME TypeOK, RingInv, LockOK', UNCHANGED <<ring, currentLogEntry>>,
         lock = lock' \/ lock = Free,
         \A t \in Threads : gen[t].pc \in {"head", "body"}
                          \/ gen'[t].pc \in {"head", "body"} => gen'[t] = gen[t]
  PROVE  /\ lock' # Dead => RingOK'
         /\ \A t \in Threads : gen'[t].pc = "head" => HeadOK(t)'
         /\ \A t \in Threads : gen'[t].pc = "body" => BodyOK(t)'
  <1>1. \A t \in Threads :
          /\ gen'[t].pc = "head" <=> gen[t].pc = "head"
          /\ gen'[t].pc = "body" <=> gen[t].pc = "body"
    OBVIOUS
  <1>2. \A t \in Threads : gen[t].pc \in {"head", "body"} => lock = t /\ lock' = t
    BY <1>1 DEF RingInv, LockOK, Holding
  <1>3. UNCHANGED Frontier /\ UNCHANGED Open
    BY <1>1, <1>2 DEF Frontier, Open, InPc
  <1>4. lock' # Dead => RingOK'
    BY <1>3, RingKept, ActorAssumption DEF RingInv
  <1>5. \A t \in Threads : gen'[t].pc = "head" => HeadOK(t)'
    BY <1>1 DEF RingInv, HeadOK
  <1>6. \A t \in Threads : gen'[t].pc = "body" => BodyOK(t)'
    BY <1>1 DEF RingInv, BodyOK
  <1> QED
    BY <1>4, <1>5, <1>6

\* A log call's step leaves the copies alone.
LEMMA CopyKept ==
  ASSUME RingInv, UNCHANGED ret,
         UNCHANGED ring \/ \A r \in Readers : lock # r
  PROVE  \A r \in Readers : CopyOK(r)'
  BY DEF RingInv, CopyOK, LockOK

\* A log call that does not write the ring.
LEMMA InvCall ==
  ASSUME TypeOK, RingInv, LockOK', NEW t \in Threads,
         (\E len \in Lens : Stamp(t, len)) \/ TryLock(t) \/ Drop(t)
  PROVE  RingInv'
  <1>1. UNCHANGED <<ring, currentLogEntry, ret>>
    BY DEF Stamp, TryLock, Drop
  <1>2. lock = lock' \/ lock = Free
    BY DEF Stamp, TryLock, Drop
  <1>3. /\ gen[t].pc \notin {"head", "body"} /\ gen'[t].pc \notin {"head", "body"}
        /\ \A u \in Threads \ {t} : gen'[u] = gen[u]
    <2>1. ASSUME NEW len \in Lens, Stamp(t, len)
          PROVE  /\ gen[t].pc = "idle" /\ gen'[t].pc = "trylock"
                 /\ \A u \in Threads \ {t} : gen'[u] = gen[u]
      BY <2>1 DEF Stamp, TypeOK, Writer
    <2>2. CASE TryLock(t)
      BY <2>2 DEF TryLock, TypeOK, Writer
    <2>3. CASE Drop(t)
      BY <2>3 DEF Drop, TypeOK, Writer, IdleWriter
    <2> QED
      BY <2>1, <2>2, <2>3
  <1>4. \A u \in Threads : gen[u].pc \in {"head", "body"}
                          \/ gen'[u].pc \in {"head", "body"} => gen'[u] = gen[u]
    BY <1>3
  <1>5. \A r \in Readers : CopyOK(r)'
    BY <1>1, CopyKept
  <1> QED
    BY <1>1, <1>2, <1>4, <1>5, ElsewhereStep DEF RingInv

\* Claim: the text's blocks are counted, and nothing is written yet.
LEMMA InvClaim ==
  ASSUME TypeOK, RingInv, LockOK', NEW t \in Threads, Claim(t)
  PROVE  RingInv'
  <1> DEFINE n == num_log_bufs(gen[t].len)
  <1>1. lock = t /\ gen[t].pc = "claim" /\ lock' = t /\ ring' = ring
    BY DEF Claim, RingInv, LockOK, Holding
  <1>2. /\ gen'[t].pc = "head" /\ gen'[t].idx = currentLogEntry
        /\ gen'[t].start = currentLogEntry /\ gen'[t].blocks = n
        /\ gen'[t].len = gen[t].len
        /\ \A u \in Threads \ {t} : gen'[u] = gen[u]
    BY DEF Claim, TypeOK, Writer
  <1>3. \A u \in Threads \ {t} : gen'[u].pc \notin {"head", "body"}
    BY <1>1, <1>2 DEF RingInv, LockOK, Holding
  <1>4. UNCHANGED Frontier /\ UNCHANGED Open
    BY <1>1, <1>2 DEF Frontier, Open, InPc
  <1>5. RingOK'
    BY <1>1, <1>4, RingKept, ActorAssumption DEF RingInv
  <1>6. HeadOK(t)'
    <2>1. n = 1 + CeilDivide(Remaining(gen[t].len, FirstCap), OtherCap)
      BY BlocksOf DEF TypeOK, Writer
    <2>2. currentLogEntry' = (currentLogEntry + n) % numLogEntries
      BY DEF Claim
    <2> QED
      BY <1>2, <2>1, <2>2 DEF HeadOK
  <1>7. \A r \in Readers : CopyOK(r)'
    BY <1>1, CopyKept DEF Claim
  <1> QED
    BY <1>2, <1>3, <1>5, <1>6, <1>7 DEF RingInv

\* The two steps that write the ring, and the one that ends the call.
LEMMA InvWrite ==
  ASSUME TypeOK, RingInv, LockOK', NEW t \in Threads,
         WriteFirst(t) \/ WriteNext(t) \/ Unlock(t)
  PROVE  RingInv'
  <1>1. lock = t
    BY DEF WriteFirst, WriteNext, Unlock, RingInv, LockOK, Holding
  <1>2. \A u \in Threads \ {t} : gen'[u] = gen[u]
    BY DEF WriteFirst, WriteNext, Unlock, TypeOK
  <1>3. \A u \in Threads \ {t} : gen'[u].pc \notin {"head", "body"}
    BY <1>1, <1>2 DEF RingInv, LockOK, Holding
  <1>4. RingOK'
    BY WriteFirstRing, WriteNextRing, UnlockRing
  <1>5. gen'[t].pc # "head"
    <2>1. WriteFirst(t) => gen'[t].pc = "body"
      BY DEF WriteFirst, TypeOK, Writer
    <2>2. WriteNext(t) => gen'[t].pc = "body"
      BY DEF WriteNext, TypeOK, Writer
    <2>3. Unlock(t) => gen'[t].pc = "idle"
      BY DEF Unlock, TypeOK, IdleWriter
    <2> QED
      BY <2>1, <2>2, <2>3
  <1>6. gen'[t].pc = "body" => BodyOK(t)'
    <2>1. Unlock(t) => gen'[t].pc = "idle"
      BY DEF Unlock, TypeOK, IdleWriter
    <2> QED
      BY <2>1, WriteFirstRing, WriteNextRing
  <1>7. \A r \in Readers : CopyOK(r)'
    <2>1. UNCHANGED ret
      BY DEF WriteFirst, WriteNext, Unlock
    <2>2. \A r \in Readers : lock # r
      BY <1>1, ActorAssumption
    <2> QED
      BY <2>1, <2>2, CopyKept
  <1> QED
    BY <1>3, <1>4, <1>5, <1>6, <1>7 DEF RingInv

\* A killed generator leaves an entry half written only behind its mutex.
LEMMA InvKillGenerator ==
  ASSUME TypeOK, RingInv, LockOK', KillGenerator
  PROVE  RingInv'
  <1>1. \A t \in Threads : gen'[t].pc = "dead"
    BY DEF KillGenerator, DeadWriter, IdleWriter
  <1>2. UNCHANGED <<ring, currentLogEntry, ret>>
    BY DEF KillGenerator
  <1>3. lock' # Dead => RingOK'
    <2> SUFFICES ASSUME lock' # Dead PROVE RingOK'
      OBVIOUS
    <2>1. lock' = lock /\ lock \notin Threads
      BY DEF KillGenerator
    <2>2. UNCHANGED Frontier /\ UNCHANGED Open
      BY <1>2, <2>1 DEF Frontier, Open, InPc
    <2> QED
      BY <1>2, <2>1, <2>2, RingKept DEF RingInv
  <1>4. \A r \in Readers : CopyOK(r)'
    BY <1>2, CopyKept
  <1> QED
    BY <1>1, <1>3, <1>4 DEF RingInv

\* getLog before and after the copy, and a control process that is killed.
LEMMA InvReader ==
  ASSUME TypeOK, RingInv, LockOK', NEW r \in Readers,
         CallGetLog(r) \/ Acquire(r) \/ CopyBlock(r) \/ Release(r)
         \/ PrintLog(r) \/ KillReader(r)
  PROVE  RingInv'
  <1>1. UNCHANGED <<ring, currentLogEntry, gen>>
    BY DEF CallGetLog, Acquire, CopyBlock, Release, PrintLog, KillReader
  <1>2. \/ UNCHANGED lock
        \/ lock \in {Free, r} /\ lock' \in {Free, r, Dead}
    BY DEF CallGetLog, Acquire, CopyBlock, Release, PrintLog, KillReader,
           RingInv, LockOK
  <1>3. UNCHANGED Frontier /\ UNCHANGED Open
    BY <1>1, <1>2, ActorAssumption DEF Frontier, Open, InPc
  <1>4. lock' # Dead => RingOK'
    BY <1>1, <1>2, <1>3, RingKept, ActorAssumption DEF RingInv
  <1>5. /\ \A t \in Threads : gen'[t].pc = "head" => HeadOK(t)'
        /\ \A t \in Threads : gen'[t].pc = "body" => BodyOK(t)'
    BY <1>1 DEF RingInv, HeadOK, BodyOK
  <1>6. \A q \in Readers \ {r} : CopyOK(q)'
    <2>1. \A q \in Readers \ {r} : ret'[q] = ret[q]
      BY DEF CallGetLog, Acquire, CopyBlock, Release, PrintLog, KillReader, TypeOK
    <2> QED
      BY <1>1, <2>1 DEF RingInv, CopyOK
  <1>7. CopyOK(r)'
    <2>1. CASE CallGetLog(r)
      BY <2>1 DEF CallGetLog, RingInv, CopyOK, TypeOK, Reader
    <2>2. CASE Acquire(r)
      BY <2>2 DEF Acquire, RingInv, CopyOK, TypeOK, Reader, Index
    <2>3. CASE CopyBlock(r)
      <3> DEFINE k == ret[r].copied
      <3>1. /\ ret'[r].pc = "copy" /\ ret'[r].copied = k + 1
            /\ ret'[r].temp = [ret[r].temp EXCEPT ![k] = ring[k]]
        BY <2>3 DEF CopyBlock, TypeOK, Reader
      <3>2. k \in Index /\ ret[r].temp \in [Index -> Block]
        BY <2>3 DEF CopyBlock, TypeOK, Reader, Index
      <3>3. \A i \in Index : i < k => ret[r].temp[i] = ring[i]
        BY <2>3 DEF CopyBlock, RingInv, CopyOK
      <3> HIDE DEF k
      <3>4. \A i \in Index : i < k + 1 => ret'[r].temp[i] = ring[i]
        BY <3>1, <3>2, <3>3 DEF Index
      <3> QED
        BY <1>1, <3>1, <3>4 DEF CopyOK
    <2>4. CASE Release(r)
      <3>1. lock = r /\ ret[r].pc = "copy" /\ ret[r].copied = numLogEntries
        BY <2>4 DEF Release, RingInv, LockOK
      <3>2. Open = {} /\ RingOK
        BY <3>1, ActorAssumption DEF Open, InPc, RingInv
      <3>3. Intact(ring)
        BY <3>2, RingIntact
      <3>4. \A i \in Index : ret[r].temp[i] = ring[i]
        BY <3>1 DEF RingInv, CopyOK, Index
      <3>5. ret[r].temp = ring
        BY <3>4 DEF TypeOK, Reader
      <3>6. ret'[r].pc = "print" /\ ret'[r].temp = ring
        BY <2>4, <3>5 DEF Release, TypeOK, Reader
      <3> QED
        BY <3>3, <3>6 DEF CopyOK
    <2>5. CASE PrintLog(r) \/ KillReader(r)
      BY <2>5 DEF PrintLog, KillReader, CopyOK, TypeOK, IdleReader
    <2> QED
      BY <2>1, <2>2, <2>3, <2>4, <2>5
  <1> QED
    BY <1>4, <1>5, <1>6, <1>7 DEF RingInv

\* The invariant is inductive, one step per kind of action.
LEMMA InvStep ==
  ASSUME TypeOK, RingInv, [Next]_vars
  PROVE  RingInv'
  <1>1. LockOK'
    BY LockStep DEF RingInv
  <1>2. ASSUME NEW t \in Threads, Call(t) \/ WriterStep(t)
        PROVE  RingInv'
    BY <1>1, <1>2, InvCall, InvClaim, InvWrite DEF Call, WriterStep
  <1>3. ASSUME NEW r \in Readers, CallGetLog(r) \/ ReaderStep(r) \/ KillReader(r)
        PROVE  RingInv'
    BY <1>1, <1>3, InvReader DEF ReaderStep
  <1>4. CASE KillGenerator
    BY <1>1, <1>4, InvKillGenerator
  <1>5. CASE UNCHANGED vars
    <2>1. UNCHANGED Frontier /\ UNCHANGED Open
      BY <1>5 DEF vars, Frontier, Open, InPc
    <2>2. lock' # Dead => RingOK'
      BY <1>5, <2>1, RingKept DEF vars, RingInv
    <2>3. /\ \A t \in Threads : gen'[t].pc = "head" => HeadOK(t)'
          /\ \A t \in Threads : gen'[t].pc = "body" => BodyOK(t)'
          /\ \A r \in Readers : CopyOK(r)'
      BY <1>5 DEF vars, RingInv, HeadOK, BodyOK, CopyOK
    <2> QED
      BY <1>1, <2>2, <2>3 DEF RingInv
  <1> QED
    BY <1>2, <1>3, <1>4, <1>5 DEF Next, Kill

\* RingInv is an invariant: headers, frontier and mutex agree at every point of
\* every log call (doWriteData) and copy (getLog).
THEOREM RingInvariant == Spec => []RingInv
  <1>1. Init => TypeOK /\ RingInv
    BY TypeInit, InvInit
  <1>2. TypeOK /\ RingInv /\ [Next]_vars => (TypeOK /\ RingInv)'
    BY TypeStep, InvStep
  <1> QED
    BY <1>1, <1>2, PTL DEF Spec

\* Two calls of doWriteData never write the ring at the same time, and none
\* writes it while getLog copies it.
THEOREM Exclusion == Spec => []MutualExclusion
  <1>1. RingInv => MutualExclusion
    BY DEF RingInv, LockOK, MutualExclusion
  <1> QED
    BY <1>1, RingInvariant, PTL

\* Whatever getLog prints is made of whole entries: it never follows a header
\* into blocks that are gone or not there yet, for every ring, every capacity
\* of a block and every length of the texts, too long for the ring or not.
THEOREM PrintsWholeEntries == Spec => []SnapshotIntact
  <1>1. RingInv => SnapshotIntact
    BY DEF RingInv, CopyOK, SnapshotIntact
  <1> QED
    BY <1>1, RingInvariant, PTL
=============================================================================
