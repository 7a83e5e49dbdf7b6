----------------------------- MODULE LogRingInv -----------------------------
(***************************************************************************)
(* The inductive invariant of LogRing that makes what getLog copies whole. *)
(* The ring is filled in one direction, so the block that is written next, *)
(* the frontier, meets the header of every older entry before the rest of  *)
(* it: no header is left that announces blocks which are already gone.     *)
(***************************************************************************)
EXTENDS LogRing

\* Steps forward from i to the frontier f; once around when it is at i.
Gap(i, f) == IF i < f THEN f - i ELSE f - i + numLogEntries

\* Steps forward from i to j, none when they are the same.
Dist(i, j) == IF i <= j THEN j - i ELSE j - i + numLogEntries

Continuation(msg, k) == [numBlocks |-> 0, ts |-> 0, msg |-> msg, part |-> k]

\* The call that holds the mutex, if it is a log call in pc p.
InPc(t, p) == t \in Threads /\ gen[t].pc = p

\* The next block to be written.
Frontier ==
  IF InPc(lock, "head") THEN gen[lock].idx
  ELSE IF InPc(lock, "body") THEN NextIndex(gen[lock].idx)
  ELSE currentLogEntry

\* The first block of the entry being written, whose header already announces
\* blocks that are still to come.
Open == IF InPc(lock, "body") THEN {gen[lock].start} ELSE {}

\* Every header announces only blocks between it and the frontier, and those
\* of them that exist are its continuations.
HeaderOK(i) ==
  /\ ring[i].part = 0
  /\ i \notin Open => ring[i].numBlocks <= Gap(i, Frontier)
  /\ \A j \in Index :
       /\ j # i
       /\ Dist(i, j) < ring[i].numBlocks
       /\ Dist(i, j) < Gap(i, Frontier)
       => ring[j] = Continuation(ring[i].msg, Dist(i, j))

RingOK == \A i \in Headers(ring) : HeaderOK(i)

\* Before the header: the blocks claimed are those the text needs.
HeadOK(t) ==
  /\ gen[t].start = gen[t].idx
  /\ gen[t].blocks = 1 + CeilDivide(Remaining(gen[t].len, FirstCap), OtherCap)
  /\ currentLogEntry = (gen[t].idx + gen[t].blocks) % numLogEntries

\* After it: what is left of the text takes the rest of the blocks claimed,
\* unless the entry is so long that it has come round to its own header.
BodyOK(t) ==
  LET s == gen[t].start
      f == NextIndex(gen[t].idx)
      rest == CeilDivide(gen[t].len, OtherCap) IN
  /\ currentLogEntry = (f + rest) % numLogEntries
  /\ ring[s].numBlocks > 0 =>
       /\ ring[s].msg = gen[t].msg
       /\ ring[s].numBlocks = gen[t].part + rest
       /\ gen[t].part = Gap(s, f)

\* The mutex tells who is where.
LockOK ==
  /\ \A t \in Threads : gen[t].pc \in Holding <=> lock = t
  /\ \A r \in Readers : ret[r].pc = "copy" <=> lock = r

\* A copy so far is that of the ring; a complete one is made of whole entries.
CopyOK(r) ==
  /\ ret[r].pc \in {"idle", "wait"} => ret[r].copied = 0
  /\ ret[r].pc = "copy" =>
       \A i \in Index : i < ret[r].copied => ret[r].temp[i] = ring[i]
  /\ ret[r].pc = "print" => Intact(ret[r].temp)

\* A killed holder may leave any ring behind, but nobody gets to read it.
\* (doWriteData and getLog; each part is needed for the next.)
RingInv ==
  /\ LockOK
  /\ lock # Dead => RingOK
  /\ \A t \in Threads : gen[t].pc = "head" => HeadOK(t)
  /\ \A t \in Threads : gen[t].pc = "body" => BodyOK(t)
  /\ \A r \in Readers : CopyOK(r)
=============================================================================
