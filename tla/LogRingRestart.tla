--------------------------- MODULE LogRingRestart ---------------------------
(***************************************************************************)
(* LogRing with a generator that is started again after it was killed: the *)
(* constructor of shared_mem_logger_generator opens the shared memory that *)
(* is still there, puts a new mutex over the old one, whoever holds it,    *)
(* and clears the blocks without taking it.                                *)
(***************************************************************************)
EXTENDS LogRingRefines

CONSTANTS
  MaxRestarts,  \* bound of the model: starts of the generator after the first
  ReadersAway   \* whether control processes stay away while it starts

ASSUME RestartAssumption == MaxRestarts \in Nat /\ ReadersAway \in BOOLEAN

VARIABLES
  restarts,     \* starts so far
  zeroed        \* blocks the running constructor has cleared; all when done

rvars == <<vars, restarts, zeroed>>

GeneratorDown == \A t \in Threads : gen[t].pc = "dead"

\* new (region.get_address()) interprocess_mutex; the members start afresh.
NewMutex ==
  /\ GeneratorDown
  /\ restarts < MaxRestarts
  /\ ReadersAway => \A r \in Readers : ret[r].pc \notin {"wait", "copy"}
  /\ restarts' = restarts + 1
  /\ zeroed' = 0
  /\ lock' = Free
  /\ currentLogEntry' = 0
  /\ written' = <<>>
  /\ UNCHANGED <<ring, now, lastMsg, gen, ret>>

\* Mutant: nothing is cleared.
ClearNothing ==
  /\ GeneratorDown
  /\ zeroed < numLogEntries
  /\ zeroed' = zeroed + 1
  /\ gen' = IF zeroed' = numLogEntries THEN [t \in Threads |-> IdleWriter] ELSE gen
  /\ UNCHANGED <<ring, lock, currentLogEntry, now, lastMsg, ret, written, restarts>>

\* memset, block by block; after the last one the program begins to log.
ClearBlock ==
  /\ GeneratorDown
  /\ zeroed < numLogEntries
  /\ zeroed' = zeroed + 1
  /\ ring' = [ring EXCEPT ![zeroed] = ZeroBlock]
  /\ gen' = IF zeroed' = numLogEntries THEN [t \in Threads |-> IdleWriter] ELSE gen
  /\ UNCHANGED <<lock, currentLogEntry, now, lastMsg, ret, written, restarts>>

RInit == Init /\ restarts = 0 /\ zeroed = numLogEntries

\* A step of LogRing; a reader that stays away is not started meanwhile.
RunStep ==
  /\ Next
  /\ ReadersAway /\ zeroed < numLogEntries =>
       \A r \in Readers : ret[r].pc = "idle" => ret'[r].pc = "idle"
  /\ UNCHANGED <<restarts, zeroed>>

RNext == RunStep \/ NewMutex \/ ClearBlock

RSpec == RInit /\ [][RNext]_rvars
=============================================================================
