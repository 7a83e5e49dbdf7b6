----------------------------- MODULE AccumStat -----------------------------
(***************************************************************************)
(* One accumulator statistic of stat_log.  The generator's threads write   *)
(* samples into a private accumulator (AccumOp::write); its serializer     *)
(* thread copies every feature of it to shared memory once in a while      *)
(* (AccumOp::serialize, LogStatOperational::doInit and doStop); control    *)
(* processes read the features, and ask for a reset by setting a word that *)
(* the next write consumes (AccumControl::doStatCommand).  Writers and     *)
(* serializer share a mutex; control processes take no lock at all.        *)
(*                                                                         *)
(* Samples are numbered as they are accumulated; the accumulator is the    *)
(* set of the samples it has seen since it was reset, and a feature's      *)
(* value (mean, count, histogram...) stands for the set it was computed    *)
(* from, the empty set for the zero of an accumulator without samples.     *)
(***************************************************************************)
EXTENDS Naturals, Sequences

CONSTANTS
  Writers,      \* threads that write samples
  Controls,     \* control processes
  numFeatures,  \* numbers that the features have in shared memory, in order
  FirstOf,      \* those that begin a feature; a histogram goes on with further bins
  MaxSamples,   \* bound of the model: samples written
  Free,         \* value of the mutex: nobody holds it
  Serializer    \* value of the mutex: the serializer thread holds it

ASSUME FeatureAssumption ==
  numFeatures \in Nat \ {0} /\ 1 \in FirstOf /\ FirstOf \subseteq 1 .. numFeatures
ASSUME SampleAssumption == MaxSamples \in Nat
ASSUME AccumActorAssumption ==
  Free \notin Writers /\ Serializer \notin Writers /\ Free # Serializer

VARIABLES
  acc,                \* the accumulator: numbers of the samples in it
  mtx,                \* AccumOp's mutex
  control_word,       \* in shared memory: 1 asks for a reset
  shm,                \* in shared memory: the features
  serializer_running,
  wr,                 \* each writer's program counter
  ser,                \* the serializer thread: [pc, feature]
  app,                \* the thread that calls stop()
  dump,               \* each control process's dump of the statistic
  done,               \* ghost: samples accumulated so far
  cleared             \* ghost: samples there were at the last reset request

vars == <<acc, mtx, control_word, shm, serializer_running, wr, ser, app, dump,
          done, cleared>>

----------------------------------------------------------------------------
Features == 1 .. numFeatures

\* A feature in shared memory: the samples it was computed from, and two ghosts:
\* the samples there were then, and at the serialization before.
Value == [samples : SUBSET Nat, upto : Nat, before : Nat]

ZeroValue == [samples |-> {}, upto |-> 0, before |-> 0]

\* What a dump prints for a feature: its value, or zero while a reset is pending.
Printed == [valid : BOOLEAN, value : Value]

\* since: the samples a request for reset had covered when the dump began.
Dump == [pc : {"idle", "flag", "value"}, valid : BOOLEAN, out : Seq(Printed),
         since : Nat]

NoDump == [pc |-> "idle", valid |-> FALSE, out |-> <<>>, since |-> 0]

----------------------------------------------------------------------------
(* AccumOp::write *)

WriteLock(w) ==
  /\ wr[w] = "idle"
  /\ done < MaxSamples
  /\ mtx = Free
  /\ mtx' = w
  /\ wr' = [wr EXCEPT ![w] = "check"]
  /\ UNCHANGED <<acc, control_word, shm, serializer_running, ser, app, dump,
                 done, cleared>>

\* Mutant: the control word is not looked at.
ControlWordIgnored(w) ==
  /\ wr[w] = "check"
  /\ wr' = [wr EXCEPT ![w] = "add"]
  /\ UNCHANGED <<acc, mtx, control_word, shm, serializer_running, ser, app,
                 dump, done, cleared>>

\* Mutant: the test of the control word is the wrong way round.
CheckControlWordInverted(w) ==
  /\ wr[w] = "check"
  /\ wr' = [wr EXCEPT ![w] = IF control_word = 0 THEN "reset" ELSE "add"]
  /\ UNCHANGED <<acc, mtx, control_word, shm, serializer_running, ser, app,
                 dump, done, cleared>>

CheckControlWord(w) ==
  /\ wr[w] = "check"
  /\ wr' = [wr EXCEPT ![w] = IF control_word = 1 THEN "reset" ELSE "add"]
  /\ UNCHANGED <<acc, mtx, control_word, shm, serializer_running, ser, app,
                 dump, done, cleared>>

\* Mutant: the control word keeps its value, so every write resets.
ResetForEver(w) ==
  /\ wr[w] = "reset"
  /\ acc' = {}
  /\ wr' = [wr EXCEPT ![w] = "add"]
  /\ UNCHANGED <<mtx, control_word, shm, serializer_running, ser, app, dump, done,
                 cleared>>

\* acc = AccumSet{}; *control_word_ptr = 0.  Nobody else sees acc in between.
Reset(w) ==
  /\ wr[w] = "reset"
  /\ acc' = {}
  /\ control_word' = 0
  /\ wr' = [wr EXCEPT ![w] = "add"]
  /\ UNCHANGED <<mtx, shm, serializer_running, ser, app, dump, done, cleared>>

\* Mutant: the control word is set back when the write ends.
AddSampleAcknowledges(w) ==
  /\ wr[w] = "add"
  /\ acc' = acc \cup {done + 1}
  /\ done' = done + 1
  /\ control_word' = 0
  /\ mtx' = Free
  /\ wr' = [wr EXCEPT ![w] = "idle"]
  /\ UNCHANGED <<shm, serializer_running, ser, app, dump, cleared>>

\* The sample is in the accumulator when the mutex is released, and the call
\* returns.
AddSample(w) ==
  /\ wr[w] = "add"
  /\ acc' = acc \cup {done + 1}
  /\ done' = done + 1
  /\ mtx' = Free
  /\ wr' = [wr EXCEPT ![w] = "idle"]
  /\ UNCHANGED <<control_word, shm, serializer_running, ser, app, dump, cleared>>

----------------------------------------------------------------------------
(* The serializer thread that doInit starts. *)

\* serializer_running is a plain bool: a build may skip the load that follows the
\* store.  Later tests come after calls (lock, sleep) and load it.
SerializerBegins ==
  /\ ser.pc = "new"
  /\ serializer_running' = TRUE
  /\ \E pc \in {"test", "lock"} : ser' = [ser EXCEPT !.pc = pc]
  /\ UNCHANGED <<acc, mtx, control_word, shm, wr, app, dump, done, cleared>>

TestRunning ==
  /\ ser.pc = "test"
  /\ ser' = [ser EXCEPT !.pc = IF serializer_running THEN "lock" ELSE "done"]
  /\ UNCHANGED <<acc, mtx, control_word, shm, serializer_running, wr, app, dump,
                 done, cleared>>

\* Mutant: the serializer does not take the mutex.
SerializeUnlocked ==
  /\ ser.pc = "lock"
  /\ ser' = [pc |-> "serialize", feature |-> 1]
  /\ UNCHANGED <<acc, mtx, control_word, shm, serializer_running, wr, app, dump,
                 done, cleared>>

SerializeLock ==
  /\ ser.pc = "lock"
  /\ mtx = Free
  /\ mtx' = Serializer
  /\ ser' = [pc |-> "serialize", feature |-> 1]
  /\ UNCHANGED <<acc, control_word, shm, serializer_running, wr, app, dump, done,
                 cleared>>

SerializeFeature ==
  /\ ser.pc = "serialize"
  /\ ser.feature <= numFeatures
  /\ shm' = [shm EXCEPT ![ser.feature] =
               [samples |-> acc, upto |-> done, before |-> shm[ser.feature].upto]]
  /\ ser' = [ser EXCEPT !.feature = ser.feature + 1]
  /\ UNCHANGED <<acc, mtx, control_word, serializer_running, wr, app, dump, done,
                 cleared>>

\* Mutant: the last feature may be left out.
SerializeUnlockEarly ==
  /\ ser.pc = "serialize"
  /\ ser.feature >= numFeatures
  /\ mtx' = Free
  /\ ser' = [pc |-> "sleep", feature |-> 1]
  /\ UNCHANGED <<acc, control_word, shm, serializer_running, wr, app, dump, done,
                 cleared>>

SerializeUnlock ==
  /\ ser.pc = "serialize"
  /\ ser.feature > numFeatures
  /\ mtx' = Free
  /\ ser' = [pc |-> "sleep", feature |-> 1]
  /\ UNCHANGED <<acc, control_word, shm, serializer_running, wr, app, dump, done,
                 cleared>>

\* Mutant: the loop is an if.
WakeUpDone ==
  /\ ser.pc = "sleep"
  /\ ser' = [ser EXCEPT !.pc = "done"]
  /\ UNCHANGED <<acc, mtx, control_word, shm, serializer_running, wr, app, dump,
                 done, cleared>>

WakeUp ==
  /\ ser.pc = "sleep"
  /\ ser' = [ser EXCEPT !.pc = "test"]
  /\ UNCHANGED <<acc, mtx, control_word, shm, serializer_running, wr, app, dump,
                 done, cleared>>

----------------------------------------------------------------------------
(* doStop *)

\* The thread does not run (yet): there is nothing to join.
StopEarly ==
  /\ app = "up"
  /\ ~serializer_running
  /\ app' = "stopped"
  /\ UNCHANGED <<acc, mtx, control_word, shm, serializer_running, wr, ser, dump,
                 done, cleared>>

StopSerializer ==
  /\ app = "up"
  /\ serializer_running
  /\ serializer_running' = FALSE
  /\ app' = "join"
  /\ UNCHANGED <<acc, mtx, control_word, shm, wr, ser, dump, done, cleared>>

\* Mutant: the thread is detached.
Detach ==
  /\ app = "join"
  /\ app' = "stopped"
  /\ UNCHANGED <<acc, mtx, control_word, shm, serializer_running, wr, ser, dump,
                 done, cleared>>

Join ==
  /\ app = "join"
  /\ ser.pc = "done"
  /\ app' = "stopped"
  /\ UNCHANGED <<acc, mtx, control_word, shm, serializer_running, wr, ser, dump,
                 done, cleared>>

----------------------------------------------------------------------------
(* AccumControl::doStatCommand *)

\* Mutant: the control word counts the requests.
CountRequests(c) ==
  /\ dump[c].pc = "idle"
  /\ control_word' = control_word + 1
  /\ cleared' = done
  /\ UNCHANGED <<acc, mtx, shm, serializer_running, wr, ser, app, dump, done>>

ClearStat(c) ==
  /\ dump[c].pc = "idle"
  /\ control_word' = 1
  /\ cleared' = done
  /\ UNCHANGED <<acc, mtx, shm, serializer_running, wr, ser, app, dump, done>>

DumpStat(c) ==
  /\ dump[c].pc = "idle"
  /\ dump' = [dump EXCEPT ![c] = [NoDump EXCEPT !.pc = "flag", !.since = cleared]]
  /\ UNCHANGED <<acc, mtx, control_word, shm, serializer_running, wr, ser, app,
                 done, cleared>>

\* For each feature, whether a reset is pending is read first (once for all bins of
\* a histogram)...
ReadControlWord(c) ==
  /\ dump[c].pc = "flag"
  /\ Len(dump[c].out) < numFeatures
  /\ dump' = [dump EXCEPT ![c] = [dump[c] EXCEPT !.pc = "value",
                                                 !.valid = (control_word = 0)]]
  /\ UNCHANGED <<acc, mtx, control_word, shm, serializer_running, wr, ser, app,
                 done, cleared>>

\* ... and then, when none is, the value.
ReadFeature(c) ==
  LET f == Len(dump[c].out) + 1
      shown == [valid |-> dump[c].valid,
                value |-> IF dump[c].valid THEN shm[f] ELSE ZeroValue]
      next == IF f = numFeatures \/ f + 1 \in FirstOf THEN "flag" ELSE "value" IN
  /\ dump[c].pc = "value"
  /\ dump' = [dump EXCEPT ![c] = [dump[c] EXCEPT !.pc = next,
                                                 !.out = Append(dump[c].out, shown)]]
  /\ UNCHANGED <<acc, mtx, control_word, shm, serializer_running, wr, ser, app,
                 done, cleared>>

\* The line is printed.
EndDump(c) ==
  /\ dump[c].pc = "flag"
  /\ Len(dump[c].out) = numFeatures
  /\ dump' = [dump EXCEPT ![c] = NoDump]
  /\ UNCHANGED <<acc, mtx, control_word, shm, serializer_running, wr, ser, app,
                 done, cleared>>

----------------------------------------------------------------------------
\* setParams has cleared the shared memory; doInit has created the thread.
Init ==
  /\ acc = {}
  /\ mtx = Free
  /\ control_word = 0
  /\ shm = [f \in Features |-> ZeroValue]
  /\ serializer_running = FALSE
  /\ wr = [w \in Writers |-> "idle"]
  /\ ser = [pc |-> "new", feature |-> 1]
  /\ app = "up"
  /\ dump = [c \in Controls |-> NoDump]
  /\ done = 0
  /\ cleared = 0

\* A write that has begun goes on.
WriterStep(w) == CheckControlWord(w) \/ Reset(w) \/ AddSample(w)

SerializerStep ==
  \/ SerializerBegins
  \/ TestRunning
  \/ SerializeLock
  \/ SerializeFeature
  \/ SerializeUnlock
  \/ WakeUp

Stop == StopEarly \/ StopSerializer \/ Join

ControlStep(c) ==
  \/ ClearStat(c)
  \/ DumpStat(c)
  \/ ReadControlWord(c)
  \/ ReadFeature(c)
  \/ EndDump(c)

Next ==
  \/ \E w \in Writers : WriteLock(w) \/ WriterStep(w)
  \/ SerializerStep
  \/ Stop
  \/ \E c \in Controls : ControlStep(c)

Spec == Init /\ [][Next]_vars

\* Threads that can run do; nothing makes the mutex fair.
Fairness ==
  /\ WF_vars(SerializerStep)
  /\ \A w \in Writers : WF_vars(WriterStep(w))
  /\ WF_vars(Join)

FairSpec == Spec /\ Fairness

----------------------------------------------------------------------------
(* Properties *)

\* Types of all variables (AccumOp's members, the shared memory, the locals of
\* the calls).
TypeOK ==
  /\ acc \in SUBSET Nat
  /\ mtx \in Writers \cup {Free, Serializer}
  /\ control_word \in {0, 1}
  /\ shm \in [Features -> Value]
  /\ serializer_running \in BOOLEAN
  /\ wr \in [Writers -> {"idle", "check", "reset", "add"}]
  /\ ser \in [pc : {"new", "test", "lock", "serialize", "sleep", "done"},
             feature : 1 .. numFeatures + 1]
  /\ app \in {"up", "join", "stopped"}
  /\ dump \in [Controls -> Dump]
  /\ done \in Nat
  /\ cleared \in Nat

\* A request for reset is never lost: until it is met it stays pending, and
\* from then on no sample that was there at the request is in the accumulator,
\* whenever the request came in the middle of a write (AccumOp::write takes it
\* with a plain test and a plain store).
ClearNotLost == control_word = 1 \/ \A s \in acc : s > cleared

\* A reset takes at most one sample that was not there at the request, the one
\* whose write was past its test of the control word: all later ones are kept.
ClearTakesNoMore == \A s \in cleared + 2 .. done : s \in acc

\* Between two serializations the features in shared memory belong together:
\* all are of the same samples (serialize holds the writers' mutex).
OneSnapshot ==
  ser.pc # "serialize" => \A f, g \in Features : shm[f] = shm[g]

\* A dump that overlaps serializations may mix them, but each feature that is
\* printed is at most one serialization behind those printed before it.
DumpSkew ==
  \A c \in Controls : LET out == dump[c].out IN
    \A j \in 1 .. Len(out) : \A i \in 1 .. j - 1 :
      out[i].valid /\ out[j].valid =>
        out[j].value.upto >= out[i].value.before

\* stop() returns only when the serializer thread is over, unless it was called
\* before the thread had set serializer_running (doStop's early return).
StopJoins ==
  app = "stopped" => ser.pc \in {"new", "done"} \/ serializer_running

\* When writers fall silent (they do at the bound) and nobody stops the
\* serializer, every sample reaches all features in shared memory.
EverySampleShown ==
  \A s \in 1 .. MaxSamples :
    s \in acc ~> app # "up" \/ \A f \in Features : shm[f].upto >= s

\* After a request for reset and two more writes, the first of which may have
\* been under way, the old samples disappear from shared memory.
ClearReachesFeatures ==
  \A s \in 1 .. MaxSamples :
    cleared >= s /\ done >= cleared + 2
      ~> app # "up" \/ \A f \in Features : s \notin shm[f].samples

\* What a dump prints after the statistic was cleared has none of the samples
\* that were there before ("Zero out statistics").
ClearedIsGone ==
  \A c \in Controls : \A i \in 1 .. Len(dump[c].out) :
    \A s \in dump[c].out[i].value.samples : s > dump[c].since
============================================================================
