-------------------------- MODULE AccumStatProofs --------------------------
(***************************************************************************)
(* Theorems about AccumStat, for every number of writers, control          *)
(* processes, features and samples: what a request for reset does to the   *)
(* samples, that the features in shared memory belong together, and how    *)
(* far a dump can mix them.                                                *)
(***************************************************************************)
EXTENDS AccumStat, TLAPS

USE FeatureAssumption, SampleAssumption, AccumActorAssumption

----------------------------------------------------------------------------
(* Inductive invariants. *)

\* A dump reads only features there are.
InRange ==
  \A c \in Controls :
    /\ Len(dump[c].out) <= numFeatures
    /\ dump[c].pc = "value" => Len(dump[c].out) < numFeatures

\* Who holds the mutex.
LockOK ==
  /\ \A w \in Writers : wr[w] \in {"check", "reset", "add"} <=> mtx = w
  /\ ser.pc = "serialize" <=> mtx = Serializer

\* A pending request for reset is at most one sample old: the next write meets
\* it, and only a write past its test can still add a sample.
ClearOK ==
  /\ cleared <= done
  /\ control_word = 1 => done <= cleared + 1
  /\ \A w \in Writers : wr[w] = "reset" => control_word = 1
  /\ \A w \in Writers : wr[w] = "add" /\ control_word = 1 => done = cleared
  /\ ClearNotLost
  /\ ClearTakesNoMore

\* The features the serializer has been at are of now, those it has not are of
\* one serialization before; otherwise all are the same.
SnapshotOK ==
  /\ \A f \in Features : shm[f].before <= shm[f].upto /\ shm[f].upto <= done
  /\ OneSnapshot
  /\ ser.pc = "serialize" =>
       /\ \A f, g \in Features :
            ser.feature <= f /\ ser.feature <= g => shm[f] = shm[g]
       /\ \A f, g \in Features :
            f < ser.feature /\ ser.feature <= g => shm[f].before = shm[g].upto
       /\ \A f, g \in Features :
            f < ser.feature /\ g < ser.feature => shm[f] = shm[g]
       /\ \A f \in Features :
            f < ser.feature => shm[f].samples = acc /\ shm[f].upto = done

\* No feature that is still to be read is more than one serialization behind
\* one that has been printed.
DumpOK(c) ==
  \A i \in 1 .. Len(dump[c].out) :
    dump[c].out[i].valid =>
      \A j \in Features : i < j => dump[c].out[i].value.before <= shm[j].upto

----------------------------------------------------------------------------
(* Types. *)

\* Initial and reset values have their types.
LEMMA ZeroTypes == NoDump \in Dump /\ ZeroValue \in Value
  BY DEF NoDump, Dump, ZeroValue, Value

\* The steps of a dump keep its type and its range.
LEMMA DumpTypes ==
  ASSUME TypeOK, InRange, NEW c \in Controls,
         DumpStat(c) \/ ReadControlWord(c) \/ ReadFeature(c) \/ EndDump(c)
  PROVE  dump' \in [Controls -> Dump] /\ InRange'
  <1> USE DEF TypeOK, InRange
  <1>1. CASE DumpStat(c)
    <2>1. [NoDump EXCEPT !.pc = "flag", !.since = cleared] \in Dump
      BY ZeroTypes DEF Dump
    <2>2. dump'[c].pc = "flag" /\ dump'[c].out = <<>>
      BY <1>1 DEF DumpStat, NoDump
    <2> QED
      BY <1>1, <2>1, <2>2 DEF DumpStat
  <1>2. CASE ReadControlWord(c)
    <2> DEFINE v == (control_word = 0)
    <2>1. v \in BOOLEAN /\ dump[c] \in Dump
      OBVIOUS
    <2> HIDE DEF v
    <2>2. [dump[c] EXCEPT !.pc = "value", !.valid = v] \in Dump
      BY <2>1 DEF Dump
    <2>3. dump' = [dump EXCEPT ![c] = [dump[c] EXCEPT !.pc = "value", !.valid = v]]
      BY <1>2, Zenon DEF ReadControlWord, v
    <2>4. dump'[c].out = dump[c].out /\ Len(dump[c].out) < numFeatures
      BY <1>2, <2>1, <2>3 DEF ReadControlWord, Dump
    <2> QED
      BY <2>2, <2>3, <2>4
  <1>3. CASE ReadFeature(c)
    <2> DEFINE f == Len(dump[c].out) + 1
               shown == [valid |-> dump[c].valid,
                         value |-> IF dump[c].valid THEN shm[f] ELSE ZeroValue]
               next == Append(dump[c].out, shown)
               pc == IF f = numFeatures \/ f + 1 \in FirstOf THEN "flag" ELSE "value"
    <2>1. dump[c] \in Dump /\ dump[c].pc = "value"
      BY <1>3 DEF ReadFeature
    <2>2. dump[c].out \in Seq(Printed) /\ dump[c].valid \in BOOLEAN
      BY <2>1 DEF Dump
    <2>3. f \in Features
      BY <2>1, <2>2 DEF Features
    <2>4. shown \in Printed
      BY <2>2, <2>3, ZeroTypes DEF Printed
    <2> HIDE DEF shown
    <2>5. next \in Seq(Printed) /\ Len(next) = Len(dump[c].out) + 1
      BY <2>2, <2>4
    <2> HIDE DEF next
    <2>6. pc \in {"flag", "value"} /\ (pc = "value" => f # numFeatures)
      OBVIOUS
    <2> HIDE DEF pc
    <2>7. [dump[c] EXCEPT !.pc = pc, !.out = next] \in Dump
      BY <2>1, <2>5, <2>6 DEF Dump
    <2>8. dump' = [dump EXCEPT ![c] = [dump[c] EXCEPT !.pc = pc, !.out = next]]
      BY <1>3, Zenon DEF ReadFeature, next, shown, pc
    <2>9. dump'[c].pc = pc /\ dump'[c].out = next
      BY <2>1, <2>8 DEF Dump
    <2>10. Len(next) <= numFeatures /\ (pc = "value" => Len(next) < numFeatures)
      BY <2>1, <2>2, <2>5, <2>6
    <2>11. dump' \in [Controls -> Dump] /\ \A e \in Controls \ {c} : dump'[e] = dump[e]
      BY <2>7, <2>8
    <2> QED
      BY <2>9, <2>10, <2>11
  <1>4. CASE EndDump(c)
    <2>1. dump'[c].pc = "idle" /\ dump'[c].out = <<>>
      BY <1>4 DEF EndDump, NoDump
    <2> QED
      BY <1>4, <2>1, ZeroTypes DEF EndDump
  <1> QED
    BY <1>1, <1>2, <1>3, <1>4

\* The variables have their types at the start.
LEMMA TypeInit == Init => TypeOK /\ InRange
  <1> SUFFICES ASSUME Init PROVE TypeOK /\ InRange
    OBVIOUS
  <1>1. ser \in [pc : {"new", "test", "lock", "serialize", "sleep", "done"},
                feature : 1 .. numFeatures + 1]
    BY DEF Init
  <1>2. shm \in [Features -> Value] /\ dump \in [Controls -> Dump]
    BY ZeroTypes DEF Init
  <1>3. TypeOK
    BY <1>1, <1>2 DEF Init, TypeOK
  <1>4. InRange
    BY DEF Init, InRange, NoDump
  <1> QED
    BY <1>3, <1>4

\* No step takes a variable out of its type.
LEMMA TypeStep ==
  ASSUME TypeOK, InRange, [Next]_vars
  PROVE  TypeOK' /\ InRange'
  <1>1. ASSUME NEW w \in Writers, WriteLock(w) \/ WriterStep(w)
        PROVE  TypeOK' /\ InRange'
    <2>1. CASE WriteLock(w)
      BY <2>1 DEF WriteLock, TypeOK, InRange
    <2>2. CASE CheckControlWord(w)
      BY <2>2 DEF CheckControlWord, TypeOK, InRange
    <2>3. CASE Reset(w)
      BY <2>3 DEF Reset, TypeOK, InRange
    <2>4. CASE AddSample(w)
      BY <2>4 DEF AddSample, TypeOK, InRange
    <2> QED
      BY <1>1, <2>1, <2>2, <2>3, <2>4 DEF WriterStep
  <1>2. ASSUME SerializerBegins \/ TestRunning \/ SerializeLock
               \/ SerializeUnlock \/ WakeUp
        PROVE  TypeOK' /\ InRange'
    <2>1. CASE SerializerBegins
      BY <2>1 DEF SerializerBegins, TypeOK, InRange
    <2>2. CASE TestRunning
      BY <2>2 DEF TestRunning, TypeOK, InRange
    <2>3. CASE SerializeLock
      BY <2>3 DEF SerializeLock, TypeOK, InRange
    <2>4. CASE SerializeUnlock
      BY <2>4 DEF SerializeUnlock, TypeOK, InRange
    <2>5. CASE WakeUp
      BY <2>5 DEF WakeUp, TypeOK, InRange
    <2> QED
      BY <1>2, <2>1, <2>2, <2>3, <2>4, <2>5
  <1>3. ASSUME SerializeFeature
        PROVE  TypeOK' /\ InRange'
    <2>1. ser.feature \in Features
      BY <1>3 DEF SerializeFeature, TypeOK, Features
    <2>2. [samples |-> acc, upto |-> done, before |-> shm[ser.feature].upto] \in Value
      BY <2>1 DEF TypeOK, Value
    <2> QED
      BY <1>3, <2>1, <2>2 DEF SerializeFeature, TypeOK, InRange, Features
  <1>4. ASSUME Stop
        PROVE  TypeOK' /\ InRange'
    BY <1>4 DEF Stop, StopEarly, StopSerializer, Join, TypeOK, InRange
  <1>5. ASSUME NEW c \in Controls, ClearStat(c)
        PROVE  TypeOK' /\ InRange'
    BY <1>5 DEF ClearStat, TypeOK, InRange
  <1>6. ASSUME NEW c \in Controls,
               DumpStat(c) \/ ReadControlWord(c) \/ ReadFeature(c) \/ EndDump(c)
        PROVE  TypeOK' /\ InRange'
    <2>1. dump' \in [Controls -> Dump] /\ InRange'
      BY <1>6, DumpTypes
    <2> QED
      BY <1>6, <2>1 DEF DumpStat, ReadControlWord, ReadFeature, EndDump, TypeOK
  <1>7. CASE UNCHANGED vars
    BY <1>7 DEF vars, TypeOK, InRange
  <1> QED
    BY <1>1, <1>2, <1>3, <1>4, <1>5, <1>6, <1>7
       DEF Next, SerializerStep, ControlStep

\* All variables keep their types (AccumOp, AccumControl, LogStatOperational).
THEOREM TypeCorrect == Spec => []TypeOK
  <1> QED
    BY TypeInit, TypeStep, PTL DEF Spec

----------------------------------------------------------------------------
(* Requests for reset. *)

\* The program counters agree with the mutex.
LEMMA LockStep ==
  ASSUME TypeOK, LockOK, [Next]_vars
  PROVE  LockOK'
  <1> USE DEF TypeOK, LockOK
  <1>1. ASSUME NEW w \in Writers, WriteLock(w)
        PROVE  LockOK'
    BY <1>1 DEF WriteLock
  <1>2. ASSUME NEW w \in Writers, CheckControlWord(w)
        PROVE  LockOK'
    BY <1>2 DEF CheckControlWord
  <1>3. ASSUME NEW w \in Writers, Reset(w)
        PROVE  LockOK'
    BY <1>3 DEF Reset
  <1>4. ASSUME NEW w \in Writers, AddSample(w)
        PROVE  LockOK'
    BY <1>4 DEF AddSample
  <1>5. ASSUME SerializerBegins \/ TestRunning \/ WakeUp \/ SerializeFeature
        PROVE  LockOK'
    BY <1>5 DEF SerializerBegins, TestRunning, WakeUp, SerializeFeature
  <1>6. ASSUME SerializeLock \/ SerializeUnlock
        PROVE  LockOK'
    BY <1>6 DEF SerializeLock, SerializeUnlock
  <1>7. ASSUME UNCHANGED <<wr, ser, mtx>>
        PROVE  LockOK'
    BY <1>7
  <1>8. ASSUME Stop \/ \E c \in Controls : ControlStep(c)
        PROVE  UNCHANGED <<wr, ser, mtx>>
    BY <1>8 DEF Stop, StopEarly, StopSerializer, Join, ControlStep, ClearStat,
                DumpStat, ReadControlWord, ReadFeature, EndDump
  <1> QED
    BY <1>1, <1>2, <1>3, <1>4, <1>5, <1>6, <1>7, <1>8
       DEF Next, WriterStep, SerializerStep, vars

\* A request is met by the first write that tests the control word after it.
LEMMA ClearStep ==
  ASSUME TypeOK, LockOK, ClearOK, [Next]_vars
  PROVE  ClearOK'
  <1> USE DEF TypeOK, LockOK, ClearOK, ClearNotLost, ClearTakesNoMore
  <1>1. ASSUME NEW w \in Writers, WriteLock(w)
        PROVE  ClearOK'
    BY <1>1 DEF WriteLock
  <1>2. ASSUME NEW w \in Writers, CheckControlWord(w)
        PROVE  ClearOK'
    BY <1>2 DEF CheckControlWord
  <1>3. ASSUME NEW w \in Writers, Reset(w)
        PROVE  ClearOK'
    BY <1>3 DEF Reset
  <1>4. ASSUME NEW w \in Writers, AddSample(w)
        PROVE  ClearOK'
    BY <1>4 DEF AddSample
  <1>5. ASSUME NEW c \in Controls, ClearStat(c)
        PROVE  ClearOK'
    BY <1>5 DEF ClearStat
  <1>6. ASSUME UNCHANGED <<wr, acc, control_word, done, cleared>>
        PROVE  ClearOK'
    BY <1>6
  <1>7. ASSUME \/ SerializerStep
               \/ Stop
               \/ \E c \in Controls : ControlStep(c) /\ ~ClearStat(c)
        PROVE  UNCHANGED <<wr, acc, control_word, done, cleared>>
    <2>1. CASE SerializerStep
      BY <2>1 DEF SerializerStep, SerializerBegins, TestRunning, SerializeLock,
                  SerializeFeature, SerializeUnlock, WakeUp
    <2>2. CASE Stop
      BY <2>2 DEF Stop, StopEarly, StopSerializer, Join
    <2>3. CASE \E c \in Controls : ControlStep(c) /\ ~ClearStat(c)
      BY <2>3 DEF ControlStep, DumpStat, ReadControlWord, ReadFeature, EndDump
    <2> QED
      BY <1>7, <2>1, <2>2, <2>3
  <1> QED
    BY <1>1, <1>2, <1>3, <1>4, <1>5, <1>6, <1>7 DEF Next, WriterStep, vars

\* Requests for reset are met by the next write, but for one sample.
LEMMA ClearInvariant == Spec => [](LockOK /\ ClearOK)
  <1> DEFINE Inv == TypeOK /\ InRange /\ LockOK /\ ClearOK
  <1>1. Init => Inv
    <2> SUFFICES ASSUME Init PROVE LockOK /\ ClearOK
      BY TypeInit
    <2>1. LockOK
      BY DEF Init, LockOK
    <2>2. ClearOK
      BY DEF Init, ClearOK, ClearNotLost, ClearTakesNoMore
    <2> QED
      BY <2>1, <2>2
  <1>2. Inv /\ [Next]_vars => Inv'
    BY TypeStep, LockStep, ClearStep
  <1> QED
    BY <1>1, <1>2, PTL DEF Spec

\* A request for reset removes all samples it is about and, later than those,
\* at most the one that was being written.
THEOREM ClearIsExact == Spec => [](ClearNotLost /\ ClearTakesNoMore)
  <1>1. ClearOK => ClearNotLost /\ ClearTakesNoMore
    BY DEF ClearOK
  <1> QED
    BY <1>1, ClearInvariant, PTL

----------------------------------------------------------------------------
(* The end of the serializer thread. *)

\* While nobody has called stop() the thread has not begun or is told to run; who
\* then comes to stop it either waits for it or finds that it has not begun.
StopOK ==
  /\ app = "up" => ser.pc = "new" \/ serializer_running
  /\ StopJoins

\* stop() leaves no thread behind but one that had not begun (doStop).
THEOREM StopWaits == Spec => []StopJoins
  <1>1. Init => TypeOK /\ InRange /\ StopOK
    BY TypeInit DEF Init, StopOK, StopJoins
  <1>2. ASSUME TypeOK, StopOK, [Next]_vars
        PROVE  StopOK'
    <2> USE <1>2 DEF TypeOK, StopOK, StopJoins
    <2>1. CASE SerializerBegins \/ TestRunning
      BY <2>1 DEF SerializerBegins, TestRunning
    <2>2. CASE SerializeLock \/ SerializeFeature \/ SerializeUnlock \/ WakeUp
      BY <2>2 DEF SerializeLock, SerializeFeature, SerializeUnlock, WakeUp
    <2>3. CASE Stop
      BY <2>3 DEF Stop, StopEarly, StopSerializer, Join
    <2>4. ASSUME UNCHANGED <<app, ser, serializer_running>>
          PROVE  StopOK'
      BY <2>4
    <2>5. ASSUME \/ \E w \in Writers : WriteLock(w) \/ WriterStep(w)
                 \/ \E c \in Controls : ControlStep(c)
          PROVE  UNCHANGED <<app, ser, serializer_running>>
      BY <2>5 DEF WriteLock, WriterStep, CheckControlWord, Reset, AddSample, ControlStep,
                  ClearStat, DumpStat, ReadControlWord, ReadFeature, EndDump
    <2> QED
      BY <2>1, <2>2, <2>3, <2>4, <2>5 DEF Next, SerializerStep, vars
  <1>3. TypeOK /\ InRange /\ StopOK /\ [Next]_vars => (TypeOK /\ InRange /\ StopOK)'
    BY <1>2, TypeStep
  <1>4. StopOK => StopJoins
    BY DEF StopOK
  <1> QED
    BY <1>1, <1>3, <1>4, PTL DEF Spec

----------------------------------------------------------------------------
(* Serialization and dumps. *)

\* One more feature is brought up to date under the mutex.
LEMMA SnapshotFeature ==
  ASSUME TypeOK, SnapshotOK, SerializeFeature
  PROVE  /\ SnapshotOK'
         /\ \A f \in Features : shm[f].upto <= shm'[f].upto
  <1> DEFINE k == ser.feature
             new == [samples |-> acc, upto |-> done, before |-> shm[k].upto]
  <1>1. k \in Features /\ ser.pc = "serialize"
    BY DEF SerializeFeature, TypeOK, Features
  <1>2. ser'.pc = "serialize" /\ ser'.feature = k + 1 /\ acc' = acc /\ done' = done
    BY DEF SerializeFeature, TypeOK
  <1>3. shm'[k] = new /\ \A f \in Features \ {k} : shm'[f] = shm[f]
    BY <1>1 DEF SerializeFeature, TypeOK
  <1>4. \A f \in Features : shm[f] \in Value
    BY DEF TypeOK
  <1>5. /\ new.samples = acc /\ new.upto = done /\ new.before = shm[k].upto
        /\ shm[k].upto \in Nat /\ done \in Nat
    BY <1>1, <1>4 DEF TypeOK, Value
  <1>6. \A f \in Features : f < k => shm[f] = new
    <2> SUFFICES ASSUME NEW f \in Features, f < k PROVE shm[f] = new
      OBVIOUS
    <2>1. shm[f].samples = acc /\ shm[f].upto = done
      BY <1>1 DEF SnapshotOK
    <2>2. shm[f].before = shm[k].upto
      BY <1>1 DEF SnapshotOK, Features
    <2>3. shm[f] \in Value
      BY <1>4
    <2> QED
      BY <2>1, <2>2, <2>3 DEF Value
  <1>7. \A f \in Features : shm[f].upto <= done /\ shm[f].before <= shm[f].upto
                          /\ shm[f].upto \in Nat
    BY <1>4 DEF SnapshotOK, Value
  <1>8. \A f \in Features : k <= f => shm[f] = shm[k]
    BY <1>1 DEF SnapshotOK, Features
  <1> HIDE DEF new
  <1>9. \A f \in Features : f < k + 1 => shm'[f] = new
    BY <1>1, <1>3, <1>6 DEF Features
  <1>10. \A f \in Features : k + 1 <= f => shm'[f] = shm[k]
    BY <1>1, <1>3, <1>8 DEF Features
  <1>11. \A f \in Features : shm'[f].before <= shm'[f].upto /\ shm'[f].upto <= done
    BY <1>1, <1>3, <1>5, <1>7
  <1>12. SnapshotOK'
    BY <1>2, <1>5, <1>9, <1>10, <1>11 DEF SnapshotOK, OneSnapshot
  <1>13. \A f \in Features : shm[f].upto <= shm'[f].upto
    BY <1>1, <1>3, <1>5, <1>7
  <1> QED
    BY <1>12, <1>13

\* Features in shared memory belong together, and only get newer.
LEMMA SnapshotStep ==
  ASSUME TypeOK, LockOK, SnapshotOK, [Next]_vars
  PROVE  /\ SnapshotOK'
         /\ \A f \in Features : shm[f].upto <= shm'[f].upto
  <1>1. \A f \in Features : shm[f].upto \in Nat
    BY DEF TypeOK, Value
  <1>2. ASSUME NEW w \in Writers, AddSample(w)
        PROVE  SnapshotOK' /\ UNCHANGED shm
    <2>1. ser.pc # "serialize"
      BY <1>2 DEF AddSample, LockOK, TypeOK
    <2>2. ser' = ser /\ shm' = shm /\ done' = done + 1
      BY <1>2 DEF AddSample
    <2> QED
      BY <1>1, <2>1, <2>2 DEF SnapshotOK, OneSnapshot, TypeOK
  <1>3. ASSUME NEW w \in Writers, Reset(w)
        PROVE  SnapshotOK' /\ UNCHANGED shm
    <2>1. ser.pc # "serialize"
      BY <1>3 DEF Reset, LockOK, TypeOK
    <2>2. ser' = ser /\ shm' = shm /\ done' = done
      BY <1>3 DEF Reset
    <2> QED
      BY <2>1, <2>2 DEF SnapshotOK, OneSnapshot
  <1>4. ASSUME SerializerBegins \/ TestRunning \/ WakeUp
        PROVE  SnapshotOK' /\ UNCHANGED shm
    <2>1. ser.pc # "serialize" /\ ser'.pc # "serialize"
      BY <1>4 DEF SerializerBegins, TestRunning, WakeUp, TypeOK
    <2>2. shm' = shm /\ done' = done
      BY <1>4 DEF SerializerBegins, TestRunning, WakeUp
    <2> QED
      BY <2>1, <2>2 DEF SnapshotOK, OneSnapshot
  <1>5. ASSUME SerializeLock
        PROVE  SnapshotOK' /\ UNCHANGED shm
    <2>1. ser.pc = "lock" /\ ser'.feature = 1 /\ shm' = shm /\ done' = done
          /\ ser'.pc = "serialize"
      BY <1>5 DEF SerializeLock
    <2>2. \A f, g \in Features : shm[f] = shm[g]
      BY <2>1 DEF SnapshotOK, OneSnapshot
    <2>3. \A f \in Features : ~(f < 1)
      BY DEF Features
    <2> QED
      BY <2>1, <2>2, <2>3 DEF SnapshotOK, OneSnapshot
  <1>6. ASSUME SerializeUnlock
        PROVE  SnapshotOK' /\ UNCHANGED shm
    <2>1. ser.pc = "serialize" /\ ser.feature > numFeatures /\ shm' = shm
          /\ done' = done /\ ser'.pc # "serialize"
      BY <1>6 DEF SerializeUnlock
    <2>2. \A f \in Features : f < ser.feature
      BY <2>1 DEF Features, TypeOK
    <2>3. \A f, g \in Features : shm[f] = shm[g]
      BY <2>1, <2>2 DEF SnapshotOK
    <2> QED
      BY <2>1, <2>3 DEF SnapshotOK, OneSnapshot
  <1>7. ASSUME UNCHANGED <<ser, shm, acc, done>>
        PROVE  SnapshotOK' /\ UNCHANGED shm
    BY <1>7 DEF SnapshotOK, OneSnapshot
  <1>8. ASSUME \/ \E w \in Writers : WriteLock(w) \/ CheckControlWord(w)
               \/ Stop
               \/ \E c \in Controls : ControlStep(c)
        PROVE  UNCHANGED <<ser, shm, acc, done>>
    BY <1>8 DEF WriteLock, CheckControlWord, Stop, StopEarly, StopSerializer, Join,
                ControlStep, ClearStat, DumpStat, ReadControlWord, ReadFeature,
                EndDump
  <1>9. ASSUME SnapshotOK' /\ UNCHANGED shm
        PROVE  \A f \in Features : shm[f].upto <= shm'[f].upto
    BY <1>1, <1>9
  <1> QED
    BY <1>2, <1>3, <1>4, <1>5, <1>6, <1>7, <1>8, <1>9, SnapshotFeature
       DEF Next, WriterStep, SerializerStep, vars

\* What a step does to what a dump has printed.
LEMMA DumpOut ==
  ASSUME TypeOK, [Next]_vars, NEW c \in Controls
  PROVE  dump'[c].out \in {dump[c].out, <<>>} \/ ReadFeature(c)
  <1>1. ASSUME NEW e \in Controls, ControlStep(e)
        PROVE  dump'[c].out \in {dump[c].out, <<>>} \/ ReadFeature(c)
    <2>1. CASE ClearStat(e)
      BY <2>1 DEF ClearStat
    <2>2. CASE DumpStat(e)
      BY <2>2 DEF DumpStat, TypeOK, NoDump
    <2>3. CASE ReadControlWord(e)
      BY <2>3 DEF ReadControlWord, TypeOK, Dump
    <2>4. CASE ReadFeature(e)
      BY <2>4 DEF ReadFeature, TypeOK
    <2>5. CASE EndDump(e)
      BY <2>5 DEF EndDump, TypeOK, NoDump
    <2> QED
      BY <1>1, <2>1, <2>2, <2>3, <2>4, <2>5 DEF ControlStep
  <1>2. ASSUME \/ \E w \in Writers : WriteLock(w) \/ WriterStep(w)
               \/ SerializerStep
               \/ Stop
               \/ UNCHANGED vars
        PROVE  dump' = dump
    BY <1>2 DEF WriteLock, WriterStep, CheckControlWord, Reset, AddSample,
                SerializerStep, SerializerBegins, TestRunning, SerializeLock,
                SerializeFeature, SerializeUnlock, WakeUp, Stop, StopEarly,
                StopSerializer, Join, vars
  <1> QED
    BY <1>1, <1>2 DEF Next

\* What is printed for a feature: the value it has in shared memory, or zero.
LEMMA FeatureOut ==
  ASSUME TypeOK, InRange, NEW c \in Controls, ReadFeature(c)
  PROVE  LET f == Len(dump[c].out) + 1 IN
         /\ f \in Features /\ shm' = shm
         /\ Len(dump'[c].out) = f
         /\ dump'[c].out[f].valid => dump'[c].out[f].value = shm[f]
         /\ \A i \in 1 .. f - 1 : dump'[c].out[i] = dump[c].out[i]
  <1> DEFINE out == dump[c].out
             f == Len(out) + 1
             shown == [valid |-> dump[c].valid,
                       value |-> IF dump[c].valid THEN shm[f] ELSE ZeroValue]
  <1>1. dump[c] \in Dump /\ dump[c].pc = "value" /\ out \in Seq(Printed)
    BY DEF ReadFeature, TypeOK, Dump
  <1>2. f \in Features /\ Len(out) \in Nat
    BY <1>1 DEF InRange, Features
  <1>3. dump'[c].out = Append(out, shown) /\ shm' = shm
    BY <1>1 DEF ReadFeature, TypeOK, Dump
  <1>4. shown.valid => shown.value = shm[f]
    OBVIOUS
  <1> HIDE DEF shown
  <1>5. /\ Len(dump'[c].out) = f
        /\ dump'[c].out[f] = shown
        /\ \A i \in 1 .. Len(out) : dump'[c].out[i] = out[i]
    BY <1>1, <1>2, <1>3
  <1> QED
    BY <1>2, <1>3, <1>4, <1>5

\* Counts of samples are numbers, in shared memory and in what is printed.
LEMMA CountTypes ==
  ASSUME TypeOK
  PROVE  /\ \A f \in Features : shm[f].upto \in Nat /\ shm[f].before \in Nat
         /\ \A c \in Controls : \A i \in 1 .. Len(dump[c].out) :
              dump[c].out[i].value.before \in Nat
  <1>1. \A f \in Features : shm[f].upto \in Nat /\ shm[f].before \in Nat
    BY DEF TypeOK, Value
  <1> SUFFICES ASSUME NEW c \in Controls, NEW i \in 1 .. Len(dump[c].out)
               PROVE  dump[c].out[i].value.before \in Nat
    BY <1>1
  <1>2. dump[c].out \in Seq(Printed)
    BY DEF TypeOK, Dump
  <1>3. dump[c].out[i] \in Printed
    BY <1>2
  <1> QED
    BY <1>3 DEF Printed, Value

\* Features differ by at most one serialization, the later ones being behind.
LEMMA SnapshotOrder ==
  ASSUME TypeOK, SnapshotOK, NEW f \in Features, NEW j \in Features, f < j
  PROVE  shm[f].before <= shm[j].upto
  <1>1. shm[f].before <= shm[f].upto
    BY DEF SnapshotOK
  <1>2. CASE shm[f] = shm[j]
    BY <1>1, <1>2
  <1>3. CASE shm[f].before = shm[j].upto
    BY <1>3, CountTypes
  <1>4. CASE ser.pc # "serialize"
    BY <1>2, <1>4 DEF SnapshotOK, OneSnapshot
  <1>5. CASE ser.pc = "serialize"
    <2>1. f \in Nat /\ j \in Nat /\ ser.feature \in Nat
      BY DEF Features, TypeOK
    <2>2. \/ ser.feature <= f /\ ser.feature <= j
          \/ f < ser.feature /\ ser.feature <= j
          \/ f < ser.feature /\ j < ser.feature
      BY <2>1
    <2> QED
      BY <1>2, <1>3, <1>5, <2>2 DEF SnapshotOK
  <1> QED
    BY <1>4, <1>5

\* What a dump has printed stays close to what it still has to read.
LEMMA DumpStep ==
  ASSUME TypeOK, InRange, SnapshotOK, [Next]_vars, TypeOK',
         \A f \in Features : shm[f].upto <= shm'[f].upto,
         NEW c \in Controls, DumpOK(c)
  PROVE  DumpOK(c)'
  <1>1. \A f \in Features : shm[f].upto \in Nat /\ shm'[f].upto \in Nat
    BY DEF TypeOK, Value
  <1>2. CASE dump'[c].out = dump[c].out
    BY <1>1, <1>2, CountTypes DEF DumpOK
  <1>3. CASE dump'[c].out = <<>>
    BY <1>3 DEF DumpOK
  <1>4. CASE ReadFeature(c)
    <2> DEFINE f == Len(dump[c].out) + 1
    <2>1. /\ f \in Features /\ shm' = shm
          /\ Len(dump'[c].out) = f
          /\ dump'[c].out[f].valid => dump'[c].out[f].value = shm[f]
          /\ \A i \in 1 .. f - 1 : dump'[c].out[i] = dump[c].out[i]
      BY <1>4, FeatureOut
    <2> SUFFICES ASSUME NEW i \in 1 .. Len(dump'[c].out), dump'[c].out[i].valid,
                        NEW j \in Features, i < j
                 PROVE  dump'[c].out[i].value.before <= shm[j].upto
      BY <2>1 DEF DumpOK
    <2>2. CASE i = f
      BY <2>1, <2>2, SnapshotOrder
    <2>3. CASE i # f
      <3>1. Len(dump[c].out) \in Nat
        BY DEF TypeOK, Dump
      <3>2. i \in 1 .. Len(dump[c].out) /\ dump'[c].out[i] = dump[c].out[i]
        BY <2>1, <2>3, <3>1
      <3> QED
        BY <3>2 DEF DumpOK
    <2> QED
      BY <2>2, <2>3
  <1> QED
    BY <1>2, <1>3, <1>4, DumpOut

\* A feature is printed not more than one serialization behind earlier ones.
LEMMA SkewStep ==
  ASSUME TypeOK, InRange, [Next]_vars, DumpSkew, \A c \in Controls : DumpOK(c)
  PROVE  DumpSkew'
  <1> DEFINE Skew(out) ==
        \A j \in 1 .. Len(out) : \A i \in 1 .. j - 1 :
          out[i].valid /\ out[j].valid =>
            out[j].value.upto >= out[i].value.before
  <1> SUFFICES ASSUME NEW c \in Controls PROVE Skew(dump'[c].out)
    BY DEF DumpSkew
  <1>1. Skew(dump[c].out)
    BY DEF DumpSkew
  <1>2. CASE dump'[c].out = dump[c].out
    BY <1>1, <1>2
  <1>3. CASE dump'[c].out = <<>>
    BY <1>3
  <1>4. CASE ReadFeature(c)
    <2> DEFINE f == Len(dump[c].out) + 1
    <2>1. /\ f \in Features /\ f \in Nat
          /\ Len(dump'[c].out) = f
          /\ dump'[c].out[f].valid => dump'[c].out[f].value = shm[f]
          /\ \A i \in 1 .. f - 1 : dump'[c].out[i] = dump[c].out[i]
      BY <1>4, FeatureOut DEF Features
    <2> SUFFICES ASSUME NEW j \in 1 .. f, NEW i \in 1 .. j - 1,
                        dump'[c].out[i].valid, dump'[c].out[j].valid
                 PROVE  dump'[c].out[j].value.upto >= dump'[c].out[i].value.before
      BY <2>1
    <2>2. i \in 1 .. Len(dump[c].out) /\ dump'[c].out[i] = dump[c].out[i]
      BY <2>1
    <2>3. CASE j = f
      <3>1. dump[c].out[i].value.before <= shm[f].upto
        BY <2>1, <2>2, <2>3 DEF DumpOK
      <3> QED
        BY <2>1, <2>2, <2>3, <3>1, CountTypes
    <2>4. CASE j # f
      <3>1. j \in 1 .. Len(dump[c].out) /\ dump'[c].out[j] = dump[c].out[j]
        BY <2>1, <2>4
      <3> QED
        BY <1>1, <2>2, <3>1
    <2> QED
      BY <2>3, <2>4
  <1> QED
    BY <1>2, <1>3, <1>4, DumpOut

\* What the dumps of a statistic rely on (AccumOp::serialize against
\* AccumControl::doStatCommand).
DumpInv ==
  /\ TypeOK /\ InRange /\ LockOK /\ SnapshotOK
  /\ \A c \in Controls : DumpOK(c)
  /\ DumpSkew

\* DumpInv is an invariant.
LEMMA DumpInvariant == Spec => []DumpInv
  <1>1. Init => DumpInv
    <2> SUFFICES ASSUME Init PROVE DumpInv
      OBVIOUS
    <2>1. LockOK
      BY DEF Init, LockOK
    <2>2. SnapshotOK
      BY DEF Init, SnapshotOK, OneSnapshot, ZeroValue
    <2>3. \A c \in Controls : dump[c].out = <<>>
      BY DEF Init, NoDump
    <2>4. DumpSkew /\ \A c \in Controls : DumpOK(c)
      BY <2>3 DEF DumpSkew, DumpOK
    <2> QED
      BY <2>1, <2>2, <2>4, TypeInit DEF DumpInv
  <1>2. DumpInv /\ [Next]_vars => DumpInv'
    <2> SUFFICES ASSUME DumpInv, [Next]_vars PROVE DumpInv'
      OBVIOUS
    <2>1. TypeOK' /\ InRange' /\ LockOK'
      BY TypeStep, LockStep DEF DumpInv
    <2>2. SnapshotOK' /\ \A f \in Features : shm[f].upto <= shm'[f].upto
      BY SnapshotStep DEF DumpInv
    <2>3. \A c \in Controls : DumpOK(c)'
      BY <2>1, <2>2, DumpStep DEF DumpInv
    <2>4. DumpSkew'
      BY SkewStep DEF DumpInv
    <2> QED
      BY <2>1, <2>2, <2>3, <2>4 DEF DumpInv
  <1> QED
    BY <1>1, <1>2, PTL DEF Spec

\* While nothing is being serialized all features in shared memory are of the
\* same samples.
THEOREM SnapshotsAgree == Spec => []OneSnapshot
  <1>1. DumpInv => OneSnapshot
    BY DEF DumpInv, SnapshotOK
  <1> QED
    BY <1>1, DumpInvariant, PTL

\* A dump mixes at most two neighbouring serializations in one direction: no
\* feature is more than one behind a feature printed before it.
THEOREM DumpsStayClose == Spec => []DumpSkew
  <1>1. DumpInv => DumpSkew
    BY DEF DumpInv
  <1> QED
    BY <1>1, DumpInvariant, PTL
============================================================================
