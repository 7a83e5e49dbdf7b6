--------------------------- MODULE LogRingRefines ---------------------------
(***************************************************************************)
(* The ring in shared memory implements the bounded log of BoundedLog: the *)
(* log is what is left of the entries written, and a reader is given its   *)
(* view when it has released the mutex.  And the order in which the        *)
(* entries come out.                                                       *)
(***************************************************************************)
EXTENDS LogRing, EntrySeqs

\* The entries that have not been overwritten, in the order of writing.
Retained ==
  Newest([i \in 1 .. Len(written) |->
            [msg |-> written[i].msg, blocks |-> written[i].blocks]],
         numLogEntries)

BL == INSTANCE BoundedLog WITH
  Capacity <- numLogEntries,
  Messages <- 1 .. MaxMsgs,
  Sizes    <- {num_log_bufs(len) : len \in Lens},
  log      <- Retained,
  view     <- [r \in Readers |->
                 IF ret[r].pc = "print" THEN Output(ret[r].temp) ELSE <<>>]

\* The ring of blocks, read as getLog reads it, is a bounded log: appending is
\* atomic to its readers, exactly the oldest entries are lost to wrapping, and
\* what is printed is every retained entry once, whole, in cyclic order
\* (doWriteData and getLog, whatever is killed).
ImplementsBoundedLog == BL!BSpec

\* getLog lets go of the mutex: the copy it prints is complete.
Copied(r) == ret[r].pc = "copy" /\ ret'[r].pc = "print"

\* When one thread logs and the clock advances between its calls, what getLog
\* prints is exactly what is retained, in the order of writing, wherever the log
\* wraps in memory and whatever entries were too long for the ring (getLog
\* begins at the smallest stamp).  With LogRingRestart: and nothing that an
\* earlier run of the generator has written, or half written.
OldestFirst ==
  [][\A r \in Readers :
       Copied(r) => Output(ret'[r].temp) = Rotation(Retained, 1)]_vars

\* The last line of the output is that of the newest entry there is, by its
\* time stamp or by its turn in the ring (README: the last lines of the output
\* are the last entries of the log).
TailIsNewest ==
  [][\A r \in Readers :
       Copied(r) /\ Retained # <<>> =>
         LET tail == Last(Output(ret'[r].temp))
             kept == Newest(written, numLogEntries)
         IN \E e \in Range(kept) :
              /\ tail = Text(e)
              /\ e = Last(kept) \/ \A f \in Range(kept) : f.ts <= e.ts]_vars

\* doWriteData gives an entry up only because a control process is reading
\* the log memory (the comment beside its early return).
DropOnlyForReader ==
  [][\A t \in Threads : Drop(t) => lock \in Readers]_vars
=============================================================================
