----------------------------- MODULE BoundedLog -----------------------------
(***************************************************************************)
(* What the log promises its users, without blocks in a ring, processes or *)
(* mutex: entries are appended one at a time, the oldest ones are          *)
(* forgotten when the room is used up, and a reader gets all entries there *)
(* are, whole, in a cyclic order: it may begin at any entry and wraps from *)
(* the newest to the oldest.                                               *)
(***************************************************************************)
EXTENDS EntrySeqs

CONSTANTS
  Capacity, \* blocks the log has room for
  Messages, \* what entries carry
  Sizes,    \* blocks an entry takes
  Readers

VARIABLES
  log,      \* the entries, oldest first: [msg, blocks]
  view      \* for each reader, the texts it was given; <<>> when it has none

bvars == <<log, view>>

Entries == [msg : Messages, blocks : Sizes]

Put(e) ==
  /\ UNCHANGED view
  /\ log' = Newest(Append(log, e), Capacity)

Get(r) ==
  /\ UNCHANGED log
  /\ view[r] = <<>>
  /\ \E k \in 1 .. Len(log) : view' = [view EXCEPT ![r] = Rotation(log, k)]

Forget(r) ==
  /\ UNCHANGED log
  /\ view' = [view EXCEPT ![r] = <<>>]

BInit ==
  /\ log = <<>>
  /\ view = [r \in Readers |-> <<>>]

BNext ==
  \/ \E r \in Readers : Get(r) \/ Forget(r)
  \/ \E e \in Entries : Put(e)

BSpec == BInit /\ [][BNext]_bvars
=============================================================================
