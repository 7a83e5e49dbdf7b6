------------------------------ MODULE TagTree ------------------------------
(***************************************************************************)
(* The tags of a program and what stat_log computes from them: the order   *)
(* in which a command visits them (tagCommander), where each statistic and *)
(* log level lies in shared memory (LogStatBase::init), and how arrays of  *)
(* statistics are addressed by a write, walked by a command (StatArrayImpl)*)
(* and labelled by the printer.  Nothing here has state.                   *)
(*                                                                         *)
(* Shared memory is counted in cells: a cell is a number of a statistic or *)
(* the level byte of one logger.                                           *)
(***************************************************************************)
EXTENDS Naturals, Sequences, SequencesExt

CONSTANTS
  Tags,         \* the nodes of both trees
  StatTagTree,  \* root of the statistics
  LogTagTree,   \* root of the log tags
  children,     \* each tag's children, in order; a leaf has none
  depth,        \* each tag's distance from its root
  MaxDepth,     \* the greatest depth of a tag
  name,         \* each tag's own name
  dims,         \* of each leaf of the statistics: its arrays' sizes, outermost first
  numLoggers    \* log levels that a log tag has room for

\* TagNode: every tag but the roots is the child of one parent, once, and one deeper.
ASSUME TreeAssumption ==
  /\ {StatTagTree, LogTagTree} \subseteq Tags /\ StatTagTree # LogTagTree
  /\ children \in [Tags -> Seq(Tags)]
  /\ MaxDepth \in Nat /\ depth \in [Tags -> 0 .. MaxDepth]
  /\ depth[StatTagTree] = 0 /\ depth[LogTagTree] = 0
  /\ \A t \in Tags : \A i \in DOMAIN children[t] : depth[children[t][i]] = depth[t] + 1
  /\ \A t \in Tags \ {StatTagTree, LogTagTree} :
       \E p \in Tags : \E i \in DOMAIN children[p] : children[p][i] = t
  /\ \A p, q \in Tags : \A i \in DOMAIN children[p], j \in DOMAIN children[q] :
       children[p][i] = children[q][j] => p = q /\ i = j

ASSUME NameAssumption == name \in [Tags -> STRING]

ASSUME LoggersAssumption == numLoggers \in Nat \ {0}

----------------------------------------------------------------------------
(* The hierarchy *)

is_parent(t) == children[t] # <<>>

\* A tag and its descendants in the order in which DoCmd sends them a command.
DoCmd(t) ==
  LET go[u \in Tags] ==
        <<u>> \o FlattenSeq([i \in DOMAIN children[u] |-> go[children[u][i]]])
  IN go[t]

StatTags == ToSet(DoCmd(StatTagTree))
LogTags == ToSet(DoCmd(LogTagTree))
StatLeaves == {t \in StatTags : ~is_parent(t)}

ASSUME DimsAssumption == dims \in [StatLeaves -> Seq(Nat \ {0})]

\* A hierarchical name, cut at its dots, is empty in two forms: the text itself is
\* empty, or a dot ended the part before it.
NoName(path) == path = <<>> \/ path = <<"">>

\* Mutant: the head of the name is not compared.
TagCommanderAnyHead(root, path) ==
  LET go[t \in Tags] == [p \in Seq(STRING) |->
        IF NoName(p) \/ NoName(Tail(p)) THEN DoCmd(t)
        ELSE FlattenSeq([i \in DOMAIN children[t] |-> go[children[t][i]][Tail(p)]])]
  IN go[root][path]

\* The tags that a command for a name reaches, in order.  A name that goes below
\* a leaf, or whose first part is another tag's, reaches none here.
tagCommander(root, path) ==
  LET go[t \in Tags] == [p \in Seq(STRING) |->
        IF NoName(p) THEN DoCmd(t)
        ELSE IF ~is_parent(t) THEN (IF p = <<name[t]>> THEN DoCmd(t) ELSE <<>>)
        ELSE IF Head(p) # name[t] THEN <<>>
        ELSE IF NoName(Tail(p)) THEN DoCmd(t)
        ELSE FlattenSeq([i \in DOMAIN children[t] |-> go[children[t][i]][Tail(p)]])]
  IN go[root][path]

\* The reference for names: a tag's full name has all names from the root down.
\* A path names a tag and all below it; one that ends in a dot, only a parent.
FullName(t) ==
  [d \in 1 .. depth[t] + 1 |->
     name[CHOOSE u \in Tags : depth[u] = d - 1 /\ t \in ToSet(DoCmd(u))]]

Names(path, t) ==
  \/ NoName(path)
  \/ IsPrefix(path, FullName(t))
  \/ /\ Last(path) = ""
     /\ \E u \in Tags :
          is_parent(u) /\ t \in ToSet(DoCmd(u)) /\ FullName(u) = Front(path)

----------------------------------------------------------------------------
(* The layout of shared memory *)

\* Cells of an array of arrays of these sizes.
NumCells(sizes) == FoldRight(LAMBDA size, cells : size * cells, sizes, 1)

\* theStats and theLogs: each tag is pushed in front of those before it.
TheStats == Reverse(DoCmd(StatTagTree))
TheLogs == Reverse(DoCmd(LogTagTree))
Nodes == TheStats \o TheLogs

getSharedSize(k) ==
  IF k > Len(TheStats) THEN numLoggers
  ELSE IF is_parent(Nodes[k]) THEN 0
  ELSE NumCells(dims[Nodes[k]])

Total(numbers) == FoldLeft(LAMBDA total, number : total + number, 0, numbers)

\* set_shm_pointers: the first cell of the k-th node.
SharedPtr(k) == Total([j \in 1 .. k - 1 |-> getSharedSize(j)])

shared_ptr(t) == SharedPtr(CHOOSE k \in DOMAIN Nodes : Nodes[k] = t)

total_shm_size == SharedPtr(Len(Nodes) + 1)

Cells == 0 .. total_shm_size - 1

StatCells(t) == shared_ptr(t) .. shared_ptr(t) + NumCells(dims[t]) - 1

LevelCell(t, log_idx) == shared_ptr(t) + log_idx

----------------------------------------------------------------------------
(* Arrays of statistics *)

\* The indices of a statistic.
Indices(t) ==
  {idx \in [DOMAIN dims[t] -> 0 .. NumCells(dims[t])] :
     \A d \in DOMAIN dims[t] : idx[d] < dims[t][d]}

\* StatArrayImpl::write, an index at a time from the outside in.
WriteCell(t, idx) ==
  shared_ptr(t)
    + Total([d \in DOMAIN idx |-> idx[d] * NumCells(SubSeq(dims[t], d + 1, Len(idx)))])

\* StatArrayImpl::doStatCommand: the cells visited, in order, and dimensionSizes,
\* which every array extends and which only its first element's are kept of.
StatCommand(t) ==
  LET n == Len(dims[t])
      walk[d \in 1 .. n + 1] ==
        [ptr \in Nat |-> [dimensionSizes \in Seq(Nat) |->
          IF d = n + 1
          THEN [cells |-> <<ptr>>, dimensionSizes |-> dimensionSizes]
          ELSE LET element(i) ==
                     walk[d + 1][ptr + i * NumCells(SubSeq(dims[t], d + 1, n))]
                         [IF i = 0 THEN Append(dimensionSizes, dims[t][d]) ELSE <<>>]
               IN [cells |-> FlattenSeq([i \in 1 .. dims[t][d] |-> element(i - 1).cells]),
                   dimensionSizes |-> element(0).dimensionSizes]]]
  IN walk[1][shared_ptr(t)][<<>>]

----------------------------------------------------------------------------
(* What the printer makes of an entry's position *)

\* Mutant: the first dimension is taken to vary fastest.
DimIndicesFirstFastest(i, dimSizes) ==
  [d \in DOMAIN dimSizes |-> (i \div NumCells(SubSeq(dimSizes, 1, d - 1))) % dimSizes[d]]

dim_indices(i, dimSizes) ==
  [d \in DOMAIN dimSizes |->
     (i \div NumCells(SubSeq(dimSizes, d + 1, Len(dimSizes)))) % dimSizes[d]]

\* Ranges are records: "n" is from n to n; a missing end of "n-" or "-n" is the
\* least or the greatest number; what is no number at all is every number.
belongs_to_range(ranges, val) ==
  \E range \in ranges : val >= range.low_val /\ val <= range.high_val

\* idx_to_dim_string's do_print: array_indices has a set of ranges for each of
\* the first dimensions, or none at all; those for more dimensions are ignored.
do_print(array_indices, indices) ==
  \A d \in DOMAIN indices \cap DOMAIN array_indices :
    belongs_to_range(array_indices[d], indices[d])
============================================================================
