-------------------------- MODULE MCControlSession --------------------------
(* ControlSession on a small instance: the statistics R.S and R.P.A (2 x 3),   *)
(* and the log tags L and L.M.                                                *)
EXTENDS ControlSession, TLC

Symmetry == Permutations(Threads)

MCTags == {"R", "S", "P", "A", "L", "M"}

MCchildren == [t \in MCTags |->
  CASE t = "R" -> <<"S", "P">> [] t = "P" -> <<"A">> [] t = "L" -> <<"M">> [] OTHER -> <<>>]

MCdepth == [t \in MCTags |-> CASE t \in {"R", "L"} -> 0 [] t = "A" -> 2 [] OTHER -> 1]

MCname == [t \in MCTags |-> t]

MCdims == [t \in {"S", "A"} |-> IF t = "A" THEN <<2, 3>> ELSE <<>>]

MCCalls == {<<"A", <<1, 0>>>>, <<"S", <<>>>>}
MCBitCalls == {[tag |-> "A", indices |-> <<1>>, bitstatus |-> {0, 2}]}

MCOptionSets == {{}, {"clear-stats"}, {"dump-stats", "clear-stats"},
                 {"show-tags", "clear-stats"}, {"stat-types"}, {"log-level"},
                 {"log-level", "clear-stats"}}

Whole(path) == [path |-> path, array_indices |-> <<>>]
Selected(path, array_indices) == [path |-> path, array_indices |-> array_indices]

Between(low, high) == [low_val |-> low, high_val |-> high]
GreatestNumber == 1000

\* R. ; R.S.A ; L ; L.M ; R.P.A:1 ; R.P:,0.2-
MCDescs == {
  Whole(<<"R", "">>), Whole(<<"R", "S", "A">>),
  Whole(<<"L">>), Whole(<<"L", "M">>),
  Selected(<<"R", "P", "A">>, <<{Between(1, 1)}>>),
  Selected(<<"R", "P">>, <<{Between(0, GreatestNumber)},
                           {Between(0, 0), Between(2, GreatestNumber)}>>)}

MCLevelArgs == {
  [set_log_level |-> FALSE, logger_idx |-> 1, new_log_level |-> ""],
  [set_log_level |-> TRUE, logger_idx |-> 1, new_log_level |-> "ERROR"],
  [set_log_level |-> TRUE, logger_idx |-> 0, new_log_level |-> "LOUD"],
  [set_log_level |-> TRUE, logger_idx |-> 2, new_log_level |-> "DEBUG"]}
=============================================================================
