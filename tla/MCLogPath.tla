----------------------------- MODULE MCLogPath -----------------------------
(* LogPath on a small instance: the log tags L (a parent, which can be logged *)
(* to as well) and M, of which L has a long name; two loggers, a third level. *)
EXTENDS LogPath, TLC

Symmetry == Permutations(Threads)

MCtheLogs == <<"M", "L">>

Statement(tag, lvl, logger) == [tag |-> tag, level |-> lvl, logger |-> logger]
MCStatements == {Statement("M", DEBUG, 0), Statement("M", INFO, 1),
                 Statement("M", DEBUG, 1), Statement("L", ERROR, 1)}

SetLevel(tags, idx, lvl) ==
  [tags |-> tags, logger_idx |-> idx, new_log_level |-> lvl]
MCLevelCommands == {SetLevel(<<"L", "M">>, 1, ERROR), SetLevel(<<"M">>, 0, DEBUG),
                    SetLevel(<<"M">>, 3, ALERT)}

Excluding(idx, tags, levels) ==
  [logger_idx |-> idx, exclude_tags |-> tags, exclude_log_levels |-> levels]
MCOutputCommands == {Excluding(1, {"M"}, {ERROR}), Excluding(1, {"L"}, {DEBUG})}
============================================================================
