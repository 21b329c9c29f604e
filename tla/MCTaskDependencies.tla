------------------------- MODULE MCTaskDependencies -------------------------
(***************************************************************************)
(* TLC instances of TaskDependencies.                                      *)
(***************************************************************************)
EXTENDS TaskDependencies

CONSTANTS t1, t2, t3, e1, e2

(* Enough of the protocol for a task to be held back, queued, settled,     *)
(* killed and reopened.                                                    *)
MCMoves ==
  { <<"draft", "ready">>, <<"ready", "draft">>, <<"draft", "cancelled">>,
    <<"ready", "cancelled">>, <<"changes_requested", "cancelled">>,
    <<"cancelled", "done">>, <<"done", "changes_requested">> }
=============================================================================
