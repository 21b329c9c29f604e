---------------------------- MODULE TaskProtocol ----------------------------
(***************************************************************************)
(* The status protocol of a task: the value sets and the transition maps   *)
(* of packages/contracts/src/constants/task.ts.  Every module about tasks  *)
(* extends this one, as every package of the program imports that file.    *)
(*                                                                         *)
(* A map from a status to the statuses it may move to is written here as   *)
(* the set of its edges <<from, to>>.                                      *)
(***************************************************************************)
EXTENDS Naturals

TaskStatuses ==
  {"draft", "ready", "in_progress", "blocked", "needs_review", "approved",
   "changes_requested", "done", "cancelled"}

----------------------------------------------------------------------------
(* Who may move a task along which edge.                                   *)

AgentMoves ==
  { <<"ready", "in_progress">>, <<"in_progress", "blocked">>,
    <<"in_progress", "needs_review">>, <<"blocked", "in_progress">>,
    <<"changes_requested", "in_progress">>, <<"cancelled", "done">> }

HumanMoves ==
  { <<"draft", "ready">>, <<"draft", "done">>, <<"draft", "cancelled">>,
    <<"ready", "draft">>, <<"ready", "cancelled">>,
    <<"in_progress", "ready">>, <<"in_progress", "cancelled">>,
    <<"blocked", "ready">>, <<"blocked", "in_progress">>, <<"blocked", "cancelled">>,
    <<"needs_review", "approved">>, <<"needs_review", "done">>,
    <<"needs_review", "changes_requested">>, <<"needs_review", "cancelled">>,
    <<"approved", "done">>, <<"approved", "needs_review">>,
    <<"approved", "changes_requested">>, <<"approved", "cancelled">>,
    <<"changes_requested", "ready">>, <<"changes_requested", "cancelled">>,
    <<"done", "changes_requested">>, <<"cancelled", "done">> }

(* The assignee of a human task executes it, as an agent executes its own. *)
AssigneeMoves ==
  { <<"ready", "in_progress">>, <<"in_progress", "blocked">>,
    <<"in_progress", "needs_review">>, <<"blocked", "in_progress">>,
    <<"changes_requested", "in_progress">> }

(* An agent's moves on an autonomous project.                              *)
AutonomousMoves == AgentMoves \union HumanMoves

----------------------------------------------------------------------------
TerminalStatuses == {"done", "cancelled"}

----------------------------------------------------------------------------
(* Project automation modes, and what each grants.                         *)

ProjectModes == {"manual", "auto_merge", "auto", "autonomous"}

AutoMergeModes     == {"auto_merge", "auto", "autonomous"}
AutoApproveModes   == {"auto", "autonomous"}
AgentDispatchModes == {"autonomous"}
=============================================================================
