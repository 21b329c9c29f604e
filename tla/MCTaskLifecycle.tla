--------------------------- MODULE MCTaskLifecycle ---------------------------
(***************************************************************************)
(* TLC instances of TaskLifecycle.                                         *)
(***************************************************************************)
EXTENDS TaskLifecycle, TLC

CONSTANTS t1, t2, h1, a1, a2

(* The patches tried: an agent links its work, a human blanks the spec, or *)
(* makes the task a human task assigned to h1.                             *)
MCLinks == {[NoPatch EXCEPT !.linked = "both"]}
MCPatches == MCLinks \union {[NoPatch EXCEPT !.specced = FALSE],
                             [NoPatch EXCEPT !.specced = TRUE],
                             [NoPatch EXCEPT !.executor = h1]}

MCPlainFiling == {[specced |-> TRUE, executor |-> NoOne]}
MCFilings == [specced : BOOLEAN, executor : {h1, NoOne}]

AgentSymmetry == Permutations({a1, a2})
=============================================================================
