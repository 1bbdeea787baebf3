------------------------------- MODULE MCTasks ------------------------------
(* Instances of Tasks for TLC: ids that collide in the table.               *)
EXTENDS Tasks
=============================================================================
