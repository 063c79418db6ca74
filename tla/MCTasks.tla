------------------------------ MODULE MCTasks ------------------------------
(***************************************************************************)
(* Instances of Tasks with two mutexes, which programs use alike.          *)
(***************************************************************************)
EXTENDS Tasks, TLC

Interchangeable == Permutations(Mutex)
=============================================================================
