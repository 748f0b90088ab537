----------------------------- MODULE MCTaskTree -----------------------------
(* Two tasks, apart or one below the other, made, stopped, timed out and   *)
(* settling in every order, also while their tree is being cancelled.      *)
EXTENDS TaskTree
=============================================================================
