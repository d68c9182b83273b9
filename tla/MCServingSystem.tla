-------------------------- MODULE MCServingSystem --------------------------
(* One view that a repository may define with either entity, or not at all. *)
EXTENDS ServingSystem, TLC

CONSTANTS a1, a2, m1, t1, t2, r1, r2, j1, o1

MCRepos == [Views -> Entities \cup {None}]

(* The writers of the feature registry; one of them and a feature server   *)
(* with two threads and a timer, two of them and a feature server with one *)
(* thread; the model's actors by themselves; the API while models are      *)
(* registered, and while features are applied.                             *)
MCWorkloads ==
  {{a1, a2, m1}, {a1, t1, t2, Timer}, {a1, a2, t1},
   {r1, r2, j1, o1}, {r1, r2, j1, Api}, {r1, o1, a1, Api}}
=============================================================================
