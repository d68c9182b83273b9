-------------------------- MODULE MCTransparencyLog --------------------------
(* Values for the constants of TransparencyLog that a configuration cannot *)
(* write down: all processes see the same file.                            *)
EXTENDS TransparencyLog

MCSharedLog == [p \in Procs |-> CHOOSE l \in Logs : TRUE]
=============================================================================
