-------------------------- MODULE MCDatasetRegistry --------------------------
(* All sources are URIs of one dataset (say postgres:// and jdbc:), so they *)
(* are interchangeable, and so are the calls.                               *)
EXTENDS DatasetRegistry, TLC

MCIdentityOf == [s \in Sources |-> CHOOSE i \in Identities : TRUE]
MCSymmetry == Permutations(Calls) \cup Permutations(Sources)
=============================================================================
