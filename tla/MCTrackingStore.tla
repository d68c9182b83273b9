--------------------------- MODULE MCTrackingStore ---------------------------
(* Values for the constants of TrackingStore that a configuration cannot   *)
(* write down, and the symmetry of an instance that treats its threads and *)
(* its runs alike.                                                         *)
EXTENDS TrackingStore, TLC

MCHistoryModels == [g \in HistoryTags |-> Outputs]
MCAnyThread == [r \in Runs |-> Threads]

(* A thread for each run, which alone ends it.                             *)
MCOwner == CHOOSE own \in [Runs -> Threads] :
             \A q, r \in Runs : own[q] = own[r] => q = r
MCOwnThread == [r \in Runs |-> {MCOwner[r]}]
MCSymmetry == Permutations(Threads) \cup Permutations(Runs)
=============================================================================
