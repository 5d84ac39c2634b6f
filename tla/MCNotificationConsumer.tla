----------------------- MODULE MCNotificationConsumer -----------------------
(***************************************************************************)
(* Instances of NotificationConsumer for TLC.  An event is named by its    *)
(* kind; any other name is a well-formed event.                            *)
(***************************************************************************)
EXTENDS NotificationConsumer, TLC

KindByName == [e \in Event |-> IF e \in Kinds THEN e ELSE "valid"]

\* Replicas run the same code and no property names one of them.
ReplicaSymmetry == Permutations(Replica)

=============================================================================
