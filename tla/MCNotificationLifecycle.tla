---------------------- MODULE MCNotificationLifecycle ----------------------
(***************************************************************************)
(* Instances of NotificationLifecycle for TLC.                             *)
(***************************************************************************)
EXTENDS NotificationLifecycle

KindByName == [e \in Event |-> IF e \in Kinds THEN e ELSE "valid"]

=============================================================================
