------------------------ MODULE MCNotificationMirror ------------------------
(* NotificationMirror on small instances. *)
EXTENDS NotificationMirror, TLC

(* The tasks of the worker are alike, and no property tells them apart.    *)
TaskSymmetry == Permutations(Task)
=============================================================================
