------------------------- MODULE MCNotificationOutbox -------------------------
(* Model-checking instance of NotificationOutbox.                           *)
EXTENDS NotificationOutbox, TLC

(* Workers are interchangeable processes.                                   *)
WorkerSymmetry == Permutations(Workers)
=============================================================================
