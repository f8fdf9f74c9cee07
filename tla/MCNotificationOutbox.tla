------------------------ MODULE MCNotificationOutbox ------------------------
(* Two targets with an item each, for TLC.                                 *)
EXTENDS NotificationOutbox, TLC

CONSTANTS i1, i2, t1, t2

OneEach == (i1 :> t1) @@ (i2 :> t2)
OneOnly == i1 :> t1

=============================================================================
