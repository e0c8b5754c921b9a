------------------------- MODULE MCMessageRetention -------------------------
(* Small instances of MessageRetention for TLC.                            *)
EXTENDS MessageRetention

\* receivedAt: long ago, now, or an hour ahead of the server's clock.
LateOrEarly == {-3, 0, 1}
OnTime == {0}
=============================================================================
