--------------------------- MODULE MCWaitingList ----------------------------
(* Instances of WaitingList for TLC.                                        *)
EXTENDS WaitingList

=============================================================================
