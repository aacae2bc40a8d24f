------------------------------ MODULE MCPolling ------------------------------
(* Instances of Polling for TLC. *)
EXTENDS Polling, TLC

CONSTANTS c1, c2

TwoChats == {c1, c2}
OneChat == {c1}
=============================================================================
