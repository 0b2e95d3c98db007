---------------------------- MODULE MCSQSServer ----------------------------
(* Instances of SQSServer for TLC. *)
EXTENDS SQSServer

CONSTANTS m1, m2, w1, w2

TwoMessages == {m1, m2}
TwoWorkers  == {w1, w2}
OnePoison   == {m1}
=============================================================================
