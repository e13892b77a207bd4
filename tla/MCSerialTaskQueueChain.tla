----------------------- MODULE MCSerialTaskQueueChain -----------------------
(* Three actions on two resources: two modules share a chain of both, one  *)
(* uses the first resource only.                                           *)
EXTENDS SerialTaskQueueChain, TLC

CONSTANTS x1, x2, x3

MCQueues  == 1..2
MCActions == {x1, x2, x3}
MCChain   == (x1 :> <<1, 2>> @@ x2 :> <<1, 2>> @@ x3 :> <<1>>)
=============================================================================
