------------------------- MODULE MCLimitedTaskQueue -------------------------
(* Two actions on two queues, one of them given to pushAndPause(), and a   *)
(* Resumer object to which it may copy its own, or which an earlier action *)
(* has left: when both queues are paused, the second action waits for one. *)
EXTENDS LimitedTaskQueue

CONSTANTS x1, x2, r1

MCActions == {x1, x2}
MCPausing == {x1}
MCCopies  == {r1}
=============================================================================
