---------------------------- MODULE MCScheduler ----------------------------
(* Two row keys, the least with which one message can wait behind another.  *)
EXTENDS Scheduler

MCIds == {1, 2}

=============================================================================
