---------------------------- MODULE MCPollOneoff ----------------------------
(***************************************************************************)
(* Subscriptions for PollOneoff: one of each kind that the code treats in  *)
(* a way of its own.                                                       *)
(***************************************************************************)
EXTENDS PollOneoff

Clock(id, timeout, absolute) ==
  [tag |-> "clock", id |-> id, timeout |-> timeout, absolute |-> absolute]

MCSubscription ==
  {Clock("MONOTONIC", 3, FALSE), Clock("MONOTONIC", 2, TRUE),
   Clock("MONOTONIC", MaxU64 - 1, FALSE), Clock("MONOTONIC", MaxU64, FALSE),
   Clock("REALTIME", 1, TRUE), Clock("PROCESS", 1, FALSE),
   [tag |-> "fd_read", fd |-> "file"], [tag |-> "fd_read", fd |-> "pipe"],
   [tag |-> "fd_write", fd |-> "file"], [tag |-> "fd_read", fd |-> "bad"]}
=============================================================================
