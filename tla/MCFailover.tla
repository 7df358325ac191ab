----------------------------- MODULE MCFailover -----------------------------
(* Model-checking instance of Failover.  The clock of Failover is          *)
(* unbounded; TLC explores the behaviours up to the clock value MaxTime    *)
(* (states with a later clock are checked but not extended).               *)
EXTENDS Failover

CONSTANT MaxTime    \* bound: the last value of the clock explored

(* secondary_delay -1 ("become active at once"), which a .cfg cannot write *)
StartActiveDelay == -1

TimeBound == now <= MaxTime

(***************************************************************************)
(* Liveness instance.  A state constraint would cut every behaviour off at *)
(* MaxTime, so here the clock stops at MaxTime inside the specification:  *)
(* Tick is fair up to the horizon, after which the clock stands still     *)
(* (TimeHorizon) and the processes go on.  The primary is down from the    *)
(* start and never restarts, so the secondary never reaches it and every   *)
(* deadline it tests is absolute: time_now > takeov_on_nocontact, fixed    *)
(* when be_secondary starts.  Such a test, once true at the horizon, stays *)
(* true at every later time, so a behaviour that stands still at MaxTime   *)
(* stands for all behaviours in which the clock goes on.  (A deadline      *)
(* relative to a time the secondary records, as mytime in nohsk, could be  *)
(* recorded at the horizon and never pass; hence the primary never up.)    *)
(* wait_request is assumed not to fail forever (strong fairness of         *)
(* WaitReturns).                                                           *)
(***************************************************************************)
BoundedTick == Tick /\ now' <= MaxTime

TimeHorizon == now = MaxTime /\ UNCHANGED vars

LiveSpec ==
    /\ Init /\ pState = "down"
    /\ [][(Next \/ TimeHorizon) /\ now' <= MaxTime /\ pState' = "down"]_vars
    /\ WF_vars(StandbyStep)
    /\ SF_vars(WaitReturns)
    /\ WF_vars(BoundedTick)

=============================================================================
