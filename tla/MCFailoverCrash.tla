--------------------------- MODULE MCFailoverCrash ---------------------------
(***************************************************************************)
(* Liveness of the standby with a primary that serves, registers it and    *)
(* handshakes, and then is gone for good by time CrashBy.  The secondary   *)
(* now reaches nohsk, where it waits on time_now > mytime +                *)
(* secondary_delay, mytime being the local time at which it last saw the   *)
(* mtime of svrlive change.  With the clock stopped at the horizon such a  *)
(* deadline could be recorded at MaxTime and never pass, so here the clock *)
(* is also urgent, as the be_secondary loop is in the code: it advances    *)
(* only while the standby sleeps in wait_request with nothing to read, and *)
(* at most once per wait_request(1), whose timeout is one second, below   *)
(* one tick.  One pass of the loop (a stat, a connect bounded by           *)
(* alt_conn's alarm) is taken to last less than a tick.  Then the standby  *)
(* sees the last touch of svrlive at most a tick after CrashBy, and with   *)
(* MaxTime past every deadline that follows, the horizon is never what     *)
(* stops it.                                                               *)
(***************************************************************************)
EXTENDS MCFailover

CONSTANT CrashBy    \* bound: the primary has stopped for good by this time

VARIABLE ticked     \* the clock advanced since the standby's last step

allVars == <<vars, ticked>>

StandbySleeps ==
    \/ sRole /= "standby"
    \/ sPc \in {"fo_wait", "inact_wait", "inact_fo_wait"} /\ ~SecSockReadable
    \/ sPc = "wait" /\ ~SecSockReadable /\ ~ticked

(* The limits every step of CrashSpec keeps.  Each standby step moves sPc, *)
(* which is how ticked learns of it.                                       *)
CrashLimits ==
    /\ now' <= MaxTime
    /\ now' /= now => StandbySleeps
    /\ pState = "down" => pState' = "down"
    /\ now' > CrashBy => pState' = "down"
    /\ ticked' = IF now' /= now THEN TRUE
                 ELSE IF sPc' /= sPc THEN FALSE ELSE ticked

PrimaryEnds == primary_crash \/ shutdown_deadline \/ reclaim_timeout

(* Every fair action is taken together with CrashLimits, so that no        *)
(* behaviour counts as unfair for not taking a step the limits forbid.     *)
(* The clock is strongly fair: urgency enables it only now and then.       *)
CrashSpec ==
    /\ Init /\ ticked = FALSE
    /\ [][(Next \/ TimeHorizon) /\ CrashLimits]_allVars
    /\ WF_allVars(StandbyStep /\ CrashLimits)
    /\ SF_allVars(WaitReturns /\ CrashLimits)
    /\ SF_allVars(BoundedTick /\ CrashLimits)
    /\ WF_allVars(PrimaryEnds /\ CrashLimits)

=============================================================================
