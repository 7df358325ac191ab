---------------------------- MODULE FailoverRoles ----------------------------
(***************************************************************************)
(* What the failover protocol of src/src/server/failover.c promises about *)
(* who serves, with the connections, the handshakes and the clock left     *)
(* out: which of the two servers is serving, and whether the active-marker *)
(* secondary_active exists.                                                *)
(*                                                                         *)
(* The primary starts serving only when there is no marker (a start-up    *)
(* that finds one reclaims first); the secondary becomes active only with  *)
(* the primary out of service, fencing it if need be, and writes the      *)
(* marker as it does; it leaves the active role only by removing the       *)
(* marker (PrimIsBack).  Either server may stop at any time; a secondary  *)
(* that stops without yielding leaves its marker behind.                  *)
(***************************************************************************)
EXTENDS Naturals, FiniteSets

VARIABLES
    serving,   \* the servers providing the service: a subset of Servers
    marker     \* PBS_HOME/server_priv/secondary_active exists

Servers == {"primary", "secondary"}
vars == <<serving, marker>>

Init ==
    /\ serving \in {{}, {"primary"}}
    /\ marker = FALSE

(* Start-up without a marker, or the end of a reclaim. *)
PrimaryStart ==
    /\ "primary" \notin serving
    /\ ~marker
    /\ serving' = serving \cup {"primary"}
    /\ UNCHANGED marker

(* Exit, crash, recycle or a kill by the fencing hook. *)
PrimaryStop ==
    /\ "primary" \in serving
    /\ serving' = serving \ {"primary"}
    /\ UNCHANGED marker

(* The standby takes over: the primary is out of service from this step  *)
(* on, and the marker is written.                                          *)
SecondaryTakeOver ==
    /\ "secondary" \notin serving
    /\ serving' = {"secondary"}
    /\ marker' = TRUE

(* The active secondary hands the service back: the marker goes with it. *)
SecondaryYield ==
    /\ "secondary" \in serving
    /\ serving' = serving \ {"secondary"}
    /\ marker' = FALSE

(* The active secondary crashes: it stops serving and its marker stays. *)
SecondaryStop ==
    /\ "secondary" \in serving
    /\ serving' = serving \ {"secondary"}
    /\ UNCHANGED marker

Next ==
    \/ PrimaryStart
    \/ PrimaryStop
    \/ SecondaryTakeOver
    \/ SecondaryYield
    \/ SecondaryStop

Spec == Init /\ [][Next]_vars

-----------------------------------------------------------------------------

TypeOK ==
    /\ serving \subseteq Servers
    /\ marker \in BOOLEAN

(* At most one server provides the service. *)
AtMostOneServing == Cardinality(serving) <= 1

(* The secondary serves only with its marker written. *)
SecondaryServesWithMarker == "secondary" \in serving => marker

=============================================================================
