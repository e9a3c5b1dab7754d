----------------------------- MODULE HealthCheck -----------------------------
(***************************************************************************)
(* The container health check (healthcheck.py): a client that reads the    *)
(* server state and the source timestamp of the heartbeat node, and        *)
(* compares the timestamp with the wall clock.  It changes nothing, so it  *)
(* is an operator on the state of PlantServer, evaluated at every instant. *)
(***************************************************************************)
EXTENDS PlantServer

CONSTANT MaxAge   \* PROCESS_SIMULATOR_MAX_SAMPLE_AGE_SECONDS, 60 by default

ASSUME MaxAgeAssumption == MaxAge \in Int

-----------------------------------------------------------------------------
\* Mutant: only timestamps too far in the future are rejected.
IsFreshOrOld(age) == MaxAge > 0 /\ -MaxAge <= age

\* _source_is_fresh: the heartbeat may be neither too old nor too far ahead.
IsFresh(age) == MaxAge > 0 /\ -MaxAge <= age /\ age <= MaxAge

\* The heartbeat's source timestamp is the timestamp of the frame it shows.
HeartbeatSource == origin.start + heartbeat

\* _check: the endpoint answers and the heartbeat is fresh, for a probe whose
\* clock is off by d.
Healthy(d) == Serving /\ IsFresh(now + d - HeartbeatSource)

-----------------------------------------------------------------------------
\* A loop that has died is reported although the endpoint goes on serving: a
\* probe fails at the latest MaxAge after the loop's last iteration began, plus
\* the lead that the starts so far and the wall clock's errors can have given the
\* heartbeat.
DeathIsReported ==
  \A d \in Skew :
    /\ pc = "dead"
    /\ \A k \in Skew : now + d > begun + k + (starts + 1) * Sample + MaxAge
    => ~Healthy(d)
=============================================================================
