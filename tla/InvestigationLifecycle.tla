----------------------- MODULE InvestigationLifecycle -----------------------
(***************************************************************************)
(* What the gateway promises about the status of an investigation, with    *)
(* none of the mechanism: a submitted investigation is queued, it starts   *)
(* at most once, it ends at most once and an end is final; investigations  *)
(* in live mode run at most MaxLive at a time and only they may be refused *)
(* before they start.                                                      *)
(***************************************************************************)
EXTENDS Naturals, FiniteSets

CONSTANTS
  Jobs,      \* investigation ids
  MaxLive    \* max_concurrent_live_investigations

VARIABLES
  mode,      \* mode[j]: "none" until submitted, then "stub" or "live"
  status     \* status[j]: the status a client of the API reads

vars == <<mode, status>>

Modes == {"stub", "live"}
Outcomes == {"completed", "failed"}

RunningLive == {j \in Jobs : mode[j] = "live" /\ status[j] = "running"}

Init ==
  /\ mode = [j \in Jobs |-> "none"]
  /\ status = [j \in Jobs |-> "none"]

Submit(j, m) ==
  /\ status[j] = "none"
  /\ mode' = [mode EXCEPT ![j] = m]
  /\ status' = [status EXCEPT ![j] = "queued"]

Start(j) ==
  /\ status[j] = "queued"
  /\ mode[j] = "live" => Cardinality(RunningLive) < MaxLive
  /\ status' = [status EXCEPT ![j] = "running"]
  /\ UNCHANGED mode

Refuse(j) ==
  /\ status[j] = "queued"
  /\ mode[j] = "live"
  /\ status' = [status EXCEPT ![j] = "failed"]
  /\ UNCHANGED mode

End(j, outcome) ==
  /\ status[j] = "running"
  /\ status' = [status EXCEPT ![j] = outcome]
  /\ UNCHANGED mode

Next ==
  \E j \in Jobs :
    \/ \E m \in Modes : Submit(j, m)
    \/ Start(j)
    \/ Refuse(j)
    \/ \E outcome \in Outcomes : End(j, outcome)

Spec == Init /\ [][Next]_vars
=============================================================================
