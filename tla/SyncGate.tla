------------------------------ MODULE SyncGate ------------------------------
(***************************************************************************)
(* What weight-sync coordination promises to the data plane: a gate that   *)
(* is closed while a sync is active, holds the requests that arrive in     *)
(* the meantime, releases every one of them when it opens, and always      *)
(* opens again.  How the gate comes to open (an end call, a second end     *)
(* call, a watchdog) is hidden; WeightSync shows that the router's         *)
(* begin/end/watchdog code implements it.                                  *)
(***************************************************************************)
CONSTANT Requests    \* data-plane requests (chat completions)

VARIABLES
  active,            \* a weight sync is in progress: the gate is closed
  gate               \* "out": not at the gate; "held"; "released": may go on

gateVars == <<active, gate>>

GateInit ==
  /\ active = FALSE
  /\ gate = [r \in Requests |-> "out"]

Close ==
  /\ ~active
  /\ active' = TRUE
  /\ UNCHANGED gate

Open ==
  /\ active
  /\ active' = FALSE
  /\ gate' = [r \in Requests |-> IF gate[r] = "held" THEN "released" ELSE gate[r]]

\* Only a closed gate holds an arriving request.
Hold(r) ==
  /\ gate[r] = "out"
  /\ active
  /\ gate' = [gate EXCEPT ![r] = "held"]
  /\ UNCHANGED active

GoOn(r) ==
  /\ gate[r] = "released"
  /\ gate' = [gate EXCEPT ![r] = "out"]
  /\ UNCHANGED active

GateNext ==
  \/ Close
  \/ Open
  \/ \E r \in Requests : Hold(r) \/ GoOn(r)

GateSafety == GateInit /\ [][GateNext]_gateVars

GateSpec ==
  /\ GateSafety
  /\ WF_gateVars(Open)
  /\ \A r \in Requests : WF_gateVars(GoOn(r))
=============================================================================
