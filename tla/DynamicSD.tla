------------------------------ MODULE DynamicSD ------------------------------
(***************************************************************************)
(* The dynamic speculative-decoding (SD) controller of MultiBackendRouter  *)
(* (src/scheduler/ThunderAgent/scheduler/router.py, _update_dynamic_sd,    *)
(* _set_backend_sd, _dynamic_sd_target_state) against the engines it       *)
(* controls.  Once per scheduler tick the router projects each backend's   *)
(* next batch, applies a hysteresis and POSTs the wanted SD state to the   *)
(* engines that differ from what it remembers.  The POSTs of one tick run  *)
(* concurrently (asyncio.gather) and the tick waits for all of them.       *)
(***************************************************************************)
EXTENDS Integers

CONSTANTS
  Backends,
  SwitchThreshold,  \* sd_switch_threshold
  Batches,          \* bound: the running batch sizes an engine may report
  MaxResumed,       \* bound: pending requests resumed to a backend in one tick
  Faulty            \* engines that restart, are toggled by others, or whose
                    \* answers to the router get lost

ASSUME SDAssumption ==
  /\ SwitchThreshold \in Nat \ {0}
  /\ Batches \subseteq Nat
  /\ MaxResumed \in Nat
  /\ Faulty \subseteq Backends

EnableThreshold == (3 * SwitchThreshold) \div 4   \* int(threshold * 0.75)

VARIABLES
  engine,      \* engine: SD "on" or "off"
  metric,      \* latest_metrics.num_requests_running, -1 before the first fetch
  healthy,     \* metrics client's healthy flag
  remembered,  \* _sd_enabled_by_backend: "none", "on", "off"
  projected,   \* _sd_projected_load_by_backend, -1 for None
  post,        \* the POST in flight: "idle" or the SD state it asks for
  applied,     \* the engine has executed the POST in flight
  stray,       \* an abandoned POST that the engine may still execute
  tick         \* "sleep", or "sd" while _update_dynamic_sd awaits its POSTs

vars == <<engine, metric, healthy, remembered, projected, post, applied, stray, tick>>
controlVars == <<remembered, projected, post, applied, stray, tick>>

Mode == {"on", "off"}

TypeOK ==
  /\ engine \in [Backends -> Mode]
  /\ metric \in [Backends -> Batches \cup {-1}]
  /\ healthy \in [Backends -> BOOLEAN]
  /\ remembered \in [Backends -> Mode \cup {"none"}]
  /\ projected \in [Backends -> Nat \cup {-1}]
  /\ post \in [Backends -> Mode \cup {"idle"}]
  /\ applied \in [Backends -> BOOLEAN]
  /\ stray \in [Backends -> Mode \cup {"idle"}]
  /\ tick \in {"sleep", "sd"}

Init ==
  /\ engine = [b \in Backends |-> "on"]       \* engines start with SD enabled
  /\ metric = [b \in Backends |-> -1]
  /\ healthy = [b \in Backends |-> TRUE]
  /\ remembered = [b \in Backends |-> "none"]
  /\ projected = [b \in Backends |-> -1]
  /\ post = [b \in Backends |-> "idle"]
  /\ applied = [b \in Backends |-> FALSE]
  /\ stray = [b \in Backends |-> "idle"]
  /\ tick = "sleep"

\* fetch_metrics, by the tick or by the monitor loop.
FetchMetrics(b, n) ==
  /\ metric' = [metric EXCEPT ![b] = n]
  /\ healthy' = [healthy EXCEPT ![b] = TRUE]
  /\ UNCHANGED <<engine, controlVars>>

FetchFails(b) ==
  /\ healthy' = [healthy EXCEPT ![b] = FALSE]
  /\ UNCHANGED <<engine, metric, controlVars>>

\* Mutation: the two thresholds are swapped.
TargetSwapped(load, current) ==
  IF load >= EnableThreshold THEN "off"
  ELSE IF load <= SwitchThreshold THEN "on"
  ELSE current

\* Mutation: SD is only ever switched off.
TargetOneWay(load, current) ==
  IF load >= SwitchThreshold THEN "off" ELSE current

\* _dynamic_sd_target_state
Target(load, current) ==
  IF load >= SwitchThreshold THEN "off"
  ELSE IF load <= EnableThreshold THEN "on"
  ELSE current

\* _update_dynamic_sd up to its await: decide for every backend with usable
\* metrics and start a POST where the decision differs from what is remembered.
\* resumed counts the pending requests _greedy_resume has just resumed.
UpdateDynamicSD(resumed) ==
  LET decides(b) == metric[b] # -1 /\ healthy[b]
      load(b) == metric[b] + resumed[b]
      target(b) == Target(load(b), remembered[b])
      posts(b) == decides(b) /\ target(b) # "none" /\ target(b) # remembered[b]
  IN /\ tick = "sleep"
     /\ tick' = "sd"
     /\ projected' = [b \in Backends |-> IF decides(b) THEN load(b) ELSE projected[b]]
     /\ post' = [b \in Backends |-> IF posts(b) THEN target(b) ELSE "idle"]
     /\ applied' = [b \in Backends |-> FALSE]
     /\ UNCHANGED <<engine, metric, healthy, remembered, stray>>

\* The engine executes the toggle it was sent; requests reach it in order.
EngineApplies(b) ==
  /\ post[b] # "idle"
  /\ ~applied[b]
  /\ stray[b] = "idle"
  /\ engine' = [engine EXCEPT ![b] = post[b]]
  /\ applied' = [applied EXCEPT ![b] = TRUE]
  /\ UNCHANGED <<metric, healthy, remembered, projected, post, stray, tick>>

\* A toggle the router has given up on is executed late, or never.
StrayResolved(b) ==
  /\ stray[b] # "idle"
  /\ engine' \in {engine, [engine EXCEPT ![b] = stray[b]]}
  /\ stray' = [stray EXCEPT ![b] = "idle"]
  /\ UNCHANGED <<metric, healthy, remembered, projected, post, applied, tick>>

\* Mutation: the wanted state is forgotten before it is remembered.
PostSucceedsSwapped(b) ==
  /\ post[b] # "idle"
  /\ applied[b]
  /\ post' = [post EXCEPT ![b] = "idle"]
  /\ remembered' = [remembered EXCEPT ![b] = post'[b]]
  /\ applied' = [applied EXCEPT ![b] = FALSE]
  /\ UNCHANGED <<engine, metric, healthy, projected, stray, tick>>

\* _set_backend_sd: the response says success.
PostSucceeds(b) ==
  /\ post[b] # "idle"
  /\ applied[b]
  /\ remembered' = [remembered EXCEPT ![b] = post[b]]
  /\ post' = [post EXCEPT ![b] = "idle"]
  /\ applied' = [applied EXCEPT ![b] = FALSE]
  /\ UNCHANGED <<engine, metric, healthy, projected, stray, tick>>

\* Mutation: remembers the state before the response is checked.
PostFailsButRemembered(b) ==
  /\ post[b] # "idle"
  /\ ~applied[b]
  /\ remembered' = [remembered EXCEPT ![b] = post[b]]
  /\ post' = [post EXCEPT ![b] = "idle"]
  /\ UNCHANGED <<engine, metric, healthy, projected, applied, stray, tick>>

\* _set_backend_sd: error status, "ignored" answer, or the request never
\* reached the engine; nothing is remembered.
PostFails(b) ==
  /\ post[b] # "idle"
  /\ ~applied[b]
  /\ post' = [post EXCEPT ![b] = "idle"]
  /\ UNCHANGED <<engine, metric, healthy, remembered, projected, applied, stray, tick>>

\* _set_backend_sd: the response is lost or comes after the 10 s timeout,
\* whether or not the engine has executed the toggle.
PostTimesOut(b) ==
  /\ b \in Faulty
  /\ post[b] # "idle"
  /\ stray[b] = "idle"
  /\ stray' = [stray EXCEPT ![b] = IF applied[b] THEN "idle" ELSE post[b]]
  /\ post' = [post EXCEPT ![b] = "idle"]
  /\ applied' = [applied EXCEPT ![b] = FALSE]
  /\ UNCHANGED <<engine, metric, healthy, remembered, projected, tick>>

\* An engine crashes and comes back, with SD enabled as at the start; what was
\* in flight to it fails like any other request.
EngineRestarts(b) ==
  /\ b \in Faulty
  /\ engine' = [engine EXCEPT ![b] = "on"]
  /\ post' = [post EXCEPT ![b] = "idle"]
  /\ applied' = [applied EXCEPT ![b] = FALSE]
  /\ stray' = [stray EXCEPT ![b] = "idle"]
  /\ UNCHANGED <<metric, healthy, remembered, projected, tick>>

\* Somebody else uses the engine's toggle endpoint.
ForeignToggle(b) ==
  /\ b \in Faulty
  /\ engine' \in {[engine EXCEPT ![b] = m] : m \in Mode}
  /\ UNCHANGED <<metric, healthy, controlVars>>

\* asyncio.gather returns once every POST of the tick is resolved.
TickEnd ==
  /\ tick = "sd"
  /\ \A b \in Backends : post[b] = "idle"
  /\ tick' = "sleep"
  /\ UNCHANGED <<engine, metric, healthy, remembered, projected, post, applied, stray>>

Next ==
  \/ \E b \in Backends :
       \/ \E n \in Batches : FetchMetrics(b, n)
       \/ FetchFails(b)
       \/ EngineApplies(b)
       \/ StrayResolved(b)
       \/ PostSucceeds(b)
       \/ PostFails(b)
       \/ PostTimesOut(b)
       \/ EngineRestarts(b)
       \/ ForeignToggle(b)
  \/ \E resumed \in [Backends -> 0..MaxResumed] : UpdateDynamicSD(resumed)
  \/ TickEnd

Spec == Init /\ [][Next]_vars

\* The loop ticks forever, every HTTP call ends, and an engine that is asked
\* again and again answers at last.
Fairness ==
  /\ WF_vars(\E resumed \in [Backends -> 0..MaxResumed] : UpdateDynamicSD(resumed))
  /\ WF_vars(TickEnd)
  /\ \A b \in Backends :
       /\ WF_vars(StrayResolved(b))
       /\ SF_vars(EngineApplies(b))
       /\ SF_vars(PostSucceeds(b))

FairSpec == Spec /\ Fairness
-----------------------------------------------------------------------------
(***************************************************************************)
(* Properties.                                                             *)
(***************************************************************************)

\* The remembered state of a sound backend with no POST in flight is the state
\* of its engine: _set_backend_sd remembers exactly the changes that took
\* effect, whatever happens to the POSTs of the other backends.
RememberedIsActual ==
  \A b \in Backends \ Faulty :
    remembered[b] # "none" /\ post[b] = "idle" => engine[b] = remembered[b]

\* Hysteresis, whatever the network does: the router turns an engine's SD off
\* only for a projected batch at or above the threshold and on only for one at
\* or below 75% of it, so a batch in between never causes a toggle.
NoToggleInBand ==
  \A b \in Backends :
    /\ post[b] = "off" => projected[b] >= SwitchThreshold
    /\ post[b] = "on" => projected[b] <= EnableThreshold

Low(b) == healthy[b] /\ 0 <= projected[b] /\ projected[b] <= EnableThreshold
High(b) == healthy[b] /\ projected[b] >= SwitchThreshold

\* Reconciliation of one backend: if its metrics stay usable and its projected
\* batch stays at or below 75% of the threshold (or at or above the threshold),
\* its engine ends up with SD on (off).
ReconcilesOne(b) ==
  /\ <>[]Low(b) => <>[](engine[b] = "on")
  /\ <>[]High(b) => <>[](engine[b] = "off")

\* _update_dynamic_sd reconciles every sound backend, one failing next to it.
ReconcilesSound == \A b \in Backends \ Faulty : ReconcilesOne(b)

\* _update_dynamic_sd "reconciles SD", as its docstring says, on every backend.
Reconciles == \A b \in Backends : ReconcilesOne(b)

\* An engine that was restarted, toggled by others or executed a toggle the
\* router gave up on disagrees with the remembered state, but not for ever:
\* as long as the load keeps crossing the whole band, they agree again and
\* again, because a crossing always asks for the state that is not remembered.
HealsOnSwing ==
  \A b \in Backends :
    []<>(tick = "sd" /\ Low(b)) /\ []<>(tick = "sd" /\ High(b))
      => []<>(engine[b] = remembered[b])
=============================================================================
