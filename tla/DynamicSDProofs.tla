--------------------------- MODULE DynamicSDProofs ---------------------------
(***************************************************************************)
(* Proofs about DynamicSD for any set of backends, any threshold and any   *)
(* batch sizes.                                                            *)
(***************************************************************************)
EXTENDS DynamicSD, TLAPS

\* The hysteresis of _dynamic_sd_target_state: a target that differs from the
\* current state is "off" only at or above the threshold and "on" only at or
\* below 75% of it.
LEMMA TargetHysteresis ==
  ASSUME NEW load \in Int, NEW current \in Mode \cup {"none"}
  PROVE  /\ Target(load, current) \in Mode \cup {"none"}
         /\ Target(load, current) # current =>
              /\ Target(load, current) = "off" => load >= SwitchThreshold
              /\ Target(load, current) = "on" => load <= EnableThreshold
BY DEF Target, Mode

\* Reported batches and resume counts are naturals, so the projected batch of a
\* backend that has metrics is one too.
LEMMA ProjectedBatch ==
  ASSUME NEW m \in Batches \cup {-1}, NEW r \in 0..MaxResumed
  PROVE  /\ m + r \in Int
         /\ m # -1 => m + r \in Nat
<1>1. m \in Nat \/ m = -1
  BY SDAssumption
<1>2. r \in Nat
  BY SDAssumption
<1> QED
  BY <1>1, <1>2

\* Metrics, decisions, POSTs and their outcomes keep every variable of the
\* controller in its type.
THEOREM TypeCorrect == Spec => []TypeOK
<1>1. Init => TypeOK
  BY SDAssumption DEF Init, TypeOK, Mode
<1>2. TypeOK /\ [Next]_vars => TypeOK'
  <2> SUFFICES ASSUME TypeOK, [Next]_vars PROVE TypeOK'
    OBVIOUS
  <2> USE SDAssumption DEF TypeOK, controlVars
  <2>1. ASSUME NEW b \in Backends, NEW n \in Batches, FetchMetrics(b, n) PROVE TypeOK'
    BY <2>1 DEF FetchMetrics
  <2>2. ASSUME NEW b \in Backends, FetchFails(b) PROVE TypeOK'
    BY <2>2 DEF FetchFails
  <2>3. ASSUME NEW b \in Backends, EngineApplies(b) PROVE TypeOK'
    BY <2>3 DEF EngineApplies
  <2>4. ASSUME NEW b \in Backends, StrayResolved(b) PROVE TypeOK'
    BY <2>4 DEF StrayResolved
  <2>5. ASSUME NEW b \in Backends, PostSucceeds(b) PROVE TypeOK'
    BY <2>5 DEF PostSucceeds
  <2>6. ASSUME NEW b \in Backends, PostFails(b) PROVE TypeOK'
    BY <2>6 DEF PostFails
  <2>7. ASSUME NEW b \in Backends, PostTimesOut(b) PROVE TypeOK'
    BY <2>7 DEF PostTimesOut
  <2>11. ASSUME NEW b \in Backends, EngineRestarts(b) PROVE TypeOK'
    BY <2>11 DEF EngineRestarts, Mode
  <2>12. ASSUME NEW b \in Backends, ForeignToggle(b) PROVE TypeOK'
    BY <2>12 DEF ForeignToggle
  <2>8. ASSUME NEW resumed \in [Backends -> 0..MaxResumed], UpdateDynamicSD(resumed)
        PROVE  TypeOK'
    <3> HIDE SDAssumption
    <3>1. \A b \in Backends : metric[b] # -1 => metric[b] + resumed[b] \in Nat
      BY ProjectedBatch
    <3>2. \A b \in Backends : metric[b] + resumed[b] \in Int
      BY ProjectedBatch
    <3>3. \A b \in Backends :
            Target(metric[b] + resumed[b], remembered[b]) \in Mode \cup {"none"}
      BY <3>2, TargetHysteresis
    <3>4. projected' \in [Backends -> Nat \cup {-1}]
      BY <2>8, <3>1 DEF UpdateDynamicSD
    <3>5. post' \in [Backends -> Mode \cup {"idle"}]
      BY <2>8, <3>3 DEF UpdateDynamicSD
    <3> QED
      BY <2>8, <3>4, <3>5 DEF UpdateDynamicSD
  <2>9. CASE TickEnd
    BY <2>9 DEF TickEnd
  <2>10. CASE UNCHANGED vars
    BY <2>10 DEF vars
  <2> QED
    BY <2>1, <2>2, <2>3, <2>4, <2>5, <2>6, <2>7, <2>8, <2>9, <2>10, <2>11, <2>12
       DEF Next
<1> QED
  BY <1>1, <1>2, PTL DEF Spec

\* No projected batch between the two thresholds ever makes the router toggle
\* an engine.
THEOREM Hysteresis == Spec => []NoToggleInBand
<1>1. Init => NoToggleInBand
  BY DEF Init, NoToggleInBand
<1>2. TypeOK /\ NoToggleInBand /\ [Next]_vars => NoToggleInBand'
  <2> SUFFICES ASSUME TypeOK, NoToggleInBand, [Next]_vars PROVE NoToggleInBand'
    OBVIOUS
  <2> USE SDAssumption DEF TypeOK, NoToggleInBand
  <2>1. ASSUME NEW resumed \in [Backends -> 0..MaxResumed], UpdateDynamicSD(resumed)
        PROVE  NoToggleInBand'
    <3> SUFFICES ASSUME NEW b \in Backends
                 PROVE  /\ post'[b] = "off" => projected'[b] >= SwitchThreshold
                        /\ post'[b] = "on" => projected'[b] <= EnableThreshold
      OBVIOUS
    <3>1. CASE post'[b] = "idle"
      BY <3>1
    <3>2. CASE post'[b] # "idle"
      <4> DEFINE load == metric[b] + resumed[b]
      <4>1. load \in Int
        <5> HIDE SDAssumption
        <5> QED
          BY ProjectedBatch
      <4>2. /\ post'[b] = Target(load, remembered[b])
            /\ post'[b] # remembered[b]
            /\ projected'[b] = load
        BY <2>1, <3>2 DEF UpdateDynamicSD
      <4>3. remembered[b] \in Mode \cup {"none"}
        OBVIOUS
      <4> QED
        BY <4>1, <4>2, <4>3, TargetHysteresis
    <3> QED
      BY <3>1, <3>2
  <2>2. ASSUME NEW b \in Backends,
               PostSucceeds(b) \/ PostFails(b) \/ PostTimesOut(b) \/ EngineRestarts(b)
        PROVE  NoToggleInBand'
    BY <2>2 DEF PostSucceeds, PostFails, PostTimesOut, EngineRestarts
  <2>3. ASSUME UNCHANGED <<post, projected>> PROVE NoToggleInBand'
    BY <2>3
  <2>4. CASE \/ \E b \in Backends :
                  \/ \E n \in Batches : FetchMetrics(b, n)
                  \/ FetchFails(b) \/ EngineApplies(b) \/ StrayResolved(b)
                  \/ ForeignToggle(b)
             \/ TickEnd \/ UNCHANGED vars
    BY <2>3, <2>4 DEF FetchMetrics, FetchFails, EngineApplies, StrayResolved,
                      ForeignToggle, TickEnd, vars, controlVars
  <2> QED
    BY <2>1, <2>2, <2>4 DEF Next
<1> QED
  BY <1>1, <1>2, TypeCorrect, PTL DEF Spec

\* Inductive strengthening of RememberedIsActual: the loop sleeps only when all
\* POSTs are resolved; an executed POST still in flight has set the engine to
\* what it asks for; otherwise a remembered state is the engine's.
Consistent ==
  /\ tick = "sleep" => \A b \in Backends : post[b] = "idle"
  /\ \A b \in Backends \ Faulty :
       /\ stray[b] = "idle"
       /\ applied[b] => post[b] # "idle" /\ engine[b] = post[b]
       /\ ~applied[b] /\ remembered[b] # "none" => engine[b] = remembered[b]

\* The router's memory of a sound engine's SD state is right whenever no POST to
\* that engine is in flight, whatever the other engines do.
THEOREM MemoryIsRight == Spec => []RememberedIsActual
<1>1. Init => Consistent
  BY DEF Init, Consistent
<1>2. TypeOK /\ Consistent /\ [Next]_vars => Consistent'
  <2> SUFFICES ASSUME TypeOK, Consistent, [Next]_vars PROVE Consistent'
    OBVIOUS
  <2> USE SDAssumption DEF TypeOK, Consistent, controlVars, Mode
  <2>1. ASSUME NEW b \in Backends, NEW n \in Batches, FetchMetrics(b, n) PROVE Consistent'
    BY <2>1 DEF FetchMetrics
  <2>2. ASSUME NEW b \in Backends, FetchFails(b) PROVE Consistent'
    BY <2>2 DEF FetchFails
  <2>3. ASSUME NEW b \in Backends, EngineApplies(b) PROVE Consistent'
    BY <2>3 DEF EngineApplies
  <2>4. ASSUME NEW b \in Backends, StrayResolved(b) PROVE Consistent'
    BY <2>4 DEF StrayResolved
  <2>5. ASSUME NEW b \in Backends, PostSucceeds(b) PROVE Consistent'
    BY <2>5 DEF PostSucceeds
  <2>6. ASSUME NEW b \in Backends, PostFails(b) PROVE Consistent'
    BY <2>6 DEF PostFails
  <2>7. ASSUME NEW b \in Backends, PostTimesOut(b) PROVE Consistent'
    BY <2>7 DEF PostTimesOut
  <2>11. ASSUME NEW b \in Backends, EngineRestarts(b) PROVE Consistent'
    BY <2>11 DEF EngineRestarts
  <2>12. ASSUME NEW b \in Backends, ForeignToggle(b) PROVE Consistent'
    BY <2>12 DEF ForeignToggle
  <2>8. ASSUME NEW resumed \in [Backends -> 0..MaxResumed], UpdateDynamicSD(resumed)
        PROVE  Consistent'
    BY <2>8 DEF UpdateDynamicSD
  <2>9. CASE TickEnd
    BY <2>9 DEF TickEnd
  <2>10. CASE UNCHANGED vars
    BY <2>10 DEF vars
  <2> QED
    BY <2>1, <2>2, <2>3, <2>4, <2>5, <2>6, <2>7, <2>8, <2>9, <2>10, <2>11, <2>12
       DEF Next
<1>3. Consistent => RememberedIsActual
  BY DEF Consistent, RememberedIsActual
<1> QED
  BY <1>1, <1>2, <1>3, TypeCorrect, PTL DEF Spec
=============================================================================
