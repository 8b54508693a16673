-------------------------- MODULE WeightSyncProofs --------------------------
(***************************************************************************)
(* Proofs about WeightSync for any number of requests, overlapping end     *)
(* calls and sessions.                                                     *)
(***************************************************************************)
EXTENDS WeightSync, TLAPS

\* Every step of the begin/end/watchdog code, the gate and the scheduler loop
\* keeps the variables of WeightSync in their types.
THEOREM TypeCorrect == Spec => []TypeOK
<1>1. Init => TypeOK
  <2> SUFFICES ASSUME Init PROVE TypeOK
    OBVIOUS
  <2>1. active \in BOOLEAN /\ eventSet \in BOOLEAN
    BY Zenon DEF Init
  <2>2. sessions \in 0..MaxSessions
    BY SyncAssumption DEF Init
  <2>3. /\ task \in [Task -> {"unused", "sleeping", "cancelled", "done"}]
        /\ ending \in [EndCalls -> Task \cup {NoTask}]
        /\ gate \in [Requests -> {"out", "held", "released"}]
        /\ watchdog \in Task \cup {NoTask}
        /\ tick \in {"sleep", "checking"}
    BY DEF Init
  <2> QED
    BY <2>1, <2>2, <2>3 DEF TypeOK
<1>2. TypeOK /\ [Next]_vars => TypeOK'
  <2> SUFFICES ASSUME TypeOK, [Next]_vars PROVE TypeOK'
    OBVIOUS
  <2> USE SyncAssumption DEF TypeOK, Task
  <2>1. CASE BeginWeightSync
    <3>1. active' \in BOOLEAN /\ eventSet' \in BOOLEAN
      BY <2>1, Zenon DEF BeginWeightSync
    <3>2. sessions' \in 0..MaxSessions /\ watchdog' \in Task
      BY <2>1 DEF BeginWeightSync
    <3>3. task' \in [Task -> {"unused", "sleeping", "cancelled", "done"}]
      BY <2>1 DEF BeginWeightSync
    <3> QED
      BY <2>1, <3>1, <3>2, <3>3 DEF BeginWeightSync
  <2>2. ASSUME NEW e \in EndCalls, EndCancelWatchdog(e) PROVE TypeOK'
    BY <2>2 DEF EndCancelWatchdog
  <2>3. ASSUME NEW e \in EndCalls, EndAtOnce(e) PROVE TypeOK'
    BY <2>3 DEF EndAtOnce, SetEvent
  <2>4. ASSUME NEW e \in EndCalls, EndFinish(e) PROVE TypeOK'
    BY <2>4 DEF EndFinish, SetEvent
  <2>5. ASSUME NEW t \in Task, WatchdogCancelled(t) PROVE TypeOK'
    BY <2>5 DEF WatchdogCancelled
  <2>6. ASSUME NEW t \in Task, WatchdogFires(t) PROVE TypeOK'
    BY <2>6 DEF WatchdogFires, SetEvent
  <2>7. ASSUME NEW r \in Requests, RequestHeld(r) PROVE TypeOK'
    BY <2>7 DEF RequestHeld
  <2>8. ASSUME NEW r \in Requests, RequestGoesOn(r) PROVE TypeOK'
    BY <2>8 DEF RequestGoesOn
  <2>9. CASE TickStart
    BY <2>9 DEF TickStart
  <2>10. CASE TickEnd
    BY <2>10 DEF TickEnd
  <2>11. CASE UNCHANGED vars
    BY <2>11 DEF vars
  <2> QED
    BY <2>1, <2>2, <2>3, <2>4, <2>5, <2>6, <2>7, <2>8, <2>9, <2>10, <2>11 DEF Next
<1> QED
  BY <1>1, <1>2, PTL DEF Spec

\* Inductive strengthening of SessionHasWayOut: tasks above the session
\* counter do not exist yet, and no end call waits for one of them.
TasksAreOld ==
  /\ \A t \in Task : t > sessions => task[t] = "unused"
  /\ \A e \in EndCalls : ending[e] # NoTask => ending[e] <= sessions

\* While sync mode is active the session's own watchdog sleeps or an end call
\* awaits it: begin, end, a second end and a stray watchdog in any order.
THEOREM WayOut == Spec => []SessionHasWayOut
<1> DEFINE IInv == TasksAreOld /\ SessionHasWayOut
<1>1. Init => IInv
  BY SyncAssumption DEF Init, TasksAreOld, SessionHasWayOut
<1>2. TypeOK /\ IInv /\ [Next]_vars => IInv'
  <2> SUFFICES ASSUME TypeOK, IInv, [Next]_vars PROVE IInv'
    OBVIOUS
  <2> USE SyncAssumption DEF TypeOK, TasksAreOld, SessionHasWayOut, Task
  <2>1. CASE BeginWeightSync
    BY <2>1 DEF BeginWeightSync
  <2>2. ASSUME NEW e \in EndCalls, EndCancelWatchdog(e) PROVE IInv'
    <3>1. TasksAreOld'
      BY <2>2 DEF EndCancelWatchdog
    <3>2. ending'[e] = sessions' /\ watchdog' = sessions'
      BY <2>2 DEF EndCancelWatchdog
    <3> QED
      BY <3>1, <3>2
  <2>3. ASSUME NEW e \in EndCalls, EndAtOnce(e) PROVE IInv'
    BY <2>3 DEF EndAtOnce
  <2>4. ASSUME NEW e \in EndCalls, EndFinish(e) PROVE IInv'
    BY <2>4 DEF EndFinish
  <2>5. ASSUME NEW t \in Task, WatchdogCancelled(t) PROVE IInv'
    BY <2>5 DEF WatchdogCancelled
  <2>6. ASSUME NEW t \in Task, WatchdogFires(t) PROVE IInv'
    BY <2>6 DEF WatchdogFires
  <2>7. ASSUME NEW r \in Requests, RequestHeld(r) PROVE IInv'
    BY <2>7 DEF RequestHeld
  <2>8. ASSUME NEW r \in Requests, RequestGoesOn(r) PROVE IInv'
    BY <2>8 DEF RequestGoesOn
  <2>9. CASE TickStart
    BY <2>9 DEF TickStart
  <2>10. CASE TickEnd
    BY <2>10 DEF TickEnd
  <2>11. CASE UNCHANGED vars
    BY <2>11 DEF vars
  <2> QED
    BY <2>1, <2>2, <2>3, <2>4, <2>5, <2>6, <2>7, <2>8, <2>9, <2>10, <2>11 DEF Next
<1> QED
  BY <1>1, <1>2, TypeCorrect, PTL DEF Spec

\* No request stays suspended on the weight-sync event once it is set.
THEOREM Wakeup == Spec => []NoLostWakeup
<1>1. Init => NoLostWakeup
  BY DEF Init, NoLostWakeup
<1>2. TypeOK /\ NoLostWakeup /\ [Next]_vars => NoLostWakeup'
  <2> SUFFICES ASSUME TypeOK, NoLostWakeup, [Next]_vars PROVE NoLostWakeup'
    OBVIOUS
  <2> USE DEF TypeOK, NoLostWakeup
  <2>1. CASE BeginWeightSync
    BY <2>1 DEF BeginWeightSync
  <2>2. ASSUME NEW e \in EndCalls, EndCancelWatchdog(e) PROVE NoLostWakeup'
    BY <2>2 DEF EndCancelWatchdog
  <2>3. ASSUME NEW e \in EndCalls, EndAtOnce(e) PROVE NoLostWakeup'
    BY <2>3 DEF EndAtOnce, SetEvent
  <2>4. ASSUME NEW e \in EndCalls, EndFinish(e) PROVE NoLostWakeup'
    BY <2>4 DEF EndFinish, SetEvent
  <2>5. ASSUME NEW t \in Task, WatchdogCancelled(t) PROVE NoLostWakeup'
    BY <2>5 DEF WatchdogCancelled
  <2>6. ASSUME NEW t \in Task, WatchdogFires(t) PROVE NoLostWakeup'
    BY <2>6 DEF WatchdogFires, SetEvent
  <2>7. ASSUME NEW r \in Requests, RequestHeld(r) PROVE NoLostWakeup'
    BY <2>7 DEF RequestHeld
  <2>8. ASSUME NEW r \in Requests, RequestGoesOn(r) PROVE NoLostWakeup'
    BY <2>8 DEF RequestGoesOn
  <2>9. CASE TickStart
    BY <2>9 DEF TickStart
  <2>10. CASE TickEnd
    BY <2>10 DEF TickEnd
  <2>11. CASE UNCHANGED vars
    BY <2>11 DEF vars
  <2> QED
    BY <2>1, <2>2, <2>3, <2>4, <2>5, <2>6, <2>7, <2>8, <2>9, <2>10, <2>11 DEF Next
<1> QED
  BY <1>1, <1>2, TypeCorrect, PTL DEF Spec

\* Every step of the begin/end/watchdog code is a step of the abstract gate or
\* leaves it alone: the safety part of ImplementsGate.
THEOREM Refinement == Spec => Gate!GateSafety
<1>1. Init => Gate!GateInit
  BY DEF Init, Gate!GateInit
<1>2. TypeOK /\ NoLostWakeup /\ [Next]_vars => [Gate!GateNext]_(Gate!gateVars)
  <2> SUFFICES ASSUME TypeOK, NoLostWakeup, [Next]_vars
               PROVE  Gate!GateNext \/ UNCHANGED <<active, gate>>
    BY DEF Gate!gateVars
  <2>1. CASE BeginWeightSync
    BY <2>1 DEF BeginWeightSync, Gate!GateNext, Gate!Close
  <2>2. ASSUME NEW e \in EndCalls, EndAtOnce(e) PROVE Gate!GateNext
    BY <2>2 DEF EndAtOnce, SetEvent, Gate!GateNext, Gate!Open
  <2>3. ASSUME NEW e \in EndCalls, EndFinish(e)
        PROVE  Gate!GateNext \/ UNCHANGED <<active, gate>>
    <3>1. CASE active
      BY <2>3, <3>1 DEF EndFinish, SetEvent, Gate!GateNext, Gate!Open
    <3>2. CASE ~active
      \* The gate was opened already: nobody is held and nothing changes.
      <4>1. gate' = gate
        BY <2>3, <3>2 DEF EndFinish, SetEvent, TypeOK, NoLostWakeup
      <4> QED
        BY <4>1, <2>3, <3>2 DEF EndFinish, TypeOK
    <3> QED
      BY <3>1, <3>2
  <2>4. ASSUME NEW t \in Task, WatchdogFires(t)
        PROVE  Gate!GateNext \/ UNCHANGED <<active, gate>>
    BY <2>4 DEF WatchdogFires, SetEvent, Gate!GateNext, Gate!Open
  <2>5. ASSUME NEW r \in Requests, RequestHeld(r) PROVE Gate!GateNext
    <3>1. active
      BY <2>5 DEF RequestHeld, NoLostWakeup, TypeOK
    <3>2. Gate!Hold(r)
      BY <2>5, <3>1 DEF RequestHeld, Gate!Hold
    <3> QED
      BY <3>2 DEF Gate!GateNext
  <2>6. ASSUME NEW r \in Requests, RequestGoesOn(r) PROVE Gate!GateNext
    <3>1. Gate!GoOn(r)
      BY <2>6 DEF RequestGoesOn, Gate!GoOn
    <3> QED
      BY <3>1 DEF Gate!GateNext
  <2>7. CASE \/ \E e \in EndCalls : EndCancelWatchdog(e)
             \/ \E t \in Task : WatchdogCancelled(t)
             \/ TickStart \/ TickEnd \/ UNCHANGED vars
    BY <2>7 DEF EndCancelWatchdog, WatchdogCancelled, TickStart, TickEnd, vars
  <2> QED
    BY <2>1, <2>2, <2>3, <2>4, <2>5, <2>6, <2>7 DEF Next
<1> QED
  BY <1>1, <1>2, TypeCorrect, Wakeup, PTL DEF Spec, Gate!GateSafety
=============================================================================
