----------------------------- MODULE WeightSync -----------------------------
(***************************************************************************)
(* Weight-sync coordination of MultiBackendRouter                          *)
(* (src/scheduler/ThunderAgent/scheduler/router.py): begin_weight_sync,    *)
(* end_weight_sync, the watchdog task, the gate at the head of             *)
(* update_program_before_request and the guard of _scheduler_loop.         *)
(*                                                                         *)
(* The router runs on one asyncio event loop, so a handler is atomic       *)
(* between two awaits.  The only await inside begin/end/watchdog that      *)
(* suspends is end_weight_sync's wait for the watchdog it has just         *)
(* cancelled; every other handler may run there.                           *)
(***************************************************************************)
EXTENDS Naturals

CONSTANTS
  Requests,     \* data-plane requests
  EndCalls,     \* end_weight_sync invocations that can be in progress at once
  MaxSessions,  \* bound: begin_weight_sync calls that open a session
  NoTask        \* _weight_sync_watchdog is None

ASSUME SyncAssumption ==
  /\ MaxSessions \in Nat
  /\ NoTask \notin Nat

Task == 1..MaxSessions   \* the watchdog task that the n-th session created

VARIABLES
  active,     \* _weight_sync_active
  eventSet,   \* _weight_sync_event.is_set()
  watchdog,   \* _weight_sync_watchdog
  task,       \* state of every watchdog task
  ending,     \* the watchdog an end call awaits, NoTask if it is not awaiting
  sessions,   \* sessions opened so far
  gate,       \* requests: "out", "held" (awaiting the event), "released"
  tick        \* _scheduler_loop: "sleep" or "checking" (inside _scheduled_check)

vars == <<active, eventSet, watchdog, task, ending, sessions, gate, tick>>

TypeOK ==
  /\ active \in BOOLEAN
  /\ eventSet \in BOOLEAN
  /\ watchdog \in Task \cup {NoTask}
  /\ task \in [Task -> {"unused", "sleeping", "cancelled", "done"}]
  /\ ending \in [EndCalls -> Task \cup {NoTask}]
  /\ sessions \in 0..MaxSessions
  /\ gate \in [Requests -> {"out", "held", "released"}]
  /\ tick \in {"sleep", "checking"}

Init ==
  /\ active = FALSE
  /\ eventSet = TRUE
  /\ watchdog = NoTask
  /\ task = [t \in Task |-> "unused"]
  /\ ending = [e \in EndCalls |-> NoTask]
  /\ sessions = 0
  /\ gate = [r \in Requests |-> "out"]
  /\ tick = "sleep"

\* Mutation: wakes one waiter only, as a condition variable's notify would.
SetEventWakesOne ==
  /\ eventSet' = TRUE
  /\ gate' = [r \in Requests |->
       IF r = CHOOSE q \in Requests : gate[q] = "held" \/ \A p \in Requests : gate[p] # "held"
         THEN "released" ELSE gate[r]]

\* asyncio.Event.set(): every coroutine that awaits the event becomes ready,
\* and stays ready even if the event is cleared before it runs.
SetEvent ==
  /\ eventSet' = TRUE
  /\ gate' = [r \in Requests |-> IF gate[r] = "held" THEN "released" ELSE gate[r]]

\* Mutation: the previous task is stored in place of the one just created.
BeginStoresOldTask ==
  /\ ~active
  /\ sessions < MaxSessions
  /\ sessions' = sessions + 1
  /\ active' = TRUE
  /\ eventSet' = FALSE
  /\ watchdog' = sessions
  /\ task' = [task EXCEPT ![sessions + 1] = "sleeping"]
  /\ UNCHANGED <<ending, gate, tick>>

\* begin_weight_sync; a call while active returns at once and changes nothing.
BeginWeightSync ==
  /\ ~active
  /\ sessions < MaxSessions
  /\ sessions' = sessions + 1
  /\ active' = TRUE
  /\ eventSet' = FALSE
  /\ watchdog' = sessions + 1
  /\ task' = [task EXCEPT ![sessions + 1] = "sleeping"]
  /\ UNCHANGED <<ending, gate, tick>>

\* end_weight_sync up to its await: cancel the watchdog and wait for it.
EndCancelWatchdog(e) ==
  /\ ending[e] = NoTask
  /\ active
  /\ watchdog # NoTask
  /\ task[watchdog] # "done"
  /\ ending' = [ending EXCEPT ![e] = watchdog]
  /\ task' = [task EXCEPT ![watchdog] = "cancelled"]
  /\ UNCHANGED <<active, eventSet, watchdog, sessions, gate, tick>>

\* end_weight_sync that has nothing to wait for: no watchdog, or one that an
\* earlier end call cancelled and that has already returned.
EndAtOnce(e) ==
  /\ ending[e] = NoTask
  /\ active
  /\ watchdog = NoTask \/ task[watchdog] = "done"
  /\ watchdog' = NoTask
  /\ active' = FALSE
  /\ SetEvent
  /\ UNCHANGED <<task, ending, sessions, tick>>

\* end_weight_sync after the awaited watchdog has finished.
EndFinish(e) ==
  /\ ending[e] # NoTask
  /\ task[ending[e]] = "done"
  /\ ending' = [ending EXCEPT ![e] = NoTask]
  /\ watchdog' = NoTask
  /\ active' = FALSE
  /\ SetEvent
  /\ UNCHANGED <<task, sessions, tick>>

\* _weight_sync_timeout receives the CancelledError and returns.
WatchdogCancelled(t) ==
  /\ task[t] = "cancelled"
  /\ task' = [task EXCEPT ![t] = "done"]
  /\ UNCHANGED <<active, eventSet, watchdog, ending, sessions, gate, tick>>

\* Mutation: the test of the flag is inverted.
WatchdogFiresInverted(t) ==
  /\ task[t] = "sleeping"
  /\ task' = [task EXCEPT ![t] = "done"]
  /\ IF ~active
       THEN active' = FALSE /\ watchdog' = NoTask /\ SetEvent
       ELSE UNCHANGED <<active, watchdog, eventSet, gate>>
  /\ UNCHANGED <<ending, sessions, tick>>

\* Mutation: the watchdog clears the flag and forgets the event.
WatchdogForgetsEvent(t) ==
  /\ task[t] = "sleeping"
  /\ task' = [task EXCEPT ![t] = "done"]
  /\ IF active
       THEN active' = FALSE /\ watchdog' = NoTask /\ UNCHANGED <<eventSet, gate>>
       ELSE UNCHANGED <<active, watchdog, eventSet, gate>>
  /\ UNCHANGED <<ending, sessions, tick>>

\* _weight_sync_timeout after its sleep: it leaves sync mode if that is active.
WatchdogFires(t) ==
  /\ task[t] = "sleeping"
  /\ task' = [task EXCEPT ![t] = "done"]
  /\ IF active
       THEN active' = FALSE /\ watchdog' = NoTask /\ SetEvent
       ELSE UNCHANGED <<active, watchdog, eventSet, gate>>
  /\ UNCHANGED <<ending, sessions, tick>>

\* update_program_before_request finds the event cleared and waits for it.
RequestHeld(r) ==
  /\ gate[r] = "out"
  /\ ~eventSet
  /\ gate' = [gate EXCEPT ![r] = "held"]
  /\ UNCHANGED <<active, eventSet, watchdog, task, ending, sessions, tick>>

\* The wait returns and the request goes on to be scheduled and forwarded.
RequestGoesOn(r) ==
  /\ gate[r] = "released"
  /\ gate' = [gate EXCEPT ![r] = "out"]
  /\ UNCHANGED <<active, eventSet, watchdog, task, ending, sessions, tick>>

\* _scheduler_loop: a tick starts only while no sync is active.
TickStart ==
  /\ tick = "sleep"
  /\ ~active
  /\ tick' = "checking"
  /\ UNCHANGED <<active, eventSet, watchdog, task, ending, sessions, gate>>

TickEnd ==
  /\ tick = "checking"
  /\ tick' = "sleep"
  /\ UNCHANGED <<active, eventSet, watchdog, task, ending, sessions, gate>>

Next ==
  \/ BeginWeightSync
  \/ \E e \in EndCalls : EndCancelWatchdog(e) \/ EndAtOnce(e) \/ EndFinish(e)
  \/ \E t \in Task : WatchdogCancelled(t) \/ WatchdogFires(t)
  \/ \E r \in Requests : RequestHeld(r) \/ RequestGoesOn(r)
  \/ TickStart
  \/ TickEnd

Spec == Init /\ [][Next]_vars

\* The event loop runs every ready coroutine and every expired timer; nobody
\* is obliged to call begin or end, and requests need not arrive.
Fairness ==
  /\ \A e \in EndCalls : WF_vars(EndFinish(e))
  /\ \A t \in Task : WF_vars(WatchdogCancelled(t)) /\ WF_vars(WatchdogFires(t))
  /\ \A r \in Requests : WF_vars(RequestGoesOn(r))
  /\ WF_vars(TickEnd)

FairSpec == Spec /\ Fairness
-----------------------------------------------------------------------------

(***************************************************************************)
(* Properties.                                                             *)
(***************************************************************************)

\* A session always has a way out: while sync mode is active, the variable
\* _weight_sync_watchdog names the watchdog this session created, and either
\* that task still sleeps or some end call has cancelled it and will finish.
\* (end_weight_sync's branch for a missing watchdog is therefore never taken.)
SessionHasWayOut ==
  active => /\ watchdog = sessions
            /\ \/ task[sessions] = "sleeping"
               \/ \E e \in EndCalls : ending[e] = sessions

\* No lost wakeup: flag and event agree, and a request is suspended at the
\* gate of update_program_before_request only while the event is cleared.
NoLostWakeup ==
  /\ eventSet = ~active
  /\ \A r \in Requests : gate[r] = "held" => ~eventSet

\* The begin/end/watchdog code implements the gate of SyncGate: held requests
\* are all released when the gate opens, and it always opens again.
Gate == INSTANCE SyncGate
ImplementsGate == Gate!GateSpec

\* end_weight_sync is documented as idempotent: a call that was made for one
\* session does not end a session begun after it.
EndExitsOwnSession ==
  [][\A e \in EndCalls :
       ending[e] # NoTask /\ ending'[e] = NoTask /\ active => ending[e] = sessions]_vars
=============================================================================
