---------------------------- MODULE MCSpecEngine ----------------------------
(* Instances of SpecEngine: which calls of the operator may happen in which *)
(* mode of the scheduler.                                                   *)
EXTENDS SpecEngine

\* Everything with synchronous scheduling, nothing with asynchronous.
SyncOnly == [sync |-> {"keep", "wait", "abort", "clear", "reset"}, async |-> {}]

\* pause_scheduler("keep") with asynchronous scheduling.
KeepAsync == [sync |-> {}, async |-> {"keep"}]
=============================================================================
