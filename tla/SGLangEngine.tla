---------------------------- MODULE SGLangEngine ----------------------------
(***************************************************************************)
(* The SGLang scheduler process with the run-time switch for speculative   *)
(* decoding (SD): one iteration of event_loop_normal / event_loop_overlap  *)
(* is Receive, Schedule (get_next_batch_to_run), Run (run_batch) and       *)
(* Process (process_batch_result); with overlap a result is processed one  *)
(* iteration after its batch was launched.                                 *)
(*                                                                         *)
(* Switching SD off takes effect at the next iteration.  Switching it on   *)
(* under load takes a recovery iteration: an ordinary decode of the whole  *)
(* running batch that also rebuilds the drafter's input.  Kept are the     *)
(* flags of this protocol, the resources the target model runs with, the   *)
(* lengths and KV slots that the two modes book differently, and the       *)
(* relay of the last token through FutureMap; token values are left out.   *)
(***************************************************************************)
EXTENDS Integers, Sequences, FiniteSets

CONSTANTS
  Requests,      \* request ids
  PromptLen,     \* tokens of a prompt
  MaxTokens,     \* max_new_tokens
  NumSteps,      \* speculative_num_steps, topk = 1
  MaxRetracts,   \* bound: retractions for lack of memory
  None           \* no request

ASSUME SizesAssumption ==
  /\ PromptLen \in Nat \ {0} /\ MaxTokens \in Nat \ {0}
  /\ NumSteps \in Nat \ {0} /\ MaxRetracts \in Nat
ASSUME RequestsAssumption == IsFiniteSet(Requests) /\ None \notin Requests

VARIABLES
  overlap,       \* which event loop this process runs
  pc,            \* the next part of the iteration
  requested,     \* _runtime_spec_decoding_requested
  enabled,       \* _runtime_spec_decoding_enabled, and the worker's copy
  armed,         \* _runtime_spec_recovery_armed
  inflight,      \* _runtime_spec_recovery_inflight
  runtime,       \* what the target model runs with: "sd", "target", "recovery"
  status,        \* "none", "waiting", "active", "done"
  chunked,       \* chunked_req
  chunkAbort,    \* _pending_chunked_abort_req is set
  running,       \* running_batch
  last,          \* last_batch; a decode batch is running_batch itself
  cur,           \* cur_batch, within an iteration
  popped,        \* the last batch's result was processed ahead of its turn
  results,       \* result_queue
  out,           \* tokens sent to the client
  len,           \* prompt and sampled tokens, those in flight included
  seq,           \* the batch's seq_lens
  published,     \* FutureMap.new_seq_lens_buf
  relay,         \* which token FutureMap.output_tokens_buf holds
  committed, allocated, \* kv_committed_len, kv_allocated_len
  slots,         \* positions of the request's row that hold a slot of its own
  switched,      \* history: requests that ran when SD was switched off
  retracts       \* retractions so far (bound)

switchVars == <<requested, enabled, armed, inflight, runtime>>
memoryVars == <<committed, allocated, slots>>
lengthVars == <<out, len, seq, published, relay>>
vars == <<overlap, pc, switchVars, status, chunked, chunkAbort, running, last,
          cur, popped, results, lengthVars, memoryVars, switched, retracts>>

\* A batch.  info is the set of requests its spec_info has drafter input
\* for, empty when there is none; chunk is the request whose prefill goes on.
NoBatch == [kind |-> "none", reqs |-> {}, sd |-> FALSE, recovery |-> FALSE,
            info |-> {}, chunk |-> None]
Zero == [r \in Requests |-> 0]

Most(a, b) == IF a >= b THEN a ELSE b

\* Mutation: the lag of one verify is not provided for.
ReserveSingle == NumSteps + 1

\* get_alloc_reserve_per_decode()
Reserve == 2 * (NumSteps + 1)

Init ==
  /\ overlap \in BOOLEAN
  /\ pc = "receive"
  /\ requested = TRUE /\ enabled = TRUE /\ armed = FALSE /\ inflight = FALSE
  /\ runtime = "sd"
  /\ status = [r \in Requests |-> "none"]
  /\ chunked = None /\ chunkAbort = FALSE
  /\ running = NoBatch /\ last = NoBatch /\ cur = NoBatch
  /\ popped = FALSE /\ results = <<>>
  /\ out = Zero /\ len = Zero /\ seq = Zero /\ published = Zero /\ relay = Zero
  /\ committed = Zero /\ allocated = Zero
  /\ slots = [r \in Requests |-> {}]
  /\ switched = {} /\ retracts = 0
-----------------------------------------------------------------------------
(* Receive: requests, aborts and toggles are read at the top of the loop.   *)
(* The abort of a running request takes effect when its next result is     *)
(* processed, like an end-of-sequence token, and needs no action.          *)

Arrive(r) ==
  /\ pc = "receive"
  /\ status[r] = "none"
  /\ status' = [status EXCEPT ![r] = "waiting"]
  /\ UNCHANGED <<overlap, pc, switchVars, chunked, chunkAbort, running, last,
                 cur, popped, results, lengthVars, memoryVars, switched, retracts>>

Abort(r) ==
  /\ pc = "receive"
  /\ \/ /\ status[r] = "waiting"
        /\ status' = [status EXCEPT ![r] = "done"]
        /\ UNCHANGED chunkAbort
     \/ /\ chunked = r
        /\ chunkAbort' = TRUE
        /\ UNCHANGED status
  /\ UNCHANGED <<overlap, pc, switchVars, chunked, running, last, cur, popped,
                 results, lengthVars, memoryVars, switched, retracts>>

\* toggle_speculative_decoding(): only a request; a recovery that has not
\* run yet is called off at once.
Toggle(on) ==
  /\ pc = "receive"
  /\ requested' = on
  /\ IF ~on /\ armed /\ ~inflight
     THEN armed' = FALSE /\ runtime' = "target"
     ELSE UNCHANGED <<armed, runtime>>
  /\ UNCHANGED <<overlap, pc, enabled, inflight, status, chunked, chunkAbort,
                 running, last, cur, popped, results, lengthVars, memoryVars, switched,
                 retracts>>

TransitionPending == requested # enabled

\* A transition must see the result of the last batch first.
Begin ==
  /\ pc = "receive"
  /\ pc' = IF overlap /\ TransitionPending /\ results # <<>>
           THEN "early" ELSE "merge"
  /\ UNCHANGED <<overlap, switchVars, status, chunked, chunkAbort, running,
                 last, cur, popped, results, lengthVars, memoryVars, switched, retracts>>
-----------------------------------------------------------------------------
(* get_next_batch_to_run(), in three parts.                                *)

\* release_kv_cache() of every request of S.
Release(S, comm, alloc) ==
  /\ committed' = [r \in Requests |-> IF r \in S THEN 0 ELSE comm[r]]
  /\ allocated' = [r \in Requests |-> IF r \in S THEN 0 ELSE alloc[r]]
  /\ switched' = switched \ S

\* Mutation: nothing is discarded.
PreservedAlways(info) == info

\* _discard_stale_runtime_spec_info_before_merge() keeps drafter input only
\* while SD is on, or about to be after its recovery iteration.
Preserved(info) == IF requested /\ (enabled \/ inflight) THEN info ELSE {}

\* The requests of the last prefill that go on as decodes.
Joining ==
  IF last.kind = "prefill"
  THEN {r \in last.reqs \ {chunked, last.chunk} : status[r] = "active"}
  ELSE {}

\* merge_batch(): the drafter input of the running batch takes the other's in.
Merged(joining) ==
  LET info == Preserved(last.info) \cap joining
      kept == Preserved(running.info)
  IN IF joining = {} THEN [running EXCEPT !.info = kept]
     ELSE IF running.reqs = {} THEN [last EXCEPT !.reqs = joining, !.info = info]
     ELSE [running EXCEPT !.reqs = @ \cup joining,
                          !.info = IF kept = {} THEN {} ELSE kept \cup info]

\* The pending abort of the chunked request, the discarding of stale drafter
\* input and the merge of the last prefill into the running batch.
Merge ==
  /\ pc = "merge"
  /\ LET gone == IF chunkAbort /\ chunked # None THEN {chunked} ELSE {}
     IN /\ status' = [r \in Requests |-> IF r \in gone THEN "done" ELSE status[r]]
        /\ chunked' = IF gone = {} THEN chunked ELSE None
        /\ Release(gone, committed, allocated)
        /\ slots' = [r \in Requests |-> IF r \in gone THEN {} ELSE slots[r]]
        /\ running' = Merged(Joining)
  /\ chunkAbort' = FALSE
  /\ last' = [last EXCEPT !.info = Preserved(@)]
  /\ pc' = "switch"
  /\ UNCHANGED <<overlap, switchVars, cur, popped, results, lengthVars, retracts>>

\* _apply_runtime_spec_transition(): a recovery that ran for nothing is
\* dropped first.
DropRecovery ==
  /\ pc = "switch"
  /\ inflight /\ ~requested
  /\ inflight' = FALSE /\ runtime' = "target"
  /\ switched' = IF overlap THEN switched ELSE switched \cup running.reqs
  /\ UNCHANGED <<overlap, pc, requested, enabled, armed, status, chunked,
                 chunkAbort, running, last, cur, popped, results, lengthVars,
                 memoryVars, retracts>>

\* Mutation: no idle case.
EnableAfterRecovery == requested /\ inflight

\* The switch is on, off or has to wait: under load for a recovery, and for
\* that until no prefill is cut in chunks.
EnableNow == requested /\ (inflight \/ (chunked = None /\ running.reqs = {}))
ArmNow == requested /\ ~inflight /\ chunked = None /\ running.reqs # {}

SwitchOn ==
  /\ EnableNow
  /\ enabled' = TRUE /\ armed' = FALSE /\ inflight' = FALSE /\ runtime' = "sd"
  /\ running' = [running EXCEPT !.sd = TRUE]
  /\ UNCHANGED <<seq, switched>>

ArmRecovery ==
  /\ ArmNow
  /\ armed' = TRUE /\ runtime' = "recovery"
  /\ UNCHANGED <<enabled, inflight, running, seq, switched>>

\* resolve_seq_lens_cpu(): for the requests that have drafter input.
Resolved(info) == [r \in Requests |-> IF r \in info THEN published[r] ELSE seq[r]]

SwitchOff ==
  /\ ~requested
  /\ seq' = IF overlap /\ running.reqs # {} /\ running.sd
            THEN Resolved(running.info) ELSE seq
  /\ enabled' = FALSE /\ armed' = FALSE /\ runtime' = "target"
  /\ running' = [running EXCEPT !.sd = FALSE]
  /\ switched' = switched \cup
       {r \in running.reqs : ~overlap \/ allocated[r] > committed[r]}
  /\ UNCHANGED inflight

Wait ==
  /\ ~TransitionPending \/ (requested /\ ~EnableNow /\ ~ArmNow)
  /\ UNCHANGED <<enabled, armed, inflight, runtime, running, seq, switched>>

Switch ==
  /\ pc = "switch"
  /\ ~(inflight /\ ~requested)
  /\ \/ TransitionPending /\ (SwitchOn \/ ArmRecovery \/ SwitchOff)
     \/ Wait
  /\ pc' = "pick"
  /\ UNCHANGED <<overlap, requested, status, chunked, chunkAbort, last, cur,
                 popped, results, out, len, published, relay, memoryVars, retracts>>

Waiting == {r \in Requests : status[r] = "waiting"}
Full(r) == PromptLen + out[r]

\* get_new_batch_prefill(): admits requests of the waiting queue and goes on
\* with the chunked one; the last one admitted, t, may be cut short at n.
\* How many fit is the memory's choice, but an idle engine admits some, and
\* the chunked request always goes on.
PickPrefill(admitted, t, n) ==
  /\ pc = "pick"
  /\ ~(armed /\ running.reqs # {} /\ chunked = None)
  /\ LET batch == admitted \cup ({chunked} \ {None})
     IN /\ batch # {}
        /\ t \in batch \cup {None}
        /\ IF t = None THEN n = 0 ELSE n \in (seq[t] + 1)..(Full(t) - 1)
        /\ t # None /\ t = chunked => admitted = {}
        /\ status' = [r \in Requests |->
                        IF r \in batch THEN "active" ELSE status[r]]
        /\ seq' = [r \in Requests |->
                     IF r = t THEN n ELSE IF r \in batch THEN Full(r) ELSE seq[r]]
        /\ committed' = [r \in Requests |->
                           IF r \in batch THEN seq'[r] ELSE committed[r]]
        /\ allocated' = [r \in Requests |->
                           IF r \in batch THEN seq'[r] ELSE allocated[r]]
        /\ slots' = [r \in Requests |->
                       IF r \in batch THEN 0..(seq'[r] - 1) ELSE slots[r]]
        /\ cur' = [kind |-> "prefill", reqs |-> batch, sd |-> enabled /\ ~armed,
                   recovery |-> armed, info |-> {}, chunk |-> t]
  /\ chunked' = t
  /\ pc' = "run"
  /\ UNCHANGED <<overlap, switchVars, chunkAbort, running, last, popped, results,
                 out, len, published, relay, switched, retracts>>

\* retract_decode(): requests go back to the waiting queue until the rest
\* fits; when not even the last one does, it is aborted.
Retraction(alive, back, aborted) ==
  \/ back = {} /\ aborted = {}
  \/ /\ retracts < MaxRetracts
     /\ back \cup aborted # {} /\ back \cap aborted = {}
     /\ aborted = {} => back # alive
     /\ aborted # {} => Cardinality(aborted) = 1 /\ back \cup aborted = alive

\* Mutation: a plain decode does not book its slot.
ClaimForgotten(r) ==
  IF enabled THEN Most(allocated[r], committed[r] + Reserve) ELSE allocated[r]

\* prepare_for_decode() allocates slots from the allocated length on for a
\* batch with drafts, and one at the sequence length for a plain one.
Claim(r) == IF enabled THEN Most(allocated[r], committed[r] + Reserve)
                       ELSE allocated[r] + 1
Claimed(r) == IF enabled THEN allocated[r]..(Claim(r) - 1) ELSE {seq[r]}

\* update_running_batch()
PickDecode(back, aborted) ==
  /\ pc = "pick"
  /\ running.reqs # {} /\ chunked = None
  /\ LET alive == {r \in running.reqs : status[r] = "active"}
         freed == back \cup aborted
         kept == alive \ freed
         batch == [kind |-> "decode", reqs |-> kept, sd |-> enabled /\ ~armed,
                   recovery |-> running.recovery \/ armed,
                   info |-> running.info \cap kept, chunk |-> None]
     IN /\ freed \subseteq alive
        /\ Retraction(alive, back, aborted)
        /\ retracts' = IF freed = {} THEN retracts ELSE retracts + 1
        /\ status' = [r \in Requests |-> IF r \in back THEN "waiting"
                                         ELSE IF r \in aborted THEN "done"
                                         ELSE status[r]]
        /\ seq' = [r \in Requests |-> IF r \in freed THEN 0
                                      ELSE IF r \in kept /\ ~enabled THEN seq[r] + 1
                                      ELSE seq[r]]
        /\ Release(freed,
                   [r \in Requests |-> IF r \in kept THEN committed[r] + 1
                                                     ELSE committed[r]],
                   [r \in Requests |-> IF r \in kept THEN Claim(r) ELSE allocated[r]])
        /\ slots' = [r \in Requests |-> IF r \in freed THEN {}
                                        ELSE IF r \in kept THEN slots[r] \cup Claimed(r)
                                        ELSE slots[r]]
        /\ running' = IF kept = {} THEN [running EXCEPT !.reqs = {}, !.sd = enabled]
                                   ELSE batch
        /\ cur' = IF kept = {} THEN NoBatch ELSE batch
  /\ pc' = "run"
  /\ UNCHANGED <<overlap, switchVars, chunked, chunkAbort, last, popped, results,
                 out, len, published, relay>>

PickNothing ==
  /\ pc = "pick"
  /\ running.reqs = {} /\ chunked = None /\ Waiting = {}
  /\ cur' = NoBatch
  /\ pc' = "run"
  /\ UNCHANGED <<overlap, switchVars, status, chunked, chunkAbort, running, last,
                 popped, results, lengthVars, memoryVars, switched, retracts>>
-----------------------------------------------------------------------------
(* run_batch(): the target model, and the drafter for a batch with drafts  *)
(* or in recovery.  With overlap the worker publishes the new lengths and  *)
(* relays the last token and the drafter's input through FutureMap;        *)
(* without, a batch with drafts keeps them in its own spec_info.           *)

Verifies(batch) == batch.kind = "decode" /\ batch.sd

\* Mutation: recovery publishes like a decode.
PublishesNext(batch, p, got) ==
  IF Verifies(batch) THEN p + got ELSE IF batch.sd THEN p ELSE p + 1

\* The length the worker publishes for a request at position p.
Publishes(batch, p, got) ==
  IF Verifies(batch) THEN p + got
  ELSE IF batch.sd \/ batch.recovery THEN p ELSE p + 1

Relays(batch) == overlap \/ ~(batch.sd \/ batch.recovery)

\* Mutation: the marker stays.
RanMarked(batch) ==
  [batch EXCEPT !.info = IF batch.sd \/ batch.recovery THEN batch.reqs ELSE @]

\* What the batch carries on: drafter input for all its requests, and a
\* recovery marker that is used up.
Ran(batch) ==
  [batch EXCEPT !.info = IF batch.sd \/ batch.recovery THEN batch.reqs ELSE @,
                !.recovery = FALSE]

Run(got) ==
  /\ pc = "run"
  /\ cur.kind # "none"
  /\ got \in [cur.reqs -> IF Verifies(cur) THEN 1..(NumSteps + 1) ELSE {1}]
  /\ LET pos == IF overlap /\ cur.sd THEN Resolved(cur.info) ELSE seq
         Sampled == cur.reqs \ {cur.chunk}
     IN /\ len' = [r \in Requests |->
                     IF r \notin Sampled THEN len[r]
                     ELSE IF cur.kind = "prefill" THEN pos[r] + 1
                     ELSE len[r] + got[r]]
        /\ seq' = [r \in Requests |->
                     IF r \in cur.reqs /\ Verifies(cur) /\ ~overlap
                     THEN pos[r] + got[r] ELSE pos[r]]
        /\ published' = [r \in Requests |->
                           IF r \in cur.reqs /\ overlap
                           THEN Publishes(cur, pos[r], got[r]) ELSE published[r]]
        /\ relay' = [r \in Requests |->
                       IF r \in Sampled /\ Relays(cur) THEN len'[r] ELSE relay[r]]
  /\ cur' = Ran(cur)
  /\ running' = IF cur.kind = "decode" THEN Ran(cur) ELSE running
  /\ armed' = (armed /\ ~cur.recovery)
  /\ inflight' = (inflight \/ cur.recovery)
  /\ results' = Append(results,
       [kind |-> cur.kind, reqs |-> cur.reqs \ {cur.chunk}, sd |-> cur.sd,
        got |-> [r \in Requests |-> IF r \in cur.reqs THEN got[r] ELSE 0]])
  /\ pc' = "process"
  /\ UNCHANGED <<overlap, requested, enabled, runtime, status, chunked, chunkAbort,
                 last, popped, out, memoryVars, switched, retracts>>

RunNothing ==
  /\ pc = "run"
  /\ cur.kind = "none"
  /\ pc' = "process"
  /\ UNCHANGED <<overlap, switchVars, status, chunked, chunkAbort, running, last,
                 cur, popped, results, lengthVars, memoryVars, switched, retracts>>
-----------------------------------------------------------------------------
(* process_batch_result(), for the oldest result.  Requests that finished  *)
(* or were retracted since the launch, and the chunked one, are passed     *)
(* over.  A request takes what it got up to its stop token or its limit.   *)

\* Mutation: finished ones too.
ServedAll(result) == result.reqs

Served(result) == {r \in result.reqs : status[r] = "active"}

\* Mutation: no limit.
TakesUnlimited(result, take, ends) ==
  /\ take \in [Served(result) -> 1..(NumSteps + 1)]
  /\ ends \subseteq Served(result)
  /\ \A r \in Served(result) : take[r] <= result.got[r]

Takes(result, take, ends) ==
  /\ take \in [Served(result) -> 1..(NumSteps + 1)]
  /\ ends \subseteq Served(result)
  /\ \A r \in Served(result) :
       /\ take[r] <= result.got[r] /\ out[r] + take[r] <= MaxTokens
       /\ r \notin ends => take[r] = result.got[r] /\ out[r] + take[r] < MaxTokens

\* The bonus token was claimed at preparation; the accepted drafts are now.
Kept(result) ==
  [r \in Requests |-> IF Verifies(result) /\ r \in Served(result)
                      THEN committed[r] + result.got[r] - 1 ELSE committed[r]]

ProcessResult ==
  LET result == Head(results)
  IN \E take \in [Served(result) -> 1..(NumSteps + 1)], ends \in SUBSET Served(result) :
       /\ Takes(result, take, ends)
       /\ out' = [r \in Requests |->
                    IF r \in Served(result) THEN out[r] + take[r] ELSE out[r]]
       /\ status' = [r \in Requests |-> IF r \in ends THEN "done" ELSE status[r]]
       /\ Release(ends, Kept(result), allocated)
       /\ slots' = [r \in Requests |-> IF r \in ends THEN {} ELSE slots[r]]
       \* the adaptive controller may install another SD state
       /\ runtime' \in IF Verifies(result) /\ enabled THEN {runtime, "sd"} ELSE {runtime}
       /\ results' = Tail(results)

processUnchanged == <<overlap, requested, enabled, armed, inflight, chunked,
                      chunkAbort, running, len, seq, published, relay, retracts>>

\* Before a transition.
EarlyPop ==
  /\ pc = "early"
  /\ ProcessResult
  /\ popped' = TRUE
  /\ pc' = "merge"
  /\ UNCHANGED <<processUnchanged, last, cur>>

\* is_disable_overlap_for_batch(): between two prefills, if so configured,
\* and before a batch with drafts that has a grammar.
EagerPop ==
  /\ pc = "run"
  /\ overlap /\ ~popped
  /\ \/ cur.kind = "prefill" /\ last.kind = "prefill"
     \/ Verifies(cur) /\ results # <<>>
  /\ ProcessResult
  /\ popped' = TRUE
  /\ UNCHANGED <<processUnchanged, pc, last, cur>>

\* Mutation: asks for the current batch, not the last.
DueWhenBusy ==
  IF overlap THEN cur.kind # "none" /\ ~popped ELSE cur.kind # "none"

\* The end of an iteration.
Due == IF overlap THEN last.kind # "none" /\ ~popped ELSE cur.kind # "none"

Process ==
  /\ pc = "process"
  /\ IF Due THEN ProcessResult
     ELSE UNCHANGED <<out, status, committed, allocated, switched, slots, runtime,
                      results>>
  /\ last' = cur
  /\ cur' = NoBatch
  /\ popped' = FALSE
  /\ pc' = "receive"
  /\ UNCHANGED processUnchanged
-----------------------------------------------------------------------------
Loop ==
  \/ Begin \/ EarlyPop \/ Merge \/ DropRecovery \/ Switch
  \/ \E admitted \in SUBSET Waiting, t \in Requests \cup {None} :
       \E n \in 0..(PromptLen + MaxTokens) : PickPrefill(admitted, t, n)
  \/ \E back, aborted \in SUBSET running.reqs : PickDecode(back, aborted)
  \/ PickNothing
  \/ EagerPop
  \/ \E got \in [cur.reqs -> 1..(NumSteps + 1)] : Run(got)
  \/ RunNothing
  \/ Process

Next ==
  \/ \E r \in Requests : Arrive(r) \/ Abort(r)
  \/ \E on \in BOOLEAN : Toggle(on)
  \/ Loop

Spec == Init /\ [][Next]_vars /\ WF_vars(Loop)
-----------------------------------------------------------------------------
Lengths == [Requests -> Nat]
Batches == [kind : {"none", "prefill", "decode"}, reqs : SUBSET Requests,
            sd : BOOLEAN, recovery : BOOLEAN, info : SUBSET Requests,
            chunk : Requests \cup {None}]

Results == [kind : {"prefill", "decode"}, reqs : SUBSET Requests, sd : BOOLEAN,
            got : [Requests -> Nat]]

\* Types of the scheduler's state.
TypeOK ==
  /\ overlap \in BOOLEAN /\ popped \in BOOLEAN /\ chunkAbort \in BOOLEAN
  /\ pc \in {"receive", "early", "merge", "switch", "pick", "run", "process"}
  /\ requested \in BOOLEAN /\ enabled \in BOOLEAN
  /\ armed \in BOOLEAN /\ inflight \in BOOLEAN
  /\ runtime \in {"sd", "target", "recovery"}
  /\ status \in [Requests -> {"none", "waiting", "active", "done"}]
  /\ chunked \in Requests \cup {None}
  /\ running \in Batches /\ last \in Batches /\ cur \in Batches
  /\ results \in Seq(Results)
  /\ out \in [Requests -> 0..MaxTokens]
  /\ len \in Lengths /\ seq \in Lengths /\ published \in Lengths
  /\ relay \in Lengths /\ committed \in Lengths /\ allocated \in Lengths
  /\ slots \in [Requests -> SUBSET Nat]
  /\ switched \subseteq Requests /\ retracts \in 0..MaxRetracts

\* event_loop_overlap() holds exactly one result between iterations, that of
\* the last batch, however often it was processed ahead of its turn: none is
\* processed twice, late or never.
OneResultPending ==
  pc = "receive" =>
    Len(results) = IF overlap /\ last.kind # "none" THEN 1 ELSE 0

\* A batch runs on the attention backend and graph made for it: drafts on the
\* verify graph, a recovery iteration on the recovery graph, anything else on
\* the target-only one.  The comment in run_batch() tells what happens else.
BatchFitsRuntime ==
  pc = "run" /\ cur.kind # "none" =>
    runtime = IF cur.recovery THEN "recovery" ELSE IF cur.sd THEN "sd" ELSE "target"

\* A batch that decodes with drafts has drafter input for each request of it,
\* and two batches that merge have such input both or neither, however the
\* switch, prefills, retractions and recoveries fell together.
DraftsSeeded ==
  /\ pc = "run" /\ Verifies(cur) => cur.info = cur.reqs
  /\ pc = "merge" /\ Joining # {} /\ running.reqs # {} =>
       (Preserved(last.info) = {}) <=> (Preserved(running.info) = {})

\* A decode reads the last token sampled and attends to what precedes it: with
\* drafts the position is one before the length, plain it is the length, and
\* the relayed token is the last.  Requests that SD decoded before it was
\* switched off are left out (LengthsMaterialized).
InputsCurrent ==
  pc = "run" /\ cur.kind = "decode" =>
    \A r \in {q \in cur.reqs \ switched : status[q] = "active"} :
      /\ IF cur.sd THEN (IF overlap THEN published[r] ELSE seq[r]) = len[r] - 1
                   ELSE seq[r] = len[r]
      /\ Relays(cur) \/ cur.recovery => relay[r] = len[r]

\* A request's row has a KV slot of its own at each position it allocated and
\* at none beyond, so that release_kv_cache() frees what was taken; requests
\* left out as above.
SlotsOwned ==
  \A r \in Requests \ switched : slots[r] = 0..(allocated[r] - 1)

\* A batch with drafts writes only to slots its requests own: with overlap it
\* is prepared while kv_committed_len lags one verify behind, and the doubled
\* reserve absorbs that lag; requests left out as above.
RoomForDrafts ==
  pc = "run" /\ Verifies(cur) =>
    \A r \in {q \in cur.reqs \ switched : status[q] = "active"} :
      (IF overlap THEN published[r] ELSE seq[r]) + NumSteps + 1 <= allocated[r]

\* Spec-v2 carries accepted lengths in FutureMap; ordinary decode preparation
\* needs them materialized: a plain decode runs at the request's true length.
LengthsMaterialized ==
  pc = "run" /\ cur.kind = "decode" /\ ~cur.sd =>
    \A r \in cur.reqs : seq[r] = len[r]

\* A requested mode is reached or called off: neither recovery nor chunked
\* prefills keep the switch waiting for ever.
SwitchHappens ==
  \A on \in BOOLEAN : requested = on ~> enabled = on \/ requested # on

\* To its client each request is a token stream, and it is closed in the end.
StreamState ==
  [r \in Requests |-> CASE status[r] = "none" -> "none"
                        [] status[r] = "done" -> "closed"
                        [] OTHER -> "open"]
Stream == INSTANCE TokenStream WITH Streams <- Requests, Limit <- MaxTokens,
                                    state <- StreamState, out <- out
ImplementsStreams == Stream!StreamSpec
=============================================================================
