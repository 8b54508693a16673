----------------------------- MODULE SpecEngine -----------------------------
(***************************************************************************)
(* One vLLM engine with the run-time switch for speculative decoding (SD): *)
(* the engine core's step loop, the scheduler and its asynchronous         *)
(* variant, and the model runner in the worker process.  Token values are  *)
(* left out; what is kept is every count the two processes hold of the     *)
(* same request - tokens, computed positions, promised tokens, drafts -    *)
(* because the scheduler plans ahead of the worker and each side corrects  *)
(* its own counts for rejected drafts.                                     *)
(*                                                                         *)
(* A batch lives in queue from Schedule (the scheduler's plan), through    *)
(* Execute (the worker's step) to Process (update_from_output).  With      *)
(* mode = "async" one batch is planned while another one executes.         *)
(***************************************************************************)
EXTENDS Integers, Sequences, FiniteSets, SequencesExt, Functions

CONSTANTS
  Requests,        \* request ids; an id is used once
  PromptLen,       \* prompt tokens of a request
  MaxTokens,       \* SamplingParams.max_tokens
  NumSpec,         \* num_speculative_tokens
  MaxModelLen,     \* max_model_len
  Budget,          \* max_num_batched_tokens
  MaxRunning,      \* max_num_seqs
  Hits,            \* lengths a prefix-cache hit can have
  MaxDisruptions,  \* bound: preemptions, cache resets and pauses
  Controls         \* per mode, the operator's calls that may happen, and "done":
                   \* a result may be back before its batch was even queued

Modes == {"sync", "async"}

ASSUME SizesAssumption ==
  /\ PromptLen \in Nat \ {0} /\ MaxTokens \in Nat \ {0} /\ NumSpec \in Nat
  /\ MaxModelLen \in Nat /\ MaxModelLen > PromptLen
  /\ Budget \in Nat \ {0} /\ MaxRunning \in Nat \ {0}
  /\ Hits \subseteq 0..(PromptLen - 1) /\ 0 \in Hits
  /\ MaxDisruptions \in Nat
ASSUME RequestsAssumption == IsFiniteSet(Requests)
ASSUME ControlsAssumption ==
  Controls \in [Modes -> SUBSET {"keep", "wait", "abort", "clear", "reset", "done"}]

VARIABLES
  mode,            \* "async" iff scheduler_config.async_scheduling
  enableSd,        \* scheduler.enable_sd
  pauseState,      \* "unpaused", "new", "all"
  clearing,        \* an idle callback that clears the caches is registered
  pc,              \* the engine core: "idle" between steps, "wait" for a result
  status,          \* per request: "none", "live", "finished"
  running, waiting,\* the scheduler's queues
  tokens,          \* num_tokens: prompt and delivered output
  computed,        \* num_computed_tokens
  placeholders,    \* num_output_placeholders
  spec,            \* len(spec_token_ids)
  discard,         \* discard_latest_async_tokens
  finishedIds,     \* finished_req_ids, not yet told to the worker
  queue,           \* batches planned and not yet processed, oldest first
  inBatch,         \* worker: requests in the persistent batch
  seen,            \* worker: tokens it knows of a request
  kv,              \* worker: leading positions with a KV entry
  rejected,        \* worker: rejected drafts of the request's last batch
  spent            \* disruptions so far (bound)

schedulerVars ==
  <<enableSd, pauseState, clearing, pc, status, running, waiting, tokens,
    computed, placeholders, spec, discard, finishedIds>>
workerVars == <<inBatch, seen, kv, rejected>>
vars == <<mode, schedulerVars, queue, workerVars, spent>>

Zero == [r \in Requests |-> 0]
Least(a, b) == IF a <= b THEN a ELSE b
Most(a, b) == IF a >= b THEN a ELSE b
Total(f) == FoldFunctionOnSet(+, 0, f, Requests)

QueueSize == IF mode = "async" THEN 2 ELSE 1
Live == {r \in Requests : status[r] = "live"}
TokenLimit == Least(PromptLen + MaxTokens, MaxModelLen)

\* The sequence, there is just one, of the members of s that are not in S, in
\* their order.
Without(s, S) ==
  {t \in SeqOf(Range(s) \ S, Len(s)) :
     /\ Range(t) = Range(s) \ S
     /\ \A i, j \in DOMAIN t : i < j =>
          \E k, l \in DOMAIN s : k < l /\ t[i] = s[k] /\ t[j] = s[l]}

\* has_requests(): what the pause state leaves of the queues, or finished
\* requests the worker has not heard of.
HasRequestsWhen(ps) ==
  \/ finishedIds # {}
  \/ ps # "all" /\ running # <<>>
  \/ ps = "unpaused" /\ waiting # <<>>
HasRequests == HasRequestsWhen(pauseState)
HasWorkWhen(ps) == HasRequestsWhen(ps) \/ queue # <<>>

Init ==
  /\ mode \in Modes
  /\ enableSd = TRUE /\ pauseState = "unpaused" /\ clearing = FALSE
  /\ pc = "idle"
  /\ status = [r \in Requests |-> "none"]
  /\ running = <<>> /\ waiting = <<>>
  /\ tokens = [r \in Requests |-> PromptLen]
  /\ computed = Zero /\ placeholders = Zero /\ spec = Zero
  /\ discard = {} /\ finishedIds = {}
  /\ queue = <<>>
  /\ inBatch = {} /\ seen = Zero /\ kv = Zero /\ rejected = Zero
  /\ spent = 0
-----------------------------------------------------------------------------
(* Requests come and go between two steps; aborts are also looked at after *)
(* a result has arrived, before it is processed.                           *)

AddRequest(r) ==
  /\ pc = "idle"
  /\ status[r] = "none"
  /\ status' = [status EXCEPT ![r] = "live"]
  /\ waiting' = Append(waiting, r)
  /\ UNCHANGED <<mode, enableSd, pauseState, clearing, pc, running, tokens,
                 computed, placeholders, spec, discard, finishedIds, queue,
                 workerVars, spent>>

\* _free_request() for every request of S: the Request object is dropped and
\* its id kept for the worker.
Free(S, comp, ph, sp, disc) ==
  /\ status' = [r \in Requests |-> IF r \in S THEN "finished" ELSE status[r]]
  /\ finishedIds' = finishedIds \cup S
  /\ computed' = [r \in Requests |-> IF r \in S THEN 0 ELSE comp[r]]
  /\ placeholders' = [r \in Requests |-> IF r \in S THEN 0 ELSE ph[r]]
  /\ spec' = [r \in Requests |-> IF r \in S THEN 0 ELSE sp[r]]
  /\ discard' = disc \ S

FinishRequests(S) ==
  /\ running' \in Without(running, S)
  /\ waiting' \in Without(waiting, S)
  /\ Free(S, computed, placeholders, spec, discard)

Abort(r) ==
  /\ r \in Live
  /\ FinishRequests({r})
  /\ UNCHANGED <<mode, enableSd, pauseState, clearing, pc, tokens, queue,
                 workerVars, spent>>

\* toggle_speculative_decoding(): only the next schedule() will see it.
Toggle ==
  /\ pc = "idle"
  /\ enableSd' = ~enableSd
  /\ UNCHANGED <<mode, pauseState, clearing, pc, status, running, waiting,
                 tokens, computed, placeholders, spec, discard, finishedIds,
                 queue, workerVars, spent>>
-----------------------------------------------------------------------------
(* The plan of one step.                                                   *)

\* The last step in flight is sure to reach max_tokens.
AtLimit(r) ==
  /\ placeholders[r] > 0
  /\ computed[r] + 2 - placeholders[r] >= PromptLen + MaxTokens

\* num_new_tokens of a running request, before the token budget.
Want(r) ==
  IF AtLimit(r) THEN 0
  ELSE Least(tokens[r] + (IF enableSd THEN spec[r] ELSE 0) + placeholders[r]
               - computed[r],
             MaxModelLen - 1 - computed[r])

\* give hands the budget out in the order of the queue: a request gets less
\* than it wants only when the budget ends with it.
Greedy(order, want, give, budget) ==
  /\ \A r \in Requests : r \notin Range(order) => give[r] = 0
  /\ Total(give) <= budget
  /\ \A i \in DOMAIN order :
       /\ give[order[i]] <= want[order[i]]
       /\ give[order[i]] < want[order[i]] =>
            /\ Total(give) = budget
            /\ \A j \in DOMAIN order : j > i => give[order[j]] = 0

\* The loop over the running requests got as far as the i-th one.
Visited(order, i, give, budget) ==
  \/ Total(give) < budget
  \/ \E j \in DOMAIN order : j >= i /\ give[order[j]] > 0

\* The drafts of r that fit into what it was given.
Drafts(r, given) ==
  IF enableSd /\ given > 0
  THEN Least(spec[r], Most(0, given + computed[r] - tokens[r] - placeholders[r]))
  ELSE 0

\* schedule(): keep the first m running requests and preempt the others,
\* admit the first a waiting ones, with the prefix-cache hits hit.  Whether
\* blocks can be allocated is the KV-cache manager's answer, any m and a
\* here; one request alone always fits.
Plan(m, a, hit, give) ==
  LET budget == IF pauseState = "all" THEN 0 ELSE Budget
      kept == SubSeq(running, 1, m)
      preempted == SubSeq(running, m + 1, Len(running))
      admitted == SubSeq(waiting, 1, a)
      order == kept \o admitted
      want == [r \in Requests |->
                 IF r \in Range(admitted) THEN tokens[r] - hit[r] ELSE Want(r)]
      base == [r \in Requests |->
                 IF r \in Range(admitted) THEN hit[r] ELSE computed[r]]
      drafts == [r \in Requests |->
                   IF r \in Range(kept) THEN Drafts(r, give[r]) ELSE 0]
      chunk == {r \in Requests : base[r] + give[r] < tokens[r] + placeholders[r]}
      promise == [r \in Requests |->
                    IF give[r] > 0 /\ r \notin chunk THEN 1 + drafts[r] ELSE 0]
      dropped == {running[i] : i \in {i \in 1..m :
                    ~enableSd /\ Visited(order, i, give, budget)}}
  IN /\ m < Len(running) =>
          /\ m > 0 /\ spent < MaxDisruptions
          /\ \/ \E i \in 1..m : give[running[i]] > 0
             \/ Total(give) < budget /\ Want(running[m + 1]) > 0
     /\ a > 0 =>
          /\ pauseState = "unpaused" /\ m = Len(running)
          /\ m + a <= MaxRunning
          /\ \A i \in 1..a : give[waiting[i]] > 0
     /\ pauseState = "unpaused" /\ running = <<>> /\ waiting # <<>> => a > 0
     /\ Greedy(order, want, give, budget)
     /\ running' = order
     /\ waiting' = preempted \o SubSeq(waiting, a + 1, Len(waiting))
     /\ computed' = [r \in Requests |->
                       IF r \in Range(preempted) THEN 0 ELSE base[r] + give[r]]
     /\ placeholders' = [r \in Requests |->
                           placeholders[r]
                             + IF mode = "async" THEN promise[r] ELSE 0]
     /\ spec' = [r \in Requests |->
                   IF promise[r] > 0 /\ mode = "async" /\ enableSd THEN NumSpec
                   ELSE IF \/ give[r] > 0
                           \/ r \in Range(preempted) \cup dropped THEN 0
                   ELSE spec[r]]
     /\ finishedIds' = {}
     /\ spent' = IF m < Len(running) THEN spent + 1 ELSE spent
     /\ queue' = Append(queue,
          [sd |-> enableSd, base |-> base, sched |-> give, drafts |-> drafts,
           known |-> [r \in Requests |-> tokens[r] + placeholders[r]],
           promise |-> promise, fresh |-> Range(admitted),
           finished |-> finishedIds, run |-> FALSE, got |-> Zero, pos |-> Zero])
     /\ pc' \in IF /\ mode = "async" /\ Len(queue) + 1 < QueueSize
                   /\ \E r \in Requests : give[r] > 0
                THEN {"idle"} \cup (IF "done" \in Controls[mode] THEN {"wait"} ELSE {})
                ELSE {"wait"}

Schedule ==
  /\ pc = "idle"
  /\ HasRequests
  /\ \E m \in 0..Len(running), a \in 0..Len(waiting),
        give \in [Requests -> 0..Budget] :
       \E hit \in [{waiting[i] : i \in 1..a} -> Hits] : Plan(m, a, hit, give)
  /\ UNCHANGED <<mode, enableSd, pauseState, clearing, status, tokens, discard,
                 workerVars>>

\* Nothing to plan: block on the oldest batch.
Drain ==
  /\ pc = "idle"
  /\ ~HasRequests
  /\ queue # <<>>
  /\ pc' = "wait"
  /\ UNCHANGED <<mode, enableSd, pauseState, clearing, status, running, waiting,
                 tokens, computed, placeholders, spec, discard, finishedIds,
                 queue, workerVars, spent>>
-----------------------------------------------------------------------------
(* The worker executes the batches in the order they were planned.         *)

Scheduled(b) == {r \in Requests : b.sched[r] > 0}

\* Requests that are still in the persistent batch when b arrives.
Stays(b) == ((inBatch \ b.finished) \cap Scheduled(b)) \ b.fresh

\* Mutation: the worker takes the planned position as it is.
CorrectedNever(b, r) == b.base[r]

\* num_computed_tokens after the worker's own correction: with asynchronous
\* scheduling the plan was made before the rejections of the last batch were
\* known.
Corrected(b, r) ==
  IF mode = "async" /\ r \in Stays(b) THEN b.base[r] - rejected[r] ELSE b.base[r]

\* Mutation: the worker believes the planned token count, rejected drafts
\* included.
KnownAsPlanned(b, r) == b.known[r]

\* The tokens the worker knows of r when it executes b.
Known(b, r) == IF r \in Stays(b) THEN Least(seen[r], b.known[r]) ELSE b.known[r]

\* A request whose known tokens are not all computed yet is not sampled.
Sampled(b) ==
  {r \in Scheduled(b) : Corrected(b, r) + b.sched[r] >= Known(b, r)}

NextToRun == CHOOSE i \in 1..Len(queue) :
               ~queue[i].run /\ \A j \in 1..(i - 1) : queue[j].run

Execute ==
  /\ \E i \in 1..Len(queue) : ~queue[i].run
  /\ LET b == queue[NextToRun]
     IN \E accepted \in [Requests -> 0..NumSpec] :
          LET got == [r \in Requests |->
                        IF r \in Sampled(b) THEN 1 + accepted[r] ELSE 0]
              refused == [r \in Requests |->
                            IF r \in Sampled(b) THEN b.drafts[r] - accepted[r] ELSE 0]
          IN /\ \A r \in Requests :
                  /\ accepted[r] <= b.drafts[r]
                  /\ r \notin Sampled(b) => accepted[r] = 0
             /\ queue' = [queue EXCEPT ![NextToRun] =
                  [b EXCEPT !.run = TRUE, !.got = got,
                            !.pos = [r \in Requests |->
                                       IF r \in Sampled(b) THEN Known(b, r) ELSE 0]]]
             /\ inBatch' = Scheduled(b)
             /\ seen' = [r \in Requests |->
                           IF r \in b.finished THEN 0
                           ELSE IF r \in Scheduled(b) THEN Known(b, r) + got[r]
                           ELSE seen[r]]
             /\ kv' = [r \in Requests |->
                         IF r \in b.finished THEN 0
                         ELSE IF r \in Scheduled(b)
                         THEN Corrected(b, r) + b.sched[r] - refused[r]
                         ELSE kv[r]]
             /\ rejected' = [r \in Requests |->
                               IF r \in Scheduled(b) THEN refused[r] ELSE 0]
  /\ UNCHANGED <<mode, schedulerVars, spent>>
-----------------------------------------------------------------------------
(* The result of the oldest batch, update_from_output() and post_step().   *)

\* Mutation: the mode of today decides about drafts of an earlier plan.
RefusedNow(b, r) ==
  IF enableSd /\ b.drafts[r] > 0 /\ b.got[r] > 0
  THEN b.drafts[r] - (b.got[r] - 1) ELSE 0

\* Rejected drafts of r in b, as its own snapshot of the mode tells them.
Refused(b, r) ==
  IF b.sd /\ b.drafts[r] > 0 /\ b.got[r] > 0
  THEN b.drafts[r] - (b.got[r] - 1) ELSE 0

\* Mutation: no test whether there is something to correct.
UnwindAlways(count, n) == count - n

\* A count that preemption has put back to zero is not corrected again.
Unwind(count, n) == IF count > 0 THEN count - n ELSE count

\* Mutation: the loop over the new tokens does not stop at the limit.
RoomUnlimited(b, r) == b.got[r]

\* check_stop() ends the loop over the new tokens at the limit at the latest.
Room(b, r) == Least(b.got[r], TokenLimit - tokens[r])

Process ==
  /\ pc = "wait"
  /\ queue # <<>> /\ Head(queue).run
  /\ LET b == Head(queue)
         served == {r \in Live : b.got[r] > 0}
         swallowed == IF mode = "async" THEN served \cap discard ELSE {}
         refused == [r \in Requests |-> IF r \in served THEN Refused(b, r) ELSE 0]
     IN \E take \in [Requests -> 0..(NumSpec + 1)], eos \in SUBSET served,
           drafts \in [Requests -> 0..NumSpec] :
          LET appended == served \ swallowed
              stopped == {r \in appended : r \in eos
                                           \/ tokens[r] + take[r] >= TokenLimit}
          IN /\ eos \subseteq appended
             /\ \A r \in Requests :
                  IF r \in appended
                  THEN /\ take[r] \in 1..Room(b, r)
                       /\ take[r] < Room(b, r) => r \in eos
                  ELSE take[r] = 0
             /\ \A r \in Requests : drafts[r] > 0 =>
                  /\ mode = "sync" /\ b.sd /\ enableSd
                  /\ r \in Live \ stopped /\ b.promise[r] > 0
             /\ tokens' = [r \in Requests |-> tokens[r] + take[r]]
             /\ running' \in Without(running, stopped)
             /\ waiting' \in Without(waiting, stopped)
             /\ Free(stopped,
                     [r \in Requests |-> Unwind(computed[r], refused[r])],
                     [r \in Requests |-> Unwind(placeholders[r], refused[r])
                                          - IF mode = "async" THEN take[r] ELSE 0],
                     [r \in Requests |->
                        IF drafts[r] > 0 THEN drafts[r] ELSE spec[r]],
                     discard \ swallowed)
  /\ queue' = Tail(queue)
  /\ pc' = "idle"
  /\ UNCHANGED <<mode, enableSd, pauseState, clearing, workerVars, spent>>
-----------------------------------------------------------------------------
(* The operator's calls.                                                   *)

\* reset_prefix_cache(reset_running_requests=True).
ResetRunning ==
  /\ running' = <<>>
  /\ waiting' = running \o waiting
  /\ computed' = [r \in Requests |-> IF r \in Range(running) THEN 0 ELSE computed[r]]
  /\ placeholders' = [r \in Requests |->
                        IF r \in Range(running) THEN 0 ELSE placeholders[r]]
  /\ spec' = [r \in Requests |-> IF r \in Range(running) THEN 0 ELSE spec[r]]
  /\ discard' = discard \cup Range(running)

Reset ==
  /\ pc = "idle"
  /\ "reset" \in Controls[mode] /\ spent < MaxDisruptions
  /\ spent' = spent + 1
  /\ ResetRunning
  /\ UNCHANGED <<mode, enableSd, pauseState, clearing, pc, status, tokens,
                 finishedIds, queue, workerVars>>

\* pause_scheduler(how, clear): "abort" finishes every request first; the
\* caches are cleared now or, when there is work left, once there is none.
Pause(how, clear) ==
  /\ pc = "idle"
  /\ how \in Controls[mode] /\ (clear => "clear" \in Controls[mode])
  /\ spent < MaxDisruptions
  /\ spent' = spent + 1
  /\ pauseState' = IF how = "keep" THEN "all" ELSE "new"
  /\ \/ /\ how = "abort" /\ Live # {}
        /\ FinishRequests(Live)
        /\ clearing' = (clearing \/ clear)
     \/ /\ how = "abort" => Live = {}
        /\ IF HasWorkWhen(pauseState')
           THEN /\ clearing' = (clearing \/ clear)
                /\ UNCHANGED <<running, waiting, computed, placeholders, spec,
                               discard>>
           ELSE /\ IF clear THEN ResetRunning
                   ELSE UNCHANGED <<running, waiting, computed, placeholders,
                                    spec, discard>>
                /\ UNCHANGED clearing
        /\ UNCHANGED <<status, finishedIds>>
  /\ UNCHANGED <<mode, enableSd, pc, tokens, queue, workerVars>>

\* engine_idle_callback(): the engine ran out of work.
IdleCallback ==
  /\ pc = "idle"
  /\ clearing /\ ~HasWorkWhen(pauseState)
  /\ clearing' = FALSE
  /\ ResetRunning
  /\ UNCHANGED <<mode, enableSd, pauseState, pc, status, tokens, finishedIds,
                 queue, workerVars, spent>>

Resume ==
  /\ pc = "idle"
  /\ pauseState # "unpaused"
  /\ pauseState' = "unpaused"
  /\ UNCHANGED <<mode, enableSd, clearing, pc, status, running, waiting, tokens,
                 computed, placeholders, spec, discard, finishedIds, queue,
                 workerVars, spent>>
-----------------------------------------------------------------------------
Next ==
  \/ \E r \in Requests : AddRequest(r)
  \/ \E r \in Requests : Abort(r)
  \/ Toggle
  \/ Schedule
  \/ Drain
  \/ Execute
  \/ Process
  \/ Reset
  \/ \E how \in {"keep", "wait", "abort"}, clear \in BOOLEAN : Pause(how, clear)
  \/ IdleCallback
  \/ Resume

\* The engine loop and the worker keep stepping, and a paused engine is
\* resumed in the end; nothing is assumed of clients, toggles or the cache.
Fairness ==
  /\ WF_vars(Schedule) /\ WF_vars(Drain)
  /\ WF_vars(Execute) /\ WF_vars(Process)
  /\ WF_vars(Resume)

Spec == Init /\ [][Next]_vars /\ Fairness
-----------------------------------------------------------------------------
Batches ==
  [sd : BOOLEAN, base : [Requests -> Nat], sched : [Requests -> 0..Budget],
   drafts : [Requests -> 0..NumSpec], known : [Requests -> Nat],
   promise : [Requests -> 0..(NumSpec + 1)], fresh : SUBSET Requests,
   finished : SUBSET Requests, run : BOOLEAN,
   got : [Requests -> 0..(NumSpec + 1)], pos : [Requests -> Nat]]

\* Every count stays a count: none of the corrections for rejected drafts
\* goes below zero (async_scheduler asserts it of the placeholders).
TypeOK ==
  /\ mode \in Modes /\ enableSd \in BOOLEAN
  /\ pauseState \in {"unpaused", "new", "all"} /\ clearing \in BOOLEAN
  /\ pc \in {"idle", "wait"}
  /\ status \in [Requests -> {"none", "live", "finished"}]
  /\ running \in Seq(Requests) /\ waiting \in Seq(Requests)
  /\ tokens \in [Requests -> PromptLen..TokenLimit]
  /\ computed \in [Requests -> Nat] /\ placeholders \in [Requests -> Nat]
  /\ spec \in [Requests -> 0..NumSpec]
  /\ discard \subseteq Requests /\ finishedIds \subseteq Requests
  /\ queue \in Seq(Batches) /\ Len(queue) <= QueueSize
  /\ inBatch \subseteq Requests
  /\ seen \in [Requests -> Nat] /\ kv \in [Requests -> Nat]
  /\ rejected \in [Requests -> 0..NumSpec]
  /\ spent \in 0..MaxDisruptions

\* What the worker is about to execute lines up with what it holds: the
\* batch continues where the request's KV entries end, and a sampled request
\* is fed all its known tokens and no draft twice.  Rejected drafts are
\* subtracted by the scheduler in update_from_output and by the worker in
\* _update_states, each exactly when the other did not yet.
PositionsExact ==
  (\E i \in DOMAIN queue : ~queue[i].run) =>
    LET b == queue[NextToRun]
    IN \A r \in Scheduled(b) \cap Live :
         /\ r \notin b.fresh => Corrected(b, r) = kv[r]
         /\ b.promise[r] > 0 <=> r \in Sampled(b)
         /\ r \in Sampled(b) =>
              Corrected(b, r) + b.sched[r] - b.drafts[r] = Known(b, r)

\* The tokens of the oldest batch continue the stream where it ends: no
\* token is lost, repeated or swapped between two batches in flight.
DeliveredInOrder ==
  queue # <<>> /\ Head(queue).run =>
    \A r \in Live : Head(queue).got[r] > 0 =>
      \/ Head(queue).pos[r] = tokens[r]
      \/ mode = "async" /\ r \in discard

Promised(i, r) == IF i <= Len(queue) THEN queue[i].promise[r] ELSE 0

\* The placeholders of a request are the tokens its batches in flight, at most
\* QueueSize, may still bring.  One too many and the request looks finished to schedule()
\* while it is not; one too few and a position is computed twice.
PlaceholdersMatch ==
  \A r \in Live : placeholders[r] =
    IF mode = "async" THEN Promised(1, r) + Promised(2, r) ELSE 0

\* Every request is a stream to its client, whatever happens to the mode.
Client ==
  INSTANCE TokenStream WITH
    Streams <- Requests,
    Limit <- TokenLimit - PromptLen,
    state <- [r \in Requests |->
               [none |-> "none", live |-> "open", finished |-> "closed"][status[r]]],
    out <- [r \in Requests |-> tokens[r] - PromptLen]

ImplementsStreams == Client!StreamSpec
=============================================================================
