-------------------------- MODULE SpecEngineProofs --------------------------
(***************************************************************************)
(* Proofs about SpecEngine, for any number of requests, drafts, tokens and *)
(* disruptions, any budget and any prefix-cache hits.  With asynchronous   *)
(* scheduling the operator may pause for new requests or abort, but keeps  *)
(* its hands off the running ones, and no result overtakes the next plan:  *)
(* otherwise the worker corrects twice, as the run spec_engine_pause shows *)
(* for a pause.  The theorems name the restriction.                        *)
(*                                                                         *)
(* The argument: the scheduler plans from its own counts, which are ahead  *)
(* of the worker's by the drafts rejected in batches not yet processed.    *)
(* For the batch to run next both the planned position and the planned     *)
(* token count are off by the same number, the one the worker subtracts.   *)
(***************************************************************************)
EXTENDS SpecEngine, SequenceTheorems, TLAPS

\* What the theorems assume of asynchronous scheduling: "keep", "clear" and
\* "reset" are not called, and a batch whose request goes on is still out when
\* the next one is planned (not "done").
OverlapKept == Controls["async"] \subseteq {"wait", "abort"}

\* The queue of batches and the step of the engine core.
Shape ==
  /\ Len(queue) <= 2
  /\ mode = "sync" => Len(queue) <= 1 /\ (pc = "idle" => Len(queue) = 0)
  /\ pc = "idle" => Len(queue) <= 1
  /\ pc = "wait" => Len(queue) >= 1
  /\ Len(queue) = 2 /\ queue[2].run => queue[1].run
  /\ mode = "async" => pauseState # "all" /\ ~clearing /\ discard = {}

\* The scheduler's queues: each live request at most once, and none waits
\* that is in the latest batch.
NoRepeats(s) == \A i, j \in DOMAIN s : s[i] = s[j] => i = j
Queues ==
  /\ NoRepeats(running) /\ NoRepeats(waiting)
  /\ \A r \in Range(running) : r \notin Range(waiting)
  /\ \A r \in Range(running) \cup Range(waiting) : status[r] = "live"
  /\ \A r \in Range(waiting) : Len(queue) > 0 => queue[Len(queue)].sched[r] = 0
  /\ \A r \in Requests : r \notin Range(running) => computed[r] = 0
  \* a batch that leaves the queue empty concerns nobody who goes on
  /\ mode = "async" /\ pc = "wait" /\ Len(queue) = 1 =>
       \A r \in Range(running) : queue[1].sched[r] = 0

\* Worker and scheduler know only requests that were added; those they are
\* told to forget are over.
Told ==
  /\ \A r \in Requests : status[r] = "none" =>
       /\ r \notin inBatch /\ placeholders[r] = 0
       /\ \A i \in 1..Len(queue) : queue[i].sched[r] = 0
  /\ \A r \in finishedIds : status[r] = "finished"
  /\ \A i \in 1..Len(queue) : \A r \in queue[i].finished : status[r] = "finished"

\* What a plan promises, and what the worker made of it.
PlanSound(b, r) ==
  /\ b.sched[r] = 0 => b.promise[r] = 0 /\ b.got[r] = 0
  /\ b.promise[r] > 0 <=> b.sched[r] > 0 /\ b.base[r] + b.sched[r] >= b.known[r]
  /\ b.promise[r] > 0 => /\ b.promise[r] = 1 + b.drafts[r]
                         /\ b.base[r] + b.sched[r] - b.drafts[r] = b.known[r]
  /\ b.drafts[r] > 0 => b.sd /\ b.promise[r] > 0
  /\ b.drafts[r] <= b.sched[r]
  /\ b.sched[r] > 0 => r \notin b.finished
  /\ ~b.run => b.got[r] = 0
  /\ b.got[r] <= b.drafts[r] + 1
Plans == \A i \in 1..Len(queue) : \A r \in Requests : PlanSound(queue[i], r)

\* Tokens sampled and not processed, and rejected drafts not processed.
Took(i, r) == IF i <= Len(queue) /\ queue[i].run THEN queue[i].got[r] ELSE 0
Due(i, r) == IF i <= Len(queue) /\ queue[i].run THEN Refused(queue[i], r) ELSE 0
Count(r) == tokens[r] + Took(1, r) + Took(2, r)

\* How far the worker will correct the next plan.
Lag(r) == IF mode = "async" THEN rejected[r] ELSE 0

\* Where b leaves r if every draft is accepted.
Reach(b, r) ==
  IF b.sched[r] > 0 THEN Corrected(b, r) + b.sched[r] ELSE kv[r]

\* The batch to run next, and the one behind it.
Lined(b) ==
  \A r \in Requests : b.sched[r] > 0 =>
    /\ r \notin b.fresh => b.base[r] = kv[r] + Lag(r)
    /\ status[r] = "live" =>
         b.known[r] = Count(r) + (IF r \in b.fresh THEN 0 ELSE Lag(r))
Follows(a, b) ==
  \A r \in Requests : b.sched[r] > 0 =>
    /\ r \notin b.fresh => b.base[r] = Reach(a, r)
    /\ status[r] = "live" => b.known[r] = tokens[r] + a.promise[r]
    /\ r \in b.fresh => a.sched[r] = 0
    /\ r \notin a.finished
Line ==
  /\ Len(queue) >= 1 /\ ~queue[1].run => Lined(queue[1])
  /\ Len(queue) = 2 /\ queue[1].run /\ ~queue[2].run => Lined(queue[2])
  /\ Len(queue) = 2 /\ ~queue[1].run => Follows(queue[1], queue[2])

\* The worker's own counts.
Worker ==
  /\ \A r \in Requests : r \notin inBatch => rejected[r] = 0
  /\ \A r \in inBatch : status[r] = "live" => seen[r] = Count(r)
  /\ \A i \in 1..Len(queue) :
       queue[i].run /\ (i < Len(queue) => ~queue[i + 1].run) =>
         /\ inBatch = Scheduled(queue[i])
         /\ \A r \in Requests : rejected[r] = Refused(queue[i], r)
  /\ mode = "async" /\ Len(queue) = 0 => \A r \in Range(running) : rejected[r] = 0

\* Batches that ran: the promise is kept in tokens and rejections, and the
\* tokens follow on each other.
Ran ==
  \A i \in 1..Len(queue) : queue[i].run =>
    \A r \in Live :
      /\ queue[i].promise[r] = Refused(queue[i], r) + queue[i].got[r]
      /\ queue[i].got[r] > 0 =>
           queue[i].pos[r] = tokens[r] + (IF i = 2 THEN queue[1].got[r] ELSE 0)

\* The scheduler's position: the worker's, rejections it has not heard of
\* and what is planned and did not run.
Ahead(r) ==
  IF Len(queue) = 2 /\ ~queue[2].run
  THEN IF queue[1].run THEN Reach(queue[2], r)
       ELSE IF queue[2].sched[r] > 0 THEN queue[2].base[r] + queue[2].sched[r]
       ELSE Reach(queue[1], r)
  ELSE IF Len(queue) = 1 /\ ~queue[1].run THEN Reach(queue[1], r)
  ELSE kv[r]
Computed ==
  \A r \in Range(running) :
    /\ computed[r] = Due(1, r) + Due(2, r) + Ahead(r)
    /\ computed[r] <= tokens[r] + Promised(1, r) + Promised(2, r)

\* The placeholders, of requests that may still be added too.
Placeholders ==
  \A r \in Requests : status[r] # "finished" =>
    placeholders[r] = IF mode = "async" THEN Promised(1, r) + Promised(2, r) ELSE 0

EInv ==
  /\ TypeOK /\ Shape /\ Queues /\ Told /\ Plans /\ Line /\ Worker /\ Ran
  /\ Computed /\ Placeholders
-----------------------------------------------------------------------------
\* What remove_all() leaves of a queue.
LEMMA WithoutSound ==
  ASSUME NEW s \in Seq(Requests), NEW S, NEW t \in Without(s, S)
  PROVE  /\ t \in Seq(Requests)
         /\ \A r \in Range(t) : r \in Range(s) /\ r \notin S
         /\ NoRepeats(s) => NoRepeats(t)
<1>1. PICK m \in 0..Len(s) : t \in [1..m -> Range(s) \ S]
  BY DEF Without, SeqOf
<1>2. m \in Nat /\ DOMAIN t = 1..m
  BY <1>1
<1>3. Range(s) \subseteq Requests
  BY DEF Range
<1>4. t \in Seq(Requests)
  <2>1. t \in [1..m -> Requests]
    BY <1>1, <1>3
  <2> QED
    BY <1>2, <2>1, SeqDef
<1>5. ASSUME NoRepeats(s) PROVE NoRepeats(t)
  <2> SUFFICES ASSUME NEW i \in DOMAIN t, NEW j \in DOMAIN t, i < j, t[i] = t[j]
               PROVE  FALSE
    BY <1>2 DEF NoRepeats
  <2>1. PICK k \in DOMAIN s, l \in DOMAIN s : k < l /\ t[i] = s[k] /\ t[j] = s[l]
    BY DEF Without
  <2>2. k = l
    BY <1>5, <2>1 DEF NoRepeats
  <2>3. k \in Int /\ l \in Int
    BY <2>1
  <2> QED
    BY <2>1, <2>2, <2>3
<1>6. Range(t) = Range(s) \ S
  BY DEF Without
<1> QED
  BY <1>4, <1>5, <1>6

\* The fields of a planned batch.
LEMMA BatchType ==
  ASSUME TypeOK, NEW i \in 1..Len(queue), NEW r \in Requests
  PROVE  /\ queue[i] \in Batches
         /\ queue[i].sd \in BOOLEAN /\ queue[i].run \in BOOLEAN
         /\ queue[i].base[r] \in Nat /\ queue[i].sched[r] \in Nat
         /\ queue[i].drafts[r] \in Nat /\ queue[i].known[r] \in Nat
         /\ queue[i].promise[r] \in Nat /\ queue[i].got[r] \in Nat
         /\ queue[i].pos[r] \in Nat
<1>1. queue[i] \in Batches
  BY DEF TypeOK
<1> HIDE DEF TypeOK
<1>2. /\ queue[i].sd \in BOOLEAN /\ queue[i].run \in BOOLEAN
      /\ queue[i].base[r] \in Nat /\ queue[i].known[r] \in Nat /\ queue[i].pos[r] \in Nat
  BY <1>1 DEF Batches
<1>3. /\ queue[i].sched[r] \in 0..Budget /\ queue[i].drafts[r] \in 0..NumSpec
      /\ queue[i].promise[r] \in 0..(NumSpec + 1) /\ queue[i].got[r] \in 0..(NumSpec + 1)
  BY <1>1 DEF Batches
<1> QED
  BY <1>1, <1>2, <1>3, SizesAssumption

\* The counts of a request.
LEMMA CountType ==
  ASSUME TypeOK, NEW r \in Requests
  PROVE  /\ tokens[r] \in Nat /\ computed[r] \in Nat /\ placeholders[r] \in Nat
         /\ spec[r] \in Nat /\ spec[r] <= NumSpec
         /\ seen[r] \in Nat /\ kv[r] \in Nat /\ rejected[r] \in Nat
         /\ TokenLimit \in Nat /\ tokens[r] <= TokenLimit /\ NumSpec \in Nat
<1>1. TokenLimit \in Nat
  BY SizesAssumption DEF TokenLimit, Least
<1> QED
  BY <1>1, SizesAssumption DEF TypeOK

\* Steps that leave the batches, the worker and the tokens alone keep what is
\* said of them, as long as no request comes back to life and those that keep
\* running keep their counts.
LEMMA QuietStep ==
  ASSUME EInv,
         UNCHANGED <<mode, queue, tokens, workerVars>>,
         \A r \in Requests :
           /\ status'[r] = "none" => status[r] = "none"
           /\ status'[r] = "live" => status[r] \in {"none", "live"}
           /\ status[r] = "finished" => status'[r] = "finished",
         \A r \in Range(running') : r \in Range(running) /\ computed'[r] = computed[r],
         \A r \in Requests :
           status'[r] # "finished" => placeholders'[r] = placeholders[r],
         \A r \in finishedIds' : r \in Requests /\ status'[r] = "finished"
  PROVE  Told' /\ Plans' /\ Line' /\ Worker' /\ Ran' /\ Computed' /\ Placeholders'
<1> USE DEF EInv
<1>0. UNCHANGED <<inBatch, seen, kv, rejected>>
  BY DEF workerVars
<1>1. \A r \in Requests :
        /\ Took(1, r)' = Took(1, r) /\ Took(2, r)' = Took(2, r)
        /\ Due(1, r)' = Due(1, r) /\ Due(2, r)' = Due(2, r)
        /\ Promised(1, r)' = Promised(1, r) /\ Promised(2, r)' = Promised(2, r)
        /\ Lag(r)' = Lag(r)
  BY <1>0 DEF Took, Due, Promised, Lag
<1>2. \A r \in Requests : Count(r)' = Count(r)
  BY <1>1 DEF Count
<1>3. \A i \in 1..Len(queue), r \in Requests : Reach(queue[i], r)' = Reach(queue[i], r)
  BY <1>0 DEF Reach, Corrected, Stays
<1>4. Told'
  <2>1. \A i \in 1..Len(queue) : queue[i].finished \subseteq Requests
    <3>1. \A i \in 1..Len(queue) : queue[i] \in Batches
      BY DEF TypeOK
    <3> QED
      BY <3>1 DEF Batches
  <2> QED
    BY <1>0, <2>1 DEF Told
<1>5. Plans'
  BY DEF Plans
<1>6. Line'
  <2>0. Len(queue) \in Nat
    BY DEF TypeOK
  <2>1. ASSUME NEW i \in 1..Len(queue), Lined(queue[i]) PROVE Lined(queue[i])'
    BY <1>0, <1>1, <1>2, <2>1 DEF Lined, Told
  <2>2. ASSUME NEW i \in 1..Len(queue), NEW j \in 1..Len(queue),
               Follows(queue[i], queue[j]) PROVE Follows(queue[i], queue[j])'
    BY <1>3, <2>2 DEF Follows, Told
  <2> QED
    BY <2>0, <2>1, <2>2 DEF Line
<1>7. Worker'
  BY <1>0, <1>2 DEF Worker, Told, TypeOK
<1>8. Ran'
  <2> SUFFICES ASSUME NEW i \in 1..Len(queue), queue[i].run, NEW r \in Requests,
                      status'[r] = "live"
               PROVE  /\ queue[i].promise[r] = Refused(queue[i], r) + queue[i].got[r]
                      /\ queue[i].got[r] > 0 =>
                           queue[i].pos[r] = tokens[r] + (IF i = 2 THEN queue[1].got[r] ELSE 0)
    BY DEF Ran, Live
  <2>1. CASE status[r] = "live"
    BY <2>1 DEF Ran, Live
  <2>2. CASE status[r] = "none"
    <3>1. queue[i].promise[r] = 0 /\ queue[i].got[r] = 0
      BY <2>2 DEF Told, Plans, PlanSound
    <3> QED
      BY <3>1 DEF Refused
  <2> QED
    BY <2>1, <2>2
<1>9. Computed'
  <2>1. \A r \in Range(running) : r \in Requests
    BY DEF TypeOK, Range
  <2>2. ASSUME NEW r \in Requests PROVE Ahead(r)' = Ahead(r)
    <3>1. Len(queue) \in Nat
      BY DEF TypeOK
    <3> QED
      BY <1>0, <1>3, <3>1 DEF Ahead
  <2> QED
    BY <1>1, <2>1, <2>2 DEF Computed
<1>10. Placeholders'
  BY <1>1 DEF Placeholders
<1> QED
  BY <1>4, <1>5, <1>6, <1>7, <1>8, <1>9, <1>10

\* add_request()
LEMMA AddStep ==
  ASSUME EInv, NEW n \in Requests, AddRequest(n) PROVE EInv'
<1> USE DEF EInv
<1>1. /\ pc = "idle" /\ status[n] = "none" /\ waiting' = Append(waiting, n)
      /\ status' = [status EXCEPT ![n] = "live"]
      /\ UNCHANGED <<mode, enableSd, pauseState, clearing, pc, running, tokens,
                     computed, placeholders, spec, discard, finishedIds, queue,
                     workerVars, spent>>
  BY DEF AddRequest
<1>2. TypeOK'
  <2>1. waiting' \in Seq(Requests) /\ status' \in [Requests -> {"none", "live", "finished"}]
    BY <1>1 DEF TypeOK
  <2> QED
    BY <1>1, <2>1 DEF TypeOK, QueueSize, workerVars
<1>3. Shape'
  BY <1>1 DEF Shape
<1>4. Told' /\ Plans' /\ Line' /\ Worker' /\ Ran' /\ Computed' /\ Placeholders'
  <2>1. /\ \A r \in Requests : status'[r] = IF r = n THEN "live" ELSE status[r]
        /\ \A r \in finishedIds' : r \in Requests /\ status'[r] = "finished"
    BY <1>1 DEF TypeOK, Told
  <2> QED
    BY <1>1, <2>1, QuietStep DEF Range
<1>5. Queues'
  <2>1. waiting \in Seq(Requests) /\ running \in Seq(Requests)
    BY DEF TypeOK
  <2>2. Range(waiting') = Range(waiting) \cup {n}
    <3>1. /\ Len(waiting') = Len(waiting) + 1 /\ waiting'[Len(waiting) + 1] = n
          /\ \A i \in 1..Len(waiting) : waiting'[i] = waiting[i]
          /\ DOMAIN waiting = 1..Len(waiting) /\ DOMAIN waiting' = 1..(Len(waiting) + 1)
          /\ Len(waiting) \in Nat
      BY <1>1, <2>1
    <3> QED
      BY <3>1 DEF Range
  <2>3. n \notin Range(waiting) /\ n \notin Range(running)
    BY <1>1 DEF Queues
  <2>4. NoRepeats(waiting')
    <3>1. /\ DOMAIN waiting = 1..Len(waiting) /\ DOMAIN waiting' = 1..(Len(waiting) + 1)
          /\ \A i \in 1..Len(waiting) : waiting'[i] = waiting[i]
          /\ waiting'[Len(waiting) + 1] = n /\ Len(waiting) \in Nat
      BY <1>1, <2>1
    <3>2. \A i \in 1..Len(waiting) : waiting[i] # n
      BY <2>3, <3>1 DEF Range
    <3> QED
      BY <3>1, <3>2 DEF Queues, NoRepeats
  <2>5. Len(queue) > 0 => queue[Len(queue)].sched[n] = 0
    BY <1>1 DEF Told, TypeOK
  <2>6. \A r \in Range(running) \cup Range(waiting') : status'[r] = "live"
    <3>1. \A r \in Range(running) \cup Range(waiting) : r \in Requests
      BY <2>1 DEF Range
    <3> QED
      BY <1>1, <2>2, <3>1 DEF Queues, TypeOK
  <2> QED
    BY <1>1, <2>2, <2>3, <2>4, <2>5, <2>6 DEF Queues
<1> QED
  BY <1>2, <1>3, <1>4, <1>5

\* finish_requests() of the live requests S.
LEMMA FinishStep ==
  ASSUME EInv, NEW S, S \subseteq Live, FinishRequests(S),
         UNCHANGED <<mode, pc, tokens, queue, workerVars, enableSd>>,
         pauseState' \in {"unpaused", "new", "all"}, clearing' \in BOOLEAN,
         spent' \in 0..MaxDisruptions,
         mode = "async" => pauseState' # "all" /\ ~clearing'
  PROVE  EInv'
<1> USE DEF EInv
<1>1. /\ status' = [r \in Requests |-> IF r \in S THEN "finished" ELSE status[r]]
      /\ finishedIds' = finishedIds \cup S
      /\ computed' = [r \in Requests |-> IF r \in S THEN 0 ELSE computed[r]]
      /\ placeholders' = [r \in Requests |-> IF r \in S THEN 0 ELSE placeholders[r]]
      /\ spec' = [r \in Requests |-> IF r \in S THEN 0 ELSE spec[r]]
      /\ discard' = discard \ S
      /\ running' \in Without(running, S) /\ waiting' \in Without(waiting, S)
  BY DEF FinishRequests, Free
<1>2. /\ running' \in Seq(Requests) /\ waiting' \in Seq(Requests)
      /\ \A r \in Range(running') : r \in Range(running) /\ r \notin S
      /\ \A r \in Range(waiting') : r \in Range(waiting) /\ r \notin S
      /\ NoRepeats(running') /\ NoRepeats(waiting')
  <2>1. running \in Seq(Requests) /\ waiting \in Seq(Requests)
    BY DEF TypeOK
  <2> QED
    BY <1>1, <2>1, WithoutSound DEF Queues
<1>3. S \subseteq Requests /\ \A r \in Range(running) \cup Range(waiting) : r \in Requests
  BY DEF Live, TypeOK, Range
<1>4. TypeOK'
  <2>1. /\ status' \in [Requests -> {"none", "live", "finished"}]
        /\ computed' \in [Requests -> Nat] /\ placeholders' \in [Requests -> Nat]
        /\ spec' \in [Requests -> 0..NumSpec]
        /\ discard' \subseteq Requests /\ finishedIds' \subseteq Requests
    BY <1>1, <1>3, SizesAssumption DEF TypeOK
  <2> QED
    BY <1>2, <2>1 DEF TypeOK, QueueSize, workerVars
<1>5. Shape'
  BY <1>1 DEF Shape
<1>6. Told' /\ Plans' /\ Line' /\ Worker' /\ Ran' /\ Computed' /\ Placeholders'
  <2>1. /\ \A r \in Requests :
              /\ status'[r] = "none" => status[r] = "none"
              /\ status'[r] = "live" => status[r] \in {"none", "live"}
              /\ status[r] = "finished" => status'[r] = "finished"
              /\ status'[r] # "finished" => placeholders'[r] = placeholders[r]
        /\ \A r \in finishedIds' : r \in Requests /\ status'[r] = "finished"
    BY <1>1, <1>3 DEF Told, TypeOK
  <2>2. \A r \in Range(running') : r \in Range(running) /\ computed'[r] = computed[r]
    BY <1>1, <1>2, <1>3
  <2> QED
    BY <2>1, <2>2, QuietStep
<1>7. Queues'
  <2>1. \A r \in Range(running') \cup Range(waiting') : status'[r] = "live"
    BY <1>1, <1>2, <1>3 DEF Queues
  <2>2. \A r \in Requests : r \notin Range(running') => computed'[r] = 0
    <3>1. \A r \in Range(running) : r \notin S => r \in Range(running')
      BY <1>1 DEF Without
    <3> QED
      BY <1>1, <3>1 DEF Queues
  <2> QED
    BY <1>2, <2>1, <2>2 DEF Queues
<1> QED
  BY <1>4, <1>5, <1>6, <1>7

\* Steps that only move pc, the flags or the bound.
LEMMA FlagStep ==
  ASSUME EInv,
         UNCHANGED <<mode, status, running, waiting, tokens, computed, placeholders,
                     spec, discard, finishedIds, queue, workerVars>>,
         enableSd' \in BOOLEAN, pauseState' \in {"unpaused", "new", "all"},
         clearing' \in BOOLEAN, spent' \in 0..MaxDisruptions,
         mode = "async" => pauseState' # "all" /\ ~clearing',
         \/ pc' = pc
         \/ pc' = "wait" /\ Len(queue) > 0 /\ (mode = "async" => running = <<>>)
  PROVE  EInv'
<1> USE DEF EInv
<1>1. TypeOK'
  BY DEF TypeOK, QueueSize, workerVars
<1>2. Shape'
  <2>1. Len(queue) \in Nat
    BY DEF TypeOK
  <2> QED
    BY <2>1 DEF Shape
<1>3. Told' /\ Plans' /\ Line' /\ Worker' /\ Ran' /\ Computed' /\ Placeholders'
  <2>1. \A r \in finishedIds : r \in Requests /\ status[r] = "finished"
    BY DEF Told, TypeOK
  <2>2. \A r \in Requests : status[r] \in {"none", "live", "finished"}
    BY DEF TypeOK
  <2> QED
    BY <2>1, <2>2, QuietStep
<1>4. Queues'
  <2>1. running = <<>> => Range(running) = {}
    BY DEF Range
  <2> QED
    BY <2>1 DEF Queues
<1> QED
  BY <1>1, <1>2, <1>3, <1>4

\* Two queues without repeats and without common members, one after the other.
LEMMA JoinSound ==
  ASSUME NEW s \in Seq(Requests), NEW t \in Seq(Requests),
         NoRepeats(s), NoRepeats(t), \A r \in Range(s) : r \notin Range(t)
  PROVE  /\ s \o t \in Seq(Requests)
         /\ NoRepeats(s \o t)
         /\ Range(s \o t) = Range(s) \cup Range(t)
<1>1. /\ s \o t \in Seq(Requests) /\ Len(s \o t) = Len(s) + Len(t)
      /\ \A i \in 1..(Len(s) + Len(t)) :
           (s \o t)[i] = IF i <= Len(s) THEN s[i] ELSE t[i - Len(s)]
  BY ConcatProperties
<1>2. /\ DOMAIN s = 1..Len(s) /\ DOMAIN t = 1..Len(t)
      /\ DOMAIN (s \o t) = 1..(Len(s) + Len(t)) /\ Len(s) \in Nat /\ Len(t) \in Nat
  BY <1>1
<1>3. NoRepeats(s \o t)
  <2> SUFFICES ASSUME NEW i \in 1..(Len(s) + Len(t)), NEW j \in 1..(Len(s) + Len(t)),
                      (s \o t)[i] = (s \o t)[j]
               PROVE  i = j
    BY <1>2 DEF NoRepeats
  <2>1. \A k \in 1..Len(s), l \in 1..Len(t) : s[k] # t[l]
    BY <1>2 DEF Range
  <2>2. CASE i <= Len(s) /\ j <= Len(s)
    BY <1>1, <1>2, <2>2 DEF NoRepeats
  <2>3. CASE i > Len(s) /\ j > Len(s)
    <3>1. i - Len(s) \in 1..Len(t) /\ j - Len(s) \in 1..Len(t)
      BY <1>2, <2>3
    <3>2. t[i - Len(s)] = t[j - Len(s)]
      BY <1>1, <1>2, <2>3
    <3>3. i - Len(s) = j - Len(s)
      BY <1>2, <3>1, <3>2 DEF NoRepeats
    <3> QED
      BY <1>2, <3>3
  <2>4. CASE i <= Len(s) /\ j > Len(s)
    <3>1. i \in 1..Len(s) /\ j - Len(s) \in 1..Len(t)
      BY <1>2, <2>4
    <3> QED
      BY <1>1, <1>2, <2>1, <2>4, <3>1
  <2>5. CASE i > Len(s) /\ j <= Len(s)
    <3>1. j \in 1..Len(s) /\ i - Len(s) \in 1..Len(t)
      BY <1>2, <2>5
    <3> QED
      BY <1>1, <1>2, <2>1, <2>5, <3>1
  <2> QED
    BY <1>2, <2>2, <2>3, <2>4, <2>5
<1> QED
  BY <1>1, <1>3, RangeConcatenation

\* A reset of the running requests, with synchronous scheduling: between two
\* steps no batch is in flight.
LEMMA ResetStep ==
  ASSUME EInv, ResetRunning, mode = "sync", pc = "idle",
         UNCHANGED <<mode, enableSd, pc, status, tokens, finishedIds, queue, workerVars>>,
         pauseState' \in {"unpaused", "new", "all"}, clearing' \in BOOLEAN,
         spent' \in 0..MaxDisruptions
  PROVE  EInv'
<1> USE DEF EInv
<1>1. /\ running' = <<>> /\ waiting' = running \o waiting
      /\ computed' = [r \in Requests |-> IF r \in Range(running) THEN 0 ELSE computed[r]]
      /\ placeholders' = [r \in Requests |->
                            IF r \in Range(running) THEN 0 ELSE placeholders[r]]
      /\ spec' = [r \in Requests |-> IF r \in Range(running) THEN 0 ELSE spec[r]]
      /\ discard' = discard \cup Range(running)
  BY DEF ResetRunning
<1>2. Range(running') = {} /\ Range(running) \subseteq Requests
  BY <1>1 DEF Range, TypeOK
<1>3. /\ waiting' \in Seq(Requests) /\ NoRepeats(waiting') /\ NoRepeats(running')
      /\ Range(waiting') = Range(running) \cup Range(waiting)
  <2>1. running \in Seq(Requests) /\ waiting \in Seq(Requests)
    BY DEF TypeOK
  <2>2. NoRepeats(running')
    BY <1>1 DEF NoRepeats
  <2> QED
    BY <1>1, <2>1, <2>2, JoinSound DEF Queues
<1>4. TypeOK'
  <2>1. /\ computed' \in [Requests -> Nat] /\ placeholders' \in [Requests -> Nat]
        /\ spec' \in [Requests -> 0..NumSpec] /\ discard' \subseteq Requests
        /\ running' \in Seq(Requests)
    BY <1>1, <1>2, SizesAssumption DEF TypeOK
  <2> QED
    BY <1>3, <2>1 DEF TypeOK, QueueSize, workerVars
<1>5. Len(queue) = 0 /\ Shape'
  BY DEF Shape
<1>6. Told' /\ Plans' /\ Line' /\ Worker' /\ Ran' /\ Computed' /\ Placeholders'
  <2>1. /\ \A r \in finishedIds : r \in Requests /\ status[r] = "finished"
        /\ \A r \in Requests : status[r] \in {"none", "live", "finished"}
    BY DEF Told, TypeOK
  <2>2. \A r \in Requests : status[r] # "finished" => placeholders'[r] = placeholders[r]
    BY <1>1 DEF Placeholders
  <2> QED
    BY <1>2, <2>1, <2>2, QuietStep
<1>7. Queues'
  BY <1>1, <1>2, <1>3, <1>5 DEF Queues
<1> QED
  BY <1>4, <1>5, <1>6, <1>7
-----------------------------------------------------------------------------
(* The worker.                                                             *)

\* The batch to run next is the first, or the second behind one that ran.
LEMMA NextBatch ==
  ASSUME EInv, \E i \in 1..Len(queue) : ~queue[i].run
  PROVE  /\ NextToRun \in 1..Len(queue) /\ ~queue[NextToRun].run
         /\ NextToRun = 1 \/ (NextToRun = 2 /\ Len(queue) = 2 /\ queue[1].run)
         /\ Lined(queue[NextToRun])
<1> USE DEF EInv
<1>0. Len(queue) \in Nat /\ Len(queue) <= 2
  BY DEF TypeOK, Shape
<1>9. \A n \in 1..Len(queue) : n = 1 \/ (n = 2 /\ Len(queue) = 2)
  <2>1. \A n, l \in Nat : n >= 1 /\ n <= l /\ l <= 2 => n = 1 \/ (n = 2 /\ l = 2)
    OBVIOUS
  <2> QED
    BY <1>0, <2>1
<1>1. \E i \in 1..Len(queue) : ~queue[i].run /\ \A j \in 1..(i - 1) : queue[j].run
  <2>1. CASE ~queue[1].run
    <3>1. 1 \in 1..Len(queue) /\ \A j \in 1..(1 - 1) : queue[j].run
      BY <1>0
    <3> QED
      BY <2>1, <3>1
  <2>2. CASE queue[1].run
    <3>0. PICK i \in 1..Len(queue) : ~queue[i].run
      OBVIOUS
    <3>1. Len(queue) = 2 /\ ~queue[2].run
      BY <1>9, <2>2, <3>0
    <3>2. 2 \in 1..Len(queue) /\ \A j \in 1..(2 - 1) : queue[j].run
      BY <2>2, <3>1
    <3> QED
      BY <3>1, <3>2
  <2> QED
    BY <2>1, <2>2
<1>2. /\ NextToRun \in 1..Len(queue) /\ ~queue[NextToRun].run
      /\ \A j \in 1..(NextToRun - 1) : queue[j].run
  BY <1>1 DEF NextToRun
<1>3. NextToRun = 1 \/ (NextToRun = 2 /\ Len(queue) = 2 /\ queue[1].run)
  <2>1. NextToRun = 1 \/ (NextToRun = 2 /\ Len(queue) = 2)
    BY <1>2, <1>9
  <2>2. NextToRun = 2 => 1 \in 1..(NextToRun - 1)
    OBVIOUS
  <2> QED
    BY <1>2, <2>1, <2>2
<1>4. Lined(queue[NextToRun])
  BY <1>0, <1>2, <1>3 DEF Line
<1> QED
  BY <1>2, <1>3, <1>4

\* Sums of what was sampled.
LEMMA TookType ==
  ASSUME TypeOK, NEW r \in Requests
  PROVE  /\ Took(1, r) \in Nat /\ Took(2, r) \in Nat
         /\ Count(r) \in Nat /\ Lag(r) \in Nat
<1>1. ASSUME NEW j \in {1, 2} PROVE Took(j, r) \in Nat
  <2>1. CASE j <= Len(queue)
    <3>1. j \in 1..Len(queue)
      BY <2>1 DEF TypeOK
    <3> QED
      BY <3>1, BatchType DEF Took
  <2>2. CASE ~(j <= Len(queue))
    BY <2>2 DEF Took
  <2> QED
    BY <2>1, <2>2
<1> QED
  BY <1>1, CountType DEF Lag, Count

\* Rejections of a batch and those not yet processed.
LEMMA DueType ==
  ASSUME TypeOK, NEW r \in Requests
  PROVE  /\ \A i \in 1..Len(queue) : Refused(queue[i], r) \in Int
         /\ Due(1, r) \in Int /\ Due(2, r) \in Int
<1>1. ASSUME NEW i \in 1..Len(queue) PROVE Refused(queue[i], r) \in Int
  <2>1. queue[i].drafts[r] \in Nat /\ queue[i].got[r] \in Nat
    BY BatchType
  <2> QED
    BY <2>1 DEF Refused
<1>2. ASSUME NEW j \in {1, 2} PROVE Due(j, r) \in Int
  <2>1. CASE j <= Len(queue)
    <3>1. j \in 1..Len(queue)
      BY <2>1 DEF TypeOK
    <3> QED
      BY <1>1, <3>1 DEF Due
  <2>2. CASE ~(j <= Len(queue))
    BY <2>2 DEF Due
  <2> QED
    BY <2>1, <2>2
<1> QED
  BY <1>1, <1>2

\* The worker's correction takes a plan to where the request really is, and it
\* samples exactly where a token was promised.
LEMMA LinedOne ==
  ASSUME EInv, NEW b, NEW r \in Requests,
         b.base[r] \in Nat, b.sched[r] \in Nat, b.known[r] \in Nat,
         b.drafts[r] \in Nat, b.promise[r] \in Nat,
         PlanSound(b, r), Lined(b), b.sched[r] > 0
  PROVE  /\ Corrected(b, r) = (IF r \in b.fresh THEN b.base[r] ELSE kv[r])
         /\ Corrected(b, r) \in Nat
         /\ status[r] = "live" =>
              /\ Known(b, r) = Count(r)
              /\ r \in Sampled(b) <=> b.promise[r] > 0
              /\ r \in Sampled(b) => Corrected(b, r) + b.sched[r] - b.drafts[r] = Count(r)
<1>1. /\ kv[r] \in Nat /\ rejected[r] \in Nat /\ seen[r] \in Nat /\ tokens[r] \in Nat
      /\ Lag(r) \in Nat /\ Count(r) \in Nat
  BY CountType, TookType DEF EInv
<1>3. r \in Stays(b) <=> r \in inBatch /\ r \notin b.fresh
  BY DEF Stays, Scheduled, PlanSound
<1>5. r \notin inBatch => Lag(r) = 0
  BY DEF EInv, Worker, Lag
<1>6. r \notin b.fresh => b.base[r] = kv[r] + Lag(r)
  BY DEF Lined
<1>7. Corrected(b, r) = IF r \in b.fresh THEN b.base[r] ELSE kv[r]
  <2>1. Corrected(b, r) = IF r \in inBatch /\ r \notin b.fresh
                          THEN b.base[r] - Lag(r) ELSE b.base[r]
    BY <1>3 DEF Corrected, Lag
  <2> QED
    BY <1>1, <1>5, <1>6, <2>1
<1>8. ASSUME status[r] = "live"
      PROVE  /\ Known(b, r) = Count(r)
             /\ r \in Sampled(b) <=> b.promise[r] > 0
             /\ r \in Sampled(b) => Corrected(b, r) + b.sched[r] - b.drafts[r] = Count(r)
  <2>1. b.known[r] = Count(r) + (IF r \in b.fresh THEN 0 ELSE Lag(r))
    BY <1>8 DEF Lined
  <2>2. r \in inBatch => seen[r] = Count(r)
    BY <1>8 DEF EInv, Worker
  <2>3. Known(b, r) = Count(r)
    BY <1>1, <1>3, <1>5, <2>1, <2>2 DEF Known, Least
  <2>4. Corrected(b, r) + b.sched[r] >= Count(r) <=> b.base[r] + b.sched[r] >= b.known[r]
    BY <1>1, <1>6, <1>7, <2>1
  <2>5. r \in Sampled(b) <=> b.promise[r] > 0
    BY <2>3, <2>4 DEF Sampled, Scheduled, PlanSound
  <2>6. b.promise[r] > 0 => Corrected(b, r) + b.sched[r] - b.drafts[r] = Count(r)
    <3>1. b.promise[r] > 0 => b.base[r] + b.sched[r] - b.drafts[r] = b.known[r]
      BY DEF PlanSound
    <3> QED
      BY <1>1, <1>6, <1>7, <2>1, <3>1
  <2> QED
    BY <2>3, <2>5, <2>6
<1> QED
  BY <1>1, <1>7, <1>8

LEMMA LinedFacts ==
  ASSUME EInv, NEW i \in 1..Len(queue), Lined(queue[i]), NEW r \in Requests,
         queue[i].sched[r] > 0
  PROVE  /\ Corrected(queue[i], r) =
              (IF r \in queue[i].fresh THEN queue[i].base[r] ELSE kv[r])
         /\ Corrected(queue[i], r) \in Nat
         /\ status[r] = "live" =>
              /\ Known(queue[i], r) = Count(r)
              /\ r \in Sampled(queue[i]) <=> queue[i].promise[r] > 0
              /\ r \in Sampled(queue[i]) =>
                   Corrected(queue[i], r) + queue[i].sched[r] - queue[i].drafts[r] = Count(r)
<1>1. /\ queue[i].base[r] \in Nat /\ queue[i].sched[r] \in Nat /\ queue[i].known[r] \in Nat
      /\ queue[i].drafts[r] \in Nat /\ queue[i].promise[r] \in Nat
  BY BatchType DEF EInv
<1>2. PlanSound(queue[i], r)
  BY DEF EInv, Plans
<1> QED
  BY <1>1, <1>2, LinedOne

\* What the worker does to batch k: what it got and refused of each request.
Executed(k, got, refused) ==
  LET b == queue[k] IN
  /\ Len(queue') = Len(queue)
  /\ queue'[k].run /\ queue'[k].got = got
  /\ \A r \in Requests :
       /\ b.sched[r] = 0 => got[r] = 0 /\ refused[r] = 0
       /\ got[r] <= b.drafts[r] + 1 /\ refused[r] <= b.drafts[r]
       /\ refused[r] = Refused(queue'[k], r)
       /\ status[r] = "live" =>
            /\ b.promise[r] = refused[r] + got[r]
            /\ got[r] > 0 => queue'[k].pos[r] = Count(r)
            /\ b.sched[r] > 0 => seen'[r] = Count(r) + got[r]
       /\ kv'[r] = IF r \in b.finished THEN 0
                   ELSE IF b.sched[r] > 0 THEN Reach(b, r) - refused[r] ELSE kv[r]
       /\ rejected'[r] = refused[r]
  /\ inBatch' = Scheduled(b)

LEMMA ExecuteFacts ==
  ASSUME EInv, Execute
  PROVE  LET k == NextToRun IN
         /\ \E got \in [Requests -> 0..(NumSpec + 1)], refused \in [Requests -> 0..NumSpec] :
              Executed(k, got, refused)
         /\ queue' \in Seq(Batches)
         /\ \A i \in 1..Len(queue) : i # k => queue'[i] = queue[i]
         /\ queue'[k].sd = queue[k].sd /\ queue'[k].base = queue[k].base
         /\ queue'[k].sched = queue[k].sched /\ queue'[k].drafts = queue[k].drafts
         /\ queue'[k].known = queue[k].known /\ queue'[k].promise = queue[k].promise
         /\ queue'[k].fresh = queue[k].fresh /\ queue'[k].finished = queue[k].finished
         /\ seen' \in [Requests -> Nat] /\ kv' \in [Requests -> Nat]
         /\ rejected' \in [Requests -> 0..NumSpec] /\ inBatch' \subseteq Requests
<1> USE DEF EInv
<1> DEFINE k == NextToRun
           b == queue[k]
<1>0. k \in 1..Len(queue) /\ ~b.run /\ Lined(b)
  BY NextBatch DEF Execute
<1>1. PICK accepted \in [Requests -> 0..NumSpec] :
        LET got == [r \in Requests |-> IF r \in Sampled(b) THEN 1 + accepted[r] ELSE 0]
            refused == [r \in Requests |->
                          IF r \in Sampled(b) THEN b.drafts[r] - accepted[r] ELSE 0]
        IN /\ \A r \in Requests :
                /\ accepted[r] <= b.drafts[r]
                /\ r \notin Sampled(b) => accepted[r] = 0
           /\ queue' = [queue EXCEPT ![k] =
                [b EXCEPT !.run = TRUE, !.got = got,
                          !.pos = [r \in Requests |->
                                     IF r \in Sampled(b) THEN Known(b, r) ELSE 0]]]
           /\ inBatch' = Scheduled(b)
           /\ seen' = [r \in Requests |->
                         IF r \in b.finished THEN 0
                         ELSE IF r \in Scheduled(b) THEN Known(b, r) + got[r]
                         ELSE seen[r]]
           /\ kv' = [r \in Requests |->
                       IF r \in b.finished THEN 0
                       ELSE IF r \in Scheduled(b)
                       THEN Corrected(b, r) + b.sched[r] - refused[r]
                       ELSE kv[r]]
           /\ rejected' = [r \in Requests |->
                             IF r \in Scheduled(b) THEN refused[r] ELSE 0]
  BY DEF Execute
<1> DEFINE got == [r \in Requests |-> IF r \in Sampled(b) THEN 1 + accepted[r] ELSE 0]
           refused == [r \in Requests |->
                         IF r \in Sampled(b) THEN b.drafts[r] - accepted[r] ELSE 0]
           pos == [r \in Requests |-> IF r \in Sampled(b) THEN Known(b, r) ELSE 0]
           nb == [b EXCEPT !.run = TRUE, !.got = got, !.pos = pos]
<1>2. b \in Batches /\ queue \in Seq(Batches) /\ NumSpec \in Nat
  BY <1>0, SizesAssumption DEF TypeOK
<1>3. \A r \in Requests :
        /\ b.drafts[r] \in 0..NumSpec /\ b.sched[r] \in Nat /\ b.known[r] \in Nat
        /\ accepted[r] \in 0..NumSpec /\ accepted[r] <= b.drafts[r]
        /\ b.drafts[r] <= b.sched[r]
        /\ Known(b, r) \in Nat
  <2>1. \A r \in Requests : /\ b.sched[r] \in Nat /\ b.known[r] \in Nat
                            /\ seen[r] \in Nat /\ b.drafts[r] <= b.sched[r]
    BY <1>0, BatchType, CountType DEF Plans, PlanSound
  <2>2. \A r \in Requests : b.drafts[r] \in 0..NumSpec
    BY <1>2 DEF Batches
  <2>3. \A r \in Requests : Known(b, r) \in Nat
    BY <2>1 DEF Known, Least
  <2> QED
    BY <1>1, <2>1, <2>2, <2>3
<1>4. Sampled(b) \subseteq Scheduled(b) /\ \A r \in Requests : r \in Scheduled(b) <=> b.sched[r] > 0
  BY DEF Sampled, Scheduled
<1>5. got \in [Requests -> 0..(NumSpec + 1)] /\ refused \in [Requests -> 0..NumSpec]
  <2>1. \A r \in Requests : 1 + accepted[r] \in 0..(NumSpec + 1) /\ b.drafts[r] - accepted[r] \in 0..NumSpec
    BY <1>2, <1>3
  <2> QED
    BY <1>2, <2>1
<1>6. pos \in [Requests -> Nat]
  BY <1>3
<1>7. /\ nb \in Batches /\ nb.run = TRUE /\ nb.got = got /\ nb.pos = pos
      /\ nb.sd = b.sd /\ nb.base = b.base /\ nb.sched = b.sched /\ nb.drafts = b.drafts
      /\ nb.known = b.known /\ nb.promise = b.promise /\ nb.fresh = b.fresh
      /\ nb.finished = b.finished
  BY <1>2, <1>5, <1>6 DEF Batches
<1>8. /\ queue' \in Seq(Batches) /\ Len(queue') = Len(queue) /\ queue'[k] = nb
      /\ \A i \in 1..Len(queue) : i # k => queue'[i] = queue[i]
  <2>1. queue' = [queue EXCEPT ![k] = nb]
    BY <1>1
  <2> HIDE DEF nb, k
  <2> QED
    BY <1>0, <1>2, <1>7, <2>1, ExceptSeq
<1>9. /\ \A r \in Requests : rejected'[r] = refused[r]
      /\ rejected' = refused
  BY <1>1, <1>4
<1>10. \A r \in Requests : b.sched[r] > 0 => Corrected(b, r) \in Nat
  BY <1>0, LinedFacts
<1>11. \A r \in Requests :
        kv'[r] = IF r \in b.finished THEN 0
                 ELSE IF b.sched[r] > 0 THEN Reach(b, r) - refused[r] ELSE kv[r]
  <2>1. \A r \in Requests :
          kv'[r] = IF r \in b.finished THEN 0
                   ELSE IF b.sched[r] > 0 THEN Corrected(b, r) + b.sched[r] - refused[r]
                   ELSE kv[r]
    BY <1>1, <1>4
  <2>2. \A r \in Requests : b.sched[r] > 0 => Reach(b, r) = Corrected(b, r) + b.sched[r]
    BY DEF Reach
  <2> SUFFICES ASSUME NEW r \in Requests
               PROVE  kv'[r] = IF r \in b.finished THEN 0
                               ELSE IF b.sched[r] > 0 THEN Reach(b, r) - refused[r] ELSE kv[r]
    OBVIOUS
  <2>3. CASE r \notin b.finished /\ b.sched[r] > 0
    <3>1. kv'[r] = Corrected(b, r) + b.sched[r] - refused[r]
      BY <2>1, <2>3
    <3>2. kv'[r] = Reach(b, r) - refused[r]
      <4>1. Reach(b, r) = Corrected(b, r) + b.sched[r]
        BY <2>2, <2>3
      <4>2. Corrected(b, r) \in Nat /\ b.sched[r] \in Nat
        BY <1>3, <1>10, <2>3
      <4>3. refused[r] \in Nat
        BY <1>2, <1>5
      <4> HIDE DEF refused, b, EInv
      <4> QED
        BY <3>1, <4>1, <4>2, <4>3
    <3> HIDE DEF refused, b
    <3> QED
      BY <2>3, <3>2
  <2>4. CASE ~(r \notin b.finished /\ b.sched[r] > 0)
    BY <2>1, <2>4
  <2> QED
    BY <2>3, <2>4
<1>12. kv' \in [Requests -> Nat]
  <2>1. \A r \in Requests : b.sched[r] > 0 => Reach(b, r) - refused[r] \in Nat
    <3> SUFFICES ASSUME NEW r \in Requests, b.sched[r] > 0
                 PROVE  Reach(b, r) - refused[r] \in Nat
      OBVIOUS
    <3>1. Reach(b, r) = Corrected(b, r) + b.sched[r] /\ Corrected(b, r) \in Nat
      BY <1>10 DEF Reach
    <3>2. refused[r] \in Nat /\ refused[r] <= b.drafts[r]
      BY <1>3, <1>5
    <3> HIDE DEF refused
    <3> QED
      BY <1>3, <3>1, <3>2
  <2>2. \A r \in Requests : kv[r] \in Nat
    BY DEF TypeOK
  <2>4. \A r \in Requests : kv'[r] \in Nat
    <3> HIDE DEF EInv, refused, b
    <3> QED
      BY <1>11, <2>1, <2>2
  <2>3. DOMAIN kv' = Requests /\ kv' = [r \in Requests |-> kv'[r]]
    BY <1>1
  <2> QED
    BY <2>4, <2>3
<1>13. seen' \in [Requests -> Nat]
  <2>1. \A r \in Requests : got[r] \in Nat
    BY <1>5
  <2>2. \A r \in Requests : Known(b, r) + got[r] \in Nat /\ seen[r] \in Nat
    BY <1>3, <2>1 DEF TypeOK
  <2> QED
    BY <1>1, <2>2
<1>14. ASSUME NEW r \in Requests
       PROVE  /\ b.sched[r] = 0 => got[r] = 0 /\ refused[r] = 0
              /\ got[r] <= b.drafts[r] + 1 /\ refused[r] <= b.drafts[r]
              /\ refused[r] = Refused(nb, r)
              /\ status[r] = "live" =>
                   /\ b.promise[r] = refused[r] + got[r]
                   /\ got[r] > 0 => nb.pos[r] = Count(r)
                   /\ b.sched[r] > 0 => seen'[r] = Count(r) + got[r]
  <2>1. b.sched[r] = 0 => got[r] = 0 /\ refused[r] = 0
    BY <1>4
  <2>2. got[r] <= b.drafts[r] + 1 /\ refused[r] <= b.drafts[r]
    BY <1>3
  <2>3. PlanSound(b, r)
    BY <1>0 DEF Plans
  <2>4. refused[r] = Refused(nb, r)
    <3>1. Refused(nb, r) = IF b.sd /\ b.drafts[r] > 0 /\ got[r] > 0
                           THEN b.drafts[r] - (got[r] - 1) ELSE 0
      BY <1>7 DEF Refused
    <3>2. b.drafts[r] > 0 => b.sd
      BY <2>3 DEF PlanSound
    <3> HIDE DEF nb
    <3> QED
      BY <1>3, <3>1, <3>2
  <2>5. ASSUME status[r] = "live"
        PROVE  /\ b.promise[r] = refused[r] + got[r]
               /\ got[r] > 0 => pos[r] = Count(r)
               /\ b.sched[r] > 0 => seen'[r] = Count(r) + got[r]
    <3>0. b.promise[r] \in Nat
      BY <1>0, BatchType
    <3>1. CASE b.sched[r] > 0
      <4>1. /\ Known(b, r) = Count(r)
            /\ r \in Sampled(b) <=> b.promise[r] > 0
        BY <1>0, <2>5, <3>1, LinedFacts
      <4>2. b.promise[r] > 0 => b.promise[r] = 1 + b.drafts[r]
        BY <2>3 DEF PlanSound
      <4>3. b.promise[r] = refused[r] + got[r]
        BY <1>3, <3>0, <4>1, <4>2
      <4>4. r \notin b.finished
        BY <2>3, <3>1 DEF PlanSound
      <4>5. seen'[r] = Known(b, r) + got[r]
        BY <1>1, <1>4, <3>1, <4>4
      <4> QED
        BY <4>1, <4>3, <4>5
    <3>2. CASE b.sched[r] = 0
      BY <2>1, <2>3, <3>2 DEF PlanSound
    <3> QED
      BY <1>3, <3>1, <3>2
  <2> HIDE DEF nb, got, refused, pos
  <2> QED
    BY <1>7, <2>1, <2>2, <2>4, <2>5
<1>15. Executed(k, got, refused)
  <2> HIDE DEF nb, got, refused, pos, k
  <2> QED
    BY <1>1, <1>7, <1>8, <1>9, <1>11, <1>14 DEF Executed
<1>16. inBatch' \subseteq Requests
  BY <1>1 DEF Scheduled
<1> HIDE DEF nb, got, refused, pos
<1> QED
  BY <1>5, <1>7, <1>8, <1>9, <1>12, <1>13, <1>15, <1>16

\* The worker's step.
LEMMA ExecuteStep ==
  ASSUME EInv, Execute PROVE EInv'
<1>0. UNCHANGED <<mode, enableSd, pauseState, clearing, pc, status, running, waiting,
                  tokens, computed, placeholders, spec, discard, finishedIds, spent>>
  BY DEF Execute, schedulerVars
<1>1. PICK k \in {1, 2} :
        /\ k = NextToRun /\ k \in 1..Len(queue) /\ ~queue[k].run /\ Lined(queue[k])
        /\ k = 2 => Len(queue) = 2 /\ queue[1].run
  BY NextBatch DEF Execute
<1>2. Len(queue) \in Nat /\ (Len(queue) = 1 \/ Len(queue) = 2)
  <2>1. Len(queue) \in Nat /\ Len(queue) <= 2 /\ Len(queue) >= 1
    BY <1>1 DEF EInv, TypeOK, Shape
  <2>2. \A n \in Nat : n <= 2 /\ n >= 1 => n = 1 \/ n = 2
    OBVIOUS
  <2> QED
    BY <2>1, <2>2
<1>3. PICK got \in [Requests -> 0..(NumSpec + 1)], refused \in [Requests -> 0..NumSpec] :
        Executed(k, got, refused)
  BY <1>1, ExecuteFacts
<1>4. /\ queue' \in Seq(Batches) /\ Len(queue') = Len(queue)
      /\ queue'[k].run /\ queue'[k].got = got
      /\ inBatch' = Scheduled(queue[k])
      /\ seen' \in [Requests -> Nat] /\ kv' \in [Requests -> Nat]
      /\ rejected' \in [Requests -> 0..NumSpec] /\ inBatch' \subseteq Requests
      /\ \A i \in 1..Len(queue) : i # k => queue'[i] = queue[i]
  BY <1>1, <1>3, ExecuteFacts DEF Executed
<1>5. \A i \in 1..Len(queue) :
        /\ queue'[i].sd = queue[i].sd /\ queue'[i].base = queue[i].base
        /\ queue'[i].sched = queue[i].sched /\ queue'[i].drafts = queue[i].drafts
        /\ queue'[i].known = queue[i].known /\ queue'[i].promise = queue[i].promise
        /\ queue'[i].fresh = queue[i].fresh /\ queue'[i].finished = queue[i].finished
  BY <1>1, <1>4, ExecuteFacts
<1>6. \A r \in Requests : got[r] \in Nat /\ refused[r] \in Nat
  BY <1>3, SizesAssumption
<1>7. Len(queue) = 2 => 1 \in 1..Len(queue) /\ 2 \in 1..Len(queue)
  OBVIOUS
<1>8. k = 1 /\ Len(queue) = 2 => ~queue[2].run /\ queue'[2] = queue[2]
  <2>1. queue[2].run /\ Len(queue) = 2 => queue[1].run
    BY DEF EInv, Shape
  <2>2. Len(queue) = 2 /\ k = 1 => queue'[2] = queue[2]
    BY <1>4, <1>7
  <2> QED
    BY <1>1, <2>1, <2>2
<1>9. k = 2 => queue'[1] = queue[1] /\ queue[1].run /\ Len(queue) = 2
  BY <1>1, <1>4, <1>7
<1>10. /\ Len(queue) \in 1..Len(queue) /\ 1 \in 1..Len(queue)
       /\ \A i \in 1..Len(queue) : i = 1 \/ (i = 2 /\ Len(queue) = 2)
  <2>1. \A n \in Nat : n = 1 \/ n = 2 =>
          n \in 1..n /\ 1 \in 1..n /\ \A i \in 1..n : i = 1 \/ (i = 2 /\ n = 2)
    OBVIOUS
  <2> QED
    BY <1>2, <2>1
<1>11. \A r \in Requests :
        /\ k = 1 => /\ Took(1, r) = 0 /\ Took(2, r) = 0 /\ Took(1, r)' = got[r] /\ Took(2, r)' = 0
                    /\ Due(1, r) = 0 /\ Due(2, r) = 0 /\ Due(1, r)' = refused[r] /\ Due(2, r)' = 0
        /\ k = 2 => /\ Took(2, r) = 0 /\ Took(1, r)' = Took(1, r) /\ Took(2, r)' = got[r]
                    /\ Took(1, r) = queue[1].got[r]
                    /\ Due(2, r) = 0 /\ Due(1, r)' = Due(1, r) /\ Due(2, r)' = refused[r]
  <2> SUFFICES ASSUME NEW r \in Requests
               PROVE  /\ k = 1 => /\ Took(1, r) = 0 /\ Took(2, r) = 0
                                  /\ Took(1, r)' = got[r] /\ Took(2, r)' = 0
                                  /\ Due(1, r) = 0 /\ Due(2, r) = 0
                                  /\ Due(1, r)' = refused[r] /\ Due(2, r)' = 0
                      /\ k = 2 => /\ Took(2, r) = 0 /\ Took(1, r)' = Took(1, r)
                                  /\ Took(2, r)' = got[r] /\ Took(1, r) = queue[1].got[r]
                                  /\ Due(2, r) = 0 /\ Due(1, r)' = Due(1, r)
                                  /\ Due(2, r)' = refused[r]
    OBVIOUS
  <2>1. Refused(queue[k], r)' = refused[r] /\ got[r] = queue'[k].got[r]
    <3>1. refused[r] = Refused(queue'[k], r)
      BY <1>3 DEF Executed
    <3> QED
      BY <1>4, <3>1 DEF Refused
  <2>2. CASE k = 1
    BY <1>1, <1>2, <1>4, <1>8, <2>1, <2>2 DEF Took, Due
  <2>3. CASE k = 2
    BY <1>1, <1>2, <1>4, <1>9, <2>1, <2>3 DEF Took, Due, Refused
  <2> QED
    BY <2>2, <2>3
<1>12. \A r \in Requests : Count(r) \in Nat /\ Count(r)' = Count(r) + got[r]
  <2>1. \A r \in Requests : /\ tokens[r] \in Nat /\ Took(1, r) \in Nat
                            /\ Took(2, r) \in Nat /\ Count(r) \in Nat
    BY CountType, TookType DEF EInv
  <2> QED
    BY <1>0, <1>6, <1>11, <2>1 DEF Count
<1>13. TypeOK'
  BY <1>0, <1>4 DEF EInv, TypeOK, QueueSize
<1>14. Shape'
  <2>1. Len(queue) = 2 => queue'[1].run
    BY <1>1, <1>4, <1>9
  <2> QED
    BY <1>0, <1>4, <2>1 DEF EInv, Shape
<1>15. Queues'
  <2>2. queue'[Len(queue')].sched = queue[Len(queue)].sched /\ queue'[1].sched = queue[1].sched
    BY <1>4, <1>5, <1>10
  <2> QED
    BY <1>0, <1>4, <2>2 DEF EInv, Queues
<1>16. Told'
  <2>1. \A i \in 1..Len(queue) : queue'[i].sched = queue[i].sched /\ queue'[i].finished = queue[i].finished
    BY <1>5
  <2>2. \A r \in Requests : status[r] = "none" => r \notin inBatch'
    BY <1>1, <1>4 DEF EInv, Told, Scheduled
  <2> QED
    BY <1>0, <1>4, <2>1, <2>2 DEF EInv, Told
<1>17. Plans'
  <2> SUFFICES ASSUME NEW i \in 1..Len(queue), NEW r \in Requests
               PROVE  PlanSound(queue'[i], r)
    BY <1>4 DEF Plans, PlanSound
  <2>1. PlanSound(queue[i], r)
    BY DEF EInv, Plans
  <2>2. CASE i # k
    BY <1>4, <2>1, <2>2
  <2>3. CASE i = k
    <3>1. /\ queue[k].sched[r] = 0 => got[r] = 0
          /\ got[r] <= queue[k].drafts[r] + 1
      BY <1>3 DEF Executed
    <3> QED
      BY <1>4, <1>5, <2>1, <2>3, <3>1 DEF PlanSound
  <2> QED
    BY <2>2, <2>3
<1>18. Worker'
  <2>1. \A r \in Requests : r \notin inBatch' => rejected'[r] = 0
    <3> SUFFICES ASSUME NEW r \in Requests, r \notin inBatch' PROVE rejected'[r] = 0
      OBVIOUS
    <3>1. rejected'[r] = refused[r] /\ (queue[k].sched[r] = 0 => refused[r] = 0)
      BY <1>3 DEF Executed
    <3>2. queue[k].sched[r] \in Nat /\ ~(queue[k].sched[r] > 0)
      BY <1>1, <1>4, BatchType DEF EInv, Scheduled
    <3> QED
      BY <3>1, <3>2
  <2>2. \A r \in inBatch' : status[r] = "live" => seen'[r] = Count(r)'
    <3>1. \A r \in inBatch' : r \in Requests /\ queue[k].sched[r] > 0
      BY <1>4 DEF Scheduled
    <3> QED
      BY <1>3, <1>12, <3>1 DEF Executed
  <2>3. ASSUME NEW i \in 1..Len(queue), queue'[i].run, i < Len(queue) => ~queue'[i + 1].run
        PROVE  /\ inBatch' = Scheduled(queue'[i])
               /\ \A r \in Requests : rejected'[r] = Refused(queue'[i], r)
    <3>1. i = k
      <4>1. i = 1 \/ (i = 2 /\ Len(queue) = 2)
        BY <1>10
      <4>2. CASE k = 1
        BY <1>2, <1>4, <1>8, <2>3, <4>1, <4>2
      <4>3. CASE k = 2
        BY <1>2, <1>4, <1>9, <2>3, <4>1, <4>3
      <4> QED
        BY <4>2, <4>3
    <3>2. Scheduled(queue'[i]) = Scheduled(queue[k])
      BY <1>5, <3>1 DEF Scheduled
    <3> QED
      BY <1>3, <1>4, <3>1, <3>2 DEF Executed
  <2>4. Len(queue') # 0
    BY <1>2, <1>4
  <2> QED
    BY <1>0, <1>4, <2>1, <2>2, <2>3, <2>4 DEF Worker, Refused, Scheduled
<1>19. Ran'
  <2> SUFFICES ASSUME NEW i \in 1..Len(queue), queue'[i].run, NEW r \in Requests,
                      status[r] = "live"
               PROVE  /\ queue'[i].promise[r] = Refused(queue'[i], r) + queue'[i].got[r]
                      /\ queue'[i].got[r] > 0 =>
                           queue'[i].pos[r] = tokens[r] + (IF i = 2 THEN queue'[1].got[r] ELSE 0)
    BY <1>0, <1>4 DEF Ran, Live, Refused
  <2>1. CASE i = k
    <3>1. /\ queue[k].promise[r] = refused[r] + got[r] /\ refused[r] = Refused(queue'[k], r)
          /\ got[r] > 0 => queue'[k].pos[r] = Count(r)
      BY <1>3 DEF Executed
    <3>2. tokens[r] \in Nat /\ Took(1, r) \in Nat
      BY CountType, TookType DEF EInv
    <3>3. Count(r) = tokens[r] + (IF k = 2 THEN queue'[1].got[r] ELSE 0)
      BY <1>9, <1>11, <3>2 DEF Count
    <3> QED
      BY <1>4, <1>5, <2>1, <3>1, <3>3
  <2>2. CASE i # k
    <3>1. i = 1 \/ (i = 2 /\ Len(queue) = 2)
      BY <1>10
    <3>2. i = 1 /\ k = 2
      BY <1>1, <1>8, <2>2, <3>1
    <3> QED
      BY <1>0, <1>9, <3>2 DEF EInv, Ran, Live
  <2> QED
    BY <2>1, <2>2
<1>20. ASSUME NEW r \in Requests, r \notin queue[k].finished
       PROVE  kv'[r] \in Nat /\ kv'[r] + refused[r] = Reach(queue[k], r)
  <2>1. kv'[r] \in Nat /\ refused[r] \in Nat /\ kv[r] \in Nat /\ queue[k].sched[r] \in Nat
    BY <1>1, <1>4, <1>6, BatchType, CountType DEF EInv
  <2>2. CASE queue[k].sched[r] > 0
    <3>1. kv'[r] = Reach(queue[k], r) - refused[r]
      BY <1>3, <1>20, <2>2 DEF Executed
    <3>2. Reach(queue[k], r) = Corrected(queue[k], r) + queue[k].sched[r]
      BY <2>2 DEF Reach
    <3>3. Corrected(queue[k], r) \in Nat
      BY <1>1, <2>2, LinedFacts
    <3> QED
      BY <2>1, <3>1, <3>2, <3>3
  <2>3. CASE queue[k].sched[r] = 0
    <3>1. kv'[r] = kv[r] /\ refused[r] = 0
      BY <1>3, <1>20, <2>3 DEF Executed
    <3> QED
      BY <2>1, <2>3, <3>1 DEF Reach
  <2> QED
    BY <2>1, <2>2, <2>3
<1>21. \A r \in Requests : /\ rejected'[r] = refused[r]
                           /\ queue[k].sched[r] = 0 => got[r] = 0 /\ refused[r] = 0
                           /\ status[r] = "live" => queue[k].promise[r] = refused[r] + got[r]
  BY <1>3 DEF Executed
<1>22. Len(queue) = 2 => mode = "async" /\ mode' = "async"
  BY <1>0 DEF EInv, Shape, TypeOK, Modes
<1>23. ASSUME k = 1, Len(queue) = 2 PROVE Follows(queue[1], queue[2])
  BY <1>1, <1>23 DEF EInv, Line
<1>24. Line'
  <2>1. k = 1 => queue'[1].run
    BY <1>4
  <2>2. ASSUME k = 1, Len(queue) = 2 PROVE Lined(queue[2])'
    <3>0. queue'[2] = queue[2]
      BY <1>8, <2>2
    <3> SUFFICES ASSUME NEW r \in Requests, queue[2].sched[r] > 0
                 PROVE  /\ r \notin queue[2].fresh => queue[2].base[r] = kv'[r] + refused[r]
                        /\ status[r] = "live" => queue[2].known[r] =
                             Count(r)' + (IF r \in queue[2].fresh THEN 0 ELSE refused[r])
      BY <1>0, <1>21, <1>22, <2>2, <3>0 DEF Lined, Lag
    <3>1. /\ r \notin queue[2].fresh => queue[2].base[r] = Reach(queue[1], r)
          /\ status[r] = "live" => queue[2].known[r] = tokens[r] + queue[1].promise[r]
          /\ r \in queue[2].fresh => queue[1].sched[r] = 0
          /\ r \notin queue[1].finished
      BY <1>23, <2>2 DEF Follows
    <3>2. r \notin queue[2].fresh => queue[2].base[r] = kv'[r] + refused[r]
      BY <1>20, <2>2, <3>1
    <3>3. ASSUME status[r] = "live"
          PROVE  queue[2].known[r] =
                   Count(r)' + (IF r \in queue[2].fresh THEN 0 ELSE refused[r])
      <4>1. Count(r)' = tokens[r] + got[r]
        <5>1. tokens[r] \in Nat /\ Took(1, r) = 0 /\ Took(2, r) = 0
          BY <1>11, <2>2, CountType DEF EInv
        <5> QED
          BY <1>6, <1>12, <5>1 DEF Count
      <4>2. queue[1].promise[r] = refused[r] + got[r]
        BY <1>21, <2>2, <3>3
      <4>3. r \in queue[2].fresh => refused[r] = 0
        BY <1>21, <2>2, <3>1
      <4>4. tokens[r] \in Nat /\ got[r] \in Nat /\ refused[r] \in Nat
        BY <1>6, CountType DEF EInv
      <4> QED
        BY <3>1, <3>3, <4>1, <4>2, <4>3, <4>4
    <3> QED
      BY <3>2, <3>3
  <2>3. ASSUME k = 2 PROVE queue'[1].run /\ queue'[2].run
    BY <1>4, <1>9, <2>3
  <2> QED
    BY <1>1, <1>4, <2>1, <2>2, <2>3 DEF Line
<1>25. Computed'
  <2> SUFFICES ASSUME NEW r \in Range(running)
               PROVE  /\ computed[r] = (Due(1, r) + Due(2, r) + Ahead(r))'
                      /\ computed[r] <= tokens[r] + Promised(1, r)' + Promised(2, r)'
    BY <1>0 DEF Computed
  <2>1. r \in Requests /\ status[r] = "live"
    BY DEF EInv, TypeOK, Range, Queues
  <2>2. /\ computed[r] = Due(1, r) + Due(2, r) + Ahead(r)
        /\ computed[r] <= tokens[r] + Promised(1, r) + Promised(2, r)
    BY DEF EInv, Computed
  <2>3. Promised(1, r)' = Promised(1, r) /\ Promised(2, r)' = Promised(2, r)
    BY <1>2, <1>4, <1>5 DEF Promised
  <2>4. r \notin queue[k].finished
    BY <1>1, <2>1 DEF EInv, Told
  <2>5. /\ kv'[r] \in Nat /\ refused[r] \in Nat
        /\ kv'[r] + refused[r] = Reach(queue[k], r)
    BY <1>6, <1>20, <2>1, <2>4
  <2>6. Ahead(r)' \in Int /\ Ahead(r)' + refused[r] = Ahead(r)
    <3>1. CASE k = 2
      <4>1. Ahead(r) = Reach(queue[2], r)
        BY <1>1, <3>1 DEF Ahead
      <4>2. Ahead(r)' = kv'[r]
        BY <1>4, <1>9, <3>1 DEF Ahead
      <4> QED
        BY <2>5, <3>1, <4>1, <4>2
    <3>2. CASE k = 1 /\ Len(queue) = 1
      <4>1. Ahead(r) = Reach(queue[1], r)
        BY <1>1, <3>2 DEF Ahead
      <4>2. Ahead(r)' = kv'[r]
        BY <1>4, <3>2 DEF Ahead
      <4> QED
        BY <2>5, <3>2, <4>1, <4>2
    <3>3. CASE k = 1 /\ Len(queue) = 2
      <4>1. Ahead(r) = IF queue[2].sched[r] > 0 THEN queue[2].base[r] + queue[2].sched[r]
                       ELSE Reach(queue[1], r)
        BY <1>1, <1>8, <3>3 DEF Ahead
      <4>2. Ahead(r)' = Reach(queue[2], r)'
        BY <1>4, <1>8, <3>3 DEF Ahead
      <4>3. CASE queue[2].sched[r] > 0
        <5>1. Ahead(r)' = Corrected(queue[2], r)' + queue[2].sched[r]
          BY <1>8, <3>3, <4>2, <4>3 DEF Reach
        <5>2. queue[2].base[r] \in Nat /\ queue[2].sched[r] \in Nat
          BY <1>7, <2>1, <3>3, BatchType DEF EInv
        <5>3. Corrected(queue[2], r)' = queue[2].base[r] - refused[r]
          <6>1. r \notin queue[2].finished
            BY <1>7, <2>1, <3>3 DEF EInv, Told
          <6>2. r \in Stays(queue[2])' <=> r \in inBatch' /\ r \notin queue[2].fresh
            BY <1>8, <2>1, <3>3, <4>3, <6>1 DEF Stays, Scheduled
          <6>3. r \in queue[2].fresh => queue[1].sched[r] = 0
            BY <1>23, <2>1, <3>3, <4>3 DEF Follows
          <6>4. r \notin inBatch' => queue[1].sched[r] = 0
            <7>1. queue[1].sched[r] \in Nat
              BY <1>7, <2>1, <3>3, BatchType DEF EInv
            <7> QED
              BY <1>4, <2>1, <3>3, <7>1 DEF Scheduled
          <6>5. r \notin Stays(queue[2])' => refused[r] = 0
            BY <1>21, <2>1, <3>3, <6>2, <6>3, <6>4
          <6>6. rejected'[r] = refused[r] /\ mode' = "async" /\ queue'[2] = queue[2]
            BY <1>8, <1>21, <1>22, <2>1, <3>3
          <6>7. CASE r \in Stays(queue[2])'
            BY <6>6, <6>7 DEF Corrected
          <6>8. CASE r \notin Stays(queue[2])'
            <7>1. Corrected(queue[2], r)' = queue[2].base[r]
              BY <6>6, <6>8 DEF Corrected
            <7> QED
              BY <5>2, <6>5, <6>8, <7>1
          <6> QED
            BY <6>7, <6>8
        <5> QED
          BY <2>5, <4>1, <4>3, <5>1, <5>2, <5>3
      <4>4. CASE ~(queue[2].sched[r] > 0)
        <5>1. Ahead(r)' = kv'[r]
          BY <1>8, <3>3, <4>2, <4>4 DEF Reach
        <5> QED
          BY <2>5, <3>3, <4>1, <4>4, <5>1
      <4> QED
        BY <4>3, <4>4
    <3> QED
      BY <1>1, <1>2, <3>1, <3>2, <3>3
  <2>7. Due(1, r)' + Due(2, r)' = Due(1, r) + Due(2, r) + refused[r]
    <3>1. Due(1, r) \in Int
      BY <2>1, DueType DEF EInv
    <3> QED
      BY <1>1, <1>11, <2>1, <2>5, <3>1
  <2>8. Due(1, r) \in Int /\ Due(2, r) \in Int /\ Due(1, r)' \in Int /\ Due(2, r)' \in Int
    <3>1. Due(1, r) \in Int
      BY <2>1, DueType DEF EInv
    <3> QED
      BY <1>1, <1>11, <2>1, <2>5, <3>1
  <2> QED
    BY <2>2, <2>3, <2>5, <2>6, <2>7, <2>8
<1>26. Placeholders'
  <2>1. \A r \in Requests :
          Promised(1, r)' = Promised(1, r) /\ Promised(2, r)' = Promised(2, r)
    BY <1>2, <1>4, <1>5 DEF Promised
  <2> QED
    BY <1>0, <2>1 DEF EInv, Placeholders
<1> QED
  BY <1>13, <1>14, <1>15, <1>16, <1>17, <1>18, <1>19, <1>24, <1>25, <1>26 DEF EInv
-----------------------------------------------------------------------------
(* update_from_output().                                                   *)

\* What processing the oldest batch does: a live request that goes on takes
\* all its tokens and is corrected for all its rejected drafts.
Processed(take, stopped) ==
  /\ stopped \subseteq Live
  /\ running' \in Without(running, stopped) /\ waiting' \in Without(waiting, stopped)
  /\ status' = [r \in Requests |-> IF r \in stopped THEN "finished" ELSE status[r]]
  /\ finishedIds' = finishedIds \cup stopped
  /\ discard' \subseteq discard
  /\ tokens' = [r \in Requests |-> tokens[r] + take[r]]
  /\ computed' = [r \in Requests |-> computed'[r]]
  /\ placeholders' = [r \in Requests |-> placeholders'[r]]
  /\ spec' \in [Requests -> 0..NumSpec]
  /\ \A r \in Requests :
       /\ tokens[r] + take[r] <= TokenLimit
       /\ status[r] # "live" => take[r] = 0
       /\ status[r] = "live" /\ r \notin stopped => take[r] = queue[1].got[r]
       /\ r \in stopped => take[r] > 0
       /\ take[r] > 0 /\ tokens[r] + take[r] = TokenLimit => r \in stopped
       /\ r \in stopped => computed'[r] = 0 /\ placeholders'[r] = 0
       /\ r \notin stopped =>
            LET n == IF status[r] = "live" THEN Refused(queue[1], r) ELSE 0 IN
            /\ computed'[r] = Unwind(computed[r], n)
            /\ placeholders'[r] = Unwind(placeholders[r], n)
                                    - IF mode = "async" THEN take[r] ELSE 0

LEMMA ProcessFacts ==
  ASSUME EInv, Process
  PROVE  \E take \in [Requests -> Nat], stopped \in SUBSET Requests : Processed(take, stopped)
<1> DEFINE b == Head(queue)
           served == {r \in Live : b.got[r] > 0}
           swallowed == IF mode = "async" THEN served \cap discard ELSE {}
           refused == [r \in Requests |-> IF r \in served THEN Refused(b, r) ELSE 0]
           appended == served \ swallowed
<1>1. PICK take \in [Requests -> 0..(NumSpec + 1)], eos \in SUBSET served,
           drafts \in [Requests -> 0..NumSpec] :
        LET stopped == {r \in appended : r \in eos \/ tokens[r] + take[r] >= TokenLimit}
        IN /\ eos \subseteq appended
           /\ \A r \in Requests :
                IF r \in appended
                THEN /\ take[r] \in 1..Room(b, r)
                     /\ take[r] < Room(b, r) => r \in eos
                ELSE take[r] = 0
           /\ \A r \in Requests : drafts[r] > 0 =>
                /\ mode = "sync" /\ b.sd /\ enableSd
                /\ r \in Live \ stopped /\ b.promise[r] > 0
           /\ tokens' = [r \in Requests |-> tokens[r] + take[r]]
           /\ running' \in Without(running, stopped)
           /\ waiting' \in Without(waiting, stopped)
           /\ Free(stopped,
                   [r \in Requests |-> Unwind(computed[r], refused[r])],
                   [r \in Requests |-> Unwind(placeholders[r], refused[r])
                                        - IF mode = "async" THEN take[r] ELSE 0],
                   [r \in Requests |-> IF drafts[r] > 0 THEN drafts[r] ELSE spec[r]],
                   discard \ swallowed)
  BY DEF Process
<1> DEFINE stopped == {r \in appended : r \in eos \/ tokens[r] + take[r] >= TokenLimit}
<1>2. b = queue[1] /\ 1 \in 1..Len(queue)
  <2>1. queue \in Seq(Batches) /\ queue # <<>>
    BY DEF EInv, TypeOK, Process
  <2> QED
    BY <2>1
<1>3. swallowed = {} /\ appended = served
  BY DEF EInv, Shape
<1>4. \A r \in Requests : b.got[r] \in Nat /\ tokens[r] \in Nat /\ TokenLimit \in Nat
                          /\ tokens[r] <= TokenLimit
  BY <1>2, BatchType, CountType DEF EInv
<1>5. take \in [Requests -> Nat] /\ \A r \in Requests : take[r] \in Nat
  BY SizesAssumption
<1>6. stopped \subseteq Live /\ stopped \in SUBSET Requests /\ served \subseteq Live
  BY DEF Live
<1>7. ASSUME NEW r \in Requests
      PROVE  /\ tokens[r] + take[r] <= TokenLimit
             /\ status[r] # "live" => take[r] = 0
             /\ status[r] = "live" /\ r \notin stopped => take[r] = b.got[r]
             /\ r \in stopped => take[r] > 0
             /\ take[r] > 0 /\ tokens[r] + take[r] = TokenLimit => r \in stopped
  <2>1. IF r \in served
        THEN /\ take[r] \in 1..Room(b, r)
             /\ take[r] < Room(b, r) => r \in eos
        ELSE take[r] = 0
    BY <1>1, <1>3
  <2>2. /\ Room(b, r) <= TokenLimit - tokens[r] /\ Room(b, r) \in Int
        /\ Room(b, r) = b.got[r] \/ Room(b, r) = TokenLimit - tokens[r]
    BY <1>4 DEF Room, Least
  <2>3. r \in stopped <=> r \in served /\ (r \in eos \/ tokens[r] + take[r] >= TokenLimit)
    BY <1>3
  <2>4. r \in served <=> status[r] = "live" /\ b.got[r] > 0
    BY DEF Live
  <2> HIDE DEF served, stopped, b
  <2>5. CASE r \in served
    <3>1. take[r] \in Nat /\ take[r] <= Room(b, r) /\ (take[r] < Room(b, r) => r \in eos)
      BY <2>1, <2>2, <2>5, <1>5
    <3>2. tokens[r] + take[r] <= TokenLimit
      BY <1>4, <2>2, <3>1
    <3>3. r \notin stopped => take[r] = Room(b, r) /\ ~(tokens[r] + take[r] >= TokenLimit)
      BY <2>2, <2>3, <2>5, <3>1
    <3>4. r \notin stopped => take[r] = b.got[r]
      BY <1>4, <2>2, <3>1, <3>3
    <3>5. take[r] > 0
      BY <2>1, <2>2, <2>5
    <3>6. tokens[r] + take[r] = TokenLimit => r \in stopped
      BY <1>4, <2>3, <2>5
    <3> QED
      BY <2>4, <2>5, <3>2, <3>4, <3>5, <3>6
  <2>6. CASE r \notin served
    <3>1. take[r] = 0
      BY <2>1, <2>6
    <3> QED
      BY <1>4, <2>3, <2>4, <2>6, <3>1
  <2> QED
    BY <2>5, <2>6
<1>8. \A r \in Requests : refused[r] = IF status[r] = "live" THEN Refused(b, r) ELSE 0
  BY <1>4 DEF Live, Refused
<1>9. /\ status' = [r \in Requests |-> IF r \in stopped THEN "finished" ELSE status[r]]
      /\ finishedIds' = finishedIds \cup stopped
      /\ computed' = [r \in Requests |-> IF r \in stopped THEN 0
                                         ELSE Unwind(computed[r], refused[r])]
      /\ placeholders' = [r \in Requests |-> IF r \in stopped THEN 0
                            ELSE Unwind(placeholders[r], refused[r])
                                  - IF mode = "async" THEN take[r] ELSE 0]
      /\ spec' = [r \in Requests |-> IF r \in stopped THEN 0
                                     ELSE IF drafts[r] > 0 THEN drafts[r] ELSE spec[r]]
      /\ discard' = (discard \ swallowed) \ stopped
  <2> HIDE DEF served, refused, swallowed, b
  <2> QED
    BY <1>1 DEF Free
<1>10. spec' \in [Requests -> 0..NumSpec]
  <2>1. \A r \in Requests : drafts[r] \in 0..NumSpec /\ spec[r] \in 0..NumSpec /\ 0 \in 0..NumSpec
    BY SizesAssumption DEF EInv, TypeOK
  <2> HIDE DEF stopped
  <2> QED
    BY <1>9, <2>1
<1>11. Processed(take, stopped)
  <2>1. tokens' = [r \in Requests |-> tokens[r] + take[r]]
    BY <1>1
  <2>2. running' \in Without(running, stopped) /\ waiting' \in Without(waiting, stopped)
    BY <1>1
  <2> HIDE DEF served, refused, swallowed, stopped, b
  <2> QED
    BY <1>2, <1>6, <1>7, <1>8, <1>9, <1>10, <2>1, <2>2 DEF Processed
<1> QED
  BY <1>5, <1>6, <1>11

\* No more drafts are rejected than there were, and a position that is ahead
\* of the worker's is still one.
LEMMA AheadType ==
  ASSUME EInv, Len(queue) >= 1, queue[1].run, NEW r \in Requests
  PROVE  /\ Due(1, r) = Refused(queue[1], r)
         /\ Due(1, r) \in Nat /\ Due(2, r) \in Nat /\ Ahead(r) \in Nat
<1>0. Len(queue) \in Nat /\ (Len(queue) = 1 \/ Len(queue) = 2)
  <2>1. Len(queue) \in Nat /\ Len(queue) <= 2 /\ Len(queue) >= 1
    BY DEF EInv, TypeOK, Shape
  <2>2. \A n \in Nat : n <= 2 /\ n >= 1 => n = 1 \/ n = 2
    OBVIOUS
  <2> QED
    BY <2>1, <2>2
<1>1. ASSUME NEW i \in 1..Len(queue) PROVE Refused(queue[i], r) \in Nat
  <2>1. /\ queue[i].drafts[r] \in Nat /\ queue[i].got[r] \in Nat
        /\ queue[i].got[r] <= queue[i].drafts[r] + 1
    BY BatchType DEF EInv, Plans, PlanSound
  <2> QED
    BY <2>1 DEF Refused
<1>2. Due(1, r) = Refused(queue[1], r) /\ Due(1, r) \in Nat /\ Due(2, r) \in Nat
  <2>0. \A n : n = 1 \/ n = 2 => 1 \in 1..n /\ (n = 2 => 2 \in 1..n)
    OBVIOUS
  <2>1. 1 \in 1..Len(queue) /\ (Len(queue) = 2 => 2 \in 1..Len(queue))
    BY <1>0, <2>0
  <2>2. Due(2, r) \in Nat
    BY <1>0, <1>1, <2>1 DEF Due
  <2> QED
    BY <1>0, <1>1, <2>1, <2>2 DEF Due
<1>3. Ahead(r) \in Nat
  <2>1. kv[r] \in Nat
    BY CountType DEF EInv
  <2>2. CASE Len(queue) = 2 /\ ~queue[2].run
    <3>1. Ahead(r) = IF queue[2].sched[r] > 0
                     THEN Corrected(queue[2], r) + queue[2].sched[r] ELSE kv[r]
      BY <2>2 DEF Ahead, Reach
    <3>2. Lined(queue[2]) /\ 2 \in 1..Len(queue)
      BY <2>2 DEF EInv, Line
    <3>3. queue[2].sched[r] > 0 => Corrected(queue[2], r) \in Nat
      BY <3>2, LinedFacts
    <3>4. queue[2].sched[r] \in Nat
      BY <3>2, BatchType DEF EInv
    <3> QED
      BY <2>1, <3>1, <3>3, <3>4
  <2>3. CASE ~(Len(queue) = 2 /\ ~queue[2].run)
    <3>1. Ahead(r) = kv[r]
      BY <2>3 DEF Ahead
    <3> QED
      BY <2>1, <3>1
  <2> QED
    BY <2>2, <2>3
<1> QED
  BY <1>2, <1>3

\* The engine core takes the result of the oldest batch.
LEMMA ProcessStep ==
  ASSUME EInv, Process PROVE EInv'
<1>0. UNCHANGED <<mode, enableSd, pauseState, clearing, inBatch, seen, kv, rejected, spent>>
  BY DEF Process, workerVars
<1>1. pc = "wait" /\ pc' = "idle" /\ queue[1].run
  <2>1. queue \in Seq(Batches) /\ queue # <<>>
    BY DEF EInv, TypeOK, Process
  <2>2. queue[1] = Head(queue)
    BY <2>1
  <2> QED
    BY <2>2 DEF Process
<1>2. /\ Len(queue) = 1 \/ Len(queue) = 2
      /\ Len(queue) = 1 => Len(queue') = 0
      /\ Len(queue) = 2 => Len(queue') = 1 /\ queue'[1] = queue[2]
      /\ queue' \in Seq(Batches) /\ 1 \in 1..Len(queue)
      /\ Len(queue) = 2 => 2 \in 1..Len(queue)
  <2>1. queue \in Seq(Batches) /\ queue # <<>> /\ Len(queue) \in Nat /\ Len(queue) <= 2
    BY DEF EInv, TypeOK, Process, Shape
  <2>2. \A n \in Nat : n <= 2 => n = 0 \/ n = 1 \/ n = 2
    OBVIOUS
  <2>6. Len(queue) # 0
    BY <2>1, EmptySeq
  <2>3. Len(queue) = 1 \/ Len(queue) = 2
    BY <2>1, <2>2, <2>6
  <2>4. /\ Tail(queue) \in Seq(Batches) /\ Len(Tail(queue)) = Len(queue) - 1
        /\ \A i \in 1..Len(Tail(queue)) : Tail(queue)[i] = queue[i + 1]
    BY <2>1, HeadTailProperties
  <2>5. Len(queue) = 2 => Tail(queue)[1] = queue[2]
    <3>1. Len(queue) = 2 => 1 \in 1..Len(Tail(queue))
      BY <2>4
    <3>2. 1 + 1 = 2
      OBVIOUS
    <3> QED
      BY <2>4, <3>1, <3>2
  <2>7. 1 \in 1..Len(queue) /\ (Len(queue) = 2 => 2 \in 1..Len(queue))
    <3>1. \A n \in Nat : n # 0 => 1 \in 1..n
      OBVIOUS
    <3> QED
      BY <2>1, <2>6, <3>1
  <2>8. (Len(queue) = 1 => Len(Tail(queue)) = 0) /\ (Len(queue) = 2 => Len(Tail(queue)) = 1)
    BY <2>4
  <2>9. queue' = Tail(queue)
    BY DEF Process
  <2> QED
    BY <2>3, <2>4, <2>5, <2>7, <2>8, <2>9
<1>29. Len(queue') \in Nat /\ Len(queue') <= 1 /\ Len(queue') # 2
  <2>1. Len(queue') \in Nat
    BY <1>2
  <2>2. Len(queue') = 0 \/ Len(queue') = 1
    BY <1>2
  <2>3. \A n \in Nat : n = 0 \/ n = 1 => n <= 1 /\ n # 2
    OBVIOUS
  <2> QED
    BY <2>1, <2>2, <2>3
<1>3. PICK take \in [Requests -> Nat], stopped \in SUBSET Requests : Processed(take, stopped)
  BY ProcessFacts
<1>4. /\ stopped \subseteq Live
      /\ running' \in Without(running, stopped) /\ waiting' \in Without(waiting, stopped)
      /\ status' = [r \in Requests |-> IF r \in stopped THEN "finished" ELSE status[r]]
      /\ finishedIds' = finishedIds \cup stopped
      /\ discard' \subseteq discard
      /\ tokens' = [r \in Requests |-> tokens[r] + take[r]]
      /\ computed' = [r \in Requests |-> computed'[r]]
  /\ placeholders' = [r \in Requests |-> placeholders'[r]]
      /\ spec' \in [Requests -> 0..NumSpec]
  BY <1>3 DEF Processed
<1>5. /\ running' \in Seq(Requests) /\ waiting' \in Seq(Requests)
      /\ \A r \in Range(running') : r \in Range(running) /\ r \notin stopped
      /\ \A r \in Range(waiting') : r \in Range(waiting) /\ r \notin stopped
      /\ NoRepeats(running') /\ NoRepeats(waiting')
  <2>1. running \in Seq(Requests) /\ waiting \in Seq(Requests)
    BY DEF EInv, TypeOK
  <2> QED
    BY <1>4, <2>1, WithoutSound DEF EInv, Queues
<1>6. /\ \A r \in Range(running) \cup Range(waiting) : r \in Requests
      /\ \A r \in Range(running) : r \notin stopped => r \in Range(running')
  <2>1. Range(running') = Range(running) \ stopped
    BY <1>4 DEF Without
  <2>2. \A r \in Range(running) \cup Range(waiting) : r \in Requests
    <3>1. running \in Seq(Requests) /\ waiting \in Seq(Requests)
      BY DEF EInv, TypeOK
    <3> QED
      BY <3>1 DEF Range
  <2> QED
    BY <2>1, <2>2
<1>7. \A r \in Requests : /\ status'[r] = "live" => status[r] = "live" /\ r \notin stopped
                          /\ status'[r] = "none" <=> status[r] = "none"
                          /\ status[r] = "finished" => status'[r] = "finished"
  BY <1>4 DEF Live
<1>8. \A r \in Requests : status'[r] = "live" => take[r] = queue[1].got[r]
  BY <1>3, <1>7 DEF Processed
<1>9. \A r \in Requests :
        /\ Due(1, r) = Refused(queue[1], r)
        /\ Due(1, r) \in Nat /\ Due(2, r) \in Nat /\ Ahead(r) \in Nat
  BY <1>1, <1>2, AheadType
<1>10. \A r \in Requests :
         /\ tokens[r] \in Nat /\ computed[r] \in Nat /\ placeholders[r] \in Nat
         /\ take[r] \in Nat /\ Took(2, r) \in Nat
         /\ queue[1].got[r] \in Nat /\ queue[1].promise[r] \in Nat
  <2> QED
    BY <1>2, CountType, TookType, BatchType DEF EInv
<1>11. \A r \in Requests :
         /\ Took(1, r) = queue[1].got[r] /\ Promised(1, r) = queue[1].promise[r]
         /\ Took(1, r)' = Took(2, r) /\ Took(2, r)' = 0
         /\ Due(1, r)' = Due(2, r) /\ Due(2, r)' = 0
         /\ Promised(1, r)' = Promised(2, r) /\ Promised(2, r)' = 0
         /\ Ahead(r)' = Ahead(r)
  <2> SUFFICES ASSUME NEW r \in Requests
               PROVE  /\ Took(1, r) = queue[1].got[r] /\ Promised(1, r) = queue[1].promise[r]
                      /\ Took(1, r)' = Took(2, r) /\ Took(2, r)' = 0
                      /\ Due(1, r)' = Due(2, r) /\ Due(2, r)' = 0
                      /\ Promised(1, r)' = Promised(2, r) /\ Promised(2, r)' = 0
                      /\ Ahead(r)' = Ahead(r)
    OBVIOUS
  <2>1. CASE Len(queue) = 1
    BY <1>0, <1>1, <1>2, <2>1 DEF Took, Due, Promised, Ahead
  <2>2. CASE Len(queue) = 2
    <3>0. Len(queue) = 2 /\ Len(queue') = 1 /\ queue'[1] = queue[2]
      BY <1>2, <2>2
    <3>1. Ahead(r)' = Ahead(r)
      <4>1. Reach(queue[1], r)' = Reach(queue[2], r)
        BY <1>0, <1>2, <2>2 DEF Reach, Corrected, Stays, Scheduled
      <4> QED
        BY <1>0, <1>1, <1>2, <2>2, <4>1 DEF Ahead
    <3>2. Took(1, r)' = Took(2, r) /\ Took(2, r)' = 0 /\ Took(1, r) = queue[1].got[r]
      BY <1>1, <3>0 DEF Took
    <3>3. Due(1, r)' = Due(2, r) /\ Due(2, r)' = 0
      BY <1>1, <3>0 DEF Due, Refused
    <3>4. /\ Promised(1, r)' = Promised(2, r) /\ Promised(2, r)' = 0
          /\ Promised(1, r) = queue[1].promise[r]
      BY <1>1, <3>0 DEF Promised
    <3> QED
      BY <3>1, <3>2, <3>3, <3>4
  <2> QED
    BY <1>2, <2>1, <2>2
<1>12. \A r \in Requests : status'[r] = "live" => Count(r)' = Count(r) /\ tokens'[r] = tokens[r] + queue[1].got[r]
  <2> SUFFICES ASSUME NEW r \in Requests, status'[r] = "live"
               PROVE  Count(r)' = Count(r) /\ tokens'[r] = tokens[r] + queue[1].got[r]
    OBVIOUS
  <2>1. tokens'[r] = tokens[r] + queue[1].got[r]
    BY <1>4, <1>8
  <2>2. /\ Count(r)' = tokens'[r] + Took(2, r) + 0
        /\ Count(r) = tokens[r] + queue[1].got[r] + Took(2, r)
    BY <1>11 DEF Count
  <2>3. tokens[r] \in Nat /\ queue[1].got[r] \in Nat /\ Took(2, r) \in Nat
    BY <1>10
  <2>4. \A x, y, z \in Nat : (x + y) + z + 0 = x + y + z
    OBVIOUS
  <2> QED
    BY <2>1, <2>2, <2>3, <2>4
<1>13. \A r \in Requests : status'[r] = "live" =>
         queue[1].promise[r] = Due(1, r) + queue[1].got[r]
  BY <1>1, <1>2, <1>7, <1>9 DEF EInv, Ran, Live
<1>14. ASSUME NEW r \in Range(running')
       PROVE  /\ r \in Requests /\ status[r] = "live" /\ status'[r] = "live" /\ r \notin stopped
              /\ computed[r] = Due(1, r) + Due(2, r) + Ahead(r)
              /\ computed[r] <= tokens[r] + queue[1].promise[r] + Promised(2, r)
              /\ Promised(2, r) \in Nat
              /\ computed'[r] = computed[r] - Due(1, r)
  <2>1. r \in Requests /\ r \in Range(running) /\ r \notin stopped
    BY <1>5, <1>6
  <2>2. status[r] = "live" /\ status'[r] = "live"
    BY <1>4, <2>1 DEF EInv, Queues
  <2>3. /\ computed[r] = Due(1, r) + Due(2, r) + Ahead(r)
        /\ computed[r] <= tokens[r] + queue[1].promise[r] + Promised(2, r)
    BY <1>11, <2>1 DEF EInv, Computed
  <2>4. Promised(2, r) \in Nat
    BY <1>2, <2>1, BatchType DEF EInv, Promised
  <2>5. computed'[r] = Unwind(computed[r], Due(1, r))
    BY <1>3, <1>9, <2>1, <2>2 DEF Processed
  <2>6. computed'[r] = computed[r] - Due(1, r)
    BY <1>9, <1>10, <2>1, <2>3, <2>5 DEF Unwind
  <2> QED
    BY <2>1, <2>2, <2>3, <2>4, <2>6
<1>15. ASSUME NEW r \in Requests, r \notin stopped
       PROVE  /\ r \notin Range(running) => computed'[r] = 0
              /\ status'[r] = "finished" => placeholders'[r] = placeholders[r]
              /\ status'[r] # "finished" =>
                   placeholders'[r] = IF mode = "async" THEN Promised(2, r) ELSE 0
  <2>0. Promised(2, r) \in Nat
    BY <1>2, BatchType DEF EInv, Promised
  <2>1. r \notin Range(running) => computed[r] = 0
    BY DEF EInv, Queues
  <2>2. computed'[r] = Unwind(computed[r], IF status[r] = "live" THEN Due(1, r) ELSE 0)
    BY <1>3, <1>9, <1>15 DEF Processed
  <2>3. placeholders'[r] = Unwind(placeholders[r], IF status[r] = "live" THEN Due(1, r) ELSE 0)
                             - IF mode = "async" THEN take[r] ELSE 0
    BY <1>3, <1>9, <1>15 DEF Processed
  <2>4. r \notin Range(running) => computed'[r] = 0
    BY <1>10, <2>1, <2>2 DEF Unwind
  <2>5. CASE status[r] = "live"
    <3>1. status'[r] = "live" /\ take[r] = queue[1].got[r]
      BY <1>4, <1>8, <1>15, <2>5
    <3>2. placeholders[r] = IF mode = "async" THEN queue[1].promise[r] + Promised(2, r) ELSE 0
      BY <1>11, <2>5 DEF EInv, Placeholders
    <3>3. queue[1].promise[r] = Due(1, r) + queue[1].got[r]
      BY <1>13, <3>1
    <3>4. placeholders'[r] = Unwind(placeholders[r], Due(1, r))
                               - IF mode = "async" THEN queue[1].got[r] ELSE 0
      BY <2>3, <2>5, <3>1
    <3>5. Due(1, r) \in Nat /\ queue[1].got[r] \in Nat /\ placeholders[r] \in Nat
      BY <1>9, <1>10
    <3>6. CASE mode = "async"
      <4>1. placeholders[r] = (Due(1, r) + queue[1].got[r]) + Promised(2, r)
        BY <3>2, <3>3, <3>6
      <4>2. placeholders'[r] = Unwind(placeholders[r], Due(1, r)) - queue[1].got[r]
        BY <3>4, <3>6
      <4>3. placeholders'[r] = Promised(2, r)
        BY <2>0, <3>5, <4>1, <4>2 DEF Unwind
      <4> QED
        BY <2>4, <3>1, <3>6, <4>3
    <3>7. CASE mode # "async"
      <4>1. placeholders'[r] = 0
        BY <3>2, <3>4, <3>7 DEF Unwind
      <4> QED
        BY <2>4, <3>1, <3>7, <4>1
    <3> QED
      BY <3>6, <3>7
  <2>6. CASE status[r] # "live"
    <3>1. take[r] = 0 /\ status'[r] = status[r]
      BY <1>3, <1>4, <1>15, <2>6 DEF Processed
    <3>2. placeholders'[r] = placeholders[r]
      BY <1>10, <2>3, <2>6, <3>1 DEF Unwind
    <3>3. status[r] # "finished" =>
            placeholders[r] = IF mode = "async" THEN Promised(1, r) + Promised(2, r) ELSE 0
      BY DEF EInv, Placeholders
    <3>4. status[r] # "finished" => status[r] = "none" /\ placeholders[r] = 0
      BY <2>6 DEF EInv, TypeOK, Told
    <3>5. Promised(1, r) \in Nat
      BY <1>10, <1>11
    <3>6. status[r] # "finished" => placeholders[r] = IF mode = "async" THEN Promised(2, r) ELSE 0
      BY <2>0, <3>3, <3>4, <3>5
    <3> QED
      BY <2>4, <3>1, <3>2, <3>6
  <2> QED
    BY <2>5, <2>6
<1>16. \A r \in Requests : r \notin Range(running') => computed'[r] = 0
  <2>1. \A r \in stopped : computed'[r] = 0
    BY <1>3 DEF Processed
  <2> QED
    BY <1>6, <1>15, <2>1
<1>17. \A r \in Requests : placeholders'[r] \in Nat
  <2> SUFFICES ASSUME NEW r \in Requests PROVE placeholders'[r] \in Nat
    OBVIOUS
  <2>1. CASE r \in stopped
    BY <1>3, <2>1 DEF Processed
  <2>2. CASE r \notin stopped
    <3>1. Promised(2, r) \in Nat
      BY <1>2, BatchType DEF EInv, Promised
    <3> QED
      BY <1>10, <1>15, <2>2, <3>1
  <2> QED
    BY <2>1, <2>2
<1>18. TypeOK'
  <2>1. \A r \in Requests : computed'[r] \in Nat
    <3> SUFFICES ASSUME NEW r \in Requests PROVE computed'[r] \in Nat
      OBVIOUS
    <3>1. CASE r \in Range(running')
      BY <1>9, <1>14, <3>1
    <3>2. CASE r \notin Range(running')
      BY <1>16, <3>2
    <3> QED
      BY <3>1, <3>2
  <2>2. tokens' \in [Requests -> PromptLen..TokenLimit]
    <3>1. \A r \in Requests : /\ tokens[r] \in PromptLen..TokenLimit /\ take[r] \in Nat
                              /\ tokens[r] + take[r] <= TokenLimit
      BY <1>3 DEF EInv, TypeOK, Processed
    <3>2. PromptLen \in Nat /\ TokenLimit \in Nat
      BY SizesAssumption DEF TokenLimit, Least
    <3>3. \A r \in Requests : tokens[r] + take[r] \in PromptLen..TokenLimit
      BY <3>1, <3>2
    <3> QED
      BY <1>4, <3>3
  <2>3. computed' \in [Requests -> Nat] /\ placeholders' \in [Requests -> Nat]
    <3>1. /\ computed' = [r \in Requests |-> computed'[r]]
          /\ placeholders' = [r \in Requests |-> placeholders'[r]]
      BY <1>3 DEF Processed
    <3> QED
      BY <1>17, <2>1, <3>1
  <2>4. /\ status' \in [Requests -> {"none", "live", "finished"}]
        /\ discard' \subseteq Requests /\ finishedIds' \subseteq Requests
    BY <1>4 DEF EInv, TypeOK
  <2>5. Len(queue') <= QueueSize'
    BY <1>29 DEF QueueSize
  <2>6. TokenLimit' = TokenLimit
    BY DEF TokenLimit
  <2> QED
    BY <1>0, <1>1, <1>2, <1>4, <1>5, <2>2, <2>3, <2>4, <2>5, <2>6 DEF EInv, TypeOK
<1>19. Shape'
  <2>1. mode = "sync" => Len(queue) <= 1
    BY DEF EInv, Shape
  <2>2. mode = "sync" => Len(queue') = 0
    BY <1>2, <2>1
  <2>4. mode = "async" => pauseState # "all" /\ ~clearing /\ discard = {}
    BY DEF EInv, Shape
  <2> QED
    BY <1>0, <1>1, <1>4, <1>29, <2>2, <2>4 DEF Shape
<1>20. Queues'
  <2>1. \A r \in Range(running') \cup Range(waiting') : status'[r] = "live"
    BY <1>4, <1>5, <1>6 DEF EInv, Queues
  <2>2. \A r \in Range(waiting') : Len(queue') > 0 => queue'[Len(queue')].sched[r] = 0
    BY <1>2, <1>5 DEF EInv, Queues
  <2>3. \A r \in Range(running') : r \notin Range(waiting')
    BY <1>5 DEF EInv, Queues
  <2> QED
    BY <1>1, <1>5, <1>16, <2>1, <2>2, <2>3 DEF Queues
<1>21. \A i \in 1..Len(queue') : i = 1 /\ Len(queue) = 2 /\ queue'[i] = queue[2]
  <2>1. CASE Len(queue) = 1
    <3>1. Len(queue') = 0
      BY <1>2, <2>1
    <3> QED
      BY <3>1
  <2>2. CASE Len(queue) = 2
    <3>1. Len(queue') = 1 /\ queue'[1] = queue[2]
      BY <1>2, <2>2
    <3>2. \A i \in 1..Len(queue') : i = 1
      BY <3>1
    <3> QED
      BY <2>2, <3>1, <3>2
  <2> QED
    BY <1>2, <2>1, <2>2
<1>22. Told'
  <2>1. \A r \in Requests : status'[r] = "none" => r \notin inBatch'
    BY <1>0, <1>7 DEF EInv, Told
  <2>2. \A r \in Requests : status'[r] = "none" => placeholders'[r] = 0
    <3> SUFFICES ASSUME NEW r \in Requests, status'[r] = "none" PROVE placeholders'[r] = 0
      OBVIOUS
    <3>1. r \notin stopped /\ status[r] = "none"
      BY <1>4, <1>7
    <3>2. placeholders'[r] = IF mode = "async" THEN Promised(2, r) ELSE 0
      BY <1>15, <3>1
    <3>3. Promised(2, r) = 0
      BY <1>2, <3>1 DEF EInv, Told, Plans, PlanSound, Promised
    <3> QED
      BY <3>2, <3>3
  <2>3. \A r \in finishedIds' : status'[r] = "finished"
    BY <1>4, <1>7 DEF EInv, Told, TypeOK
  <2>4. ASSUME Len(queue) = 2
        PROVE  /\ \A r \in Requests : status'[r] = "none" => queue[2].sched[r] = 0
               /\ \A r \in queue[2].finished : status'[r] = "finished"
    <3>1. queue[2].finished \subseteq Requests
      <4>1. queue[2] \in Batches
        <5>1. queue \in Seq(Batches) /\ 2 \in 1..Len(queue)
          BY <2>4 DEF EInv, TypeOK
        <5> QED
          BY <5>1
      <4> QED
        BY <4>1 DEF Batches
    <3> QED
      BY <1>2, <1>7, <2>4, <3>1 DEF EInv, Told
  <2> QED
    BY <1>21, <2>1, <2>2, <2>3, <2>4 DEF Told
<1>23. Plans'
  <2>1. Len(queue) = 2 => \A r \in Requests : PlanSound(queue[2], r)
    BY <1>2 DEF EInv, Plans
  <2> QED
    BY <1>21, <2>1 DEF Plans, PlanSound
<1>24. Line'
  <2>1. ASSUME Len(queue) = 2, ~queue[2].run PROVE Lined(queue[1])'
    <3>1. Lined(queue[2])
      BY <1>1, <2>1 DEF EInv, Line
    <3>2. \A r \in Requests : Lag(r)' = Lag(r)
      BY <1>0 DEF Lag
    <3> QED
      BY <1>0, <1>2, <1>7, <1>12, <2>1, <3>1, <3>2 DEF Lined
  <2> QED
    BY <1>2, <2>1 DEF Line
<1>25. Worker'
  <2>1. \A r \in inBatch' : status'[r] = "live" => seen'[r] = Count(r)'
    BY <1>0, <1>7, <1>12 DEF EInv, Worker, TypeOK
  <2>2. ASSUME Len(queue) = 2, queue[2].run
        PROVE  inBatch = Scheduled(queue[2]) /\ \A r \in Requests : rejected[r] = Refused(queue[2], r)
    BY <1>2, <2>2 DEF EInv, Worker
  <2>3. ASSUME mode = "async", Len(queue) = 1, NEW r \in Range(running')
        PROVE  rejected[r] = 0
    <3>1. r \in Range(running) /\ r \in Requests
      BY <1>5, <1>6
    <3>2. queue[1].sched[r] = 0
      BY <1>1, <2>3, <3>1 DEF EInv, Queues
    <3>3. queue[1].got[r] = 0
      BY <1>2, <3>1, <3>2 DEF EInv, Plans, PlanSound
    <3>4. rejected[r] = Refused(queue[1], r)
      BY <1>1, <1>2, <2>3, <3>1 DEF EInv, Worker
    <3> QED
      BY <3>3, <3>4 DEF Refused
  <2>4. \A r \in Requests : r \notin inBatch => rejected[r] = 0
    BY DEF EInv, Worker
  <2>5. \A i \in 1..Len(queue') : queue'[i].run =>
          /\ inBatch = Scheduled(queue'[i])
          /\ \A r \in Requests : rejected[r] = Refused(queue'[i], r)
    BY <1>21, <2>2
  <2>6. Len(queue') = 0 => Len(queue) = 1
    BY <1>2
  <2> QED
    BY <1>0, <2>1, <2>3, <2>4, <2>5, <2>6 DEF Worker, Refused, Scheduled
<1>26. Ran'
  <2> SUFFICES ASSUME Len(queue) = 2, queue[2].run, NEW r \in Requests, status'[r] = "live"
               PROVE  /\ queue[2].promise[r] = Refused(queue[2], r) + queue[2].got[r]
                      /\ queue[2].got[r] > 0 => queue[2].pos[r] = tokens'[r] + 0
    BY <1>21 DEF Ran, Live, Refused
  <2>1. /\ queue[2].promise[r] = Refused(queue[2], r) + queue[2].got[r]
        /\ queue[2].got[r] > 0 => queue[2].pos[r] = tokens[r] + queue[1].got[r]
    BY <1>2, <1>7 DEF EInv, Ran, Live
  <2>2. tokens'[r] = tokens[r] + queue[1].got[r]
    BY <1>12
  <2> QED
    BY <1>10, <2>1, <2>2
<1>27. Computed'
  <2> SUFFICES ASSUME NEW r \in Range(running')
               PROVE  /\ computed'[r] = Due(1, r)' + Due(2, r)' + Ahead(r)'
                      /\ computed'[r] <= tokens'[r] + Promised(1, r)' + Promised(2, r)'
    BY DEF Computed
  <2>1. /\ r \in Requests /\ status'[r] = "live"
        /\ computed[r] = Due(1, r) + Due(2, r) + Ahead(r)
        /\ computed[r] <= tokens[r] + queue[1].promise[r] + Promised(2, r)
        /\ Promised(2, r) \in Nat
        /\ computed'[r] = computed[r] - Due(1, r)
    BY <1>14
  <2>2. computed'[r] = Due(2, r) + Ahead(r)
    BY <1>9, <2>1
  <2>3. queue[1].promise[r] = Due(1, r) + queue[1].got[r] /\ tokens'[r] = tokens[r] + queue[1].got[r]
    BY <1>12, <1>13, <2>1
  <2>4. computed'[r] <= tokens'[r] + Promised(2, r)
    BY <1>9, <1>10, <2>1, <2>3
  <2> QED
    BY <1>9, <1>10, <1>11, <2>1, <2>2, <2>3, <2>4
<1>28. Placeholders'
  <2>1. \A r \in Requests : status'[r] # "finished" => r \notin stopped
    BY <1>4
  <2>2. \A r \in Requests : Promised(2, r) \in Nat
    BY <1>2, BatchType DEF EInv, Promised
  <2> QED
    BY <1>0, <1>11, <1>15, <2>1, <2>2 DEF Placeholders
<1> QED
  BY <1>18, <1>19, <1>20, <1>22, <1>23, <1>24, <1>25, <1>26, <1>27, <1>28 DEF EInv
-----------------------------------------------------------------------------
(* schedule().                                                             *)

\* A queue cut in two.
LEMMA Cut ==
  ASSUME NEW s \in Seq(Requests), NoRepeats(s), NEW n \in 0..Len(s)
  PROVE  LET front == SubSeq(s, 1, n)
             back == SubSeq(s, n + 1, Len(s))
         IN /\ front \in Seq(Requests) /\ back \in Seq(Requests)
            /\ NoRepeats(front) /\ NoRepeats(back)
            /\ Range(front) = {s[i] : i \in 1..n}
            /\ Range(front) \cup Range(back) = Range(s)
            /\ \A r \in Range(front) : r \notin Range(back)
<1> DEFINE front == SubSeq(s, 1, n)
           back == SubSeq(s, n + 1, Len(s))
<1>0. Len(s) \in Nat /\ DOMAIN s = 1..Len(s) /\ n \in Nat /\ n <= Len(s)
  OBVIOUS
<1>1. /\ front \in Seq(Requests) /\ Len(front) = n /\ DOMAIN front = 1..n
      /\ \A i \in 1..n : front[i] = s[i]
  <2>1. /\ SubSeq(s, 1, n) \in Seq(Requests)
        /\ Len(SubSeq(s, 1, n)) = IF 1 <= n THEN n - 1 + 1 ELSE 0
        /\ \A i \in 1..(n - 1 + 1) : SubSeq(s, 1, n)[i] = s[1 + i - 1]
    BY <1>0, SubSeqProperties
  <2>2. Len(front) = n
    BY <1>0, <2>1
  <2>3. \A i \in 1..n : 1 + i - 1 = i /\ i \in 1..(n - 1 + 1)
    BY <1>0
  <2>4. DOMAIN front = 1..n
    BY <2>1, <2>2
  <2> HIDE DEF front
  <2> QED
    BY <2>1, <2>2, <2>3, <2>4 DEF front
<1>2. /\ back \in Seq(Requests) /\ Len(back) = Len(s) - n /\ DOMAIN back = 1..(Len(s) - n)
      /\ \A i \in 1..(Len(s) - n) : back[i] = s[n + i]
  <2>1. /\ SubSeq(s, n + 1, Len(s)) \in Seq(Requests)
        /\ Len(SubSeq(s, n + 1, Len(s))) = IF n + 1 <= Len(s) THEN Len(s) - (n + 1) + 1 ELSE 0
        /\ \A i \in 1..(Len(s) - (n + 1) + 1) : SubSeq(s, n + 1, Len(s))[i] = s[(n + 1) + i - 1]
    BY <1>0, SubSeqProperties
  <2>2. Len(back) = Len(s) - n
    <3>1. \A l, k \in Nat : k <= l =>
            (IF k + 1 <= l THEN l - (k + 1) + 1 ELSE 0) = l - k
      OBVIOUS
    <3>2. (IF n + 1 <= Len(s) THEN Len(s) - (n + 1) + 1 ELSE 0) = Len(s) - n
      BY <1>0, <3>1
    <3> QED
      BY <2>1, <3>2
  <2>3. \A i \in 1..(Len(s) - n) : (n + 1) + i - 1 = n + i /\ i \in 1..(Len(s) - (n + 1) + 1)
    BY <1>0
  <2>4. DOMAIN back = 1..(Len(s) - n)
    BY <2>1, <2>2
  <2> HIDE DEF back
  <2> QED
    BY <2>1, <2>2, <2>3, <2>4 DEF back
<1> HIDE DEF front, back
<1>3. NoRepeats(front) /\ \A i \in 1..n : i \in 1..Len(s)
  BY <1>0, <1>1 DEF NoRepeats
<1>4. \A i \in 1..(Len(s) - n) : n + i \in 1..Len(s) /\ n + i > n
  BY <1>0
<1>5. NoRepeats(back)
  <2> SUFFICES ASSUME NEW i \in 1..(Len(s) - n), NEW j \in 1..(Len(s) - n), back[i] = back[j]
               PROVE  i = j
    BY <1>2 DEF NoRepeats
  <2>1. s[n + i] = s[n + j]
    BY <1>2
  <2>2. n + i = n + j
    BY <1>0, <1>4, <2>1 DEF NoRepeats
  <2> QED
    BY <1>0, <2>2
<1>6. Range(front) = {s[i] : i \in 1..n}
  BY <1>1 DEF Range
<1>7. Range(back) = {s[n + i] : i \in 1..(Len(s) - n)}
  BY <1>2 DEF Range
<1>8. \A r \in Range(front) : r \notin Range(back)
  <2> SUFFICES ASSUME NEW i \in 1..n, NEW j \in 1..(Len(s) - n), s[i] = s[n + j] PROVE FALSE
    BY <1>6, <1>7
  <2>1. i = n + j
    BY <1>0, <1>3, <1>4 DEF NoRepeats
  <2> QED
    BY <1>0, <2>1
<1>9. Range(front) \cup Range(back) = Range(s)
  <2>1. \A k \in 1..Len(s) : k \in 1..n \/ (k - n \in 1..(Len(s) - n) /\ n + (k - n) = k)
    BY <1>0
  <2>2. Range(s) = {s[k] : k \in 1..Len(s)}
    BY <1>0 DEF Range
  <2> QED
    BY <1>3, <1>4, <1>6, <1>7, <2>1, <2>2
<1> QED
  BY <1>1, <1>2, <1>3, <1>5, <1>6, <1>8, <1>9 DEF front, back

\* Between two steps at most one batch is in flight, and placeholders are its
\* promises.
LEMMA IdleFacts ==
  ASSUME EInv, pc = "idle"
  PROVE  /\ Len(queue) = 0 \/ (Len(queue) = 1 /\ mode = "async")
         /\ \A r \in Requests : status[r] = "live" =>
              /\ Promised(1, r) \in Nat /\ Promised(2, r) = 0
              /\ placeholders[r] = Promised(1, r)
              /\ r \in Range(running) => computed[r] <= tokens[r] + placeholders[r]
              /\ r \in Range(waiting) => placeholders[r] = 0
<1>1. Len(queue) \in Nat /\ Len(queue) <= 1 /\ (mode = "sync" => Len(queue) = 0)
  BY DEF EInv, TypeOK, Shape
<1>2. Len(queue) = 0 \/ (Len(queue) = 1 /\ mode = "async")
  <2>1. \A n \in Nat : n <= 1 => n = 0 \/ n = 1
    OBVIOUS
  <2>2. mode = "sync" \/ mode = "async"
    BY DEF EInv, TypeOK, Modes
  <2>3. Len(queue) = 0 \/ Len(queue) = 1
    BY <1>1, <2>1
  <2>4. mode = "sync" => Len(queue) # 1
    BY <1>1
  <2> QED
    BY <2>2, <2>3, <2>4
<1>3. ASSUME NEW r \in Requests, status[r] = "live"
      PROVE  /\ Promised(1, r) \in Nat /\ Promised(2, r) = 0
             /\ placeholders[r] = Promised(1, r)
             /\ r \in Range(running) => computed[r] <= tokens[r] + placeholders[r]
             /\ r \in Range(waiting) => placeholders[r] = 0
  <2>1. placeholders[r] = IF mode = "async" THEN Promised(1, r) + Promised(2, r) ELSE 0
    BY <1>3 DEF EInv, Placeholders
  <2>2. Promised(2, r) = 0
    BY <1>2 DEF Promised
  <2>3. CASE Len(queue) = 0
    <3>1. Promised(1, r) = 0
      BY <2>3 DEF Promised
    <3>2. placeholders[r] = 0
      BY <2>1, <2>2, <3>1
    <3>3. r \in Range(running) => computed[r] <= tokens[r] + Promised(1, r) + Promised(2, r)
      BY DEF EInv, Computed
    <3>4. computed[r] \in Nat /\ tokens[r] \in Nat
      BY CountType DEF EInv
    <3> QED
      BY <2>2, <3>1, <3>2, <3>3, <3>4
  <2>4. CASE Len(queue) = 1 /\ mode = "async"
    <3>1. Promised(1, r) = queue[1].promise[r] /\ 1 \in 1..Len(queue)
      BY <2>4 DEF Promised
    <3>2. queue[1].promise[r] \in Nat
      BY <3>1, BatchType DEF EInv
    <3>3. placeholders[r] = Promised(1, r)
      BY <2>1, <2>2, <2>4, <3>1, <3>2
    <3>4. r \in Range(running) => computed[r] <= tokens[r] + Promised(1, r) + Promised(2, r)
      BY DEF EInv, Computed
    <3>5. computed[r] \in Nat /\ tokens[r] \in Nat
      BY CountType DEF EInv
    <3>6. r \in Range(waiting) => queue[1].sched[r] = 0
      BY <2>4 DEF EInv, Queues
    <3>7. r \in Range(waiting) => queue[1].promise[r] = 0
      BY <3>1, <3>6 DEF EInv, Plans, PlanSound
    <3>8. r \in Range(running) => computed[r] <= tokens[r] + placeholders[r]
      BY <2>2, <3>1, <3>2, <3>3, <3>4, <3>5
    <3> QED
      BY <2>2, <3>1, <3>2, <3>3, <3>7, <3>8
  <2> QED
    BY <1>2, <2>3, <2>4
<1> QED
  BY <1>2, <1>3

\* A running request that is given g tokens: drafts are what goes beyond the
\* tokens it has or expects.
LEMMA DraftsFit ==
  ASSUME EInv, NEW r \in Requests, computed[r] <= tokens[r] + placeholders[r],
         NEW g \in Nat, g <= Want(r)
  PROVE  LET d == Drafts(r, g) IN
         /\ d \in Nat /\ d <= spec[r] /\ d <= g
         /\ d > 0 => /\ enableSd /\ g > 0
                     /\ computed[r] + g >= tokens[r] + placeholders[r]
         /\ g > 0 /\ computed[r] + g >= tokens[r] + placeholders[r] =>
              (computed[r] + g) - d = tokens[r] + placeholders[r]
<1> DEFINE x == g + computed[r] - tokens[r] - placeholders[r]
<1>1. /\ tokens[r] \in Nat /\ computed[r] \in Nat /\ placeholders[r] \in Nat
      /\ spec[r] \in Nat /\ NumSpec \in Nat /\ MaxModelLen \in Nat
  BY CountType, SizesAssumption DEF EInv
<1>2. CASE enableSd /\ g > 0
  <2>1. g <= tokens[r] + spec[r] + placeholders[r] - computed[r]
    <3>1. Want(r) = IF AtLimit(r) THEN 0
                    ELSE Least(tokens[r] + spec[r] + placeholders[r] - computed[r],
                               MaxModelLen - 1 - computed[r])
      BY <1>2 DEF Want
    <3> QED
      BY <1>1, <1>2, <3>1 DEF Least
  <2>2. Drafts(r, g) = Least(spec[r], Most(0, x))
    BY <1>2 DEF Drafts
  <2>3. x \in Int /\ x <= spec[r] /\ x <= g
    BY <1>1, <2>1
  <2>4. x >= 0 <=> computed[r] + g >= tokens[r] + placeholders[r]
    BY <1>1
  <2>5. (computed[r] + g) - x = tokens[r] + placeholders[r]
    BY <1>1
  <2> HIDE DEF x
  <2>6. Drafts(r, g) = IF x >= 0 THEN x ELSE 0
    <3>1. \A s \in Nat, y \in Int : y <= s =>
            Least(s, Most(0, y)) = IF y >= 0 THEN y ELSE 0
      BY DEF Least, Most
    <3>2. Least(spec[r], Most(0, x)) = IF x >= 0 THEN x ELSE 0
      BY <1>1, <2>3, <3>1
    <3> QED
      BY <2>2, <3>2
  <2>7. CASE x >= 0
    BY <1>1, <1>2, <2>3, <2>4, <2>5, <2>6, <2>7
  <2>8. CASE ~(x >= 0)
    <3>1. Drafts(r, g) = 0 /\ ~(computed[r] + g >= tokens[r] + placeholders[r])
      BY <2>4, <2>6, <2>8
    <3> QED
      BY <1>1, <3>1
  <2> QED
    BY <2>7, <2>8
<1>3. CASE ~enableSd /\ g > 0
  <2>1. g <= tokens[r] + 0 + placeholders[r] - computed[r]
    <3>1. Want(r) = IF AtLimit(r) THEN 0
                    ELSE Least(tokens[r] + 0 + placeholders[r] - computed[r],
                               MaxModelLen - 1 - computed[r])
      BY <1>3 DEF Want
    <3> QED
      BY <1>1, <1>3, <3>1 DEF Least
  <2>2. Drafts(r, g) = 0
    BY <1>3 DEF Drafts
  <2> QED
    BY <1>1, <1>3, <2>1, <2>2
<1>4. CASE ~(g > 0)
  <2>1. Drafts(r, g) = 0
    BY <1>4 DEF Drafts
  <2> QED
    BY <1>1, <1>4, <2>1
<1> QED
  BY <1>2, <1>3, <1>4

\* What a plan does: batch b for the requests kept and admitted.
Planned(b, kept, admitted) ==
  /\ queue' = Append(queue, b) /\ b \in Batches /\ ~b.run
  /\ b.fresh = admitted /\ b.finished = finishedIds /\ finishedIds' = {}
  /\ running' \in Seq(Requests) /\ waiting' \in Seq(Requests)
  /\ NoRepeats(running') /\ NoRepeats(waiting')
  /\ kept \subseteq Range(running) /\ admitted \subseteq Range(waiting)
  /\ Range(running') = kept \cup admitted
  /\ \A r \in Range(waiting') : /\ r \in Range(running) \cup Range(waiting)
                                /\ r \notin kept \cup admitted
  /\ computed' \in [Requests -> Nat] /\ placeholders' \in [Requests -> Nat]
  /\ spec' \in [Requests -> 0..NumSpec] /\ spent' \in 0..MaxDisruptions
  /\ pc' \in {"idle", "wait"}
  /\ pc' = "idle" => mode = "async" /\ Len(queue) = 0
  /\ pc' = "wait" /\ mode = "async" /\ Len(queue) = 0 =>
       \A r \in Requests : b.sched[r] = 0
  /\ \A r \in Requests :
       /\ r \notin kept \cup admitted => b.sched[r] = 0 /\ computed'[r] = 0
       /\ r \in kept => b.base[r] = computed[r]
       /\ r \in admitted => b.sched[r] > 0
       /\ r \in kept \cup admitted =>
            /\ computed'[r] = b.base[r] + b.sched[r]
            /\ computed'[r] <= b.known[r] + b.promise[r]
       /\ b.known[r] = tokens[r] + placeholders[r]
       /\ placeholders'[r] = placeholders[r] + IF mode = "async" THEN b.promise[r] ELSE 0
       /\ PlanSound(b, r)

LEMMA PlanFacts ==
  ASSUME EInv, OverlapKept, Schedule
  PROVE  \E b, kept, admitted : Planned(b, kept, admitted)
<1>1. PICK m \in 0..Len(running), a \in 0..Len(waiting), give \in [Requests -> 0..Budget] :
        \E hit \in [{waiting[i] : i \in 1..a} -> Hits] : Plan(m, a, hit, give)
  BY DEF Schedule
<1>2. PICK hit \in [{waiting[i] : i \in 1..a} -> Hits] : Plan(m, a, hit, give)
  BY <1>1
<1> DEFINE budget == IF pauseState = "all" THEN 0 ELSE Budget
           kept == SubSeq(running, 1, m)
           preempted == SubSeq(running, m + 1, Len(running))
           admitted == SubSeq(waiting, 1, a)
           rest == SubSeq(waiting, a + 1, Len(waiting))
           order == kept \o admitted
           want == [r \in Requests |->
                      IF r \in Range(admitted) THEN tokens[r] - hit[r] ELSE Want(r)]
           base == [r \in Requests |->
                      IF r \in Range(admitted) THEN hit[r] ELSE computed[r]]
           drafts == [r \in Requests |->
                        IF r \in Range(kept) THEN Drafts(r, give[r]) ELSE 0]
           chunk == {r \in Requests : base[r] + give[r] < tokens[r] + placeholders[r]}
           promise == [r \in Requests |->
                         IF give[r] > 0 /\ r \notin chunk THEN 1 + drafts[r] ELSE 0]
           dropped == {running[i] : i \in {i \in 1..m :
                         ~enableSd /\ Visited(order, i, give, budget)}}
           known == [r \in Requests |-> tokens[r] + placeholders[r]]
           b == [sd |-> enableSd, base |-> base, sched |-> give, drafts |-> drafts,
                 known |-> known, promise |-> promise, fresh |-> Range(admitted),
                 finished |-> finishedIds, run |-> FALSE, got |-> Zero, pos |-> Zero]
<1>3. /\ m < Len(running) => spent < MaxDisruptions
      /\ a > 0 => \A i \in 1..a : give[waiting[i]] > 0
      /\ Greedy(order, want, give, budget)
      /\ running' = order /\ waiting' = preempted \o rest
      /\ computed' = [r \in Requests |->
                        IF r \in Range(preempted) THEN 0 ELSE base[r] + give[r]]
      /\ placeholders' = [r \in Requests |->
                            placeholders[r] + IF mode = "async" THEN promise[r] ELSE 0]
      /\ finishedIds' = {}
      /\ spent' = IF m < Len(running) THEN spent + 1 ELSE spent
      /\ queue' = Append(queue, b)
  BY <1>2 DEF Plan
<1>4. spec' = [r \in Requests |->
                 IF promise[r] > 0 /\ mode = "async" /\ enableSd THEN NumSpec
                 ELSE IF \/ give[r] > 0
                         \/ r \in Range(preempted) \cup dropped THEN 0
                 ELSE spec[r]]
  BY <1>2 DEF Plan
<1>5. pc' \in IF /\ mode = "async" /\ Len(queue) + 1 < QueueSize
                 /\ \E r \in Requests : give[r] > 0
              THEN {"idle"} \cup (IF "done" \in Controls[mode] THEN {"wait"} ELSE {})
              ELSE {"wait"}
  BY <1>2 DEF Plan
<1>6. /\ kept \in Seq(Requests) /\ preempted \in Seq(Requests)
      /\ NoRepeats(kept) /\ NoRepeats(preempted)
      /\ Range(kept) \cup Range(preempted) = Range(running)
      /\ \A r \in Range(kept) : r \notin Range(preempted)
  <2>1. running \in Seq(Requests) /\ NoRepeats(running)
    BY DEF EInv, TypeOK, Queues
  <2> QED
    BY <2>1, Cut
<1>7. /\ admitted \in Seq(Requests) /\ rest \in Seq(Requests)
      /\ NoRepeats(admitted) /\ NoRepeats(rest)
      /\ Range(admitted) = {waiting[i] : i \in 1..a}
      /\ Range(admitted) \cup Range(rest) = Range(waiting)
      /\ \A r \in Range(admitted) : r \notin Range(rest)
  <2>1. waiting \in Seq(Requests) /\ NoRepeats(waiting)
    BY DEF EInv, TypeOK, Queues
  <2> QED
    BY <2>1, Cut
<1> HIDE DEF kept, preempted, admitted, rest
<1>8. /\ \A r \in Range(running) : r \notin Range(waiting)
      /\ \A r \in Range(running) \cup Range(waiting) : status[r] = "live" /\ r \in Requests
  <2>1. \A r \in Range(running) \cup Range(waiting) : r \in Requests
    <3>1. running \in Seq(Requests) /\ waiting \in Seq(Requests)
      BY DEF EInv, TypeOK
    <3> QED
      BY <3>1 DEF Range
  <2> QED
    BY <2>1 DEF EInv, Queues
<1>9. /\ running' \in Seq(Requests) /\ NoRepeats(running')
      /\ Range(running') = Range(kept) \cup Range(admitted)
      /\ waiting' \in Seq(Requests) /\ NoRepeats(waiting')
      /\ Range(waiting') = Range(preempted) \cup Range(rest)
      /\ Range(order) = Range(kept) \cup Range(admitted)
  <2>1. /\ \A r \in Range(kept) : r \notin Range(admitted)
        /\ \A r \in Range(preempted) : r \notin Range(rest)
    BY <1>6, <1>7, <1>8
  <2>2. /\ order \in Seq(Requests) /\ NoRepeats(order)
        /\ Range(order) = Range(kept) \cup Range(admitted)
    BY <1>6, <1>7, <2>1, JoinSound
  <2>3. /\ preempted \o rest \in Seq(Requests) /\ NoRepeats(preempted \o rest)
        /\ Range(preempted \o rest) = Range(preempted) \cup Range(rest)
    BY <1>6, <1>7, <2>1, JoinSound
  <2> HIDE DEF order
  <2> QED
    BY <1>3, <2>2, <2>3
<1>10. \A r \in Requests : give[r] \in Nat /\ give[r] <= Budget
  BY SizesAssumption
<1>11. /\ \A r \in Requests : r \notin Range(kept) \cup Range(admitted) => give[r] = 0
       /\ \A r \in Range(kept) \cup Range(admitted) : give[r] <= want[r]
  <2>1. /\ \A r \in Requests : r \notin Range(order) => give[r] = 0
        /\ \A i \in DOMAIN order : give[order[i]] <= want[order[i]]
    BY <1>3 DEF Greedy
  <2>2. \A r \in Range(order) : \E i \in DOMAIN order : r = order[i]
    BY DEF Range
  <2> HIDE DEF order, want
  <2> QED
    BY <1>9, <2>1, <2>2
<1>12. \A r \in Range(admitted) : give[r] > 0
  <2>1. \A i \in 1..a : a > 0
    OBVIOUS
  <2> QED
    BY <1>3, <1>7, <2>1
<1>13. \A r \in Range(admitted) :
         /\ r \in Requests /\ r \notin Range(kept) /\ r \notin Range(preempted)
         /\ hit[r] \in Nat /\ hit[r] < PromptLen
  <2>1. \A r \in Range(admitted) : hit[r] \in 0..(PromptLen - 1)
    BY <1>7, SizesAssumption
  <2>2. \A h \in 0..(PromptLen - 1) : h \in Nat /\ h < PromptLen
    BY SizesAssumption
  <2> QED
    BY <1>6, <1>7, <1>8, <2>1, <2>2
<1>14. pc = "idle"
  BY DEF Schedule
<1>15. ASSUME NEW r \in Range(kept)
       PROVE  /\ r \in Requests /\ r \notin Range(admitted) /\ r \notin Range(preempted)
              /\ status[r] = "live" /\ computed[r] <= tokens[r] + placeholders[r]
              /\ give[r] <= Want(r)
  <2>1. /\ r \in Requests /\ r \notin Range(admitted) /\ r \notin Range(preempted)
        /\ status[r] = "live" /\ r \in Range(running)
    BY <1>6, <1>7, <1>8
  <2>2. want[r] = Want(r)
    BY <2>1
  <2> QED
    BY <1>11, <1>14, <2>1, <2>2, IdleFacts
<1>16. ASSUME NEW r \in Range(admitted)
       PROVE  /\ status[r] = "live" /\ placeholders[r] = 0 /\ hit[r] + give[r] <= tokens[r]
  <2>1. status[r] = "live" /\ r \in Range(waiting) /\ r \in Requests
    BY <1>7, <1>8
  <2>2. want[r] = tokens[r] - hit[r]
    BY <2>1
  <2>3. give[r] <= tokens[r] - hit[r]
    BY <1>11, <2>2
  <2>4. tokens[r] \in Nat /\ hit[r] \in Nat /\ give[r] \in Nat
    BY <1>10, <1>13, <2>1, CountType DEF EInv
  <2> QED
    BY <1>14, <2>1, <2>3, <2>4, IdleFacts
<1>17. ASSUME NEW r \in Requests
       PROVE  /\ base[r] \in Nat /\ known[r] \in Nat /\ known[r] = tokens[r] + placeholders[r]
              /\ drafts[r] \in Nat /\ drafts[r] <= NumSpec /\ drafts[r] <= give[r]
              /\ drafts[r] > 0 => enableSd /\ give[r] > 0 /\ base[r] + give[r] >= known[r]
              /\ give[r] > 0 /\ base[r] + give[r] >= known[r] =>
                   (base[r] + give[r]) - drafts[r] = known[r]
              /\ r \in Range(kept) \/ give[r] > 0 => base[r] + give[r] <= known[r] + drafts[r]
              /\ r \in Range(kept) => base[r] = computed[r]
  <2>1. /\ tokens[r] \in Nat /\ computed[r] \in Nat /\ placeholders[r] \in Nat
        /\ spec[r] \in Nat /\ spec[r] <= NumSpec /\ NumSpec \in Nat /\ give[r] \in Nat
    BY <1>10, CountType DEF EInv
  <2>2. known[r] = tokens[r] + placeholders[r] /\ known[r] \in Nat
    BY <2>1
  <2>3. CASE r \in Range(kept)
    <3>1. base[r] = computed[r] /\ drafts[r] = Drafts(r, give[r])
      BY <1>15, <2>3
    <3>2. LET d == Drafts(r, give[r]) IN
          /\ d \in Nat /\ d <= spec[r] /\ d <= give[r]
          /\ d > 0 => /\ enableSd /\ give[r] > 0
                      /\ computed[r] + give[r] >= tokens[r] + placeholders[r]
          /\ give[r] > 0 /\ computed[r] + give[r] >= tokens[r] + placeholders[r] =>
               (computed[r] + give[r]) - d = tokens[r] + placeholders[r]
      BY <1>15, <2>1, <2>3, DraftsFit
    <3>3. computed[r] <= tokens[r] + placeholders[r]
      BY <1>15, <2>3
    <3> HIDE DEF base, drafts, known
    <3>4. /\ drafts[r] \in Nat /\ drafts[r] <= spec[r] /\ drafts[r] <= give[r]
          /\ drafts[r] > 0 => enableSd /\ give[r] > 0 /\ base[r] + give[r] >= known[r]
          /\ give[r] > 0 /\ base[r] + give[r] >= known[r] =>
               (base[r] + give[r]) - drafts[r] = known[r]
      BY <2>2, <3>1, <3>2
    <3>5. drafts[r] <= NumSpec
      BY <2>1, <3>4
    <3>6. base[r] + give[r] <= known[r] + drafts[r]
      <4>1. CASE give[r] > 0 /\ base[r] + give[r] >= known[r]
        BY <2>1, <2>2, <3>1, <3>4, <4>1
      <4>2. CASE ~(base[r] + give[r] >= known[r])
        BY <2>1, <2>2, <3>1, <3>4, <4>2
      <4>3. CASE ~(give[r] > 0)
        BY <2>1, <2>2, <3>1, <3>3, <3>4, <4>3
      <4> QED
        BY <4>1, <4>2, <4>3
    <3> QED
      BY <2>1, <2>2, <3>1, <3>4, <3>5, <3>6
  <2>4. CASE r \in Range(admitted)
    <3>1. base[r] = hit[r] /\ drafts[r] = 0 /\ r \notin Range(kept)
      BY <1>13, <2>4
    <3>2. hit[r] \in Nat /\ placeholders[r] = 0 /\ hit[r] + give[r] <= tokens[r]
      BY <1>13, <1>16, <2>4
    <3> HIDE DEF base, drafts, known
    <3>3. base[r] \in Nat /\ base[r] + give[r] <= known[r]
      BY <2>1, <2>2, <3>1, <3>2
    <3>4. base[r] + give[r] >= known[r] => (base[r] + give[r]) - 0 = known[r]
      BY <2>1, <2>2, <3>3
    <3>5. base[r] + give[r] <= known[r] + 0
      BY <2>1, <2>2, <3>3
    <3>6. ~(drafts[r] > 0) /\ drafts[r] \in Nat /\ drafts[r] <= NumSpec /\ drafts[r] <= give[r]
      BY <2>1, <3>1
    <3> QED
      BY <2>2, <3>1, <3>3, <3>4, <3>5, <3>6
  <2>5. CASE r \notin Range(kept) \cup Range(admitted)
    <3>1. base[r] = computed[r] /\ drafts[r] = 0 /\ give[r] = 0
      BY <1>11, <2>5
    <3>2. ~(r \in Range(kept) \/ give[r] > 0) /\ ~(drafts[r] > 0) /\ r \notin Range(kept)
      BY <2>5, <3>1
    <3>3. drafts[r] \in Nat /\ drafts[r] <= NumSpec /\ drafts[r] <= give[r] /\ base[r] \in Nat
      BY <2>1, <3>1
    <3> HIDE DEF base, drafts, known
    <3> QED
      BY <2>2, <3>2, <3>3
  <2> QED
    BY <2>3, <2>4, <2>5
<1> HIDE DEF base, drafts, known, want, order, dropped, budget
<1>18. ASSUME NEW r \in Requests
       PROVE  /\ promise[r] \in Nat /\ promise[r] <= NumSpec + 1
              /\ promise[r] > 0 <=> give[r] > 0 /\ base[r] + give[r] >= known[r]
              /\ promise[r] > 0 => promise[r] = 1 + drafts[r]
              /\ give[r] = 0 => promise[r] = 0
  <2>1. r \in chunk <=> ~(base[r] + give[r] >= known[r])
    BY <1>10, <1>17
  <2> HIDE DEF chunk
  <2>2. promise[r] = IF give[r] > 0 /\ r \notin chunk THEN 1 + drafts[r] ELSE 0
    OBVIOUS
  <2> HIDE DEF promise
  <2>3. drafts[r] \in Nat /\ drafts[r] <= NumSpec /\ NumSpec \in Nat /\ give[r] \in Nat
    BY <1>10, <1>17, SizesAssumption
  <2>4. CASE give[r] > 0 /\ r \notin chunk
    <3>1. promise[r] = 1 + drafts[r]
      BY <2>2, <2>4
    <3> QED
      BY <2>1, <2>3, <2>4, <3>1
  <2>5. CASE ~(give[r] > 0 /\ r \notin chunk)
    <3>1. promise[r] = 0
      BY <2>2, <2>5
    <3> QED
      BY <2>1, <2>3, <2>5, <3>1
  <2> QED
    BY <2>4, <2>5
<1>19. /\ promise \in [Requests -> 0..(NumSpec + 1)] /\ drafts \in [Requests -> 0..NumSpec]
       /\ base \in [Requests -> Nat] /\ known \in [Requests -> Nat] /\ Zero \in [Requests -> Nat]
       /\ Zero \in [Requests -> 0..(NumSpec + 1)]
  <2>0. NumSpec \in Nat
    BY SizesAssumption
  <2>1. promise \in [Requests -> 0..(NumSpec + 1)]
    <3>1. \A r \in Requests : promise[r] \in 0..(NumSpec + 1)
      <4> HIDE DEF promise
      <4> QED
        BY <1>18, <2>0
    <3>2. promise = [r \in Requests |-> promise[r]]
      OBVIOUS
    <3> HIDE DEF promise
    <3> QED
      BY <3>1, <3>2
  <2>2. drafts \in [Requests -> 0..NumSpec]
    <3>1. \A r \in Requests : drafts[r] \in 0..NumSpec
      BY <1>17, <2>0
    <3>2. drafts = [r \in Requests |-> drafts[r]]
      BY DEF drafts
    <3> QED
      BY <3>1, <3>2
  <2>3. base \in [Requests -> Nat] /\ known \in [Requests -> Nat]
    <3>1. base = [r \in Requests |-> base[r]] /\ known = [r \in Requests |-> known[r]]
      BY DEF base, known
    <3> QED
      BY <1>17, <3>1
  <2>4. Zero \in [Requests -> Nat] /\ Zero \in [Requests -> 0..(NumSpec + 1)]
    BY <2>0 DEF Zero
  <2> QED
    BY <2>1, <2>2, <2>3, <2>4
<1> HIDE DEF promise, chunk
<1>20. /\ b \in Batches /\ b.sd = enableSd /\ b.base = base /\ b.sched = give
       /\ b.drafts = drafts /\ b.known = known /\ b.promise = promise
       /\ b.fresh = Range(admitted) /\ b.finished = finishedIds /\ b.run = FALSE
       /\ b.got = Zero
  <2>1. enableSd \in BOOLEAN /\ finishedIds \subseteq Requests
    BY DEF EInv, TypeOK
  <2>2. Range(admitted) \subseteq Requests
    BY <1>13
  <2> QED
    BY <1>19, <2>1, <2>2 DEF Batches
<1> HIDE DEF b
<1>21. ASSUME NEW r \in Requests PROVE PlanSound(b, r)
  <2>1. b.got[r] = 0 /\ b.run = FALSE
    BY <1>20 DEF Zero
  <2>2. give[r] > 0 => r \notin finishedIds
    <3>1. give[r] > 0 => r \in Range(kept) \cup Range(admitted)
      BY <1>11
    <3>2. give[r] > 0 => status[r] = "live"
      BY <1>15, <1>16, <3>1
    <3> QED
      BY <3>2 DEF EInv, Told
  <2>3. promise[r] > 0 => base[r] + give[r] - drafts[r] = known[r]
    <3>1. /\ base[r] \in Nat /\ give[r] \in Nat /\ drafts[r] \in Nat /\ known[r] \in Nat
          /\ promise[r] > 0 => (base[r] + give[r]) - drafts[r] = known[r]
      BY <1>10, <1>17, <1>18
    <3> QED
      BY <3>1
  <2>4. drafts[r] > 0 => enableSd /\ promise[r] > 0
    BY <1>17, <1>18
  <2>5. drafts[r] <= give[r] /\ drafts[r] \in Nat
    BY <1>17
  <2>6. b.got[r] <= b.drafts[r] + 1
    BY <1>20, <2>1, <2>5
  <2> QED
    BY <1>18, <1>20, <2>1, <2>2, <2>3, <2>4, <2>5, <2>6 DEF PlanSound
<1>22. \A r \in Requests : /\ computed'[r] = IF r \in Range(preempted) THEN 0 ELSE base[r] + give[r]
                           /\ placeholders'[r] = placeholders[r]
                                + IF mode = "async" THEN promise[r] ELSE 0
  BY <1>3
<1>23. computed' \in [Requests -> Nat] /\ placeholders' \in [Requests -> Nat]
  <2>1. \A r \in Requests : base[r] + give[r] \in Nat
    BY <1>10, <1>17
  <2>2. \A r \in Requests : placeholders[r] \in Nat /\ promise[r] \in Nat
    BY <1>18, CountType DEF EInv
  <2>3. \A r \in Requests : placeholders[r] + (IF mode = "async" THEN promise[r] ELSE 0) \in Nat
    BY <2>2
  <2> QED
    BY <1>3, <2>1, <2>3
<1>24. spec' \in [Requests -> 0..NumSpec]
  <2>1. \A r \in Requests : spec[r] \in 0..NumSpec /\ 0 \in 0..NumSpec /\ NumSpec \in 0..NumSpec
    BY SizesAssumption DEF EInv, TypeOK
  <2> QED
    BY <1>4, <2>1
<1>25. spent' \in 0..MaxDisruptions
  <2>1. spent \in Nat /\ spent <= MaxDisruptions /\ MaxDisruptions \in Nat
    BY SizesAssumption DEF EInv, TypeOK
  <2>2. spent' = spent \/ (spent' = spent + 1 /\ spent < MaxDisruptions)
    BY <1>3
  <2> QED
    BY <2>1, <2>2
<1>26. /\ pc' \in {"idle", "wait"}
       /\ pc' = "idle" => mode = "async" /\ Len(queue) = 0
       /\ pc' = "wait" /\ mode = "async" /\ Len(queue) = 0 =>
            \A r \in Requests : b.sched[r] = 0
  <2>1. Len(queue) = 0 \/ Len(queue) = 1
    BY <1>14, IdleFacts
  <2>2. mode = "async" => "done" \notin Controls[mode]
    BY DEF OverlapKept
  <2>3. mode = "async" => (Len(queue) + 1 < QueueSize <=> Len(queue) = 0)
    <3>1. Len(queue) = 0 => Len(queue) + 1 < 2
      BY SMT
    <3>2. Len(queue) = 1 => ~(Len(queue) + 1 < 2)
      BY SMT
    <3> QED
      BY <2>1, <3>1, <3>2 DEF QueueSize
  <2>4. (\A r \in Requests : ~(give[r] > 0)) => \A r \in Requests : b.sched[r] = 0
    BY <1>10, <1>20
  <2>5. CASE mode = "async" /\ Len(queue) = 0 /\ \E r \in Requests : give[r] > 0
    <3>1. pc' = "idle"
      BY <1>5, <2>2, <2>3, <2>5
    <3> QED
      BY <2>5, <3>1
  <2>6. CASE ~(mode = "async" /\ Len(queue) = 0 /\ \E r \in Requests : give[r] > 0)
    <3>1. pc' = "wait"
      BY <1>5, <2>3, <2>6
    <3> QED
      BY <2>4, <2>6, <3>1
  <2> QED
    BY <2>5, <2>6
<1>27. ASSUME NEW r \in Requests
       PROVE  /\ r \notin Range(kept) \cup Range(admitted) => b.sched[r] = 0 /\ computed'[r] = 0
              /\ r \in Range(kept) => b.base[r] = computed[r]
              /\ r \in Range(admitted) => b.sched[r] > 0
              /\ r \in Range(kept) \cup Range(admitted) =>
                   /\ computed'[r] = b.base[r] + b.sched[r]
                   /\ computed'[r] <= b.known[r] + b.promise[r]
              /\ b.known[r] = tokens[r] + placeholders[r]
              /\ placeholders'[r] = placeholders[r] + IF mode = "async" THEN b.promise[r] ELSE 0
  <2>1. r \notin Range(kept) \cup Range(admitted) => b.sched[r] = 0 /\ computed'[r] = 0
    <3> SUFFICES ASSUME r \notin Range(kept) \cup Range(admitted)
                 PROVE  give[r] = 0 /\ computed'[r] = 0
      BY <1>20
    <3>1. give[r] = 0
      BY <1>11
    <3>2. r \notin Range(preempted) => base[r] = 0
      <4>1. r \notin Range(preempted) => r \notin Range(running)
        BY <1>6
      <4>2. r \notin Range(preempted) => computed[r] = 0
        BY <4>1 DEF EInv, Queues
      <4> QED
        BY <4>2 DEF base
    <3> QED
      BY <1>22, <3>1, <3>2
  <2>2. ASSUME r \in Range(kept) \cup Range(admitted)
        PROVE  computed'[r] = base[r] + give[r] /\ computed'[r] <= known[r] + promise[r]
    <3>1. r \notin Range(preempted)
      BY <1>13, <1>15, <2>2
    <3>2. computed'[r] = base[r] + give[r]
      BY <1>22, <3>1
    <3>3. base[r] + give[r] <= known[r] + drafts[r]
      BY <1>12, <1>17, <2>2
    <3>4. drafts[r] <= promise[r]
      <4>1. drafts[r] > 0 => promise[r] = 1 + drafts[r]
        BY <1>17, <1>18
      <4> QED
        BY <1>17, <1>18, <4>1
    <3>5. /\ base[r] \in Nat /\ give[r] \in Nat /\ known[r] \in Nat
          /\ drafts[r] \in Nat /\ promise[r] \in Nat
      BY <1>10, <1>17, <1>18
    <3> QED
      BY <3>2, <3>3, <3>4, <3>5
  <2>3. /\ r \in Range(kept) => base[r] = computed[r]
        /\ known[r] = tokens[r] + placeholders[r]
    BY <1>17
  <2> QED
    BY <1>12, <1>20, <1>22, <2>1, <2>2, <2>3
<1>28. /\ Range(kept) \subseteq Range(running) /\ Range(admitted) \subseteq Range(waiting)
       /\ \A r \in Range(waiting') : /\ r \in Range(running) \cup Range(waiting)
                                     /\ r \notin Range(kept) \cup Range(admitted)
  BY <1>6, <1>7, <1>8, <1>9
<1>29. queue' = Append(queue, b) /\ finishedIds' = {}
  BY <1>3
<1>30. Planned(b, Range(kept), Range(admitted))
  BY <1>9, <1>20, <1>21, <1>23, <1>24, <1>25, <1>26, <1>27, <1>28, <1>29 DEF Planned
<1> QED
  BY <1>30

\* The plan of the next step.
LEMMA ScheduleStep ==
  ASSUME EInv, OverlapKept, Schedule PROVE EInv'
<1>0. UNCHANGED <<mode, enableSd, pauseState, clearing, status, tokens, discard,
                  inBatch, seen, kv, rejected>> /\ pc = "idle"
  BY DEF Schedule, workerVars
<1>1. PICK b, kept, admitted : Planned(b, kept, admitted)
  BY PlanFacts
<1>2. /\ queue' = Append(queue, b) /\ b \in Batches /\ ~b.run
      /\ b.fresh = admitted /\ b.finished = finishedIds /\ finishedIds' = {}
      /\ running' \in Seq(Requests) /\ waiting' \in Seq(Requests)
      /\ NoRepeats(running') /\ NoRepeats(waiting')
      /\ kept \subseteq Range(running) /\ admitted \subseteq Range(waiting)
      /\ Range(running') = kept \cup admitted
      /\ \A r \in Range(waiting') : /\ r \in Range(running) \cup Range(waiting)
                                    /\ r \notin kept \cup admitted
  BY <1>1 DEF Planned
<1>3. /\ computed' \in [Requests -> Nat] /\ placeholders' \in [Requests -> Nat]
      /\ spec' \in [Requests -> 0..NumSpec] /\ spent' \in 0..MaxDisruptions
      /\ pc' \in {"idle", "wait"}
      /\ pc' = "idle" => mode = "async" /\ Len(queue) = 0
      /\ pc' = "wait" /\ mode = "async" /\ Len(queue) = 0 =>
           \A r \in Requests : b.sched[r] = 0
  BY <1>1 DEF Planned
<1>4. \A r \in Requests :
       /\ r \notin kept \cup admitted => b.sched[r] = 0 /\ computed'[r] = 0
       /\ r \in kept => b.base[r] = computed[r]
       /\ r \in admitted => b.sched[r] > 0
       /\ r \in kept \cup admitted =>
            /\ computed'[r] = b.base[r] + b.sched[r]
            /\ computed'[r] <= b.known[r] + b.promise[r]
       /\ b.known[r] = tokens[r] + placeholders[r]
       /\ placeholders'[r] = placeholders[r] + IF mode = "async" THEN b.promise[r] ELSE 0
       /\ PlanSound(b, r)
  BY <1>1 DEF Planned
<1>5. Len(queue) = 0 \/ (Len(queue) = 1 /\ mode = "async")
  BY <1>0, IdleFacts
<1>6. /\ queue' \in Seq(Batches) /\ Len(queue') = Len(queue) + 1
      /\ queue'[Len(queue) + 1] = b
      /\ \A i \in 1..Len(queue) : queue'[i] = queue[i]
  <2>1. queue \in Seq(Batches)
    BY DEF EInv, TypeOK
  <2> QED
    BY <1>2, <2>1, AppendProperties
<1>7. Len(queue) = 0 => Len(queue') = 1 /\ queue'[1] = b
  BY <1>6
<1>8. Len(queue) = 1 => Len(queue') = 2 /\ queue'[1] = queue[1] /\ queue'[2] = b
  BY <1>6
<1>9. \A r \in Requests :
        /\ b.base[r] \in Nat /\ b.sched[r] \in Nat /\ b.drafts[r] \in Nat
        /\ b.known[r] \in Nat /\ b.promise[r] \in Nat
  <2>1. \A r \in Requests : b.base[r] \in Nat /\ b.known[r] \in Nat
    BY <1>2 DEF Batches
  <2>2. \A r \in Requests : /\ b.sched[r] \in 0..Budget /\ b.drafts[r] \in 0..NumSpec
                            /\ b.promise[r] \in 0..(NumSpec + 1)
    BY <1>2 DEF Batches
  <2> QED
    BY <2>1, <2>2, SizesAssumption
<1>10. \A r \in Requests :
         /\ tokens[r] \in Nat /\ computed[r] \in Nat /\ placeholders[r] \in Nat
         /\ kv[r] \in Nat /\ rejected[r] \in Nat
  BY CountType DEF EInv
<1>11. \A r \in kept \cup admitted : r \in Requests /\ status[r] = "live"
  <2>1. running \in Seq(Requests) /\ waiting \in Seq(Requests)
    BY DEF EInv, TypeOK
  <2>2. \A r \in Range(running) \cup Range(waiting) : r \in Requests
    BY <2>1 DEF Range
  <2> QED
    BY <1>2, <2>2 DEF EInv, Queues
<1>12. \A r \in Requests : b.sched[r] > 0 => r \in kept \cup admitted
  BY <1>4
<1>13. \A r \in Requests :
         /\ Took(1, r)' = Took(1, r) /\ Took(2, r)' = 0 /\ Took(2, r) = 0
         /\ Due(1, r)' = Due(1, r) /\ Due(2, r)' = 0 /\ Due(2, r) = 0
  <2> SUFFICES ASSUME NEW r \in Requests
               PROVE  /\ Took(1, r)' = Took(1, r) /\ Took(2, r)' = 0 /\ Took(2, r) = 0
                      /\ Due(1, r)' = Due(1, r) /\ Due(2, r)' = 0 /\ Due(2, r) = 0
    OBVIOUS
  <2>1. CASE Len(queue) = 0
    <3>1. Len(queue') = 1 /\ ~queue'[1].run
      BY <1>2, <1>7, <2>1
    <3> QED
      BY <2>1, <3>1 DEF Took, Due
  <2>2. CASE Len(queue) = 1
    <3>1. Len(queue') = 2 /\ queue'[1] = queue[1] /\ ~queue'[2].run
      BY <1>2, <1>8, <2>2
    <3>2. Took(1, r)' = Took(1, r) /\ Took(2, r)' = 0 /\ Took(2, r) = 0
      BY <2>2, <3>1 DEF Took
    <3>3. Due(1, r)' = Due(1, r) /\ Due(2, r)' = 0 /\ Due(2, r) = 0
      BY <2>2, <3>1 DEF Due, Refused
    <3> QED
      BY <3>2, <3>3
  <2> QED
    BY <1>5, <2>1, <2>2
<1>14. \A r \in Requests : Count(r)' = Count(r) /\ Lag(r)' = Lag(r)
  BY <1>0, <1>13 DEF Count, Lag
<1>15. \A r \in Requests :
         /\ Len(queue) = 0 => /\ Promised(1, r)' = b.promise[r] /\ Promised(2, r)' = 0
                              /\ Promised(1, r) = 0 /\ Promised(2, r) = 0
         /\ Len(queue) = 1 => /\ Promised(1, r)' = Promised(1, r)
                              /\ Promised(2, r)' = b.promise[r]
                              /\ Promised(1, r) = queue[1].promise[r] /\ Promised(2, r) = 0
  <2> SUFFICES ASSUME NEW r \in Requests
               PROVE  /\ Len(queue) = 0 => /\ Promised(1, r)' = b.promise[r] /\ Promised(2, r)' = 0
                              /\ Promised(1, r) = 0 /\ Promised(2, r) = 0
                      /\ Len(queue) = 1 => /\ Promised(1, r)' = Promised(1, r)
                              /\ Promised(2, r)' = b.promise[r]
                              /\ Promised(1, r) = queue[1].promise[r] /\ Promised(2, r) = 0
    OBVIOUS
  <2>1. CASE Len(queue) = 0
    BY <1>7, <2>1 DEF Promised
  <2>2. CASE Len(queue) = 1
    BY <1>8, <2>2 DEF Promised
  <2> QED
    BY <1>5, <2>1, <2>2
<1>16. ASSUME NEW r \in kept
       PROVE  /\ r \in Requests /\ r \notin admitted
              /\ Len(queue) = 0 => /\ b.base[r] = kv[r] /\ Due(1, r) = 0
                                   /\ mode = "async" => rejected[r] = 0
              /\ Len(queue) = 1 /\ queue[1].run =>
                   /\ b.base[r] = Due(1, r) + kv[r] /\ rejected[r] = Due(1, r)
              /\ Len(queue) = 1 /\ ~queue[1].run =>
                   b.base[r] = Reach(queue[1], r) /\ Due(1, r) = 0
  <2>1. r \in Requests /\ r \in Range(running) /\ r \notin admitted
    BY <1>2, <1>11 DEF EInv, Queues
  <2>2. b.base[r] = Due(1, r) + Due(2, r) + Ahead(r) /\ Due(2, r) = 0
    BY <1>4, <1>13, <2>1 DEF EInv, Computed
  <2>3. ASSUME Len(queue) = 0
        PROVE  b.base[r] = kv[r] /\ Due(1, r) = 0 /\ (mode = "async" => rejected[r] = 0)
    <3>1. Due(1, r) = 0 /\ Ahead(r) = kv[r]
      BY <2>3 DEF Due, Ahead
    <3>2. mode = "async" => rejected[r] = 0
      BY <2>1, <2>3 DEF EInv, Worker
    <3> QED
      BY <1>10, <2>1, <2>2, <3>1, <3>2
  <2>4. ASSUME Len(queue) = 1, queue[1].run
        PROVE  b.base[r] = Due(1, r) + kv[r] /\ rejected[r] = Due(1, r)
    <3>1. Due(1, r) = Refused(queue[1], r) /\ Ahead(r) = kv[r]
      BY <2>4 DEF Due, Ahead
    <3>2. 1 \in 1..Len(queue) /\ ~(1 < Len(queue))
      BY <2>4
    <3>3. rejected[r] = Refused(queue[1], r)
      BY <2>1, <2>4, <3>2 DEF EInv, Worker
    <3> QED
      BY <1>10, <2>1, <2>2, <3>1, <3>3
  <2>5. ASSUME Len(queue) = 1, ~queue[1].run
        PROVE  b.base[r] = Reach(queue[1], r) /\ Due(1, r) = 0
    <3>1. Due(1, r) = 0 /\ Ahead(r) = Reach(queue[1], r)
      BY <2>5 DEF Due, Ahead
    <3>2. Lined(queue[1]) /\ 1 \in 1..Len(queue)
      BY <2>5 DEF EInv, Line
    <3>3. queue[1].sched[r] \in Nat /\ (queue[1].sched[r] > 0 => Corrected(queue[1], r) \in Nat)
      BY <2>1, <3>2, BatchType, LinedFacts DEF EInv
    <3>4. Reach(queue[1], r) \in Nat
      BY <1>10, <2>1, <3>3 DEF Reach
    <3> QED
      BY <2>2, <3>1, <3>4
  <2> QED
    BY <2>1, <2>3, <2>4, <2>5
<1>17. ASSUME NEW r \in admitted
       PROVE  /\ r \in Requests /\ status[r] = "live" /\ placeholders[r] = 0
              /\ Len(queue) = 1 =>
                   queue[1].sched[r] = 0 /\ Took(1, r) = 0 /\ Due(1, r) = 0
              /\ Len(queue) = 0 => Took(1, r) = 0 /\ Due(1, r) = 0
  <2>1. r \in Requests /\ status[r] = "live" /\ r \in Range(waiting)
    BY <1>2, <1>11
  <2>2. placeholders[r] = 0
    BY <1>0, <2>1, IdleFacts
  <2>3. ASSUME Len(queue) = 1
        PROVE  queue[1].sched[r] = 0 /\ Took(1, r) = 0 /\ Due(1, r) = 0
    <3>1. queue[1].sched[r] = 0
      BY <2>1, <2>3 DEF EInv, Queues
    <3>2. 1 \in 1..Len(queue)
      BY <2>3
    <3>3. queue[1].got[r] = 0
      BY <2>1, <3>1, <3>2 DEF EInv, Plans, PlanSound
    <3> QED
      BY <2>3, <3>1, <3>3 DEF Took, Due, Refused
  <2>4. Len(queue) = 0 => Took(1, r) = 0 /\ Due(1, r) = 0
    BY DEF Took, Due
  <2> QED
    BY <2>1, <2>2, <2>3, <2>4
<1>18. TypeOK'
  <2>1. Len(queue') <= QueueSize'
    <3>1. CASE Len(queue) = 0
      <4>1. Len(queue') = 1
        BY <1>7, <3>1
      <4> QED
        BY <4>1 DEF QueueSize
    <3>2. CASE Len(queue) = 1 /\ mode = "async"
      <4>1. Len(queue') = 2 /\ mode' = "async"
        BY <1>0, <1>8, <3>2
      <4> QED
        BY <4>1 DEF QueueSize
    <3> QED
      BY <1>5, <3>1, <3>2
  <2>2. TokenLimit' = TokenLimit
    BY DEF TokenLimit
  <2> QED
    BY <1>0, <1>2, <1>3, <1>6, <2>1, <2>2 DEF EInv, TypeOK
<1>19. Shape'
  <2>1. CASE Len(queue) = 0
    <3>1. Len(queue') = 1
      BY <1>7, <2>1
    <3>2. mode = "async" => pauseState # "all" /\ ~clearing /\ discard = {}
      BY DEF EInv, Shape
    <3>3. pc' = "idle" => mode = "async"
      BY <1>3
    <3> QED
      BY <1>0, <3>1, <3>2, <3>3 DEF Shape
  <2>2. CASE Len(queue) = 1 /\ mode = "async"
    <3>1. Len(queue') = 2 /\ ~queue'[2].run
      BY <1>2, <1>8, <2>2
    <3>2. mode = "async" => pauseState # "all" /\ ~clearing /\ discard = {}
      BY DEF EInv, Shape
    <3>3. pc' # "idle"
      BY <1>3, <2>2
    <3> QED
      BY <1>0, <2>2, <3>1, <3>2, <3>3 DEF Shape
  <2> QED
    BY <1>5, <2>1, <2>2
<1>20. queue'[Len(queue')] = b
  BY <1>6
<1>21. \A r \in Range(waiting') : r \in Requests
  BY <1>2 DEF Range
<1>22. Queues'
  <2>1. \A r \in Range(running') : r \notin Range(waiting')
    BY <1>2
  <2>2. \A r \in Range(running') \cup Range(waiting') : status'[r] = "live"
    BY <1>0, <1>2, <1>11 DEF EInv, Queues
  <2>3. \A r \in Range(waiting') : queue'[Len(queue')].sched[r] = 0
    BY <1>2, <1>4, <1>20, <1>21
  <2>4. \A r \in Requests : r \notin Range(running') => computed'[r] = 0
    BY <1>2, <1>4
  <2>5. mode = "async" /\ pc' = "wait" /\ Len(queue') = 1 =>
          \A r \in Range(running') : queue'[1].sched[r] = 0
    <3>1. Len(queue') = 1 => Len(queue) = 0
      BY <1>5, <1>8
    <3> QED
      BY <1>2, <1>3, <1>7, <1>11, <3>1
  <2> QED
    BY <1>0, <1>2, <2>1, <2>2, <2>3, <2>4, <2>5 DEF Queues
<1>23. \A i \in 1..Len(queue') : queue'[i] = b \/ (i = 1 /\ Len(queue) = 1 /\ queue'[i] = queue[1])
  <2>1. CASE Len(queue) = 0
    <3>1. Len(queue') = 1 /\ queue'[1] = b
      BY <1>7, <2>1
    <3>2. \A i \in 1..Len(queue') : i = 1
      BY <3>1
    <3> QED
      BY <3>1, <3>2
  <2>2. CASE Len(queue) = 1
    <3>1. Len(queue') = 2 /\ queue'[1] = queue[1] /\ queue'[2] = b
      BY <1>8, <2>2
    <3>2. \A i \in 1..Len(queue') : i = 1 \/ i = 2
      BY <3>1
    <3> QED
      BY <2>2, <3>1, <3>2
  <2> QED
    BY <1>5, <2>1, <2>2
<1>24. Len(queue) = 1 => 1 \in 1..Len(queue)
  OBVIOUS
<1>25. Told'
  <2>1. \A r \in Requests : status[r] = "none" => /\ r \notin inBatch /\ placeholders[r] = 0
                                                  /\ b.sched[r] = 0 /\ b.promise[r] = 0
    <3>1. \A r \in Requests : status[r] = "none" => r \notin kept \cup admitted
      BY <1>11
    <3>2. \A r \in Requests : b.sched[r] = 0 => b.promise[r] = 0
      BY <1>4 DEF PlanSound
    <3> QED
      BY <1>4, <3>1, <3>2 DEF EInv, Told
  <2>2. \A r \in Requests : status[r] = "none" => placeholders'[r] = 0
    BY <1>4, <2>1
  <2>3. Len(queue) = 1 =>
          /\ \A r \in Requests : status[r] = "none" => queue[1].sched[r] = 0
          /\ \A r \in queue[1].finished : status[r] = "finished"
    BY <1>24 DEF EInv, Told
  <2>4. \A r \in b.finished : status[r] = "finished"
    BY <1>2 DEF EInv, Told
  <2> QED
    BY <1>0, <1>2, <1>23, <2>1, <2>2, <2>3, <2>4 DEF Told
<1>26. Plans'
  <2>1. Len(queue) = 1 => \A r \in Requests : PlanSound(queue[1], r)
    BY <1>24 DEF EInv, Plans
  <2>2. \A i \in 1..Len(queue') : \A r \in Requests : PlanSound(queue'[i], r)
    BY <1>4, <1>23, <2>1
  <2> QED
    BY <2>2 DEF Plans, PlanSound
<1>27. \A r \in Requests : status[r] = "live" =>
         /\ placeholders[r] = Promised(1, r) /\ Promised(1, r) \in Nat
         /\ Promised(1, r)' + Promised(2, r)' = placeholders[r] + b.promise[r]
  <2>1. \A r \in Requests : status[r] = "live" =>
          placeholders[r] = Promised(1, r) /\ Promised(1, r) \in Nat
    BY <1>0, IdleFacts
  <2> QED
    BY <1>5, <1>9, <1>10, <1>15, <2>1
<1>28. ASSUME Len(queue) = 0 \/ (Len(queue) = 1 /\ queue[1].run),
              NEW r \in Requests, b.sched[r] > 0
       PROVE  /\ r \notin b.fresh => b.base[r] = kv[r] + Lag(r)
              /\ status[r] = "live" =>
                   b.known[r] = Count(r) + (IF r \in b.fresh THEN 0 ELSE Lag(r))
  <2>1. r \in kept \cup admitted
    BY <1>12, <1>28
  <2>2. /\ b.known[r] = tokens[r] + placeholders[r] /\ status[r] = "live"
        /\ placeholders[r] = Promised(1, r)
    BY <1>4, <1>11, <1>27, <2>1
  <2>3. Count(r) = tokens[r] + Took(1, r) + Took(2, r) /\ Took(2, r) = 0 /\ Took(1, r) \in Nat
    BY <1>13, TookType DEF Count, EInv
  <2>4. Count(r) = tokens[r] + Took(1, r)
    BY <1>10, <2>3
  <2>5. CASE r \in admitted
    <3>1. placeholders[r] = 0 /\ Took(1, r) = 0 /\ r \in b.fresh
      BY <1>2, <1>5, <1>17, <2>5
    <3> QED
      BY <1>10, <2>2, <2>4, <3>1
  <2>6. CASE r \in kept /\ Len(queue) = 0
    <3>1. r \notin b.fresh /\ b.base[r] = kv[r] /\ (mode = "async" => rejected[r] = 0)
      BY <1>2, <1>16, <2>6
    <3>2. Lag(r) = 0
      BY <3>1 DEF Lag
    <3>3. Promised(1, r) = 0 /\ Took(1, r) = 0
      BY <1>15, <2>6 DEF Took
    <3> QED
      BY <1>10, <2>2, <2>4, <3>1, <3>2, <3>3
  <2>7. CASE r \in kept /\ Len(queue) = 1
    <3>0. queue[1].run /\ mode = "async" /\ 1 \in 1..Len(queue)
      BY <1>5, <1>24, <1>28, <2>7
    <3>1. r \notin b.fresh /\ b.base[r] = Due(1, r) + kv[r] /\ rejected[r] = Due(1, r)
      BY <1>2, <1>16, <2>7, <3>0
    <3>2. Lag(r) = Due(1, r) /\ Due(1, r) \in Nat
      BY <1>10, <3>0, <3>1 DEF Lag
    <3>3. Took(1, r) = queue[1].got[r] /\ Due(1, r) = Refused(queue[1], r)
      BY <2>7, <3>0 DEF Took, Due
    <3>4. queue[1].promise[r] = Refused(queue[1], r) + queue[1].got[r]
      BY <2>2, <3>0 DEF EInv, Ran, Live
    <3>5. Promised(1, r) = Due(1, r) + Took(1, r)
      BY <1>15, <2>7, <3>3, <3>4
    <3>6. b.base[r] = kv[r] + Lag(r)
      BY <1>10, <3>1, <3>2
    <3>7. b.known[r] = Count(r) + Lag(r)
      BY <1>10, <2>2, <2>3, <2>4, <3>2, <3>5
    <3> QED
      BY <3>1, <3>6, <3>7
  <2> QED
    BY <1>5, <2>1, <2>5, <2>6, <2>7
<1>29. Line'
  <2>1. ASSUME Len(queue) = 0 PROVE Lined(queue[1])'
    <3>1. queue'[1] = b
      BY <1>7, <2>1
    <3> QED
      BY <1>0, <1>14, <1>28, <2>1, <3>1 DEF Lined
  <2>2. ASSUME Len(queue) = 1, queue[1].run PROVE Lined(queue[2])'
    <3>1. queue'[2] = b
      BY <1>8, <2>2
    <3> QED
      BY <1>0, <1>14, <1>28, <2>2, <3>1 DEF Lined
  <2>3. ASSUME Len(queue) = 1, ~queue[1].run PROVE Lined(queue[1])' /\ Follows(queue[1], queue[2])'
    <3>1. queue'[1] = queue[1] /\ queue'[2] = b /\ Lined(queue[1])
      BY <1>8, <2>3 DEF EInv, Line
    <3>2. Lined(queue[1])'
      BY <1>0, <1>14, <3>1 DEF Lined
    <3> SUFFICES ASSUME NEW r \in Requests, b.sched[r] > 0
                 PROVE  /\ r \notin b.fresh => b.base[r] = Reach(queue[1], r)'
                        /\ status[r] = "live" => b.known[r] = tokens[r] + queue[1].promise[r]
                        /\ r \in b.fresh => queue[1].sched[r] = 0
                        /\ r \notin queue[1].finished
      BY <1>0, <3>1, <3>2 DEF Follows
    <3>3. r \in kept \cup admitted /\ status[r] = "live"
      BY <1>11, <1>12
    <3>4. r \notin queue[1].finished
      BY <1>24, <2>3, <3>3 DEF EInv, Told
    <3>5. b.known[r] = tokens[r] + queue[1].promise[r]
      BY <1>4, <1>15, <1>27, <2>3, <3>3
    <3>6. r \in b.fresh => queue[1].sched[r] = 0
      BY <1>2, <1>17, <2>3
    <3>7. Reach(queue[1], r)' = Reach(queue[1], r)
      BY <1>0, <3>1 DEF Reach, Corrected, Stays, Scheduled
    <3>8. r \notin b.fresh => b.base[r] = Reach(queue[1], r)
      BY <1>2, <1>16, <2>3, <3>3
    <3> QED
      BY <3>4, <3>5, <3>6, <3>7, <3>8
  <2>4. CASE Len(queue) = 0
    <3>1. Len(queue') = 1
      BY <1>7, <2>4
    <3> QED
      BY <2>1, <2>4, <3>1 DEF Line
  <2>5. CASE Len(queue) = 1
    <3>1. Len(queue') = 2 /\ queue'[1] = queue[1]
      BY <1>8, <2>5
    <3> QED
      BY <2>2, <2>3, <2>5, <3>1 DEF Line
  <2> QED
    BY <1>5, <2>4, <2>5
<1>30. Worker'
  <2>1. \A r \in inBatch' : status'[r] = "live" => seen'[r] = Count(r)'
    BY <1>0, <1>14 DEF EInv, Worker, TypeOK
  <2>2. \A r \in Requests : r \notin inBatch => rejected[r] = 0
    BY DEF EInv, Worker
  <2>3. Len(queue) = 1 /\ queue[1].run =>
          inBatch = Scheduled(queue[1]) /\ \A r \in Requests : rejected[r] = Refused(queue[1], r)
    <3>1. Len(queue) = 1 => ~(1 < Len(queue))
      OBVIOUS
    <3> QED
      BY <1>24, <3>1 DEF EInv, Worker
  <2>4. \A i \in 1..Len(queue') : queue'[i].run =>
          /\ inBatch = Scheduled(queue'[i])
          /\ \A r \in Requests : rejected[r] = Refused(queue'[i], r)
    BY <1>2, <1>23, <2>3
  <2>5. Len(queue') # 0
    <3>1. Len(queue') = 1 \/ Len(queue') = 2
      BY <1>5, <1>7, <1>8
    <3> QED
      BY <3>1
  <2> QED
    BY <1>0, <2>1, <2>2, <2>4, <2>5 DEF Worker, Refused, Scheduled
<1>31. Ran'
  <2>1. Len(queue) = 1 /\ queue[1].run =>
          \A r \in Live : /\ queue[1].promise[r] = Refused(queue[1], r) + queue[1].got[r]
                          /\ queue[1].got[r] > 0 => queue[1].pos[r] = tokens[r] + 0
    BY <1>24 DEF EInv, Ran
  <2>2. Live' = Live
    BY <1>0 DEF Live
  <2>3. \A i \in 1..Len(queue') : queue'[i].run => i = 1 /\ Len(queue) = 1 /\ queue'[i] = queue[1] /\ queue[1].run
    BY <1>2, <1>23
  <2> QED
    BY <1>0, <2>1, <2>2, <2>3 DEF Ran, Refused
<1>32. ASSUME NEW r \in kept \cup admitted, b.sched[r] > 0,
              Len(queue) = 0 \/ (Len(queue) = 1 /\ queue[1].run)
       PROVE  Corrected(b, r) = b.base[r] - Due(1, r)
  <2>1. r \in Requests
    BY <1>11
  <2>2. CASE r \in admitted
    <3>1. Due(1, r) = 0 /\ r \notin Stays(b)
      BY <1>2, <1>5, <1>17, <2>2 DEF Stays
    <3>2. Corrected(b, r) = b.base[r]
      BY <3>1 DEF Corrected
    <3> QED
      BY <1>9, <2>1, <3>1, <3>2
  <2>3. CASE r \in kept
    <3>1. r \in Stays(b) => r \in inBatch
      BY DEF Stays
    <3>2. r \in inBatch => r \in Stays(b)
      <4>1. r \notin b.finished /\ r \notin b.fresh
        BY <1>2, <1>4, <1>16, <1>32, <2>1, <2>3 DEF PlanSound
      <4> QED
        BY <1>32, <2>1, <4>1 DEF Stays, Scheduled
    <3>3. r \notin inBatch => rejected[r] = 0
      BY <2>1 DEF EInv, Worker
    <3>4. CASE Len(queue) = 0
      <4>1. Due(1, r) = 0 /\ (mode = "async" => rejected[r] = 0)
        BY <1>16, <2>3, <3>4
      <4> QED
        BY <1>9, <2>1, <4>1 DEF Corrected
    <3>5. CASE Len(queue) = 1 /\ queue[1].run
      <4>1. rejected[r] = Due(1, r) /\ mode = "async"
        BY <1>5, <1>16, <2>3, <3>5
      <4>2. CASE r \in inBatch
        BY <3>2, <4>1, <4>2 DEF Corrected
      <4>3. CASE r \notin inBatch
        <5>1. Corrected(b, r) = b.base[r] /\ Due(1, r) = 0
          BY <3>1, <3>3, <4>1, <4>3 DEF Corrected
        <5> QED
          BY <1>9, <2>1, <5>1
      <4> QED
        BY <4>2, <4>3
    <3> QED
      BY <1>32, <3>4, <3>5
  <2> QED
    BY <2>2, <2>3
<1>33. ASSUME NEW r \in kept \cup admitted
       PROVE  Due(1, r) \in Int /\ Due(1, r) + Ahead(r)' = b.base[r] + b.sched[r] /\ Ahead(r)' \in Int
  <2>0. /\ r \in Requests /\ b.base[r] \in Nat /\ b.sched[r] \in Nat /\ kv[r] \in Nat
        /\ Due(1, r) \in Int
    BY <1>9, <1>10, <1>11, DueType DEF EInv
  <2>1. b.sched[r] = 0 => r \in kept
    BY <1>4, <2>0
  <2>2. CASE Len(queue) = 0 \/ (Len(queue) = 1 /\ queue[1].run)
    <3>1. Ahead(r)' = IF b.sched[r] > 0 THEN Corrected(b, r) + b.sched[r] ELSE kv[r]
      <4>1. CASE Len(queue) = 0
        <5>1. Len(queue') = 1 /\ queue'[1] = b /\ ~queue'[1].run
          BY <1>2, <1>7, <4>1
        <5>2. Ahead(r)' = Reach(queue[1], r)'
          BY <5>1 DEF Ahead
        <5> QED
          BY <1>0, <5>1, <5>2 DEF Reach, Corrected, Stays, Scheduled
      <4>2. CASE Len(queue) = 1 /\ queue[1].run
        <5>1. Len(queue') = 2 /\ queue'[1].run /\ queue'[2] = b /\ ~queue'[2].run
          BY <1>2, <1>8, <4>2
        <5>2. Ahead(r)' = Reach(queue[2], r)'
          BY <5>1 DEF Ahead
        <5> QED
          BY <1>0, <5>1, <5>2 DEF Reach, Corrected, Stays, Scheduled
      <4> QED
        BY <2>2, <4>1, <4>2
    <3>2. CASE b.sched[r] > 0
      <4>1. Corrected(b, r) = b.base[r] - Due(1, r)
        BY <1>32, <2>2, <3>2
      <4>2. Ahead(r)' = (b.base[r] - Due(1, r)) + b.sched[r]
        BY <3>1, <3>2, <4>1
      <4> QED
        BY <2>0, <4>2
    <3>3. CASE b.sched[r] = 0
      <4>1. b.base[r] = Due(1, r) + kv[r]
        <5>1. Len(queue) = 0 => b.base[r] = kv[r] /\ Due(1, r) = 0
          BY <1>16, <2>1, <3>3
        <5>2. Len(queue) = 1 /\ queue[1].run => b.base[r] = Due(1, r) + kv[r]
          BY <1>16, <2>1, <3>3
        <5> QED
          BY <2>0, <2>2, <5>1, <5>2
      <4>2. Ahead(r)' = kv[r]
        BY <3>1, <3>3
      <4> QED
        BY <2>0, <3>3, <4>1, <4>2
    <3> QED
      BY <2>0, <3>2, <3>3
  <2>3. CASE Len(queue) = 1 /\ ~queue[1].run
    <3>1. Len(queue') = 2 /\ queue'[1] = queue[1] /\ queue'[2] = b /\ ~b.run
      BY <1>2, <1>8, <2>3
    <3>2. Ahead(r)' = IF b.sched[r] > 0 THEN b.base[r] + b.sched[r] ELSE Reach(queue[1], r)'
      BY <2>3, <3>1 DEF Ahead
    <3>3. Reach(queue[1], r)' = Reach(queue[1], r)
      BY <1>0, <3>1 DEF Reach, Corrected, Stays, Scheduled
    <3>4. Due(1, r) = 0
      BY <2>3 DEF Due
    <3>5. b.sched[r] = 0 => Reach(queue[1], r) = b.base[r]
      BY <1>16, <2>1, <2>3
    <3>6. Ahead(r)' = b.base[r] + b.sched[r]
      <4>1. CASE b.sched[r] > 0
        BY <3>2, <4>1
      <4>2. CASE b.sched[r] = 0
        <5>1. Ahead(r)' = b.base[r]
          BY <3>2, <3>3, <3>5, <4>2
        <5> QED
          BY <2>0, <4>2, <5>1
      <4> QED
        BY <2>0, <4>1, <4>2
    <3> QED
      BY <2>0, <3>4, <3>6
  <2> QED
    BY <1>5, <2>2, <2>3
<1>34. Computed'
  <2> SUFFICES ASSUME NEW r \in kept \cup admitted
               PROVE  /\ computed'[r] = Due(1, r)' + Due(2, r)' + Ahead(r)'
                      /\ computed'[r] <= tokens[r] + Promised(1, r)' + Promised(2, r)'
    BY <1>0, <1>2 DEF Computed
  <2>1. r \in Requests /\ status[r] = "live"
    BY <1>11
  <2>2. computed'[r] = b.base[r] + b.sched[r] /\ computed'[r] <= b.known[r] + b.promise[r]
    BY <1>4, <2>1
  <2>3. computed'[r] = Due(1, r)' + Due(2, r)' + Ahead(r)'
    <3>1. Due(1, r)' = Due(1, r) /\ Due(2, r)' = 0
      BY <1>13, <2>1
    <3>2. Due(1, r) \in Int /\ Due(1, r) + Ahead(r)' = b.base[r] + b.sched[r] /\ Ahead(r)' \in Int
      BY <1>33
    <3> QED
      BY <2>2, <3>1, <3>2
  <2>4. /\ b.known[r] = tokens[r] + placeholders[r]
        /\ Promised(1, r)' + Promised(2, r)' = placeholders[r] + b.promise[r]
    BY <1>4, <1>27, <2>1
  <2>5. /\ tokens[r] \in Nat /\ placeholders[r] \in Nat /\ b.promise[r] \in Nat
        /\ Promised(1, r)' \in Nat /\ Promised(2, r)' \in Nat /\ computed'[r] \in Nat
    <3>1. Promised(1, r) \in Nat
      BY <1>27, <2>1
    <3> QED
      BY <1>3, <1>5, <1>9, <1>10, <1>15, <2>1, <3>1
  <2>6. tokens[r] + Promised(1, r)' + Promised(2, r)' = (tokens[r] + placeholders[r]) + b.promise[r]
    BY <2>4, <2>5
  <2>7. computed'[r] <= tokens[r] + Promised(1, r)' + Promised(2, r)'
    BY <2>2, <2>4, <2>6
  <2> QED
    BY <2>3, <2>7
<1>35. Placeholders'
  <2> SUFFICES ASSUME NEW r \in Requests, status[r] # "finished"
               PROVE  placeholders'[r] =
                        IF mode = "async" THEN Promised(1, r)' + Promised(2, r)' ELSE 0
    BY <1>0 DEF Placeholders
  <2>1. placeholders[r] = IF mode = "async" THEN Promised(1, r) + Promised(2, r) ELSE 0
    BY DEF EInv, Placeholders
  <2>2. placeholders'[r] = placeholders[r] + IF mode = "async" THEN b.promise[r] ELSE 0
    BY <1>4
  <2>3. CASE mode = "async"
    <3>1. placeholders'[r] = (Promised(1, r) + Promised(2, r)) + b.promise[r]
      BY <2>1, <2>2, <2>3
    <3>2. Len(queue) = 1 => Promised(1, r) \in Nat
      BY <1>15, <1>24, BatchType DEF EInv
    <3> QED
      BY <1>5, <1>9, <1>15, <2>3, <3>1, <3>2
  <2>4. CASE mode # "async"
    BY <2>1, <2>2, <2>4
  <2> QED
    BY <2>3, <2>4
<1> QED
  BY <1>18, <1>19, <1>22, <1>25, <1>26, <1>29, <1>30, <1>31, <1>34, <1>35 DEF EInv
-----------------------------------------------------------------------------
(* The clients' and the operator's calls, and every step together.         *)

\* An abort between two steps or before a result is processed.
LEMMA AbortStep ==
  ASSUME EInv, NEW n \in Requests, Abort(n) PROVE EInv'
<1>1. /\ {n} \subseteq Live /\ FinishRequests({n})
      /\ UNCHANGED <<mode, enableSd, pauseState, clearing, pc, tokens, queue,
                     workerVars, spent>>
  BY DEF Abort
<1>2. /\ pauseState \in {"unpaused", "new", "all"} /\ clearing \in BOOLEAN
      /\ spent \in 0..MaxDisruptions
      /\ mode = "async" => pauseState # "all" /\ ~clearing
  BY DEF EInv, TypeOK, Shape
<1> QED
  BY <1>1, <1>2, FinishStep

\* The switch, the drain of the batch queue and the end of a pause.
LEMMA SwitchStep ==
  ASSUME EInv, Toggle \/ Drain \/ Resume PROVE EInv'
<1>1. /\ pauseState \in {"unpaused", "new", "all"} /\ clearing \in BOOLEAN
      /\ spent \in 0..MaxDisruptions /\ enableSd \in BOOLEAN
      /\ mode = "async" => pauseState # "all" /\ ~clearing
  BY DEF EInv, TypeOK, Shape
<1>2. CASE Toggle
  BY <1>1, <1>2, FlagStep DEF Toggle
<1>3. CASE Resume
  BY <1>1, <1>3, FlagStep DEF Resume
<1>4. CASE Drain
  <2>1. Len(queue) > 0
    <3>1. queue \in Seq(Batches) /\ Len(queue) \in Nat /\ queue # <<>>
      BY <1>4 DEF Drain, EInv, TypeOK
    <3>2. Len(queue) # 0
      BY <3>1, EmptySeq
    <3> QED
      BY <3>1, <3>2
  <2>2. mode = "async" => running = <<>>
    BY <1>1, <1>4 DEF Drain, HasRequests, HasRequestsWhen
  <2> QED
    BY <1>1, <1>4, <2>1, <2>2, FlagStep DEF Drain
<1> QED
  BY <1>2, <1>3, <1>4

\* The resets of the running requests: the operator's own, the one at the end
\* of the work.
LEMMA OperatorStep ==
  ASSUME EInv, OverlapKept, Reset \/ IdleCallback PROVE EInv'
<1>1. /\ pauseState \in {"unpaused", "new", "all"} /\ clearing \in BOOLEAN
      /\ spent \in 0..MaxDisruptions /\ mode \in {"sync", "async"}
      /\ mode = "async" => ~clearing
  BY DEF EInv, TypeOK, Shape, Modes
<1>2. CASE Reset
  <2>1. mode = "sync"
    BY <1>1, <1>2 DEF Reset, OverlapKept
  <2>2. spent' \in 0..MaxDisruptions
    BY <1>1, <1>2, SizesAssumption DEF Reset
  <2> QED
    BY <1>1, <1>2, <2>1, <2>2, ResetStep DEF Reset
<1>3. CASE IdleCallback
  BY <1>1, <1>3, ResetStep DEF IdleCallback
<1> QED
  BY <1>2, <1>3

\* pause_scheduler()
LEMMA PauseStep ==
  ASSUME EInv, OverlapKept, NEW how \in {"keep", "wait", "abort"},
         NEW clear \in BOOLEAN, Pause(how, clear)
  PROVE  EInv'
<1>1. /\ pauseState \in {"unpaused", "new", "all"} /\ clearing \in BOOLEAN
      /\ spent \in 0..MaxDisruptions /\ mode \in {"sync", "async"}
      /\ enableSd \in BOOLEAN /\ (mode = "async" => ~clearing)
  BY DEF EInv, TypeOK, Shape, Modes
<1>2. /\ pc = "idle" /\ how \in Controls[mode] /\ (clear => "clear" \in Controls[mode])
      /\ pauseState' = (IF how = "keep" THEN "all" ELSE "new")
      /\ UNCHANGED <<mode, enableSd, pc, tokens, queue, workerVars>>
  BY DEF Pause
<1>3. /\ pauseState' \in {"unpaused", "new", "all"}
      /\ mode = "async" => pauseState' # "all" /\ ~clear
  BY <1>2 DEF OverlapKept
<1>4. spent' \in 0..MaxDisruptions
  BY <1>1, SizesAssumption DEF Pause
<1>5. CASE Live # {} /\ FinishRequests(Live) /\ clearing' = (clearing \/ clear)
  <2>1. clearing' \in BOOLEAN /\ (mode = "async" => ~clearing')
    BY <1>1, <1>3, <1>5
  <2> QED
    BY <1>2, <1>3, <1>4, <1>5, <2>1, FinishStep
<1>6. CASE /\ clearing' \in {clearing, clearing \/ clear}
           /\ UNCHANGED <<running, waiting, computed, placeholders, spec, discard,
                          status, finishedIds>>
  <2>1. clearing' \in BOOLEAN /\ (mode = "async" => ~clearing')
    BY <1>1, <1>3, <1>6
  <2> QED
    BY <1>1, <1>2, <1>3, <1>4, <1>6, <2>1, FlagStep
<1>7. CASE clear /\ ResetRunning /\ UNCHANGED <<clearing, status, finishedIds>>
  <2>1. mode = "sync"
    BY <1>1, <1>3, <1>7
  <2> QED
    BY <1>1, <1>2, <1>3, <1>4, <1>7, <2>1, ResetStep
<1> QED
  BY <1>5, <1>6, <1>7 DEF Pause

LEMMA NextStep ==
  ASSUME EInv, OverlapKept, [Next]_vars PROVE EInv'
<1>1. CASE UNCHANGED vars
  <2>1. /\ pauseState \in {"unpaused", "new", "all"} /\ clearing \in BOOLEAN
        /\ spent \in 0..MaxDisruptions /\ enableSd \in BOOLEAN
        /\ mode = "async" => pauseState # "all" /\ ~clearing
    BY DEF EInv, TypeOK, Shape
  <2> QED
    BY <1>1, <2>1, FlagStep DEF vars, schedulerVars
<1>2. CASE Next
  BY <1>2, AddStep, AbortStep, SwitchStep, ScheduleStep, ExecuteStep, ProcessStep,
     OperatorStep, PauseStep DEF Next
<1> QED
  BY <1>1, <1>2

LEMMA InitE == Init => EInv
<1> SUFFICES ASSUME Init PROVE EInv
  OBVIOUS
<1>1. /\ Len(queue) = 0 /\ Range(running) = {} /\ Range(waiting) = {}
      /\ DOMAIN running = {} /\ DOMAIN waiting = {}
      /\ 1..Len(queue) = {}
  BY DEF Init, Range
<1>2. TypeOK
  <2>1. PromptLen \in PromptLen..TokenLimit
    BY SizesAssumption DEF TokenLimit, Least
  <2>2. /\ tokens \in [Requests -> PromptLen..TokenLimit]
        /\ status \in [Requests -> {"none", "live", "finished"}]
        /\ computed \in [Requests -> Nat] /\ placeholders \in [Requests -> Nat]
        /\ spec \in [Requests -> 0..NumSpec] /\ seen \in [Requests -> Nat]
        /\ kv \in [Requests -> Nat] /\ rejected \in [Requests -> 0..NumSpec]
    BY <2>1, SizesAssumption DEF Init, Zero
  <2>3. /\ running \in Seq(Requests) /\ waiting \in Seq(Requests)
        /\ queue \in Seq(Batches) /\ Len(queue) <= QueueSize
        /\ spent \in 0..MaxDisruptions
    BY <1>1, SizesAssumption DEF Init, QueueSize
  <2> QED
    BY <2>2, <2>3 DEF Init, TypeOK
<1>3. Shape
  BY <1>1 DEF Init, Shape
<1>4. Queues
  BY <1>1 DEF Init, Queues, NoRepeats, Zero
<1>5. Told /\ Plans /\ Line
  BY <1>1 DEF Init, Told, Plans, Line, Zero
<1>6. Worker /\ Ran /\ Computed
  BY <1>1 DEF Init, Worker, Ran, Computed, Zero
<1>7. Placeholders
  BY <1>1 DEF Init, Placeholders, Promised, Zero
<1> QED
  BY <1>2, <1>3, <1>4, <1>5, <1>6, <1>7 DEF EInv
-----------------------------------------------------------------------------
(* The theorems.                                                           *)

LEMMA Invariant == ASSUME OverlapKept PROVE Spec => []EInv
<1>1. OverlapKept /\ EInv /\ [Next]_vars => EInv'
  BY NextStep
<1> QED
  BY <1>1, InitE, PTL DEF Spec

\* Types, for any number of requests, drafts and tokens: no correction for
\* rejected drafts in update_from_output() or _update_states() takes a count
\* below zero, and no request gets more tokens than check_stop() allows.
THEOREM TypeCorrect == ASSUME OverlapKept PROVE Spec => []TypeOK
<1>1. EInv => TypeOK
  BY DEF EInv
<1> QED
  BY <1>1, Invariant, PTL

\* The asynchronous scheduler's num_output_placeholders are exactly the tokens
\* that the batches in flight may bring, however toggles, preemptions, aborts
\* and rejections fall between the plan of a batch and its result.
THEOREM PlaceholdersExact == ASSUME OverlapKept PROVE Spec => []PlaceholdersMatch
<1>1. EInv => PlaceholdersMatch
  BY DEF EInv, Placeholders, PlaceholdersMatch, Live
<1> QED
  BY <1>1, Invariant, PTL

\* The tokens update_from_output() takes from the oldest batch are those behind
\* the last token of the request, for any number of requests and drafts.
THEOREM InOrder == ASSUME OverlapKept PROVE Spec => []DeliveredInOrder
<1>1. EInv => DeliveredInOrder
  <2> SUFFICES ASSUME EInv, queue # <<>>, Head(queue).run,
                      NEW r \in Live, Head(queue).got[r] > 0
               PROVE  Head(queue).pos[r] = tokens[r]
    BY DEF DeliveredInOrder
  <2>1. Head(queue) = queue[1] /\ 1 \in 1..Len(queue) /\ r \in Requests
    <3>1. queue \in Seq(Batches)
      BY DEF EInv, TypeOK
    <3> QED
      BY <3>1 DEF Live
  <2>2. queue[1].pos[r] = tokens[r] + (IF 1 = 2 THEN queue[1].got[r] ELSE 0)
    BY <2>1 DEF EInv, Ran
  <2>3. tokens[r] \in Nat
    BY <2>1, CountType DEF EInv
  <2> QED
    BY <2>1, <2>2, <2>3
<1> QED
  BY <1>1, Invariant, PTL

\* The batch the worker runs next continues where the KV entries of its
\* requests end, and samples exactly those the scheduler promised a token,
\* after the corrections of _update_states() and update_from_output().
THEOREM PositionsAgree == ASSUME OverlapKept PROVE Spec => []PositionsExact
<1>1. EInv => PositionsExact
  <2> SUFFICES ASSUME EInv, \E i \in DOMAIN queue : ~queue[i].run,
                      NEW r \in Scheduled(queue[NextToRun]) \cap Live
               PROVE  /\ r \notin queue[NextToRun].fresh =>
                           Corrected(queue[NextToRun], r) = kv[r]
                      /\ queue[NextToRun].promise[r] > 0 <=> r \in Sampled(queue[NextToRun])
                      /\ r \in Sampled(queue[NextToRun]) =>
                           Corrected(queue[NextToRun], r) + queue[NextToRun].sched[r]
                             - queue[NextToRun].drafts[r] = Known(queue[NextToRun], r)
    BY DEF PositionsExact
  <2>1. DOMAIN queue = 1..Len(queue)
    BY DEF EInv, TypeOK
  <2>2. NextToRun \in 1..Len(queue) /\ Lined(queue[NextToRun])
    BY <2>1, NextBatch
  <2>3. r \in Requests /\ queue[NextToRun].sched[r] > 0 /\ status[r] = "live"
    BY DEF Scheduled, Live
  <2> QED
    BY <2>2, <2>3, LinedFacts
<1> QED
  BY <1>1, Invariant, PTL
-----------------------------------------------------------------------------
(* The clients' view, whatever the operator does and however fast results  *)
(* come back: a wrong position spoils a token's value, but not the stream. *)

\* Batches of which only the number of tokens got is known.
Loose(A) ==
  [sd : A, base : A, sched : A, drafts : A, known : A, promise : A, fresh : A,
   finished : A, run : A, got : [Requests -> Int], pos : A]

SInv ==
  /\ status \in [Requests -> {"none", "live", "finished"}]
  /\ tokens \in [Requests -> PromptLen..TokenLimit]
  /\ \E A : queue \in Seq(Loose(A))

\* What a step does to one request, as its client sees it.
ClientStep(r) ==
  \/ status'[r] = status[r] /\ tokens'[r] = tokens[r]
  \/ status[r] = "none" /\ status'[r] = "live" /\ tokens'[r] = tokens[r]
  \/ status[r] = "live" /\ status'[r] = "finished" /\ tokens'[r] = tokens[r]
  \/ /\ status[r] = "live" /\ status'[r] \in {"live", "finished"}
     /\ tokens'[r] \in (tokens[r] + 1)..TokenLimit
     /\ tokens'[r] = TokenLimit => status'[r] = "finished"

\* More values for the unknown fields.
LEMMA Looser ==
  ASSUME NEW A, NEW B, NEW s \in Seq(Loose(A))
  PROVE  s \in Seq(Loose(A \cup B))
<1>1. Loose(A) \subseteq Loose(A \cup B)
  BY DEF Loose
<1>2. PICK n \in Nat : s \in [1..n -> Loose(A)]
  BY SeqDef
<1>3. s \in [1..n -> Loose(A \cup B)]
  BY <1>1, <1>2
<1> HIDE DEF Loose
<1> QED
  BY <1>3, SeqDef

LEMMA ScheduleLoose ==
  ASSUME SInv, Schedule PROVE \E A : queue' \in Seq(Loose(A))
<1>1. PICK m \in 0..Len(running), a \in 0..Len(waiting), give \in [Requests -> 0..Budget] :
        \E hit \in [{waiting[i] : i \in 1..a} -> Hits] : Plan(m, a, hit, give)
  BY DEF Schedule
<1>2. PICK hit \in [{waiting[i] : i \in 1..a} -> Hits] : Plan(m, a, hit, give)
  BY <1>1
<1>3. PICK A : queue \in Seq(Loose(A))
  BY DEF SInv
<1> DEFINE kept == SubSeq(running, 1, m)
           admitted == SubSeq(waiting, 1, a)
           base == [r \in Requests |->
                      IF r \in Range(admitted) THEN hit[r] ELSE computed[r]]
           drafts == [r \in Requests |->
                        IF r \in Range(kept) THEN Drafts(r, give[r]) ELSE 0]
           chunk == {r \in Requests : base[r] + give[r] < tokens[r] + placeholders[r]}
           promise == [r \in Requests |->
                         IF give[r] > 0 /\ r \notin chunk THEN 1 + drafts[r] ELSE 0]
           known == [r \in Requests |-> tokens[r] + placeholders[r]]
           fresh == Range(admitted)
           B == {enableSd, base, give, drafts, known, promise, fresh, finishedIds,
                 FALSE, Zero}
           b == [sd |-> enableSd, base |-> base, sched |-> give, drafts |-> drafts,
                 known |-> known, promise |-> promise, fresh |-> fresh,
                 finished |-> finishedIds, run |-> FALSE, got |-> Zero, pos |-> Zero]
<1>4. queue' = Append(queue, b)
  BY <1>2 DEF Plan
<1> HIDE DEF base, drafts, promise, known, fresh
<1>5. b \in Loose(A \cup B)
  <2>1. Zero \in [Requests -> Int]
    BY DEF Zero
  <2>2. \A z \in B : z \in A \cup B
    OBVIOUS
  <2>3. /\ enableSd \in B /\ base \in B /\ give \in B /\ drafts \in B /\ known \in B
        /\ promise \in B /\ fresh \in B /\ finishedIds \in B /\ FALSE \in B /\ Zero \in B
    OBVIOUS
  <2> HIDE DEF B
  <2> QED
    BY <2>1, <2>2, <2>3 DEF Loose
<1> HIDE DEF B, b
<1>6. queue \in Seq(Loose(A \cup B))
  BY <1>3, Looser
<1>7. queue' \in Seq(Loose(A \cup B))
  BY <1>4, <1>5, <1>6
<1> QED
  BY <1>7

LEMMA ExecuteLoose ==
  ASSUME SInv, Execute PROVE \E A : queue' \in Seq(Loose(A))
<1>1. PICK A : queue \in Seq(Loose(A))
  BY DEF SInv
<1> DEFINE n == NextToRun
           b == queue[n]
           got(acc) == [r \in Requests |-> IF r \in Sampled(b) THEN 1 + acc[r] ELSE 0]
           pos == [r \in Requests |-> IF r \in Sampled(b) THEN Known(b, r) ELSE 0]
<1>2. PICK acc \in [Requests -> 0..NumSpec] :
        queue' = [queue EXCEPT ![n] = [b EXCEPT !.run = TRUE, !.got = got(acc), !.pos = pos]]
  BY DEF Execute
<1> DEFINE g == got(acc)
           B == {TRUE, pos}
           x == [b EXCEPT !.run = TRUE, !.got = g, !.pos = pos]
<1>3. queue' = [queue EXCEPT ![n] = x]
  BY <1>2
<1>4. g \in [Requests -> Int]
  BY SizesAssumption
<1>5. queue \in Seq(Loose(A \cup B))
  BY <1>1, Looser
<1> HIDE DEF n, g, pos, got
<1>6. CASE n \in 1..Len(queue)
  <2>1. b \in Loose(A \cup B)
    BY <1>5, <1>6
  <2>2. TRUE \in A \cup B /\ pos \in A \cup B
    OBVIOUS
  <2> HIDE DEF B, b
  <2>3. x \in Loose(A \cup B)
    BY <1>4, <2>1, <2>2 DEF Loose
  <2> HIDE DEF x
  <2>4. queue' \in Seq(Loose(A \cup B))
    BY <1>3, <1>5, <1>6, <2>3
  <2> QED
    BY <2>4
<1>7. CASE n \notin 1..Len(queue)
  <2>1. queue' = queue
    BY <1>1, <1>3, <1>7
  <2> QED
    BY <1>1, <2>1
<1> QED
  BY <1>6, <1>7

\* Each request update_from_output() serves gets at least one token, at most
\* those up to its limit, and is over at the limit.
LEMMA ProcessClient ==
  ASSUME SInv, Process
  PROVE  /\ status' \in [Requests -> {"none", "live", "finished"}]
         /\ tokens' \in [Requests -> PromptLen..TokenLimit]
         /\ \E A : queue' \in Seq(Loose(A))
         /\ \A r \in Requests : ClientStep(r)
<1>1. PICK A : queue \in Seq(Loose(A))
  BY DEF SInv
<1>2. queue # <<>> /\ queue' = Tail(queue)
  BY DEF Process
<1>3. Head(queue) \in Loose(A) /\ queue' \in Seq(Loose(A))
  BY <1>1, <1>2
<1> DEFINE b == Head(queue)
           served == {r \in Live : b.got[r] > 0}
           swallowed == IF mode = "async" THEN served \cap discard ELSE {}
           refused == [r \in Requests |-> IF r \in served THEN Refused(b, r) ELSE 0]
           appended == served \ swallowed
<1>4. PICK take \in [Requests -> 0..(NumSpec + 1)], eos \in SUBSET served,
           drafts \in [Requests -> 0..NumSpec] :
        LET stopped == {r \in appended : r \in eos \/ tokens[r] + take[r] >= TokenLimit}
        IN /\ eos \subseteq appended
           /\ \A r \in Requests :
                IF r \in appended
                THEN /\ take[r] \in 1..Room(b, r)
                     /\ take[r] < Room(b, r) => r \in eos
                ELSE take[r] = 0
           /\ \A r \in Requests : drafts[r] > 0 =>
                /\ mode = "sync" /\ b.sd /\ enableSd
                /\ r \in Live \ stopped /\ b.promise[r] > 0
           /\ tokens' = [r \in Requests |-> tokens[r] + take[r]]
           /\ running' \in Without(running, stopped)
           /\ waiting' \in Without(waiting, stopped)
           /\ Free(stopped,
                   [r \in Requests |-> Unwind(computed[r], refused[r])],
                   [r \in Requests |-> Unwind(placeholders[r], refused[r])
                                        - IF mode = "async" THEN take[r] ELSE 0],
                   [r \in Requests |-> IF drafts[r] > 0 THEN drafts[r] ELSE spec[r]],
                   discard \ swallowed)
  BY DEF Process
<1> DEFINE stopped == {r \in appended : r \in eos \/ tokens[r] + take[r] >= TokenLimit}
<1>5. /\ tokens' = [r \in Requests |-> tokens[r] + take[r]]
      /\ status' = [r \in Requests |-> IF r \in stopped THEN "finished" ELSE status[r]]
  <2> HIDE DEF b, served, swallowed, refused
  <2> QED
    BY <1>4 DEF Free
<1>6. /\ TokenLimit \in Nat /\ PromptLen \in Nat
      /\ \A r \in Requests : tokens[r] \in Nat /\ tokens[r] >= PromptLen
                             /\ tokens[r] <= TokenLimit
  <2>1. TokenLimit \in Nat /\ PromptLen \in Nat
    BY SizesAssumption DEF TokenLimit, Least
  <2> QED
    BY <2>1 DEF SInv
<1>7. \A r \in Requests : b.got[r] \in Int
  BY <1>3 DEF Loose
<1>8. ASSUME NEW r \in Requests
      PROVE  /\ tokens'[r] \in PromptLen..TokenLimit
             /\ ClientStep(r)
  <2>1. IF r \in appended THEN take[r] \in 1..Room(b, r) ELSE take[r] = 0
    BY <1>4
  <2>2. Room(b, r) \in Int /\ Room(b, r) <= TokenLimit - tokens[r]
    BY <1>6, <1>7 DEF Room, Least
  <2>3. r \in stopped <=> r \in appended /\ (r \in eos \/ tokens[r] + take[r] >= TokenLimit)
    OBVIOUS
  <2>4. r \in appended => status[r] = "live"
    BY DEF Live
  <2>5. /\ tokens'[r] = tokens[r] + take[r]
        /\ status'[r] = IF r \in stopped THEN "finished" ELSE status[r]
    BY <1>5
  <2> HIDE DEF b, served, swallowed, appended, stopped
  <2>6. CASE r \in appended
    <3>1. take[r] \in Int /\ take[r] >= 1 /\ take[r] <= Room(b, r)
      BY <2>1, <2>2, <2>6
    <3>2. tokens[r] + take[r] \in (tokens[r] + 1)..TokenLimit
      BY <1>6, <2>2, <3>1
    <3>3. tokens[r] + take[r] = TokenLimit => r \in stopped
      BY <1>6, <2>3, <2>6
    <3>4. tokens[r] + take[r] \in PromptLen..TokenLimit
      BY <1>6, <3>2
    <3> QED
      BY <2>4, <2>5, <2>6, <3>2, <3>3, <3>4 DEF ClientStep
  <2>7. CASE r \notin appended
    <3>1. tokens'[r] = tokens[r] /\ status'[r] = status[r]
      BY <1>6, <2>1, <2>3, <2>5, <2>7
    <3> QED
      BY <1>6, <3>1 DEF ClientStep
  <2> QED
    BY <2>6, <2>7
<1> HIDE DEF b, served, swallowed, appended, stopped
<1>9. status' \in [Requests -> {"none", "live", "finished"}]
  BY <1>5 DEF SInv
<1>10. tokens' \in [Requests -> PromptLen..TokenLimit]
  <2>1. tokens' = [r \in Requests |-> tokens'[r]]
    BY <1>5
  <2> QED
    BY <1>8, <2>1
<1> QED
  BY <1>3, <1>8, <1>9, <1>10

\* Every step is one a client may see.
LEMMA ClientSees ==
  ASSUME SInv, [Next]_vars
  PROVE  SInv' /\ \A r \in Requests : ClientStep(r)
<1>1. CASE Process
  BY <1>1, ProcessClient DEF SInv
<1>2. CASE UNCHANGED <<status, tokens>> /\ (Schedule \/ Execute \/ UNCHANGED queue)
  BY <1>2, ScheduleLoose, ExecuteLoose DEF SInv, ClientStep
<1>3. ASSUME NEW n \in Requests, AddRequest(n)
      PROVE  SInv' /\ \A r \in Requests : ClientStep(r)
  <2>1. /\ status' = [status EXCEPT ![n] = "live"] /\ status[n] = "none"
        /\ UNCHANGED <<tokens, queue>>
    BY <1>3 DEF AddRequest
  <2> QED
    BY <2>1 DEF SInv, ClientStep
<1>4. ASSUME NEW S, S \subseteq Live, FinishRequests(S), UNCHANGED <<tokens, queue>>
      PROVE  SInv' /\ \A r \in Requests : ClientStep(r)
  <2>1. status' = [r \in Requests |-> IF r \in S THEN "finished" ELSE status[r]]
    BY <1>4 DEF FinishRequests, Free
  <2> QED
    BY <1>4, <2>1 DEF SInv, ClientStep, Live
<1>5. ASSUME NEW n \in Requests, Abort(n)
      PROVE  SInv' /\ \A r \in Requests : ClientStep(r)
  BY <1>4, <1>5 DEF Abort
<1>6. ASSUME NEW how, NEW clear, Pause(how, clear)
      PROVE  SInv' /\ \A r \in Requests : ClientStep(r)
  <2>1. UNCHANGED <<tokens, queue>> /\ (FinishRequests(Live) \/ UNCHANGED status)
    BY <1>6 DEF Pause
  <2> QED
    BY <1>2, <1>4, <2>1
<1>7. CASE Toggle \/ Drain \/ Reset \/ IdleCallback \/ Resume
  <2>1. UNCHANGED <<status, tokens, queue>>
    BY <1>7 DEF Toggle, Drain, Reset, IdleCallback, Resume
  <2> QED
    BY <1>2, <2>1
<1>8. CASE Schedule \/ Execute
  <2>1. UNCHANGED <<status, tokens>>
    BY <1>8 DEF Schedule, Execute, schedulerVars
  <2> QED
    BY <1>2, <1>8, <2>1
<1>9. CASE UNCHANGED vars
  BY <1>2, <1>9 DEF vars, schedulerVars
<1> QED
  BY <1>1, <1>3, <1>5, <1>6, <1>7, <1>8, <1>9 DEF Next

LEMMA InitS == Init => SInv
<1> SUFFICES ASSUME Init PROVE SInv
  OBVIOUS
<1>1. PromptLen \in PromptLen..TokenLimit
  BY SizesAssumption DEF TokenLimit, Least
<1>2. queue \in Seq(Loose({}))
  BY DEF Init
<1> QED
  BY <1>1, <1>2 DEF Init, SInv

\* To its clients the engine is a set of token streams, for any number of
\* requests and whatever the switch and the operator do: add_request() opens a
\* stream, update_from_output() extends it by at least one token and closes it
\* at the limit, finish_requests() gives it up, and a closed one never changes.
THEOREM StreamsKept == Spec => Client!StreamSafety
<1>1. Init => Client!StreamInit
  <2> SUFFICES ASSUME Init PROVE Client!StreamInit
    OBVIOUS
  <2>1. \A r \in Requests : tokens[r] - PromptLen = 0
    BY SizesAssumption DEF Init
  <2> QED
    BY <2>1 DEF Init, Client!StreamInit
<1>2. SInv /\ [Next]_vars => SInv' /\ [Client!StreamNext]_(Client!streamVars)
  <2> SUFFICES ASSUME SInv, [Next]_vars PROVE SInv' /\ Client!StreamNext
    BY DEF Client!streamVars
  <2>1. SInv' /\ \A r \in Requests : ClientStep(r)
    BY ClientSees
  <2> SUFFICES ASSUME NEW s \in Requests
               PROVE  Client!Open(s) \/ Client!Emit(s) \/ Client!Cancel(s) \/ Client!Quiet(s)
    BY <2>1 DEF Client!StreamNext
  <2>2. /\ tokens[s] \in Nat /\ tokens'[s] \in Nat /\ TokenLimit \in Nat
        /\ PromptLen \in Nat
    <3>1. TokenLimit \in Nat /\ PromptLen \in Nat
      BY SizesAssumption DEF TokenLimit, Least
    <3>2. tokens' \in [Requests -> PromptLen..TokenLimit]
      BY <2>1 DEF SInv, TokenLimit
    <3> QED
      BY <3>1, <3>2 DEF SInv
  <2>3. CASE status'[s] = status[s] /\ tokens'[s] = tokens[s]
    BY <2>3 DEF Client!Quiet
  <2>4. CASE status[s] = "none" /\ status'[s] = "live" /\ tokens'[s] = tokens[s]
    BY <2>4 DEF Client!Open
  <2>5. CASE status[s] = "live" /\ status'[s] = "finished" /\ tokens'[s] = tokens[s]
    BY <2>5 DEF Client!Cancel
  <2>6. CASE /\ status[s] = "live" /\ status'[s] \in {"live", "finished"}
             /\ tokens'[s] \in (tokens[s] + 1)..TokenLimit
             /\ tokens'[s] = TokenLimit => status'[s] = "finished"
    <3>1. tokens'[s] - PromptLen \in ((tokens[s] - PromptLen) + 1)..(TokenLimit - PromptLen)
      BY <2>2, <2>6
    <3>2. tokens'[s] - PromptLen = TokenLimit - PromptLen => status'[s] = "finished"
      BY <2>2, <2>6
    <3> QED
      BY <2>6, <3>1, <3>2 DEF Client!Emit
  <2> QED
    BY <2>1, <2>3, <2>4, <2>5, <2>6 DEF ClientStep
<1> QED
  BY <1>1, <1>2, InitS, PTL DEF Spec, Client!StreamSafety
=============================================================================
