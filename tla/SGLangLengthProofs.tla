------------------------- MODULE SGLangLengthProofs -------------------------
(***************************************************************************)
(* Proofs about the lengths and KV bookings of SGLangEngine, for any       *)
(* number of requests and draft steps: a decode runs at the position and   *)
(* on the token it should, in slots its request owns, and slots are booked *)
(* as they are freed.  The argument follows a request from its prefill     *)
(* through plain, recovery and verify iterations: committed length and     *)
(* drafts accepted in results not yet processed together always make up    *)
(* the request's length.                                                   *)
(***************************************************************************)
EXTENDS SGLangProofs

\* Accepted drafts of r in the i-th pending result, and in all of them: there
\* are never more than two.
Extra(i, r) ==
  IF i <= Len(results) /\ Verifies(results[i]) /\ r \in results[i].reqs
  THEN results[i].got[r] - 1 ELSE 0
Gain(r) == Extra(1, r) + Extra(2, r)

\* r has slots for what is committed and no more, as after a prefill or a
\* plain decode; or it was given slots for drafts and has some left.
Even(r) == allocated[r] = committed[r] /\ Gain(r) = 0
Ahead(r) == allocated[r] > committed[r] + Gain(r)

\* A request that goes on with decodes and is in no batch about to run.
Resting(r) ==
  /\ status[r] = "active"
  /\ \/ r \in running.reqs /\ ~(pc = "run" /\ cur.kind = "decode")
     \/ /\ pc \in {"receive", "early", "merge"} /\ last.kind = "prefill"
        /\ r \in last.reqs \ {last.chunk, chunked}
     \/ /\ pc = "process" /\ cur.kind = "prefill"
        /\ r \in cur.reqs \ {cur.chunk}

\* The last token sampled is not computed yet: seq_lens, or what FutureMap
\* publishes, is one behind the length.
RestsAt(r) ==
  /\ committed[r] + Gain(r) + 1 = len[r]
  /\ (Even(r) /\ seq[r] + 1 = len[r]) \/ Ahead(r)
  /\ r \notin switched =>
       /\ ~enabled => Even(r) /\ seq[r] + 1 = len[r]
       /\ overlap => relay[r] = len[r]
       /\ overlap /\ (enabled \/ inflight) => published[r] + 1 = len[r]
       /\ ~overlap => seq[r] + 1 = len[r]
       /\ ~overlap /\ ~enabled /\ ~inflight => relay[r] = len[r]

\* A request in the decode batch about to run: its bonus token is booked.
Rolling(r) ==
  /\ status[r] = "active"
  /\ pc = "run" /\ cur.kind = "decode" /\ r \in cur.reqs

RollsAt(r) ==
  /\ committed[r] + Gain(r) = len[r]
  /\ enabled => allocated[r] >= len[r] + NumSteps + 1
  /\ ~enabled => (Even(r) /\ seq[r] = len[r]) \/ Ahead(r)
  /\ r \notin switched =>
       /\ ~enabled => Even(r) /\ seq[r] = len[r] /\ relay[r] = len[r]
       /\ overlap => relay[r] = len[r]
       /\ overlap /\ enabled => published[r] + 1 = len[r]
       /\ ~overlap /\ enabled => seq[r] + 1 = len[r]

\* A request in the prefill batch about to run.
Filling(r) ==
  /\ status[r] = "active"
  /\ pc = "run" /\ cur.kind = "prefill" /\ r \in cur.reqs
FillsAt(r) == committed[r] = seq[r] /\ Even(r)

\* Who is where: batches hold requests that are served or over, none is in
\* two of them, and a batch about to decode is the running batch.
Places ==
  /\ \A r \in running.reqs : status[r] \in Seen /\ r # chunked
  /\ pc = "run" /\ cur.kind = "decode" => running = cur /\ cur.chunk = None
  /\ pc = "run" /\ cur.kind = "prefill" =>
       cur.info = {} /\ cur.chunk = chunked /\ cur.reqs \cap running.reqs = {}
  /\ pc = "switch" /\ ~requested => running.info = {}

\* A result brings at most all drafts and the bonus token.
Bounded ==
  \A i \in 1..Len(results) : \A r \in results[i].reqs : results[i].got[r] <= NumSteps + 1

Positions ==
  \A r \in Requests :
    /\ Resting(r) => RestsAt(r)
    /\ Rolling(r) => RollsAt(r)
    /\ Filling(r) => FillsAt(r)

LInv == Inv /\ Places /\ Bounded /\ Positions /\ SlotsOwned
-----------------------------------------------------------------------------
\* Accepted drafts are counted in naturals, and at most NumSteps of them per
\* pending result.
LEMMA GainType ==
  ASSUME Inv, NEW r \in Requests
  PROVE  /\ Len(results) \in Nat /\ Len(results) <= 2
         /\ Extra(1, r) \in Nat /\ Extra(2, r) \in Nat /\ Gain(r) \in Nat
         /\ Len(results) <= 1 => Extra(2, r) = 0
         /\ Bounded => Extra(1, r) <= NumSteps
<1>1. Len(results) \in Nat /\ Len(results) <= 2
  <2>1. Len(results) \in Nat
    BY DEF Inv, TypeOK
  <2>2. Owed \in {0, 1}
    BY DEF Owed
  <2> QED
    BY <2>1, <2>2 DEF Inv, Pending
<1>2. ASSUME NEW i \in {1, 2}
      PROVE  /\ Extra(i, r) \in Nat
             /\ Bounded => Extra(i, r) <= NumSteps
  <2>1. CASE i <= Len(results) /\ r \in results[i].reqs
    <3>1. i \in 1..Len(results)
      BY <1>1, <2>1
    <3>2. results[i] \in Results
      BY <3>1 DEF Inv, TypeOK
    <3>3. results[i].got[r] \in Nat /\ results[i].got[r] >= 1
      BY <2>1, <3>1, <3>2 DEF Results, Inv, Clients
    <3>4. Bounded => results[i].got[r] <= NumSteps + 1
      BY <2>1, <3>1 DEF Bounded
    <3> QED
      BY <3>3, <3>4, SizesAssumption DEF Extra
  <2>2. CASE ~(i <= Len(results) /\ r \in results[i].reqs)
    BY <2>2, SizesAssumption DEF Extra
  <2> QED
    BY <2>1, <2>2
<1>3. Len(results) <= 1 => Extra(2, r) = 0
  BY <1>1 DEF Extra
<1>4. Extra(1, r) \in Nat /\ Extra(2, r) \in Nat /\ (Bounded => Extra(1, r) <= NumSteps)
  BY <1>2
<1> QED
  BY <1>1, <1>3, <1>4 DEF Gain

\* Until the current batch ran, only the last one's result may be pending.
LEMMA AtMostOne ==
  ASSUME Inv, pc # "process" PROVE Len(results) <= 1
<1>1. Owed = 0 \/ Owed = 1
  BY DEF Owed
<1>2. Len(results) = Owed
  BY DEF Inv, Pending
<1> QED
  BY <1>1, <1>2

\* Processing a result turns accepted drafts into committed length, and books
\* nothing else, for a request that goes on.
LEMMA GainPop ==
  ASSUME Inv, Len(results) > 0, ProcessResult, NEW r \in Requests, status'[r] = "active"
  PROVE  /\ status[r] = "active"
         /\ committed'[r] + Gain(r)' = committed[r] + Gain(r)
         /\ Gain(r)' \in Nat /\ Gain(r)' <= Gain(r)
         /\ allocated'[r] = allocated[r] /\ slots'[r] = slots[r]
         /\ r \in switched' <=> r \in switched
<1> DEFINE result == Head(results)
<1>1. result = results[1] /\ Len(results) \in Nat /\ Len(results) <= 2
  BY GainType DEF Inv, TypeOK
<1>2. PICK ends \in SUBSET Served(result) :
        /\ status' = [q \in Requests |-> IF q \in ends THEN "done" ELSE status[q]]
        /\ Release(ends, Kept(result), allocated)
        /\ slots' = [q \in Requests |-> IF q \in ends THEN {} ELSE slots[q]]
  BY DEF ProcessResult
<1>3. r \notin ends /\ status[r] = "active"
  BY <1>2
<1>4. /\ committed'[r] = Kept(result)[r] /\ allocated'[r] = allocated[r]
      /\ slots'[r] = slots[r] /\ (r \in switched' <=> r \in switched)
  BY <1>2, <1>3 DEF Release
<1>5. Kept(result)[r] = committed[r] + Extra(1, r)
  <2>1. committed[r] \in Nat
    BY DEF Inv, TypeOK, Lengths
  <2>2. CASE Verifies(results[1]) /\ r \in results[1].reqs
    <3>1. Extra(1, r) = results[1].got[r] - 1 /\ Extra(1, r) \in Nat
      BY <1>1, <2>2, GainType DEF Extra
    <3>2. results[1].got[r] \in Nat
      <4>1. results[1] \in Results
        BY <1>1 DEF Inv, TypeOK
      <4> QED
        BY <4>1 DEF Results
    <3>3. Kept(result)[r] = committed[r] + results[1].got[r] - 1
      BY <1>1, <1>3, <2>2 DEF Kept, Served
    <3> QED
      BY <2>1, <3>1, <3>2, <3>3
  <2>3. CASE ~(Verifies(results[1]) /\ r \in results[1].reqs)
    BY <1>1, <2>1, <2>3 DEF Kept, Served, Extra
  <2> QED
    BY <2>2, <2>3
<1>6. Gain(r)' = Extra(2, r)
  <2>1. /\ Len(results') = Len(results) - 1
        /\ \A i \in 1..Len(results') : results'[i] = results[i + 1]
    BY ResultTaken DEF Inv
  <2>2. Extra(2, r)' = 0
    BY <1>1, <2>1 DEF Extra
  <2>3. Extra(1, r)' = Extra(2, r)
    <3>1. CASE Len(results) = 2
      <4>1. Len(results') = 1 /\ results'[1] = results[2]
        BY <2>1, <3>1
      <4> QED
        BY <3>1, <4>1 DEF Extra
    <3>2. CASE Len(results) # 2
      BY <1>1, <2>1, <3>2 DEF Extra
    <3> QED
      BY <3>1, <3>2
  <2>4. Extra(2, r) \in Nat
    BY GainType
  <2> QED
    BY <2>2, <2>3, <2>4 DEF Gain
<1>7. Extra(1, r) \in Nat /\ Extra(2, r) \in Nat /\ committed[r] \in Nat
  BY GainType DEF Inv, TypeOK, Lengths
<1> QED
  BY <1>3, <1>4, <1>5, <1>6, <1>7 DEF Gain

\* A batch that runs adds the drafts it accepted.
LEMMA GainRun ==
  ASSUME Inv, NEW new \in Results, Len(results) <= 1, results' = Append(results, new),
         NEW r \in Requests
  PROVE  Gain(r)' = Gain(r) +
           (IF Verifies(new) /\ r \in new.reqs THEN new.got[r] - 1 ELSE 0)
<1>0. new.got[r] \in Nat
  BY DEF Results
<1>1. (Len(results) = 0 \/ Len(results) = 1) /\ Extra(2, r) = 0 /\ Extra(1, r) \in Nat
  <2>1. Len(results) \in Nat /\ Len(results) <= 2
    BY GainType
  <2>2. Len(results) = 0 \/ Len(results) = 1
    <3>1. \A n \in Nat : n <= 1 => n = 0 \/ n = 1
      OBVIOUS
    <3> QED
      BY <2>1, <3>1
  <2>3. Extra(2, r) = 0
    BY GainType
  <2>4. Extra(1, r) \in Nat
    BY GainType
  <2> QED
    BY <2>2, <2>3, <2>4
<1>2. /\ Len(results') = Len(results) + 1 /\ results'[Len(results) + 1] = new
      /\ \A i \in 1..Len(results) : results'[i] = results[i]
  BY DEF Inv, TypeOK
<1>3. CASE Len(results) = 0
  <2>1. Len(results') = 1 /\ results'[1] = new
    BY <1>2, <1>3
  <2> DEFINE add == IF Verifies(new) /\ r \in new.reqs THEN new.got[r] - 1 ELSE 0
  <2>2. Extra(1, r) = 0 /\ Extra(2, r)' = 0
    BY <1>3, <2>1 DEF Extra
  <2>3. Extra(1, r)' = add
    BY <2>1 DEF Extra
  <2>4. add \in Int
    BY <1>0
  <2> HIDE DEF add
  <2>5. Gain(r)' = Gain(r) + add
    BY <1>1, <2>2, <2>3, <2>4 DEF Gain
  <2> QED
    BY <2>5 DEF add
<1>4. CASE Len(results) = 1
  <2>1. Len(results') = 2 /\ results'[2] = new /\ results'[1] = results[1]
    BY <1>2, <1>4
  <2>2. Extra(1, r)' = Extra(1, r)
    BY <1>4, <2>1 DEF Extra
  <2>3. Extra(2, r)' = IF Verifies(new) /\ r \in new.reqs THEN new.got[r] - 1 ELSE 0
    BY <2>1 DEF Extra
  <2> QED
    BY <1>0, <1>1, <2>2, <2>3 DEF Gain
<1> QED
  BY <1>1, <1>3, <1>4
-----------------------------------------------------------------------------
\* Who is where, kept by every step.
LEMMA PlacesStep ==
  ASSUME Inv, Places, [Next]_vars
  PROVE  Places'
<1> USE DEF Inv
<1>1. ASSUME NEW r \in Requests, Arrive(r) PROVE Places'
  <2>1. \A q \in running.reqs : q \in Requests /\ status[q] \in Seen
    BY DEF Places, TypeOK, Batches
  <2>2. \A q \in Requests : status[q] \in Seen => status'[q] = status[q]
    BY <1>1 DEF Arrive, Seen, TypeOK
  <2> QED
    BY <1>1, <2>1, <2>2 DEF Arrive, Places, switchVars
<1>2. ASSUME NEW r \in Requests, Abort(r) PROVE Places'
  <2>1. \A q \in running.reqs : q \in Requests /\ status[q] \in Seen
    BY DEF Places, TypeOK, Batches
  <2>2. \A q \in Requests : status[q] \in Seen => status'[q] = status[q]
    BY <1>2 DEF Abort, Seen, TypeOK
  <2> QED
    BY <1>2, <2>1, <2>2 DEF Abort, Places, switchVars
<1>3. ASSUME NEW on \in BOOLEAN, Toggle(on) PROVE Places'
  BY <1>3 DEF Toggle, Places
<1>4. ASSUME Begin PROVE Places'
  BY <1>4 DEF Begin, Places, switchVars
<1>5. ASSUME EarlyPop PROVE Places'
  <2>1. \A q \in running.reqs : status'[q] \in Seen
    BY <1>5, ResultThere, ClientsPop DEF EarlyPop, processUnchanged, Places, TypeOK, Batches
  <2> QED
    BY <1>5, <2>1 DEF EarlyPop, processUnchanged, Places
<1>6. ASSUME Merge PROVE Places'
  <2>1. running'.reqs \subseteq running.reqs \cup Joining
    BY <1>6 DEF Merge, Merged, TypeOK, Batches
  <2>2. \A q \in running.reqs \cup Joining :
           q \in Requests /\ status[q] \in Seen /\ q # chunked
    BY DEF Joining, Places, Seen, TypeOK, Batches
  <2>3. \A q \in running'.reqs : status'[q] \in Seen /\ q # chunked'
    BY <1>6, <2>1, <2>2, RequestsAssumption DEF Merge, Seen
  <2>4. ~requested => running'.info = {}
    BY <1>6 DEF Merge, Merged, Preserved, TypeOK, Batches
  <2> QED
    BY <1>6, <2>3, <2>4 DEF Merge, Places, switchVars
<1>7. ASSUME DropRecovery PROVE Places'
  BY <1>7 DEF DropRecovery, Places
<1>8. ASSUME Switch PROVE Places'
  <2>1. running'.reqs = running.reqs
    BY <1>8 DEF Switch, SwitchOn, ArmRecovery, SwitchOff, Wait, TypeOK, Batches
  <2> QED
    BY <1>8, <2>1 DEF Switch, Places
<1>9. ASSUME NEW admitted \in SUBSET Waiting,
             NEW t \in Requests \cup {None}, NEW n \in 0..(PromptLen + MaxTokens),
             PickPrefill(admitted, t, n) PROVE Places'
  <2> DEFINE batch == admitted \cup ({chunked} \ {None})
  <2>1. /\ pc' = "run" /\ chunked' = t /\ t \in batch \cup {None} /\ running' = running
        /\ cur'.kind = "prefill" /\ cur'.reqs = batch /\ cur'.info = {} /\ cur'.chunk = t
        /\ \A r \in Requests : r \notin batch => status'[r] = status[r]
    BY <1>9 DEF PickPrefill
  <2>2. \A r \in running.reqs :
           r \in Requests /\ status[r] \in Seen /\ r \notin batch /\ r # t
    BY <2>1, RequestsAssumption DEF Places, Waiting, Seen, TypeOK, Batches
  <2> HIDE DEF batch
  <2> QED
    BY <2>1, <2>2 DEF Places
<1>10. ASSUME NEW back \in SUBSET running.reqs,
             NEW aborted \in SUBSET running.reqs, PickDecode(back, aborted) PROVE Places'
  <2>1. pc' = "run" /\ chunked' = None
    BY <1>10 DEF PickDecode
  <2>2. \/ running'.reqs = {} /\ cur'.kind = "none"
        \/ running' = cur' /\ cur'.kind = "decode" /\ cur'.chunk = None
    BY <1>10 DEF PickDecode, NoBatch, TypeOK, Batches
  <2>3. \A r \in running'.reqs : r \in Requests /\ status'[r] \in Seen
    BY <1>10 DEF PickDecode, Seen, TypeOK, Batches
  <2> QED
    BY <2>1, <2>2, <2>3, RequestsAssumption DEF Places
<1>11. ASSUME PickNothing PROVE Places'
  BY <1>11 DEF PickNothing, Places, NoBatch
<1>12. ASSUME EagerPop PROVE Places'
  <2>1. \A q \in running.reqs : status'[q] \in Seen
    BY <1>12, ResultThere, ClientsPop DEF EagerPop, processUnchanged, Places, TypeOK, Batches
  <2> QED
    BY <1>12, <2>1 DEF EagerPop, processUnchanged, Places
<1>13. ASSUME NEW got \in [cur.reqs -> 1..(NumSteps + 1)], Run(got) PROVE Places'
  <2>1. running'.reqs = running.reqs
    BY <1>13 DEF Run, Ran, Places, TypeOK, Batches
  <2> QED
    BY <1>13, <2>1 DEF Run, Places
<1>14. ASSUME RunNothing PROVE Places'
  BY <1>14 DEF RunNothing, Places
<1>15. ASSUME Process PROVE Places'
  <2>1. \A q \in running.reqs : status'[q] \in Seen
    <3>1. CASE Due
      BY <1>15, <3>1, ResultThere, ClientsPop
         DEF Process, processUnchanged, Places, TypeOK, Batches
    <3>2. CASE ~Due
      BY <1>15, <3>2 DEF Process, Places
    <3> QED
      BY <3>1, <3>2
  <2> QED
    BY <1>15, <2>1 DEF Process, processUnchanged, Places
<1>16. CASE UNCHANGED vars
  BY <1>16 DEF vars, Places, switchVars
<1> QED
  BY <1>1, <1>2, <1>3, <1>4, <1>5, <1>6, <1>7, <1>8, <1>9, <1>10, <1>11, <1>12, <1>13, <1>14, <1>15, <1>16 DEF Next, Loop

\* No result brings more than the drafts and the bonus token.
LEMMA BoundedStep ==
  ASSUME Inv, Bounded, [Next]_vars
  PROVE  Bounded'
<1>1. CASE UNCHANGED results
  BY <1>1 DEF Bounded
<1>2. CASE Len(results) > 0 /\ ProcessResult
  <2>1. /\ Len(results') = Len(results) - 1 /\ Len(results) \in Nat
        /\ \A i \in 1..Len(results') : results'[i] = results[i + 1]
    BY <1>2, ResultTaken, ResultReqs DEF Inv
  <2>2. \A i \in 1..Len(results') : i + 1 \in 1..Len(results)
    BY <2>1
  <2> QED
    BY <2>1, <2>2 DEF Bounded
<1>3. ASSUME NEW got \in [cur.reqs -> 1..(NumSteps + 1)], Run(got) PROVE Bounded'
  <2> DEFINE new == [kind |-> cur.kind, reqs |-> cur.reqs \ {cur.chunk}, sd |-> cur.sd,
                     got |-> [r \in Requests |-> IF r \in cur.reqs THEN got[r] ELSE 0]]
  <2>1. results' = Append(results, new)
    BY <1>3 DEF Run
  <2>2. \A r \in new.reqs : new.got[r] <= NumSteps + 1
    BY SizesAssumption DEF Inv, TypeOK, Batches
  <2> HIDE DEF new
  <2>3. \A i \in 1..Len(results') :
           results'[i] = new \/ (i \in 1..Len(results) /\ results'[i] = results[i])
    BY <2>1 DEF Inv, TypeOK
  <2> QED
    BY <2>2, <2>3 DEF Bounded
<1>4. \/ UNCHANGED results
      \/ Len(results) > 0 /\ ProcessResult
      \/ \E got \in [cur.reqs -> 1..(NumSteps + 1)] : Run(got)
  <2>1. EarlyPop \/ EagerPop => Len(results) > 0 /\ ProcessResult
    BY ResultThere DEF Inv, EarlyPop, EagerPop
  <2>2. Process => UNCHANGED results \/ (Len(results) > 0 /\ ProcessResult)
    BY ResultThere DEF Inv, Process
  <2>3. ASSUME NEW r \in Requests, Arrive(r) \/ Abort(r) PROVE UNCHANGED results
    BY <2>3 DEF Arrive, Abort
  <2>4. ASSUME NEW on \in BOOLEAN, Toggle(on) PROVE UNCHANGED results
    BY <2>4 DEF Toggle
  <2>5. ASSUME NEW admitted, NEW t, NEW n, PickPrefill(admitted, t, n)
        PROVE  UNCHANGED results
    BY <2>5 DEF PickPrefill
  <2>6. ASSUME NEW back, NEW aborted, PickDecode(back, aborted) PROVE UNCHANGED results
    BY <2>6 DEF PickDecode
  <2>7. Merge \/ Switch => UNCHANGED results
    BY DEF Merge, Switch
  <2>8. Begin \/ DropRecovery \/ PickNothing \/ RunNothing => UNCHANGED results
    BY DEF Begin, DropRecovery, PickNothing, RunNothing
  <2>9. UNCHANGED vars => UNCHANGED results
    BY DEF vars
  <2> QED
    BY <2>1, <2>2, <2>3, <2>4, <2>5, <2>6, <2>7, <2>8, <2>9 DEF Next, Loop
<1> QED
  BY <1>1, <1>2, <1>3, <1>4
-----------------------------------------------------------------------------
\* A step that changes neither the modes nor anything about r.
Untouched(r) ==
  /\ UNCHANGED <<overlap, enabled, inflight, results>>
  /\ len'[r] = len[r] /\ seq'[r] = seq[r]
  /\ published'[r] = published[r] /\ relay'[r] = relay[r]
  /\ committed'[r] = committed[r] /\ allocated'[r] = allocated[r]
  /\ r \in switched' <=> r \in switched

\* Such a step leaves r where it was.
LEMMA PositionFrame ==
  ASSUME NEW r \in Requests, Untouched(r)
  PROVE  /\ RestsAt(r) => RestsAt(r)'
         /\ RollsAt(r) => RollsAt(r)'
         /\ FillsAt(r) => FillsAt(r)'
<1>1. Extra(1, r)' = Extra(1, r) /\ Extra(2, r)' = Extra(2, r)
  BY DEF Untouched, Extra
<1>2. Gain(r)' = Gain(r)
  BY <1>1 DEF Gain
<1>3. Even(r)' = Even(r) /\ Ahead(r)' = Ahead(r)
  BY <1>2 DEF Untouched, Even, Ahead
<1>4. RestsAt(r) => RestsAt(r)'
  BY <1>2, <1>3 DEF Untouched, RestsAt
<1>5. RollsAt(r) => RollsAt(r)'
  BY <1>2, <1>3 DEF Untouched, RollsAt
<1>6. FillsAt(r) => FillsAt(r)'
  BY <1>2, <1>3 DEF Untouched, FillsAt
<1> QED
  BY <1>4, <1>5, <1>6

\* So does the processing of a result, for a request that goes on after it.
LEMMA PositionPop ==
  ASSUME Inv, Len(results) > 0, ProcessResult, NEW r \in Requests, status'[r] = "active",
         UNCHANGED <<overlap, enabled, inflight, len, seq, published, relay>>
  PROVE  /\ status[r] = "active"
         /\ RestsAt(r) => RestsAt(r)'
         /\ RollsAt(r) => RollsAt(r)'
         /\ FillsAt(r) => FillsAt(r)'
<1>1. /\ status[r] = "active"
      /\ committed'[r] + Gain(r)' = committed[r] + Gain(r)
      /\ Gain(r)' \in Nat /\ Gain(r)' <= Gain(r)
      /\ allocated'[r] = allocated[r]
      /\ r \in switched' <=> r \in switched
  BY GainPop
<1>2. /\ Gain(r) \in Nat /\ committed[r] \in Nat /\ committed'[r] \in Nat
      /\ allocated[r] \in Nat
  BY GainType, ResultType DEF Inv, TypeOK, Lengths
<1>3. Even(r) => Even(r)' /\ committed'[r] = committed[r]
  BY <1>1, <1>2 DEF Even
<1>4. Ahead(r) => Ahead(r)'
  BY <1>1, <1>2 DEF Ahead
<1>5. RestsAt(r) => RestsAt(r)'
  BY <1>1, <1>3, <1>4 DEF RestsAt
<1>6. RollsAt(r) => RollsAt(r)'
  BY <1>1, <1>3, <1>4 DEF RollsAt
<1>7. FillsAt(r) => FillsAt(r)'
  BY <1>1, <1>3 DEF FillsAt
<1> QED
  BY <1>1, <1>5, <1>6, <1>7

\* The lengths of a request are naturals.
LEMMA LengthTypes ==
  ASSUME Inv, NEW r \in Requests
  PROVE  /\ len[r] \in Nat /\ seq[r] \in Nat /\ published[r] \in Nat /\ relay[r] \in Nat
         /\ committed[r] \in Nat /\ allocated[r] \in Nat /\ Gain(r) \in Nat
BY GainType DEF Inv, TypeOK, Lengths

\* The merge takes in requests whose prefill is complete, each where it was.
LEMMA MergePositions ==
  ASSUME Inv, Places, Positions, Merge, NEW r \in Requests, status'[r] = "active",
         r \in running'.reqs
  PROVE  RestsAt(r)'
<1> USE DEF Inv
<1>1. running'.reqs \subseteq running.reqs \cup Joining
  BY DEF Merge, Merged, TypeOK, Batches
<1>2. /\ status[r] = "active" /\ committed'[r] = committed[r]
      /\ allocated'[r] = allocated[r] /\ (r \in switched' <=> r \in switched)
  BY DEF Merge, Release
<1>3. Untouched(r)
  BY <1>2 DEF Merge, Untouched, switchVars, lengthVars
<1>4. Resting(r)
  BY <1>1, <1>2 DEF Resting, Joining, Merge
<1> QED
  BY <1>3, <1>4, PositionFrame DEF Positions

\* Dropping a recovery only leaves less to be known.
LEMMA DropPositions ==
  ASSUME Inv, Positions, DropRecovery, NEW r \in running.reqs, status[r] = "active"
  PROVE  RestsAt(r)'
<1>1. r \in Requests /\ Resting(r)
  BY DEF Inv, TypeOK, Batches, Resting, DropRecovery
<1>2. RestsAt(r)
  BY <1>1 DEF Positions
<1>3. Extra(1, r)' = Extra(1, r) /\ Extra(2, r)' = Extra(2, r)
  BY DEF DropRecovery, Extra
<1>4. Gain(r)' = Gain(r)
  BY <1>3 DEF Gain
<1>5. Even(r)' = Even(r) /\ Ahead(r)' = Ahead(r)
  BY <1>4 DEF DropRecovery, memoryVars, Even, Ahead
<1>6. /\ UNCHANGED <<overlap, enabled, committed, len, seq, published, relay>>
      /\ overlap => inflight' = FALSE /\ switched' = switched
      /\ ~overlap => r \in switched'
  BY DEF DropRecovery, memoryVars, lengthVars
<1> QED
  BY <1>2, <1>4, <1>5, <1>6 DEF RestsAt, Inv, TypeOK

\* The switch finds every request either clean or marks it as switched; the
\* drafter input is gone by then, so that the lengths stay what they were.
LEMMA SwitchPositions ==
  ASSUME Inv, Places, Positions, Switch, NEW r \in running.reqs, status[r] = "active"
  PROVE  RestsAt(r)'
<1>1. r \in Requests /\ RestsAt(r)
  BY DEF Inv, TypeOK, Batches, Resting, Switch, Positions
<1>2. /\ UNCHANGED <<overlap, results, len, published, relay, committed, allocated>>
      /\ ~(inflight /\ ~requested) /\ pc = "switch"
  BY DEF Switch, memoryVars
<1>3. Extra(1, r)' = Extra(1, r) /\ Extra(2, r)' = Extra(2, r)
  BY <1>2 DEF Extra
<1>4. Gain(r)' = Gain(r)
  BY <1>3 DEF Gain
<1>5. Even(r)' = Even(r) /\ Ahead(r)' = Ahead(r)
  BY <1>2, <1>4 DEF Even, Ahead
<1>6. CASE SwitchOn
  <2>1. inflight /\ enabled' = TRUE /\ inflight' = FALSE /\ UNCHANGED <<seq, switched>>
    BY <1>6 DEF SwitchOn, EnableNow
  <2> QED
    BY <1>1, <1>2, <1>4, <1>5, <2>1 DEF RestsAt, Inv, TypeOK
<1>7. CASE ArmRecovery \/ Wait
  <2>1. UNCHANGED <<enabled, inflight, seq, switched>>
    BY <1>7 DEF ArmRecovery, Wait
  <2> QED
    BY <1>1, <1>2, <2>1, PositionFrame DEF Untouched
<1>8. CASE SwitchOff
  <2>1. /\ enabled' = FALSE /\ inflight' = FALSE /\ inflight = FALSE
        /\ switched \subseteq switched'
        /\ r \notin switched' => overlap /\ ~(allocated[r] > committed[r])
    BY <1>2, <1>8 DEF SwitchOff, Inv, TypeOK
  <2>2. seq'[r] = seq[r]
    <3>1. running.info = {}
      BY <1>2, <1>8 DEF SwitchOff, Places
    <3> QED
      BY <1>1, <1>8, <3>1 DEF SwitchOff, Resolved
  <2>3. ~(allocated[r] > committed[r]) => ~Ahead(r)
    BY <1>1, LengthTypes DEF Ahead
  <2> QED
    BY <1>1, <1>2, <1>4, <1>5, <2>1, <2>2, <2>3 DEF RestsAt, Inv, TypeOK
<1> QED
  BY <1>6, <1>7, <1>8 DEF Switch
\* A prefill batch is made of requests with no result pending.
LEMMA PrefillPositions ==
  ASSUME Inv, Places, Positions,
         NEW admitted \in SUBSET Waiting,
         NEW t \in Requests \cup {None}, NEW n \in 0..(PromptLen + MaxTokens),
         PickPrefill(admitted, t, n), NEW r \in Requests
  PROVE  /\ Resting(r)' => RestsAt(r)'
         /\ Filling(r)' => FillsAt(r)'
<1> USE DEF Inv
<1> DEFINE batch == admitted \cup ({chunked} \ {None})
<1>1. /\ pc = "pick" /\ pc' = "run" /\ cur'.kind = "prefill" /\ cur'.reqs = batch
      /\ running' = running
      /\ UNCHANGED <<overlap, enabled, inflight, results, len, published, relay, switched>>
      /\ r \notin batch /\ r # t => seq'[r] = seq[r]
      /\ r \notin batch => /\ status'[r] = status[r]
                           /\ committed'[r] = committed[r] /\ allocated'[r] = allocated[r]
      /\ r \in batch => committed'[r] = seq'[r] /\ allocated'[r] = seq'[r]
      /\ t \in batch \cup {None}
  BY DEF PickPrefill, switchVars
<1>2. r \in batch => \A i \in 1..Len(results) : r \notin results[i].reqs
  BY <1>1 DEF Clients, Seen, Waiting
<1>3. r \in batch => Gain(r) = 0
  <2>1. r \in batch => Extra(1, r) = 0 /\ Extra(2, r) = 0
    <3>1. Len(results) \in Nat
      BY DEF TypeOK
    <3> QED
      BY <1>2, <3>1 DEF Extra
  <2> QED
    BY <2>1 DEF Gain
<1>4. Gain(r)' = Gain(r)
  BY <1>1 DEF Gain, Extra
<1>5. r \in running.reqs => r \notin batch
  BY DEF Places, Waiting, Seen
<1> HIDE DEF batch
<1>6. ASSUME Resting(r)' PROVE RestsAt(r)'
  <2>1. r \in running.reqs /\ status'[r] = "active"
    BY <1>1, <1>6 DEF Resting
  <2>2. Resting(r) /\ Untouched(r)
    BY <1>1, <1>5, <2>1, RequestsAssumption DEF Resting, Untouched
  <2> QED
    BY <2>2, PositionFrame DEF Positions
<1>7. ASSUME Filling(r)' PROVE FillsAt(r)'
  <2>1. r \in batch
    BY <1>1, <1>7 DEF Filling
  <2> QED
    BY <1>1, <1>3, <1>4, <2>1 DEF FillsAt, Even
<1> QED
  BY <1>6, <1>7

\* A request of the next decode batch: its bonus token is booked, and with
\* drafts there is room for one verify that is still to be processed and for
\* the one to come.
LEMMA DecodePositions ==
  ASSUME Inv, Places, Bounded, Positions,
         NEW back \in SUBSET running.reqs, NEW aborted \in SUBSET running.reqs,
         PickDecode(back, aborted), NEW r \in Requests, Rolling(r)'
  PROVE  RollsAt(r)'
<1> USE DEF Inv
<1> DEFINE kept == {q \in running.reqs : status[q] = "active"} \ (back \cup aborted)
<1>1. r \in kept /\ pc = "pick"
  BY DEF PickDecode, Rolling, NoBatch
<1>2. Resting(r)
  BY <1>1 DEF Resting
<1>3. RestsAt(r) /\ ~inflight
  BY <1>1, <1>2 DEF Positions, Flags
<1>4. /\ committed'[r] = committed[r] + 1 /\ allocated'[r] = Claim(r)
      /\ seq'[r] = IF enabled THEN seq[r] ELSE seq[r] + 1
      /\ r \in switched' <=> r \in switched
      /\ UNCHANGED <<overlap, enabled, results, len, published, relay>>
  BY <1>1 DEF PickDecode, Release, switchVars
<1>5. Gain(r)' = Gain(r)
  BY <1>4 DEF Gain, Extra
<1>6. Gain(r) <= NumSteps
  <2>1. Len(results) <= 1
    BY <1>1, AtMostOne
  <2>2. Extra(2, r) = 0 /\ Extra(1, r) \in Nat /\ Extra(1, r) <= NumSteps
    BY <2>1, GainType
  <2> QED
    BY <2>2 DEF Gain
<1>7. /\ len[r] \in Nat /\ seq[r] \in Nat /\ committed[r] \in Nat
      /\ allocated[r] \in Nat /\ Gain(r) \in Nat /\ NumSteps \in Nat
  BY LengthTypes, SizesAssumption
<1>8. committed'[r] + Gain(r)' = len[r]
  BY <1>3, <1>4, <1>5, <1>7 DEF RestsAt
<1>9. CASE enabled
  <2>1. /\ allocated'[r] = Most(allocated[r], committed[r] + Reserve)
        /\ seq'[r] = seq[r]
    BY <1>4, <1>9 DEF Claim
  <2>2. Most(allocated[r], committed[r] + Reserve) >= committed[r] + 2 * (NumSteps + 1)
    BY <1>7 DEF Most, Reserve
  <2>3. allocated'[r] >= len[r] + NumSteps + 1
    BY <1>3, <1>6, <1>7, <2>1, <2>2 DEF RestsAt, Most, Reserve
  <2> QED
    BY <1>3, <1>4, <1>8, <1>9, <2>1, <2>3 DEF RestsAt, RollsAt
<1>10. CASE ~enabled
  <2>1. allocated'[r] = allocated[r] + 1 /\ seq'[r] = seq[r] + 1
    BY <1>4, <1>10 DEF Claim
  <2>2. Even(r) => Even(r)'
    BY <1>4, <1>5, <2>1 DEF Even
  <2>3. Ahead(r) => Ahead(r)'
    BY <1>4, <1>5, <1>7, <2>1 DEF Ahead
  <2>4. seq[r] + 1 = len[r] => seq'[r] = len'[r]
    BY <1>4, <2>1
  <2>5. r \notin switched => Even(r)' /\ seq'[r] = len'[r] /\ relay'[r] = len'[r]
    BY <1>3, <1>4, <1>10, <2>2, <2>4 DEF RestsAt, TypeOK
  <2>6. (Even(r)' /\ seq'[r] = len'[r]) \/ Ahead(r)'
    BY <1>3, <2>2, <2>3, <2>4 DEF RestsAt
  <2> QED
    BY <1>4, <1>8, <1>10, <2>5, <2>6 DEF RollsAt
<1> QED
  BY <1>9, <1>10 DEF TypeOK

\* What a decode with drafts leaves behind: it advanced by what was accepted.
LEMMA VerifyPositions ==
  ASSUME Inv, Places, Positions,
         NEW got \in [cur.reqs -> 1..(NumSteps + 1)], Run(got),
         cur.kind = "decode", enabled,
         NEW r \in cur.reqs, status[r] = "active"
  PROVE  RestsAt(r)'
<1> USE DEF Inv
<1> DEFINE new == [kind |-> cur.kind, reqs |-> cur.reqs \ {cur.chunk}, sd |-> cur.sd,
                   got |-> [q \in Requests |-> IF q \in cur.reqs THEN got[q] ELSE 0]]
<1>1. r \in Requests /\ r \notin {cur.chunk} /\ pc = "run"
  BY RequestsAssumption DEF Run, Places, TypeOK, Batches
<1>2. cur.sd = TRUE /\ Verifies(cur) /\ cur.info = cur.reqs
  BY <1>1 DEF Marker, Inputs, Verifies, TypeOK, Batches
<1>3. RollsAt(r)
  BY <1>1 DEF Rolling, Positions
<1>4. got[r] \in 1..(NumSteps + 1) /\ NumSteps \in Nat
  BY SizesAssumption
<1>5. Gain(r)' = Gain(r) + (got[r] - 1)
  <2>1. /\ results' = Append(results, new) /\ Len(results) <= 1
        /\ new \in Results /\ Verifies(new) /\ r \in new.reqs /\ new.got[r] = got[r]
    <3>1. results' = Append(results, new) /\ Len(results) <= 1
      BY <1>1, AtMostOne DEF Run
    <3>2. new.got \in [Requests -> Nat]
      BY <1>4
    <3>3. new \in Results
      BY <3>2 DEF Results, TypeOK, Batches
    <3> QED
      BY <1>1, <1>2, <3>1, <3>3 DEF Verifies
  <2> HIDE DEF new
  <2> QED
    BY <1>1, <2>1, GainRun
<1>6. /\ len'[r] = len[r] + got[r]
      /\ overlap => published'[r] = published[r] + got[r] /\ relay'[r] = len'[r]
      /\ ~overlap => seq'[r] = seq[r] + got[r]
      /\ UNCHANGED <<overlap, enabled, committed, allocated, switched>>
  BY <1>1, <1>2 DEF Run, Resolved, Publishes, Relays, memoryVars
<1>7. /\ len[r] \in Nat /\ seq[r] \in Nat /\ published[r] \in Nat
      /\ committed[r] \in Nat /\ allocated[r] \in Nat /\ Gain(r) \in Nat
  BY <1>1, LengthTypes
<1>8. committed'[r] + Gain(r)' + 1 = len'[r]
  BY <1>3, <1>4, <1>5, <1>6, <1>7 DEF RollsAt
<1>9. Ahead(r)'
  <2>1. allocated[r] >= len[r] + NumSteps + 1 /\ committed[r] + Gain(r) = len[r]
    BY <1>3 DEF RollsAt
  <2>2. committed'[r] + Gain(r)' = len[r] + (got[r] - 1)
    BY <1>4, <1>5, <1>6, <1>7, <2>1
  <2> QED
    BY <1>4, <1>6, <1>7, <2>1, <2>2 DEF Ahead
<1>10. r \notin switched => /\ overlap => published'[r] + 1 = len'[r]
                            /\ ~overlap => seq'[r] + 1 = len'[r]
  BY <1>3, <1>4, <1>6, <1>7 DEF RollsAt
<1> QED
  BY <1>6, <1>8, <1>9, <1>10 DEF RestsAt, TypeOK

\* A batch without drafts adds one token and accepts none.
LEMMA PlainGain ==
  ASSUME Inv, NEW got \in [cur.reqs -> 1..(NumSteps + 1)], Run(got),
         cur.kind = "prefill" \/ ~enabled, NEW r \in Requests
  PROVE  /\ Gain(r)' = Gain(r)
         /\ ~Verifies(cur)
         /\ r \in cur.reqs => got[r] = 1
<1> USE DEF Inv
<1> DEFINE new == [kind |-> cur.kind, reqs |-> cur.reqs \ {cur.chunk}, sd |-> cur.sd,
                   got |-> [q \in Requests |-> IF q \in cur.reqs THEN got[q] ELSE 0]]
<1>1. ~Verifies(cur)
  BY DEF Run, Marker, Verifies, TypeOK
<1>2. r \in cur.reqs => got[r] = 1
  BY <1>1 DEF Run
<1>3. /\ results' = Append(results, new) /\ Len(results) <= 1
  BY AtMostOne DEF Run
<1>4. new \in Results /\ ~Verifies(new)
  <2>1. new.got \in [Requests -> Nat]
    BY SizesAssumption
  <2>2. cur.kind \in {"prefill", "decode"}
    BY DEF Run, TypeOK, Batches
  <2> QED
    BY <1>1, <2>1, <2>2 DEF Results, Verifies, TypeOK, Batches
<1> HIDE DEF new
<1>5. Gain(r)' = Gain(r) + 0
  BY <1>3, <1>4, GainRun
<1> QED
  BY <1>1, <1>2, <1>5, GainType

\* A plain or recovery decode leaves its requests one token further, with
\* that token relayed and, in recovery, the position published.
LEMMA PlainPositions ==
  ASSUME Inv, Places, Positions,
         NEW got \in [cur.reqs -> 1..(NumSteps + 1)], Run(got),
         cur.kind = "decode", ~enabled,
         NEW r \in cur.reqs, status[r] = "active"
  PROVE  RestsAt(r)'
<1> USE DEF Inv
<1>1. r \in Requests /\ r \notin {cur.chunk} /\ pc = "run"
  BY RequestsAssumption DEF Run, Places, TypeOK, Batches
<1>2. cur.sd = FALSE /\ inflight = FALSE
  BY <1>1 DEF Marker, Flags, TypeOK, Batches
<1>3. RollsAt(r)
  BY <1>1 DEF Rolling, Positions
<1>4. Gain(r)' = Gain(r) /\ got[r] = 1 /\ ~Verifies(cur)
  BY <1>1, PlainGain
<1>5. /\ len'[r] = len[r] + 1 /\ seq'[r] = seq[r]
      /\ overlap /\ cur.recovery => published'[r] = seq[r]
      /\ overlap \/ ~cur.recovery => relay'[r] = len'[r]
      /\ inflight' = cur.recovery
      /\ UNCHANGED <<overlap, enabled, committed, allocated, switched>>
  BY <1>1, <1>2, <1>4 DEF Run, Publishes, Relays, memoryVars, TypeOK, Batches
<1>6. len[r] \in Nat /\ seq[r] \in Nat /\ committed[r] \in Nat /\ Gain(r) \in Nat
  BY <1>1, LengthTypes
<1>7. committed'[r] + Gain(r)' + 1 = len'[r]
  BY <1>3, <1>4, <1>5, <1>6 DEF RollsAt
<1>8. Even(r)' = Even(r) /\ Ahead(r)' = Ahead(r)
  BY <1>4, <1>5 DEF Even, Ahead
<1>9. seq[r] = len[r] => seq'[r] + 1 = len'[r]
  BY <1>5, <1>6
<1>10. (Even(r)' /\ seq'[r] + 1 = len'[r]) \/ Ahead(r)'
  BY <1>3, <1>8, <1>9 DEF RollsAt
<1>11. r \notin switched => Even(r)' /\ seq'[r] + 1 = len'[r]
  BY <1>3, <1>8, <1>9 DEF RollsAt
<1> QED
  BY <1>5, <1>7, <1>10, <1>11 DEF RestsAt, TypeOK, Batches

\* A prefill leaves its requests with the first token sampled; the running
\* ones are where they were.
LEMMA FilledPositions ==
  ASSUME Inv, Places, Positions,
         NEW got \in [cur.reqs -> 1..(NumSteps + 1)], Run(got),
         cur.kind = "prefill",
         NEW r \in Requests, Resting(r)'
  PROVE  RestsAt(r)'
<1> USE DEF Inv
<1>1. /\ pc = "run" /\ pc' = "process" /\ status'[r] = status[r]
      /\ cur'.kind = cur.kind /\ cur'.reqs = cur.reqs /\ cur'.chunk = cur.chunk
      /\ running' = running
  BY DEF Run, Ran, TypeOK, Batches
<1>2. /\ cur.info = {} /\ cur.recovery = FALSE /\ (cur.sd <=> enabled) /\ inflight = FALSE
      /\ cur.reqs \cap running.reqs = {}
  BY <1>1 DEF Marker, Flags, Places, TypeOK, Batches
<1>3. Gain(r)' = Gain(r) /\ ~Verifies(cur) /\ (r \in cur.reqs => got[r] = 1)
  BY PlainGain
<1>4. inflight' = FALSE /\ UNCHANGED <<overlap, enabled, committed, allocated, switched>>
  BY <1>2 DEF Run, memoryVars
<1>5. seq'[r] = seq[r]
  BY <1>2, <1>3 DEF Run, Resolved
<1>6. CASE r \in cur.reqs \ {cur.chunk}
  <2>1. /\ len'[r] = seq[r] + 1
        /\ overlap /\ enabled => published'[r] = seq[r]
        /\ overlap \/ ~enabled => relay'[r] = len'[r]
    BY <1>2, <1>3, <1>6 DEF Run, Resolved, Publishes, Relays
  <2>2. committed[r] = seq[r] /\ Even(r) /\ seq[r] \in Nat
    BY <1>1, <1>6, LengthTypes DEF Resting, Filling, FillsAt, Positions
  <2>3. Even(r)' /\ committed'[r] + Gain(r)' + 1 = len'[r]
    BY <1>3, <1>4, <2>1, <2>2 DEF Even
  <2> QED
    BY <1>4, <1>5, <2>1, <2>3 DEF RestsAt
<1>7. CASE r \notin cur.reqs \ {cur.chunk}
  <2>1. r \in running.reqs /\ status[r] = "active" /\ r \notin cur.reqs
    BY <1>1, <1>2, <1>7 DEF Resting
  <2>2. RestsAt(r)
    BY <1>1, <2>1 DEF Resting, Positions
  <2>3. len'[r] = len[r] /\ published'[r] = published[r] /\ relay'[r] = relay[r]
    BY <2>1 DEF Run
  <2>4. Even(r)' = Even(r) /\ Ahead(r)' = Ahead(r)
    BY <1>3, <1>4 DEF Even, Ahead
  <2> QED
    BY <1>2, <1>3, <1>4, <1>5, <2>2, <2>3, <2>4 DEF RestsAt
<1> QED
  BY <1>6, <1>7

\* Every request stays where the invariant says, in every step.
LEMMA PositionsStep ==
  ASSUME Inv, Places, Bounded, Positions, [Next]_vars
  PROVE  Positions'
<1> USE DEF Inv
<1> SUFFICES ASSUME NEW c \in Requests
             PROVE  /\ Resting(c)' => RestsAt(c)'
                    /\ Rolling(c)' => RollsAt(c)'
                    /\ Filling(c)' => FillsAt(c)'
  BY DEF Positions
<1> DEFINE Stays == /\ Resting(c)' => Resting(c)
                    /\ Rolling(c)' => Rolling(c)
                    /\ Filling(c)' => Filling(c)
           Goal == /\ Resting(c)' => RestsAt(c)'
                   /\ Rolling(c)' => RollsAt(c)'
                   /\ Filling(c)' => FillsAt(c)'
<1>0. Stays /\ Untouched(c) => Goal
  BY PositionFrame DEF Positions
<1>a. ASSUME Len(results) > 0, ProcessResult, Stays,
             UNCHANGED <<overlap, enabled, inflight, len, seq, published, relay>>
      PROVE  Goal
  <2>1. Resting(c)' \/ Rolling(c)' \/ Filling(c)' => status'[c] = "active"
    BY DEF Resting, Rolling, Filling
  <2> QED
    BY <1>a, <2>1, PositionPop DEF Positions
<1>1. ASSUME NEW r \in Requests, Arrive(r) PROVE Goal
  <2>1. Stays
    BY <1>1 DEF Arrive, Resting, Rolling, Filling, TypeOK
  <2>2. Untouched(c)
    BY <1>1 DEF Arrive, Untouched, switchVars, lengthVars, memoryVars
  <2> QED
    BY <1>0, <2>1, <2>2
<1>2. ASSUME NEW r \in Requests, Abort(r) PROVE Goal
  <2>1. Stays
    BY <1>2 DEF Abort, Resting, Rolling, Filling, TypeOK
  <2>2. Untouched(c)
    BY <1>2 DEF Abort, Untouched, switchVars, lengthVars, memoryVars
  <2> QED
    BY <1>0, <2>1, <2>2
<1>3. ASSUME NEW on \in BOOLEAN, Toggle(on) PROVE Goal
  <2>1. Stays
    BY <1>3 DEF Toggle, Resting, Rolling, Filling
  <2>2. Untouched(c)
    BY <1>3 DEF Toggle, Untouched, lengthVars, memoryVars
  <2> QED
    BY <1>0, <2>1, <2>2
<1>4. ASSUME Begin PROVE Goal
  <2>1. Stays
    BY <1>4 DEF Begin, Resting, Rolling, Filling
  <2>2. Untouched(c)
    BY <1>4 DEF Begin, Untouched, switchVars, lengthVars, memoryVars
  <2> QED
    BY <1>0, <2>1, <2>2
<1>5. ASSUME EarlyPop PROVE Goal
  <2>1. Len(results) > 0 /\ ProcessResult
    BY <1>5, ResultThere DEF EarlyPop
  <2>2. status'[c] = "active" => status[c] = "active"
    BY <2>1, ResultStatus
  <2>3. Stays
    BY <1>5, <2>2 DEF EarlyPop, processUnchanged, Resting, Rolling, Filling
  <2> QED
    BY <1>5, <1>a, <2>1, <2>3 DEF EarlyPop, processUnchanged
<1>6. ASSUME Merge PROVE Goal
  <2>1. pc' = "switch"
    BY <1>6 DEF Merge
  <2> QED
    BY <1>6, <2>1, MergePositions DEF Resting, Rolling, Filling
<1>7. ASSUME DropRecovery PROVE Goal
  <2>1. pc = "switch" /\ UNCHANGED <<pc, status, running>>
    BY <1>7 DEF DropRecovery
  <2> QED
    BY <1>7, <2>1, DropPositions DEF Resting, Rolling, Filling
<1>8. ASSUME Switch PROVE Goal
  <2>1. pc' = "pick" /\ status' = status
    BY <1>8 DEF Switch
  <2>2. running'.reqs = running.reqs
    BY <1>8 DEF Switch, SwitchOn, ArmRecovery, SwitchOff, Wait, TypeOK, Batches
  <2> QED
    BY <1>8, <2>1, <2>2, SwitchPositions DEF Resting, Rolling, Filling
<1>9. ASSUME NEW admitted \in SUBSET Waiting,
             NEW t \in Requests \cup {None}, NEW n \in 0..(PromptLen + MaxTokens),
             PickPrefill(admitted, t, n) PROVE Goal
  <2>1. ~Rolling(c)'
    BY <1>9 DEF PickPrefill, Rolling
  <2> QED
    BY <1>9, <2>1, PrefillPositions
<1>10. ASSUME NEW back \in SUBSET running.reqs,
             NEW aborted \in SUBSET running.reqs, PickDecode(back, aborted) PROVE Goal
  <2>1. ~Resting(c)' /\ ~Filling(c)'
    BY <1>10 DEF PickDecode, Resting, Filling, NoBatch, TypeOK, Batches
  <2> QED
    BY <1>10, <2>1, DecodePositions
<1>11. ASSUME PickNothing PROVE Goal
  <2>1. Stays
    BY <1>11 DEF PickNothing, Resting, Rolling, Filling, NoBatch
  <2>2. Untouched(c)
    BY <1>11 DEF PickNothing, Untouched, switchVars, lengthVars, memoryVars
  <2> QED
    BY <1>0, <2>1, <2>2
<1>12. ASSUME EagerPop PROVE Goal
  <2>1. Len(results) > 0 /\ ProcessResult
    BY <1>12, ResultThere DEF EagerPop
  <2>2. status'[c] = "active" => status[c] = "active"
    BY <2>1, ResultStatus
  <2>3. Stays
    BY <1>12, <2>2 DEF EagerPop, processUnchanged, Resting, Rolling, Filling
  <2> QED
    BY <1>12, <1>a, <2>1, <2>3 DEF EagerPop, processUnchanged
<1>13. ASSUME NEW got \in [cur.reqs -> 1..(NumSteps + 1)], Run(got) PROVE Goal
  <2>1. pc = "run" /\ pc' = "process" /\ status' = status /\ cur'.kind = cur.kind
    BY <1>13 DEF Run, Ran, TypeOK, Batches
  <2>2. ~Rolling(c)' /\ ~Filling(c)'
    BY <2>1 DEF Rolling, Filling
  <2>3. CASE cur.kind = "decode"
    <3>1. Resting(c)' => c \in cur.reqs /\ status[c] = "active"
      BY <1>13, <2>1, <2>3 DEF Resting, Run, Ran, TypeOK, Batches
    <3> QED
      BY <1>13, <2>2, <2>3, <3>1, VerifyPositions, PlainPositions DEF TypeOK
  <2>4. CASE cur.kind = "prefill"
    BY <1>13, <2>2, <2>4, FilledPositions
  <2> QED
    BY <1>13, <2>3, <2>4 DEF Run, TypeOK, Batches
<1>14. ASSUME RunNothing PROVE Goal
  <2>1. Stays
    BY <1>14 DEF RunNothing, Resting, Rolling, Filling
  <2>2. Untouched(c)
    BY <1>14 DEF RunNothing, Untouched, switchVars, lengthVars, memoryVars
  <2> QED
    BY <1>0, <2>1, <2>2
<1>15. ASSUME Process PROVE Goal
  <2>1. CASE Due
    <3>1. Len(results) > 0 /\ ProcessResult
      BY <1>15, <2>1, ResultThere DEF Process
    <3>2. status'[c] = "active" => status[c] = "active"
      BY <3>1, ResultStatus
    <3>3. Stays
      BY <1>15, <3>2 DEF Process, processUnchanged, Resting, Rolling, Filling
    <3> QED
      BY <1>15, <1>a, <3>1, <3>3 DEF Process, processUnchanged
  <2>2. CASE ~Due
    <3>1. Stays
      BY <1>15, <2>2 DEF Process, processUnchanged, Resting, Rolling, Filling
    <3>2. Untouched(c)
      BY <1>15, <2>2 DEF Process, processUnchanged, Untouched
    <3> QED
      BY <1>0, <3>1, <3>2
  <2> QED
    BY <2>1, <2>2
<1>16. ASSUME UNCHANGED vars PROVE Goal
  <2>1. Stays
    BY <1>16 DEF vars, Resting, Rolling, Filling
  <2>2. Untouched(c)
    BY <1>16 DEF vars, Untouched, switchVars, lengthVars, memoryVars
  <2> QED
    BY <1>0, <2>1, <2>2
<1> HIDE DEF Goal
<1>17. Goal
  BY <1>1, <1>2, <1>3, <1>4, <1>5, <1>6, <1>7, <1>8, <1>9, <1>10, <1>11, <1>12, <1>13, <1>14, <1>15, <1>16 DEF Next, Loop
<1> QED
  BY <1>17 DEF Goal
-----------------------------------------------------------------------------
\* prepare_for_decode() adds exactly the slots between the old and the new
\* allocated length, also in a plain iteration, where it takes the slot at the
\* sequence length.
LEMMA ClaimExact ==
  ASSUME Inv, Positions, pc = "pick", NEW r \in running.reqs \ switched,
         status[r] = "active", slots[r] = 0..(allocated[r] - 1)
  PROVE  slots[r] \cup Claimed(r) = 0..(Claim(r) - 1)
<1>1. r \in Requests
  BY DEF Inv, TypeOK, Batches
<1>2. RestsAt(r)
  BY <1>1 DEF Resting, Positions
<1>3. /\ allocated[r] \in Nat /\ committed[r] \in Nat /\ seq[r] \in Nat
      /\ len[r] \in Nat /\ Claim(r) \in Nat /\ Reserve \in Nat
  BY <1>1, LengthTypes, ClaimType, SizesAssumption DEF Inv, Reserve
<1>4. CASE enabled
  <2>1. Claimed(r) = allocated[r]..(Claim(r) - 1) /\ Claim(r) >= allocated[r]
    BY <1>3, <1>4 DEF Claimed, Claim, Most
  <2> QED
    BY <1>3, <2>1
<1>5. CASE ~enabled
  <2>1. Claim(r) = allocated[r] + 1 /\ Claimed(r) = {seq[r]}
    BY <1>5 DEF Claim, Claimed
  <2>2. seq[r] = allocated[r]
    BY <1>2, <1>3, <1>5 DEF RestsAt, Even
  <2> QED
    BY <1>3, <2>1, <2>2
<1> QED
  BY <1>4, <1>5

\* Booked and owned slots stay the same.
LEMMA SlotsStep ==
  ASSUME Inv, Positions, SlotsOwned, [Next]_vars
  PROVE  SlotsOwned'
<1> USE DEF Inv
<1> SUFFICES ASSUME NEW c \in Requests, c \notin switched'
             PROVE  slots'[c] = 0..(allocated'[c] - 1)
  BY DEF SlotsOwned
<1> DEFINE Goal == slots'[c] = 0..(allocated'[c] - 1)
<1>0. UNCHANGED <<slots, allocated>> /\ switched \subseteq switched' => Goal
  BY DEF SlotsOwned
<1>a. ASSUME NEW S, slots' = [r \in Requests |-> IF r \in S THEN {} ELSE slots[r]],
             allocated' = [r \in Requests |-> IF r \in S THEN 0 ELSE allocated[r]],
             switched' = switched \ S
      PROVE  Goal
  <2>1. 0..(0 - 1) = {}
    OBVIOUS
  <2> QED
    BY <1>a, <2>1 DEF SlotsOwned
<1>b. ProcessResult => Goal
  BY <1>a DEF ProcessResult, Release
<1>1. ASSUME Merge PROVE Goal
  BY <1>1, <1>a DEF Merge, Release
<1>2. ASSUME DropRecovery PROVE Goal
  BY <1>2, <1>0 DEF DropRecovery, memoryVars
<1>3. ASSUME Switch PROVE Goal
  BY <1>3, <1>0 DEF Switch, SwitchOn, ArmRecovery, SwitchOff, Wait, memoryVars
<1>4. ASSUME NEW admitted \in SUBSET Waiting,
             NEW t \in Requests \cup {None}, NEW n \in 0..(PromptLen + MaxTokens),
             PickPrefill(admitted, t, n) PROVE Goal
  BY <1>4 DEF PickPrefill, SlotsOwned
<1>5. ASSUME NEW back \in SUBSET running.reqs,
             NEW aborted \in SUBSET running.reqs, PickDecode(back, aborted) PROVE Goal
  <2> DEFINE freed == back \cup aborted
             kept == {r \in running.reqs : status[r] = "active"} \ freed
  <2>1. /\ pc = "pick"
        /\ slots'[c] = IF c \in freed THEN {}
                       ELSE IF c \in kept THEN slots[c] \cup Claimed(c) ELSE slots[c]
        /\ allocated'[c] = IF c \in freed THEN 0
                           ELSE IF c \in kept THEN Claim(c) ELSE allocated[c]
        /\ switched' = switched \ freed
    BY <1>5 DEF PickDecode, Release
  <2>2. CASE c \in freed
    <3>1. 0..(0 - 1) = {}
      OBVIOUS
    <3> QED
      BY <2>1, <2>2, <3>1
  <2>3. CASE c \in kept
    <3>1. c \in running.reqs \ switched /\ status[c] = "active" /\ c \notin freed
      BY <2>1, <2>3
    <3>2. slots[c] = 0..(allocated[c] - 1)
      BY <3>1 DEF SlotsOwned
    <3> QED
      BY <2>1, <2>3, <3>1, <3>2, ClaimExact
  <2>4. CASE c \notin freed /\ c \notin kept
    BY <2>1, <2>4 DEF SlotsOwned
  <2> QED
    BY <2>2, <2>3, <2>4
<1>6. ASSUME Process PROVE Goal
  <2>1. CASE Due
    BY <1>6, <1>b, <2>1 DEF Process
  <2>2. CASE ~Due
    BY <1>6, <1>0, <2>2 DEF Process
  <2> QED
    BY <2>1, <2>2
<1>7. ASSUME EarlyPop \/ EagerPop PROVE Goal
  BY <1>7, <1>b DEF EarlyPop, EagerPop
<1>8. ASSUME \/ \E r \in Requests : Arrive(r) \/ Abort(r)
             \/ \E on \in BOOLEAN : Toggle(on)
             \/ Begin \/ PickNothing \/ RunNothing
             \/ \E got \in [cur.reqs -> 1..(NumSteps + 1)] : Run(got)
             \/ UNCHANGED vars
      PROVE  Goal
  <2>1. UNCHANGED <<slots, allocated, switched>>
    BY <1>8 DEF Arrive, Abort, Toggle, Begin, PickNothing, RunNothing, Run, vars, memoryVars
  <2> QED
    BY <1>0, <2>1
<1> HIDE DEF Goal
<1>9. Goal
  BY <1>1, <1>2, <1>3, <1>4, <1>5, <1>6, <1>7, <1>8 DEF Next, Loop
<1> QED
  BY <1>9 DEF Goal

\* The initial states have no request anywhere.
LEMMA InitLengths == Init => LInv
<1> SUFFICES ASSUME Init PROVE LInv
  OBVIOUS
<1>1. Inv
  BY InitInv
<1>2. Len(results) = 0
  BY DEF Init
<1>3. Places
  BY DEF Init, Places, NoBatch
<1>4. Bounded
  BY <1>2 DEF Bounded
<1>5. Positions
  BY DEF Init, Positions, Resting, Rolling, Filling
<1>6. SlotsOwned
  <2>1. 0..(0 - 1) = {}
    OBVIOUS
  <2> QED
    BY <2>1 DEF Init, SlotsOwned, Zero
<1> QED
  BY <1>1, <1>3, <1>4, <1>5, <1>6 DEF LInv

\* The invariant about lengths and slots is inductive, and holds throughout.
LEMMA LengthInvariant == Spec => []LInv
<1>1. LInv /\ [Next]_vars => LInv'
  BY InvStep, PlacesStep, BoundedStep, PositionsStep, SlotsStep DEF LInv
<1> QED
  BY InitLengths, <1>1, PTL DEF Spec

\* release_kv_cache() frees what was taken: booked and owned slots agree for
\* every request not decoded with drafts when SD was switched off, whatever
\* mixture of prefills, verifies, plain and recovery iterations, retractions
\* and pops it went through.
THEOREM SlotsKept == Spec => []SlotsOwned
<1>1. LInv => SlotsOwned
  BY DEF LInv
<1> QED
  BY <1>1, LengthInvariant, PTL

\* Each decode that run_batch() launches reads the last token sampled at the
\* position that follows what is computed, in both event loops.
THEOREM DecodesCurrent == Spec => []InputsCurrent
<1>1. LInv => InputsCurrent
  <2> SUFFICES ASSUME LInv, pc = "run", cur.kind = "decode",
                      NEW r \in cur.reqs \ switched, status[r] = "active"
               PROVE  /\ IF cur.sd THEN (IF overlap THEN published[r] ELSE seq[r]) = len[r] - 1
                                    ELSE seq[r] = len[r]
                      /\ Relays(cur) \/ cur.recovery => relay[r] = len[r]
    BY DEF InputsCurrent
  <2>1. r \in Requests /\ RollsAt(r)
    BY DEF LInv, Inv, TypeOK, Batches, Positions, Rolling
  <2>2. /\ cur.sd <=> enabled
        /\ cur.recovery <=> armed
        /\ ~(enabled /\ armed)
    BY DEF LInv, Inv, Marker, Flags
  <2>3. len[r] \in Nat /\ seq[r] \in Nat /\ published[r] \in Nat
    BY <2>1, LengthTypes DEF LInv
  <2> QED
    BY <2>1, <2>2, <2>3 DEF RollsAt, Relays, LInv, Inv, TypeOK, Batches
<1> QED
  BY <1>1, LengthInvariant, PTL

\* A verify never writes beyond the slots its request owns, for any number of
\* draft steps: the doubled reserve of get_alloc_reserve_per_decode() covers
\* the verify that is still to be processed.
THEOREM DraftsHaveRoom == Spec => []RoomForDrafts
<1>1. LInv => RoomForDrafts
  <2> SUFFICES ASSUME LInv, pc = "run", Verifies(cur),
                      NEW r \in cur.reqs \ switched, status[r] = "active"
               PROVE  (IF overlap THEN published[r] ELSE seq[r]) + NumSteps + 1 <= allocated[r]
    BY DEF RoomForDrafts
  <2>1. r \in Requests /\ RollsAt(r) /\ enabled
    BY DEF LInv, Inv, TypeOK, Batches, Positions, Rolling, Verifies, Marker
  <2>2. /\ len[r] \in Nat /\ seq[r] \in Nat /\ published[r] \in Nat
        /\ allocated[r] \in Nat /\ NumSteps \in Nat
    BY <2>1, LengthTypes, SizesAssumption DEF LInv
  <2>3. /\ allocated[r] >= len[r] + NumSteps + 1
        /\ (IF overlap THEN published[r] ELSE seq[r]) + 1 = len[r]
    BY <2>1 DEF RollsAt, LInv, Inv, TypeOK
  <2> QED
    BY <2>2, <2>3
<1> QED
  BY <1>1, LengthInvariant, PTL
=============================================================================
