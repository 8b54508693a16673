---------------------------- MODULE SGLangProofs ----------------------------
(***************************************************************************)
(* Proofs about SGLangEngine, for any number of requests, any lengths and  *)
(* any number of retractions: the switch protocol (every batch runs on the *)
(* graph made for it, and a batch with drafts has its drafter input), the  *)
(* one result in flight, and that a client sees nothing but a token stream.*)
(***************************************************************************)
EXTENDS SGLangEngine, TLAPS

\* The flags of the switch decide what the target model runs with.
Flags ==
  /\ ~(enabled /\ (armed \/ inflight))
  /\ ~(armed /\ inflight)
  /\ runtime = IF enabled THEN "sd" ELSE IF armed \/ inflight THEN "recovery" ELSE "target"
  /\ armed => requested /\ chunked = None
  /\ pc \in {"pick", "run"} => ~inflight
  /\ pc = "pick" /\ armed => running.reqs # {}

\* The recovery marker is on the batch about to run and nowhere else.
Marker ==
  /\ last.recovery = FALSE
  /\ cur.kind = "none" => cur = NoBatch
  /\ pc = "process" => cur.recovery = FALSE
  /\ ~(pc = "run" /\ cur.kind = "decode") => running.recovery = FALSE
  /\ pc = "run" /\ cur.kind # "none" => (cur.recovery <=> armed) /\ (cur.sd <=> enabled)
  /\ pc = "run" /\ cur.kind = "prefill" => ~armed

\* Who has drafter input, at each point of an iteration.
Inputs ==
  /\ pc \in {"receive", "early", "merge"} =>
       /\ enabled \/ inflight => running.reqs \subseteq running.info
       /\ enabled /\ last.kind = "prefill" => last.reqs \subseteq last.info
       /\ inflight => last.kind # "prefill"
  /\ pc = "switch" /\ requested /\ (enabled \/ inflight) =>
       running.reqs \subseteq running.info
  /\ pc \in {"pick", "run"} /\ enabled => running.reqs \subseteq running.info
  /\ pc = "run" /\ Verifies(cur) => cur.info = cur.reqs
  /\ pc = "process" =>
       /\ enabled \/ inflight => running.reqs \subseteq running.info
       /\ enabled /\ cur.kind = "prefill" => cur.reqs \subseteq cur.info
       /\ inflight => cur.kind # "prefill"

\* The results in the queue: the last batch's unless it was popped, and the
\* current one's once it ran.
Owed == IF overlap /\ last.kind # "none" /\ ~popped THEN 1 ELSE 0
Pending ==
  /\ pc \in {"receive", "early"} => ~popped
  /\ pc = "early" => Len(results) = 1
  /\ pc # "process" => Len(results) = Owed
  /\ pc = "process" => Len(results) = Owed + (IF cur.kind = "none" THEN 0 ELSE 1)

\* Whom the results in the queue are about: never the request whose prefill
\* goes on, and nobody who was queued again.
Seen == {"active", "done"}
Clients ==
  /\ chunked # None =>
       /\ status[chunked] = "active"
       /\ \A i \in 1..Len(results) : chunked \notin results[i].reqs
       /\ pc = "run" => chunked \notin cur.reqs \ {cur.chunk}
  /\ pc \notin {"run", "process"} =>
       \A i \in 1..Len(results) : \A r \in results[i].reqs : status[r] \in Seen
  /\ pc \in {"run", "process"} => \A r \in cur.reqs : status[r] \in Seen
  /\ pc = "process" /\ cur.kind # "none" => results[Len(results)].reqs \subseteq cur.reqs
  /\ \A i \in 1..Len(results) : \A r \in results[i].reqs : results[i].got[r] >= 1

Inv == TypeOK /\ Flags /\ Marker /\ Inputs /\ Pending /\ Clients
-----------------------------------------------------------------------------
\* prepare_for_decode() claims slots upwards from naturals.
LEMMA ClaimType ==
  ASSUME TypeOK, NEW r \in Requests
  PROVE  Claim(r) \in Nat /\ Claimed(r) \in SUBSET Nat
<1>1. allocated[r] \in Nat /\ committed[r] \in Nat /\ seq[r] \in Nat
  BY DEF TypeOK, Lengths
<1>2. Reserve \in Nat
  BY SizesAssumption DEF Reserve
<1>3. Claim(r) \in Nat
  BY <1>1, <1>2 DEF Claim, Most
<1>4. Claimed(r) \in SUBSET Nat
  <2>1. \A a, b \in Nat : a..(b - 1) \subseteq Nat
    OBVIOUS
  <2> QED
    BY <1>1, <1>3, <2>1 DEF Claimed
<1> QED
  BY <1>3, <1>4

\* Resolving lengths yields lengths.
LEMMA ResolvedType ==
  ASSUME TypeOK, NEW info PROVE Resolved(info) \in Lengths
BY DEF TypeOK, Lengths, Resolved

\* What processing the oldest result does to the variables it changes.
LEMMA ResultType ==
  ASSUME TypeOK, Clients, Len(results) > 0, ProcessResult
  PROVE  /\ out' \in [Requests -> 0..MaxTokens]
         /\ status' \in [Requests -> {"none", "waiting", "active", "done"}]
         /\ committed' \in Lengths /\ allocated' \in Lengths
         /\ slots' \in [Requests -> SUBSET Nat]
         /\ runtime' \in {"sd", "target", "recovery"}
         /\ switched' \subseteq Requests
         /\ results' \in Seq(Results)
<1> DEFINE result == Head(results)
<1>1. result = results[1] /\ result \in Results /\ Tail(results) \in Seq(Results)
  BY DEF TypeOK
<1>2. PICK take \in [Served(result) -> 1..(NumSteps + 1)],
           ends \in SUBSET Served(result) :
        /\ Takes(result, take, ends)
        /\ out' = [r \in Requests |->
                     IF r \in Served(result) THEN out[r] + take[r] ELSE out[r]]
        /\ status' = [r \in Requests |-> IF r \in ends THEN "done" ELSE status[r]]
        /\ Release(ends, Kept(result), allocated)
        /\ slots' = [r \in Requests |-> IF r \in ends THEN {} ELSE slots[r]]
        /\ runtime' \in IF Verifies(result) /\ enabled THEN {runtime, "sd"} ELSE {runtime}
        /\ results' = Tail(results)
  BY DEF ProcessResult
<1>3. \A r \in Served(result) : r \in Requests /\ result.got[r] \in Nat /\ result.got[r] >= 1
  BY <1>1 DEF Served, Clients, Results
<1>4. Kept(result) \in Lengths
  <2>1. \A r \in Requests : committed[r] \in Nat
    BY DEF TypeOK, Lengths
  <2>2. \A r \in Served(result) : committed[r] + result.got[r] - 1 \in Nat
    BY <1>3, <2>1
  <2> QED
    BY <2>1, <2>2 DEF Kept, Lengths
<1>5. committed' \in Lengths /\ allocated' \in Lengths /\ switched' \subseteq Requests
  BY <1>2, <1>4 DEF Release, TypeOK, Lengths
<1>6. out' \in [Requests -> 0..MaxTokens]
  <2>1. ASSUME NEW r \in Served(result)
        PROVE  out[r] + take[r] \in 0..MaxTokens
    BY <1>2, <1>3, SizesAssumption DEF Takes, TypeOK
  <2> QED
    BY <1>2, <2>1 DEF TypeOK
<1> QED
  BY <1>1, <1>2, <1>5, <1>6 DEF TypeOK

\* A result is popped only when there is one.
LEMMA ResultThere ==
  ASSUME TypeOK, Pending,
         EarlyPop \/ EagerPop \/ (Process /\ Due)
  PROVE  Len(results) > 0
<1>1. Len(results) \in Nat
  BY DEF TypeOK
<1>2. CASE EarlyPop
  BY <1>2 DEF EarlyPop, Pending
<1>3. CASE EagerPop
  <2>1. CASE results # <<>>
    BY <1>1, <2>1 DEF TypeOK
  <2>2. CASE last.kind = "prefill"
    BY <1>3, <2>2 DEF EagerPop, Pending, Owed
  <2> QED
    BY <1>3, <2>1, <2>2 DEF EagerPop
<1>4. CASE Process /\ Due
  BY <1>4 DEF Process, Due, Pending, Owed
<1> QED
  BY <1>2, <1>3, <1>4

\* Every step of the scheduler keeps the types.
LEMMA TypeStep ==
  ASSUME TypeOK, Pending, Clients, [Next]_vars
  PROVE  TypeOK'
<1> USE SizesAssumption
<1>1. ASSUME NEW r \in Requests, Arrive(r) PROVE TypeOK'
  BY <1>1 DEF Arrive, TypeOK, switchVars, memoryVars, lengthVars
<1>2. ASSUME NEW r \in Requests, Abort(r) PROVE TypeOK'
  BY <1>2 DEF Abort, TypeOK, switchVars, memoryVars, lengthVars
<1>3. ASSUME NEW on \in BOOLEAN, Toggle(on) PROVE TypeOK'
  BY <1>3 DEF Toggle, TypeOK, switchVars, memoryVars, lengthVars
<1>4. ASSUME Begin PROVE TypeOK'
  BY <1>4 DEF Begin, TypeOK, switchVars, memoryVars, lengthVars
<1>5. ASSUME EarlyPop PROVE TypeOK'
  BY <1>5, ResultThere, ResultType DEF EarlyPop, processUnchanged, TypeOK
<1>6. ASSUME Merge PROVE TypeOK'
  <2>1. running' \in Batches /\ last' \in Batches
    BY <1>6 DEF Merge, Merged, Preserved, Joining, TypeOK, Batches
  <2> QED
    BY <1>6, <2>1 DEF Merge, Release, TypeOK, Lengths, switchVars, memoryVars, lengthVars
<1>7. ASSUME DropRecovery PROVE TypeOK'
  <2>1. running.reqs \subseteq Requests
    BY DEF TypeOK, Batches
  <2> QED
    BY <1>7, <2>1 DEF DropRecovery, TypeOK, memoryVars, lengthVars
<1>8. ASSUME Switch PROVE TypeOK'
  <2>1. seq' \in Lengths /\ running' \in Batches /\ switched' \subseteq Requests
    <3>1. /\ [running EXCEPT !.sd = TRUE] \in Batches
          /\ [running EXCEPT !.sd = FALSE] \in Batches
          /\ running.reqs \subseteq Requests
      BY DEF TypeOK, Batches
    <3>2. CASE SwitchOff
      BY <3>1, <3>2, ResolvedType DEF SwitchOff, TypeOK
    <3>3. CASE SwitchOn \/ ArmRecovery \/ Wait
      BY <3>1, <3>3 DEF SwitchOn, ArmRecovery, Wait, TypeOK
    <3> QED
      BY <1>8, <3>2, <3>3 DEF Switch
  <2> QED
    BY <1>8, <2>1 DEF Switch, SwitchOn, ArmRecovery, SwitchOff, Wait, TypeOK, memoryVars
<1>9. ASSUME NEW admitted \in SUBSET Waiting,
             NEW t \in Requests \cup {None}, NEW n \in 0..(PromptLen + MaxTokens),
             PickPrefill(admitted, t, n) PROVE TypeOK'
  <2> DEFINE batch == admitted \cup ({chunked} \ {None})
  <2>1. batch \subseteq Requests
    BY DEF Waiting, TypeOK
  <2>2. \A r \in Requests : Full(r) \in Nat
    BY DEF Full, TypeOK
  <2>3. seq' \in Lengths
    BY <1>9, <2>2 DEF PickPrefill, TypeOK, Lengths
  <2>4. /\ committed' \in Lengths /\ allocated' \in Lengths
        /\ slots' \in [Requests -> SUBSET Nat]
    <3>1. \A r \in Requests : 0..(seq'[r] - 1) \in SUBSET Nat
      BY <2>3 DEF Lengths
    <3> QED
      BY <1>9, <2>3, <3>1 DEF PickPrefill, TypeOK, Lengths
  <2>5. cur' \in Batches
    BY <1>9, <2>1 DEF PickPrefill, TypeOK, Batches
  <2>6. status' \in [Requests -> {"none", "waiting", "active", "done"}]
    BY <1>9 DEF PickPrefill, TypeOK
  <2> QED
    BY <1>9, <2>3, <2>4, <2>5, <2>6 DEF PickPrefill, TypeOK, switchVars
<1>10. ASSUME NEW back \in SUBSET running.reqs,
             NEW aborted \in SUBSET running.reqs, PickDecode(back, aborted) PROVE TypeOK'
  <2> DEFINE alive == {r \in running.reqs : status[r] = "active"}
             kept == alive \ (back \cup aborted)
             batch == [kind |-> "decode", reqs |-> kept, sd |-> enabled /\ ~armed,
                       recovery |-> running.recovery \/ armed,
                       info |-> running.info \cap kept, chunk |-> None]
  <2>1. running' \in Batches /\ cur' \in Batches
    <3>1. batch \in Batches /\ NoBatch \in Batches
          /\ [running EXCEPT !.reqs = {}, !.sd = enabled] \in Batches
      BY DEF TypeOK, Batches, NoBatch
    <3>2. /\ running' \in {batch, [running EXCEPT !.reqs = {}, !.sd = enabled]}
          /\ cur' \in {batch, NoBatch}
      BY <1>10 DEF PickDecode
    <3> QED
      BY <3>1, <3>2
  <2>2. seq' \in Lengths /\ committed' \in Lengths /\ allocated' \in Lengths
    <3>1. \A r \in Requests : /\ seq[r] \in Nat /\ committed[r] \in Nat
                              /\ allocated[r] \in Nat /\ Claim(r) \in Nat
      BY ClaimType DEF TypeOK, Lengths
    <3>2. seq' \in Lengths
      BY <1>10, <3>1 DEF PickDecode, Lengths
    <3>3. committed' \in Lengths
      BY <1>10, <3>1 DEF PickDecode, Release, Lengths
    <3>4. allocated' \in Lengths
      BY <1>10, <3>1 DEF PickDecode, Release, Lengths
    <3> QED
      BY <3>2, <3>3, <3>4
  <2>3. slots' \in [Requests -> SUBSET Nat]
    BY <1>10, ClaimType DEF PickDecode, TypeOK
  <2>4. retracts' \in 0..MaxRetracts /\ switched' \subseteq Requests
    BY <1>10 DEF PickDecode, Release, Retraction, TypeOK
  <2>5. status' \in [Requests -> {"none", "waiting", "active", "done"}]
    BY <1>10 DEF PickDecode, TypeOK
  <2> QED
    BY <1>10, <2>1, <2>2, <2>3, <2>4, <2>5 DEF PickDecode, TypeOK, switchVars
<1>11. ASSUME PickNothing PROVE TypeOK'
  <2>1. NoBatch \in Batches
    BY DEF NoBatch, Batches
  <2> QED
    BY <1>11, <2>1 DEF PickNothing, TypeOK, switchVars, memoryVars, lengthVars
<1>12. ASSUME EagerPop PROVE TypeOK'
  BY <1>12, ResultThere, ResultType DEF EagerPop, processUnchanged, TypeOK
<1>13. ASSUME NEW got \in [cur.reqs -> 1..(NumSteps + 1)], Run(got) PROVE TypeOK'
  <2> DEFINE pos == IF overlap /\ cur.sd THEN Resolved(cur.info) ELSE seq
  <2>1. pos \in Lengths
    BY ResolvedType DEF TypeOK
  <2>2. \A r \in cur.reqs : r \in Requests /\ got[r] \in Nat
    BY DEF TypeOK, Batches
  <2>3. /\ len' \in Lengths /\ seq' \in Lengths
        /\ published' \in Lengths /\ relay' \in Lengths
    <3>1. \A r \in Requests : /\ len[r] \in Nat /\ seq[r] \in Nat /\ pos[r] \in Nat
                              /\ published[r] \in Nat /\ relay[r] \in Nat
      BY <2>1 DEF TypeOK, Lengths
    <3> HIDE DEF pos
    <3>2. \A r \in cur.reqs : Publishes(cur, pos[r], got[r]) \in Nat
      BY <2>2, <3>1 DEF Publishes
    <3>3. len' = [r \in Requests |->
                    IF r \notin cur.reqs \ {cur.chunk} THEN len[r]
                    ELSE IF cur.kind = "prefill" THEN pos[r] + 1
                    ELSE len[r] + got[r]]
      BY <1>13 DEF Run, pos
    <3>4. len' \in Lengths
      BY <2>2, <3>1, <3>3 DEF Lengths
    <3>5. seq' = [r \in Requests |->
                    IF r \in cur.reqs /\ Verifies(cur) /\ ~overlap
                    THEN pos[r] + got[r] ELSE pos[r]]
      BY <1>13 DEF Run, pos
    <3>6. seq' \in Lengths
      BY <2>2, <3>1, <3>5 DEF Lengths
    <3>7. published' = [r \in Requests |->
                          IF r \in cur.reqs /\ overlap
                          THEN Publishes(cur, pos[r], got[r]) ELSE published[r]]
      BY <1>13 DEF Run, pos
    <3>8. published' \in Lengths
      BY <3>1, <3>2, <3>7 DEF Lengths
    <3>9. relay' \in Lengths
      BY <1>13, <3>1, <3>4 DEF Run, Lengths
    <3> QED
      BY <3>4, <3>6, <3>8, <3>9
  <2>4. Ran(cur) \in Batches
    BY DEF Ran, TypeOK, Batches
  <2>5. results' \in Seq(Results)
    <3> DEFINE new == [kind |-> cur.kind, reqs |-> cur.reqs \ {cur.chunk}, sd |-> cur.sd,
                       got |-> [r \in Requests |-> IF r \in cur.reqs THEN got[r] ELSE 0]]
    <3>1. new \in Results
      BY <1>13, <2>2 DEF Run, TypeOK, Batches, Results
    <3>2. results' = Append(results, new)
      BY <1>13 DEF Run
    <3> HIDE DEF new
    <3> QED
      BY <3>1, <3>2 DEF TypeOK
  <2> QED
    BY <1>13, <2>3, <2>4, <2>5 DEF Run, TypeOK, memoryVars
<1>14. ASSUME RunNothing PROVE TypeOK'
  BY <1>14 DEF RunNothing, TypeOK, switchVars, memoryVars, lengthVars
<1>15. ASSUME Process PROVE TypeOK'
  <2>1. NoBatch \in Batches
    BY DEF NoBatch, Batches
  <2>2. CASE Due
    BY <1>15, <2>1, <2>2, ResultThere, ResultType DEF Process, processUnchanged, TypeOK
  <2>3. CASE ~Due
    BY <1>15, <2>1, <2>3 DEF Process, processUnchanged, TypeOK
  <2> QED
    BY <2>2, <2>3
<1>16. CASE UNCHANGED vars
  BY <1>16 DEF vars, TypeOK, switchVars, memoryVars, lengthVars
<1> QED
  BY <1>1, <1>2, <1>3, <1>4, <1>5, <1>6, <1>7, <1>8, <1>9, <1>10, <1>11, <1>12, <1>13, <1>14, <1>15, <1>16 DEF Next, Loop

\* The adaptive controller installs nothing new.
LEMMA RuntimeKept ==
  ASSUME TypeOK, Flags, ProcessResult
  PROVE  runtime' = runtime
BY DEF ProcessResult, Flags

\* The protocol of the switch keeps flags and runtime in step.
LEMMA FlagsStep ==
  ASSUME TypeOK, Flags, Marker, [Next]_vars
  PROVE  Flags'
<1> USE DEF TypeOK
<1>1. ASSUME NEW r \in Requests, Arrive(r) PROVE Flags'
  BY <1>1 DEF Arrive, Flags, switchVars
<1>2. ASSUME NEW r \in Requests, Abort(r) PROVE Flags'
  BY <1>2 DEF Abort, Flags, switchVars
<1>3. ASSUME NEW on \in BOOLEAN, Toggle(on) PROVE Flags'
  BY <1>3 DEF Toggle, Flags, switchVars
<1>4. ASSUME Begin PROVE Flags'
  BY <1>4 DEF Begin, Flags, switchVars
<1>5. ASSUME EarlyPop PROVE Flags'
  BY <1>5, RuntimeKept DEF EarlyPop, processUnchanged, Flags
<1>6. ASSUME Merge PROVE Flags'
  BY <1>6 DEF Merge, Flags, switchVars
<1>7. ASSUME DropRecovery PROVE Flags'
  BY <1>7 DEF DropRecovery, Flags
<1>8. ASSUME Switch PROVE Flags'
  <2>1. CASE TransitionPending /\ SwitchOn
    BY <1>8, <2>1 DEF Switch, SwitchOn, Flags
  <2>2. CASE TransitionPending /\ ArmRecovery
    BY <1>8, <2>2 DEF Switch, ArmRecovery, ArmNow, TransitionPending, Flags
  <2>3. CASE TransitionPending /\ SwitchOff
    BY <1>8, <2>3 DEF Switch, SwitchOff, TransitionPending, Flags
  <2>4. CASE Wait
    BY <1>8, <2>4 DEF Switch, Wait, EnableNow, ArmNow, TransitionPending, Flags
  <2> QED
    BY <1>8, <2>1, <2>2, <2>3, <2>4 DEF Switch
<1>9. ASSUME NEW admitted \in SUBSET Waiting,
             NEW t \in Requests \cup {None}, NEW n \in 0..(PromptLen + MaxTokens),
             PickPrefill(admitted, t, n) PROVE Flags'
  BY <1>9 DEF PickPrefill, Flags, switchVars
<1>10. ASSUME NEW back \in SUBSET running.reqs,
             NEW aborted \in SUBSET running.reqs, PickDecode(back, aborted) PROVE Flags'
  BY <1>10 DEF PickDecode, Flags, switchVars
<1>11. ASSUME PickNothing PROVE Flags'
  BY <1>11 DEF PickNothing, Flags, switchVars
<1>12. ASSUME EagerPop PROVE Flags'
  BY <1>12, RuntimeKept DEF EagerPop, processUnchanged, Flags
<1>13. ASSUME NEW got \in [cur.reqs -> 1..(NumSteps + 1)], Run(got) PROVE Flags'
  BY <1>13 DEF Run, Flags, Marker
<1>14. ASSUME RunNothing PROVE Flags'
  BY <1>14 DEF RunNothing, Flags, switchVars
<1>15. ASSUME Process PROVE Flags'
  <2>1. runtime' = runtime
    BY <1>15, RuntimeKept DEF Process
  <2> QED
    BY <1>15, <2>1 DEF Process, processUnchanged, Flags
<1>16. CASE UNCHANGED vars
  BY <1>16 DEF vars, Flags, switchVars
<1> QED
  BY <1>1, <1>2, <1>3, <1>4, <1>5, <1>6, <1>7, <1>8, <1>9, <1>10, <1>11, <1>12, <1>13, <1>14, <1>15, <1>16 DEF Next, Loop

\* The marker is used up by the batch that carries it.
LEMMA MarkerStep ==
  ASSUME TypeOK, Flags, Marker, [Next]_vars
  PROVE  Marker'
<1>1. ASSUME NEW r \in Requests, Arrive(r) PROVE Marker'
  BY <1>1 DEF Arrive, Marker, switchVars
<1>2. ASSUME NEW r \in Requests, Abort(r) PROVE Marker'
  BY <1>2 DEF Abort, Marker, switchVars
<1>3. ASSUME NEW on \in BOOLEAN, Toggle(on) PROVE Marker'
  BY <1>3 DEF Toggle, Marker, switchVars
<1>4. ASSUME Begin PROVE Marker'
  BY <1>4 DEF Begin, Marker, switchVars
<1>5. ASSUME EarlyPop PROVE Marker'
  BY <1>5 DEF EarlyPop, processUnchanged, Marker
<1>6. ASSUME Merge PROVE Marker'
  <2>1. running' = Merged(Joining) /\ last' = [last EXCEPT !.info = Preserved(@)]
    BY <1>6 DEF Merge
  <2>2. running'.recovery = FALSE /\ last'.recovery = FALSE
    BY <1>6, <2>1 DEF Merge, Merged, Marker, TypeOK, Batches
  <2> QED
    BY <1>6, <2>2 DEF Merge, Marker, switchVars
<1>7. ASSUME DropRecovery PROVE Marker'
  BY <1>7 DEF DropRecovery, Marker, switchVars
<1>8. ASSUME Switch PROVE Marker'
  <2>1. running'.recovery = running.recovery
    BY <1>8 DEF Switch, SwitchOn, ArmRecovery, SwitchOff, Wait, TypeOK, Batches
  <2> QED
    BY <1>8, <2>1 DEF Switch, Marker
<1>9. ASSUME NEW admitted \in SUBSET Waiting,
             NEW t \in Requests \cup {None}, NEW n \in 0..(PromptLen + MaxTokens),
             PickPrefill(admitted, t, n) PROVE Marker'
  BY <1>9 DEF PickPrefill, Marker, Flags, switchVars, TypeOK
<1>10. ASSUME NEW back \in SUBSET running.reqs,
             NEW aborted \in SUBSET running.reqs, PickDecode(back, aborted) PROVE Marker'
  <2>1. running.recovery = FALSE
    BY <1>10 DEF PickDecode, Marker
  <2>2. CASE cur' = NoBatch /\ running' = [running EXCEPT !.reqs = {}, !.sd = enabled]
    BY <1>10, <2>1, <2>2 DEF PickDecode, Marker, NoBatch, TypeOK, Batches, switchVars
  <2>3. CASE /\ running' = cur' /\ cur'.kind = "decode"
             /\ cur'.recovery = (running.recovery \/ armed)
             /\ cur'.sd = (enabled /\ ~armed)
    BY <1>10, <2>1, <2>3 DEF PickDecode, Marker, Flags, TypeOK, switchVars
  <2> QED
    BY <1>10, <2>2, <2>3 DEF PickDecode
<1>11. ASSUME PickNothing PROVE Marker'
  BY <1>11 DEF PickNothing, Marker, NoBatch, switchVars
<1>12. ASSUME EagerPop PROVE Marker'
  BY <1>12 DEF EagerPop, processUnchanged, Marker
<1>13. ASSUME NEW got \in [cur.reqs -> 1..(NumSteps + 1)], Run(got) PROVE Marker'
  <2>1. Ran(cur).recovery = FALSE /\ Ran(cur).kind = cur.kind
    BY DEF Ran, TypeOK, Batches
  <2> QED
    BY <1>13, <2>1 DEF Run, Marker, TypeOK, Batches
<1>14. ASSUME RunNothing PROVE Marker'
  BY <1>14 DEF RunNothing, Marker, NoBatch, switchVars
<1>15. ASSUME Process PROVE Marker'
  BY <1>15 DEF Process, processUnchanged, Marker, NoBatch
<1>16. CASE UNCHANGED vars
  BY <1>16 DEF vars, Marker, switchVars
<1> QED
  BY <1>1, <1>2, <1>3, <1>4, <1>5, <1>6, <1>7, <1>8, <1>9, <1>10, <1>11, <1>12, <1>13, <1>14, <1>15, <1>16 DEF Next, Loop

\* Drafter input follows the requests that will need it.
LEMMA InputsStep ==
  ASSUME TypeOK, Flags, Marker, Inputs, [Next]_vars
  PROVE  Inputs'
<1>1. ASSUME NEW r \in Requests, Arrive(r) PROVE Inputs'
  BY <1>1 DEF Arrive, Inputs, Verifies, switchVars
<1>2. ASSUME NEW r \in Requests, Abort(r) PROVE Inputs'
  BY <1>2 DEF Abort, Inputs, Verifies, switchVars
<1>3. ASSUME NEW on \in BOOLEAN, Toggle(on) PROVE Inputs'
  BY <1>3 DEF Toggle, Inputs, Verifies, switchVars
<1>4. ASSUME Begin PROVE Inputs'
  BY <1>4 DEF Begin, Inputs, Verifies, switchVars
<1>5. ASSUME EarlyPop PROVE Inputs'
  BY <1>5 DEF EarlyPop, processUnchanged, Inputs, Verifies
<1>6. ASSUME Merge PROVE Inputs'
  <2>1. pc' = "switch" /\ running' = Merged(Joining) /\ UNCHANGED switchVars
    BY <1>6 DEF Merge
  <2>2. ASSUME requested, enabled \/ inflight
        PROVE  running'.reqs \subseteq running'.info
    <3>1. Preserved(last.info) = last.info /\ Preserved(running.info) = running.info
      BY <2>2 DEF Preserved
    <3>2. running.reqs \subseteq running.info
      BY <1>6, <2>2 DEF Merge, Inputs
    <3>3. Joining \subseteq last.info
      BY <1>6, <2>2 DEF Merge, Inputs, Joining, Flags, TypeOK
    <3> QED
      BY <2>1, <3>1, <3>2, <3>3 DEF Merged, TypeOK, Batches
  <2> QED
    BY <2>1, <2>2 DEF Inputs, switchVars
<1>7. ASSUME DropRecovery PROVE Inputs'
  BY <1>7 DEF DropRecovery, Inputs, Verifies, switchVars
<1>8. ASSUME Switch PROVE Inputs'
  <2>1. running'.reqs = running.reqs /\ running'.info = running.info
    BY <1>8 DEF Switch, SwitchOn, ArmRecovery, SwitchOff, Wait, TypeOK, Batches
  <2>2. enabled' => running.reqs \subseteq running.info
    <3>1. CASE TransitionPending /\ SwitchOn
      BY <1>8, <3>1 DEF Switch, SwitchOn, EnableNow, Inputs
    <3>2. CASE TransitionPending /\ (ArmRecovery \/ SwitchOff)
      BY <1>8, <3>2 DEF Switch, ArmRecovery, ArmNow, SwitchOff, TransitionPending, TypeOK
    <3>3. CASE Wait
      BY <1>8, <3>3 DEF Switch, Wait, TransitionPending, Inputs, TypeOK
    <3> QED
      BY <1>8, <3>1, <3>2, <3>3 DEF Switch
  <2> QED
    BY <1>8, <2>1, <2>2 DEF Switch, Inputs
<1>9. ASSUME NEW admitted \in SUBSET Waiting,
             NEW t \in Requests \cup {None}, NEW n \in 0..(PromptLen + MaxTokens),
             PickPrefill(admitted, t, n) PROVE Inputs'
  BY <1>9 DEF PickPrefill, Inputs, Verifies, switchVars
<1>10. ASSUME NEW back \in SUBSET running.reqs,
             NEW aborted \in SUBSET running.reqs, PickDecode(back, aborted) PROVE Inputs'
  <2> DEFINE kept == {r \in running.reqs : status[r] = "active"} \ (back \cup aborted)
  <2>1. CASE kept = {}
    <3>1. cur' = NoBatch /\ running' = [running EXCEPT !.reqs = {}, !.sd = enabled]
      BY <1>10, <2>1 DEF PickDecode
    <3> QED
      BY <1>10, <3>1 DEF PickDecode, Inputs, Verifies, NoBatch, TypeOK, Batches
  <2>2. CASE kept # {}
    <3>1. /\ running' = cur' /\ cur'.reqs = kept /\ cur'.info = running.info \cap kept
          /\ cur'.sd = (enabled /\ ~armed)
      BY <1>10, <2>2 DEF PickDecode
    <3>2. enabled => running.info \cap kept = kept
      BY <1>10 DEF PickDecode, Inputs
    <3> HIDE DEF kept
    <3> QED
      BY <1>10, <3>1, <3>2 DEF PickDecode, Inputs, Verifies, switchVars, TypeOK
  <2> QED
    BY <2>1, <2>2
<1>11. ASSUME PickNothing PROVE Inputs'
  BY <1>11 DEF PickNothing, Inputs, Verifies, NoBatch, switchVars
<1>12. ASSUME EagerPop PROVE Inputs'
  BY <1>12 DEF EagerPop, processUnchanged, Inputs, Verifies
<1>13. ASSUME NEW got \in [cur.reqs -> 1..(NumSteps + 1)], Run(got) PROVE Inputs'
  <2>1. /\ Ran(cur).kind = cur.kind /\ Ran(cur).reqs = cur.reqs
        /\ cur.sd \/ cur.recovery => Ran(cur).info = cur.reqs
    BY DEF Ran, TypeOK, Batches
  <2>2. /\ cur.kind \in {"prefill", "decode"} /\ ~inflight
        /\ (cur.recovery <=> armed) /\ (cur.sd <=> enabled)
        /\ cur.kind = "prefill" => ~cur.recovery
    BY <1>13 DEF Run, Marker, Flags, TypeOK, Batches
  <2>3. CASE cur.kind = "prefill"
    BY <1>13, <2>1, <2>2, <2>3 DEF Run, Inputs, TypeOK
  <2>4. CASE cur.kind = "decode"
    BY <1>13, <2>1, <2>2, <2>4 DEF Run, Inputs, TypeOK
  <2> QED
    BY <2>2, <2>3, <2>4
<1>14. ASSUME RunNothing PROVE Inputs'
  <2>1. ~inflight /\ cur = NoBatch
    BY <1>14 DEF RunNothing, Flags, Marker
  <2> QED
    BY <1>14, <2>1 DEF RunNothing, Inputs, NoBatch, switchVars
<1>15. ASSUME Process PROVE Inputs'
  BY <1>15 DEF Process, processUnchanged, Inputs, Verifies
<1>16. CASE UNCHANGED vars
  BY <1>16 DEF vars, Inputs, Verifies, switchVars
<1> QED
  BY <1>1, <1>2, <1>3, <1>4, <1>5, <1>6, <1>7, <1>8, <1>9, <1>10, <1>11, <1>12, <1>13, <1>14, <1>15, <1>16 DEF Next, Loop

\* Processing a result removes one from the queue.
LEMMA ResultTaken ==
  ASSUME TypeOK, Len(results) > 0, ProcessResult
  PROVE  /\ Len(results') = Len(results) - 1
         /\ \A i \in 1..Len(results') : results'[i] = results[i + 1]
<1>1. results' = Tail(results) /\ results \in Seq(Results) /\ results # <<>>
  BY DEF ProcessResult, TypeOK
<1> QED
  BY <1>1

\* The queue holds what is owed and nothing else.
LEMMA PendingStep ==
  ASSUME TypeOK, Marker, Pending, [Next]_vars
  PROVE  Pending'
<1>0. Len(results) \in Nat
  BY DEF TypeOK
<1>1. ASSUME NEW r \in Requests, Arrive(r) PROVE Pending'
  BY <1>1 DEF Arrive, Pending, Owed
<1>2. ASSUME NEW r \in Requests, Abort(r) PROVE Pending'
  BY <1>2 DEF Abort, Pending, Owed
<1>3. ASSUME NEW on \in BOOLEAN, Toggle(on) PROVE Pending'
  BY <1>3 DEF Toggle, Pending, Owed
<1>4. ASSUME Begin PROVE Pending'
  <2>1. CASE overlap /\ TransitionPending /\ results # <<>>
    <3>1. Len(results) > 0
      BY <2>1 DEF TypeOK
    <3> QED
      BY <1>4, <2>1, <3>1 DEF Begin, Pending, Owed
  <2>2. CASE ~(overlap /\ TransitionPending /\ results # <<>>)
    BY <1>4, <2>2 DEF Begin, Pending, Owed
  <2> QED
    BY <2>1, <2>2
<1>5. ASSUME EarlyPop PROVE Pending'
  <2>1. Len(results') = 0
    BY <1>0, <1>5, ResultThere, ResultTaken DEF EarlyPop, Pending
  <2> QED
    BY <1>5, <2>1 DEF EarlyPop, processUnchanged, Pending, Owed
<1>6. ASSUME Merge PROVE Pending'
  <2>1. last'.kind = last.kind
    BY <1>6 DEF Merge, TypeOK, Batches
  <2> QED
    BY <1>6, <2>1 DEF Merge, Pending, Owed
<1>7. ASSUME DropRecovery PROVE Pending'
  BY <1>7 DEF DropRecovery, Pending, Owed
<1>8. ASSUME Switch PROVE Pending'
  BY <1>8 DEF Switch, Pending, Owed
<1>9. ASSUME NEW admitted \in SUBSET Waiting,
             NEW t \in Requests \cup {None}, NEW n \in 0..(PromptLen + MaxTokens),
             PickPrefill(admitted, t, n) PROVE Pending'
  BY <1>9 DEF PickPrefill, Pending, Owed
<1>10. ASSUME NEW back \in SUBSET running.reqs,
             NEW aborted \in SUBSET running.reqs, PickDecode(back, aborted) PROVE Pending'
  BY <1>10 DEF PickDecode, Pending, Owed
<1>11. ASSUME PickNothing PROVE Pending'
  BY <1>11 DEF PickNothing, Pending, Owed
<1>12. ASSUME EagerPop PROVE Pending'
  <2>1. Len(results) = 1 /\ Len(results') = 0
    BY <1>0, <1>12, ResultThere, ResultTaken DEF EagerPop, Pending, Owed
  <2> QED
    BY <1>12, <2>1 DEF EagerPop, processUnchanged, Pending, Owed
<1>13. ASSUME NEW got \in [cur.reqs -> 1..(NumSteps + 1)], Run(got) PROVE Pending'
  <2>1. Len(results') = Len(results) + 1
    BY <1>13 DEF Run, TypeOK
  <2>2. Ran(cur).kind = cur.kind
    BY DEF Ran, TypeOK, Batches
  <2> QED
    BY <1>0, <1>13, <2>1, <2>2 DEF Run, Pending, Owed
<1>14. ASSUME RunNothing PROVE Pending'
  BY <1>14 DEF RunNothing, Pending, Owed
<1>15. ASSUME Process PROVE Pending'
  <2>1. Len(results') = IF Due THEN Len(results) - 1 ELSE Len(results)
    <3>1. CASE Due
      BY <1>15, <3>1, ResultThere, ResultTaken DEF Process
    <3>2. CASE ~Due
      BY <1>15, <3>2 DEF Process
    <3> QED
      BY <3>1, <3>2
  <2>2. Len(results') = IF overlap /\ cur.kind # "none" THEN 1 ELSE 0
    BY <1>0, <1>15, <2>1 DEF Process, Pending, Owed, Due
  <2> QED
    BY <1>15, <2>2 DEF Process, processUnchanged, Pending, Owed
<1>16. CASE UNCHANGED vars
  BY <1>16 DEF vars, Pending, Owed
<1> QED
  BY <1>1, <1>2, <1>3, <1>4, <1>5, <1>6, <1>7, <1>8, <1>9, <1>10, <1>11, <1>12, <1>13, <1>14, <1>15, <1>16 DEF Next, Loop

\* A queued result is about requests.
LEMMA ResultReqs ==
  ASSUME TypeOK
  PROVE  Len(results) \in Nat /\ \A i \in 1..Len(results) : results[i].reqs \subseteq Requests
<1>1. results \in Seq(Results)
  BY DEF TypeOK
<1>2. Len(results) \in Nat /\ \A i \in 1..Len(results) : results[i] \in Results
  BY <1>1
<1>3. \A x \in Results : x.reqs \subseteq Requests
  BY DEF Results
<1> QED
  BY <1>2, <1>3

\* Processing a result ends requests of that result, and changes no other status.
LEMMA ResultStatus ==
  ASSUME TypeOK, Len(results) > 0, ProcessResult, NEW r \in Requests
  PROVE  \/ status'[r] = status[r]
         \/ r \in results[1].reqs /\ status[r] = "active" /\ status'[r] = "done"
<1>1. Head(results) = results[1]
  BY DEF TypeOK
<1> QED
  BY <1>1 DEF ProcessResult, Served

\* What Clients says of the queue and of the current batch survives the
\* processing of the oldest result.
LEMMA ClientsPop ==
  ASSUME TypeOK, Clients, Len(results) > 0, ProcessResult, chunked' = chunked
  PROVE  /\ chunked # None => /\ status'[chunked] = "active"
                              /\ \A i \in 1..Len(results') : chunked \notin results'[i].reqs
         /\ \A r \in Requests : status[r] \in Seen => status'[r] \in Seen
         /\ \A i \in 1..Len(results') : i + 1 \in 1..Len(results) /\ results'[i] = results[i + 1]
         /\ \A i \in 1..Len(results') : \A r \in results'[i].reqs : results'[i].got[r] >= 1
         /\ \A i \in 1..Len(results) : results[i].reqs \subseteq Requests
<1>1. Len(results) \in Nat /\ \A i \in 1..Len(results) : results[i].reqs \subseteq Requests
  BY ResultReqs
<1>2. \A i \in 1..Len(results') : i + 1 \in 1..Len(results) /\ results'[i] = results[i + 1]
  BY <1>1, ResultTaken
<1>3. \A r \in Requests : status[r] \in Seen => status'[r] \in Seen
  BY ResultStatus DEF Seen
<1>4. ASSUME chunked # None
      PROVE  /\ status'[chunked] = "active"
             /\ \A i \in 1..Len(results') : chunked \notin results'[i].reqs
  <2>1. chunked \in Requests /\ status[chunked] = "active" /\ chunked \notin results[1].reqs
    BY <1>1, <1>4 DEF Clients, TypeOK
  <2>2. status'[chunked] = "active"
    BY <2>1, ResultStatus
  <2> QED
    BY <1>2, <1>4, <2>2 DEF Clients
<1> QED
  BY <1>1, <1>2, <1>3, <1>4 DEF Clients

\* Results are about requests that are served or over.
LEMMA ClientsStep ==
  ASSUME TypeOK, Marker, Pending, Clients, [Next]_vars
  PROVE  Clients'
<1>0. Len(results) \in Nat /\ \A i \in 1..Len(results) : results[i].reqs \subseteq Requests
  BY ResultReqs
<1>1. ASSUME NEW r \in Requests, Arrive(r) PROVE Clients'
  BY <1>0, <1>1 DEF Arrive, Clients, Seen, TypeOK
<1>2. ASSUME NEW r \in Requests, Abort(r) PROVE Clients'
  BY <1>0, <1>2 DEF Abort, Clients, Seen, TypeOK
<1>3. ASSUME NEW on \in BOOLEAN, Toggle(on) PROVE Clients'
  BY <1>3 DEF Toggle, Clients
<1>4. ASSUME Begin PROVE Clients'
  BY <1>4 DEF Begin, Clients
<1>5. ASSUME EarlyPop PROVE Clients'
  <2>1. Len(results) > 0
    BY <1>5, ResultThere
  <2>2. ProcessResult /\ chunked' = chunked
    BY <1>5 DEF EarlyPop, processUnchanged
  <2>3. \A i \in 1..Len(results') : \A r \in results'[i].reqs : status'[r] \in Seen
    BY <2>1, <2>2, <1>5, ClientsPop DEF EarlyPop, Clients
  <2> QED
    BY <1>5, <2>1, <2>2, <2>3, ClientsPop DEF EarlyPop, processUnchanged, Clients
<1>6. ASSUME Merge PROVE Clients'
  <2>1. pc = "merge" /\ pc' = "switch" /\ UNCHANGED results
    BY <1>6 DEF Merge
  <2>2. chunked' # None => chunked' = chunked /\ status' = status
    BY <1>6 DEF Merge, TypeOK
  <2>3. \A r \in Requests : status[r] \in Seen => status'[r] \in Seen
    BY <1>6 DEF Merge, Seen
  <2> QED
    BY <1>0, <2>1, <2>2, <2>3 DEF Clients
<1>7. ASSUME DropRecovery PROVE Clients'
  BY <1>7 DEF DropRecovery, Clients
<1>8. ASSUME Switch PROVE Clients'
  BY <1>8 DEF Switch, Clients
<1>9. ASSUME NEW admitted \in SUBSET Waiting,
             NEW t \in Requests \cup {None}, NEW n \in 0..(PromptLen + MaxTokens),
             PickPrefill(admitted, t, n) PROVE Clients'
  <2> DEFINE batch == admitted \cup ({chunked} \ {None})
  <2>1. /\ pc = "pick" /\ pc' = "run" /\ chunked' = t /\ UNCHANGED results
        /\ t \in batch \cup {None}
        /\ cur'.reqs = batch /\ cur'.chunk = t
        /\ \A r \in batch : r \in Requests /\ status'[r] = "active"
    BY <1>9 DEF PickPrefill, Waiting, TypeOK
  <2>2. \A i \in 1..Len(results) : t \notin results[i].reqs \/ t = None
    BY <2>1 DEF Clients, Seen, Waiting
  <2> HIDE DEF batch
  <2> QED
    BY <2>1, <2>2 DEF Clients, Seen
<1>10. ASSUME NEW back \in SUBSET running.reqs,
             NEW aborted \in SUBSET running.reqs, PickDecode(back, aborted) PROVE Clients'
  <2>1. pc' = "run" /\ chunked = None /\ UNCHANGED <<chunked, results>>
    BY <1>10 DEF PickDecode
  <2>2. \A r \in cur'.reqs : status'[r] \in Seen
    BY <1>10 DEF PickDecode, NoBatch, Seen, TypeOK, Batches
  <2> QED
    BY <2>1, <2>2 DEF Clients
<1>11. ASSUME PickNothing PROVE Clients'
  BY <1>11 DEF PickNothing, Clients, NoBatch
<1>12. ASSUME EagerPop PROVE Clients'
  <2>1. Len(results) > 0
    BY <1>12, ResultThere
  <2>2. ProcessResult /\ chunked' = chunked /\ pc = "run" /\ pc' = "run" /\ cur' = cur
    BY <1>12 DEF EagerPop, processUnchanged
  <2>3. \A r \in cur.reqs : status'[r] \in Seen
    BY <2>1, <2>2, ClientsPop DEF Clients, TypeOK, Batches
  <2> QED
    BY <2>1, <2>2, <2>3, ClientsPop DEF Clients
<1>13. ASSUME NEW got \in [cur.reqs -> 1..(NumSteps + 1)], Run(got) PROVE Clients'
  <2> DEFINE new == [kind |-> cur.kind, reqs |-> cur.reqs \ {cur.chunk}, sd |-> cur.sd,
                     got |-> [r \in Requests |-> IF r \in cur.reqs THEN got[r] ELSE 0]]
  <2>1. /\ pc = "run" /\ pc' = "process" /\ results' = Append(results, new)
        /\ UNCHANGED <<status, chunked>> /\ cur' = Ran(cur)
    BY <1>13 DEF Run
  <2>2. cur'.reqs = cur.reqs /\ cur'.kind = cur.kind
    BY <2>1 DEF Ran, TypeOK, Batches
  <2>3. new.reqs = cur.reqs \ {cur.chunk} /\ \A r \in new.reqs : new.got[r] >= 1
    BY SizesAssumption DEF TypeOK, Batches
  <2> HIDE DEF new
  <2>4. /\ Len(results') = Len(results) + 1 /\ results'[Len(results')] = new
        /\ \A i \in 1..Len(results) : results'[i] = results[i]
    BY <2>1 DEF TypeOK
  <2>5. \A i \in 1..Len(results') : results'[i] = new \/ (i \in 1..Len(results) /\ results'[i] = results[i])
    BY <1>0, <2>4
  <2> QED
    BY <2>1, <2>2, <2>3, <2>4, <2>5 DEF Clients
<1>14. ASSUME RunNothing PROVE Clients'
  BY <1>14 DEF RunNothing, Clients
<1>15. ASSUME Process PROVE Clients'
  <2>1. pc = "process" /\ pc' = "receive" /\ chunked' = chunked
    BY <1>15 DEF Process, processUnchanged
  <2>2. CASE Due
    <3>1. ProcessResult /\ Len(results) > 0
      BY <1>15, <2>2, ResultThere DEF Process
    <3>2. ASSUME NEW i \in 1..Len(results'), NEW r \in results'[i].reqs
          PROVE  status'[r] \in Seen
      <4>1. Len(results') = Len(results) - 1
        BY <3>1, ResultTaken
      <4>2. i + 1 = Len(results) /\ cur.kind # "none"
        BY <1>0, <2>1, <2>2, <4>1 DEF Pending, Owed, Due
      <4>3. results'[i] = results[Len(results)]
        BY <2>1, <3>1, <4>2, ClientsPop
      <4>4. r \in cur.reqs /\ r \in Requests /\ status[r] \in Seen
        BY <2>1, <4>2, <4>3 DEF Clients, TypeOK, Batches
      <4> QED
        BY <2>1, <3>1, <4>4, ClientsPop
    <3> QED
      BY <2>1, <3>1, <3>2, ClientsPop DEF Clients
  <2>3. CASE ~Due
    <3>1. UNCHANGED <<results, status>>
      BY <1>15, <2>3 DEF Process
    <3>2. ASSUME NEW i \in 1..Len(results), NEW r \in results[i].reqs
          PROVE  status[r] \in Seen
      <4>1. i = Len(results) /\ cur.kind # "none"
        BY <1>0, <2>1, <2>3 DEF Pending, Owed, Due
      <4> QED
        BY <2>1, <4>1 DEF Clients
    <3> QED
      BY <2>1, <3>1, <3>2 DEF Clients
  <2> QED
    BY <2>2, <2>3
<1>16. CASE UNCHANGED vars
  BY <1>16 DEF vars, Clients
<1> QED
  BY <1>1, <1>2, <1>3, <1>4, <1>5, <1>6, <1>7, <1>8, <1>9, <1>10, <1>11, <1>12, <1>13, <1>14, <1>15, <1>16 DEF Next, Loop

-----------------------------------------------------------------------------
\* The initial states satisfy the invariant.
LEMMA InitInv == Init => Inv
<1> SUFFICES ASSUME Init PROVE Inv
  OBVIOUS
<1> USE SizesAssumption
<1>1. NoBatch \in Batches /\ Zero \in Lengths /\ Zero \in [Requests -> 0..MaxTokens]
  BY DEF NoBatch, Batches, Zero, Lengths
<1>2. results = <<>> /\ results \in Seq(Results) /\ Len(results) = 0
  BY DEF Init
<1>3. TypeOK
  <2>1. /\ running \in Batches /\ last \in Batches /\ cur \in Batches
        /\ out \in [Requests -> 0..MaxTokens] /\ len \in Lengths /\ seq \in Lengths
        /\ published \in Lengths /\ relay \in Lengths
        /\ committed \in Lengths /\ allocated \in Lengths
    BY <1>1 DEF Init
  <2>2. /\ status \in [Requests -> {"none", "waiting", "active", "done"}]
        /\ slots \in [Requests -> SUBSET Nat]
        /\ switched \subseteq Requests /\ retracts \in 0..MaxRetracts
    BY DEF Init
  <2>3. /\ overlap \in BOOLEAN /\ popped \in BOOLEAN /\ chunkAbort \in BOOLEAN
        /\ pc \in {"receive", "early", "merge", "switch", "pick", "run", "process"}
        /\ requested \in BOOLEAN /\ enabled \in BOOLEAN
        /\ armed \in BOOLEAN /\ inflight \in BOOLEAN
        /\ runtime \in {"sd", "target", "recovery"}
        /\ chunked \in Requests \cup {None}
    BY DEF Init
  <2> QED
    BY <1>2, <2>1, <2>2, <2>3 DEF TypeOK
<1>4. Flags /\ Marker /\ Inputs
  BY DEF Init, Flags, Marker, Inputs, NoBatch, Verifies
<1>5. Pending /\ Clients
  BY <1>2 DEF Init, Pending, Owed, Clients, NoBatch
<1> QED
  BY <1>3, <1>4, <1>5 DEF Inv

\* The invariant is inductive.
LEMMA InvStep == Inv /\ [Next]_vars => Inv'
BY TypeStep, FlagsStep, MarkerStep, InputsStep, PendingStep, ClientsStep DEF Inv

\* It holds throughout.
LEMMA Invariant == Spec => []Inv
BY InitInv, InvStep, PTL DEF Spec

\* Flags, batches, lengths and bookings of the scheduler stay well-typed; no
\* client gets more than max_new_tokens and no more than MaxRetracts
\* retractions are booked.
THEOREM TypeCorrect == Spec => []TypeOK
<1>1. Inv => TypeOK
  BY DEF Inv
<1> QED
  BY <1>1, Invariant, PTL

\* Between two iterations of event_loop_overlap() the queue holds the result
\* of the last batch and no other, for any number of requests and however
\* prefills, early and eager pops and switches follow each other.
THEOREM QueueExact == Spec => []OneResultPending
<1>1. Inv => OneResultPending
  BY DEF Inv, OneResultPending, Pending, Owed
<1> QED
  BY <1>1, Invariant, PTL

\* Every batch run_batch() launches finds the target model set up for it, in
\* all interleavings of toggles, recoveries, retractions and prefills.
THEOREM RuntimeFits == Spec => []BatchFitsRuntime
<1>1. Inv => BatchFitsRuntime
  BY DEF Inv, BatchFitsRuntime, Flags, Marker, TypeOK
<1> QED
  BY <1>1, Invariant, PTL

\* Every decode with drafts has drafter input for each of its requests, and
\* merge_batch() never joins a batch that has such input with one that lacks it.
THEOREM Seeded == Spec => []DraftsSeeded
<1>1. Inv => DraftsSeeded
  <2> SUFFICES ASSUME Inv PROVE DraftsSeeded
    OBVIOUS
  <2>1. pc = "run" /\ Verifies(cur) => cur.info = cur.reqs
    BY DEF Inv, Inputs
  <2>2. ASSUME pc = "merge", Joining # {}, running.reqs # {}
        PROVE  (Preserved(last.info) = {}) <=> (Preserved(running.info) = {})
    <3>1. CASE requested /\ (enabled \/ inflight)
      <4>1. running.reqs \subseteq running.info
        BY <2>2, <3>1 DEF Inv, Inputs
      <4>2. Joining \subseteq last.info /\ enabled
        BY <2>2, <3>1 DEF Inv, Inputs, Joining, TypeOK
      <4> QED
        BY <2>2, <3>1, <4>1, <4>2 DEF Preserved
    <3>2. CASE ~(requested /\ (enabled \/ inflight))
      BY <3>2 DEF Preserved
    <3> QED
      BY <3>1, <3>2
  <2> QED
    BY <2>1, <2>2 DEF DraftsSeeded
<1> QED
  BY <1>1, Invariant, PTL
-----------------------------------------------------------------------------
\* What a step does to one request, as its client sees it.
ClientStep(r) ==
  \/ status'[r] = status[r] /\ out'[r] = out[r]
  \/ status[r] = "none" /\ status'[r] = "waiting" /\ out'[r] = out[r]
  \/ status[r] \in {"waiting", "active"} /\ status'[r] \in {"waiting", "active", "done"}
     /\ out'[r] = out[r]
  \/ /\ status[r] = "active" /\ status'[r] \in {"active", "done"}
     /\ out'[r] \in (out[r] + 1)..MaxTokens
     /\ out'[r] = MaxTokens => status'[r] = "done"

\* A result gives each request it serves at least one token and at most those
\* it may still get, and ends it at its limit.
LEMMA ResultClient ==
  ASSUME TypeOK, Clients, Len(results) > 0, ProcessResult, NEW r \in Requests
  PROVE  ClientStep(r)
<1> DEFINE result == Head(results)
<1>1. PICK take \in [Served(result) -> 1..(NumSteps + 1)],
           ends \in SUBSET Served(result) :
        /\ Takes(result, take, ends)
        /\ out' = [q \in Requests |->
                     IF q \in Served(result) THEN out[q] + take[q] ELSE out[q]]
        /\ status' = [q \in Requests |-> IF q \in ends THEN "done" ELSE status[q]]
  BY DEF ProcessResult
<1>2. CASE r \in Served(result)
  <2>1. status[r] = "active" /\ status'[r] = (IF r \in ends THEN "done" ELSE "active")
    BY <1>1, <1>2 DEF Served
  <2>2. take[r] \in Nat /\ take[r] >= 1 /\ out[r] \in Nat /\ MaxTokens \in Nat
    BY <1>1, <1>2, SizesAssumption DEF TypeOK
  <2>3. out'[r] = out[r] + take[r] /\ out[r] + take[r] <= MaxTokens
    BY <1>1, <1>2 DEF Takes
  <2>4. r \notin ends => out[r] + take[r] < MaxTokens
    BY <1>1, <1>2 DEF Takes
  <2> HIDE DEF result
  <2> QED
    BY <2>1, <2>2, <2>3, <2>4 DEF ClientStep
<1>3. CASE r \notin Served(result)
  BY <1>1, <1>3 DEF ClientStep
<1> QED
  BY <1>2, <1>3

\* Every step of the scheduler is one a client may see.
LEMMA ClientSees ==
  ASSUME Inv, [Next]_vars, NEW c \in Requests
  PROVE  ClientStep(c)
<1> USE DEF Inv
<1>1. ASSUME NEW r \in Requests, Arrive(r) PROVE ClientStep(c)
  BY <1>1 DEF Arrive, ClientStep, TypeOK, lengthVars
<1>2. ASSUME NEW r \in Requests, Abort(r) PROVE ClientStep(c)
  BY <1>2 DEF Abort, ClientStep, TypeOK, lengthVars
<1>3. ASSUME NEW on \in BOOLEAN, Toggle(on) PROVE ClientStep(c)
  BY <1>3 DEF Toggle, ClientStep, TypeOK, lengthVars
<1>4. ASSUME Begin PROVE ClientStep(c)
  BY <1>4 DEF Begin, ClientStep, TypeOK, lengthVars
<1>5. ASSUME EarlyPop PROVE ClientStep(c)
  BY <1>5, ResultThere, ResultClient DEF EarlyPop
<1>6. ASSUME Merge PROVE ClientStep(c)
  BY <1>6 DEF Merge, Clients, ClientStep, TypeOK, lengthVars
<1>7. ASSUME DropRecovery PROVE ClientStep(c)
  BY <1>7 DEF DropRecovery, ClientStep, TypeOK, lengthVars
<1>8. ASSUME Switch PROVE ClientStep(c)
  BY <1>8 DEF Switch, ClientStep, TypeOK, lengthVars
<1>9. ASSUME NEW admitted \in SUBSET Waiting,
             NEW t \in Requests \cup {None}, NEW n \in 0..(PromptLen + MaxTokens),
             PickPrefill(admitted, t, n) PROVE ClientStep(c)
  BY <1>9 DEF PickPrefill, Waiting, Clients, ClientStep, TypeOK
<1>10. ASSUME NEW back \in SUBSET running.reqs,
             NEW aborted \in SUBSET running.reqs, PickDecode(back, aborted) PROVE ClientStep(c)
  BY <1>10 DEF PickDecode, ClientStep, TypeOK
<1>11. ASSUME PickNothing PROVE ClientStep(c)
  BY <1>11 DEF PickNothing, ClientStep, TypeOK, lengthVars
<1>12. ASSUME EagerPop PROVE ClientStep(c)
  BY <1>12, ResultThere, ResultClient DEF EagerPop
<1>13. ASSUME NEW got \in [cur.reqs -> 1..(NumSteps + 1)], Run(got) PROVE ClientStep(c)
  BY <1>13 DEF Run, ClientStep, TypeOK, lengthVars
<1>14. ASSUME RunNothing PROVE ClientStep(c)
  BY <1>14 DEF RunNothing, ClientStep, TypeOK, lengthVars
<1>15. ASSUME Process PROVE ClientStep(c)
  <2>1. CASE Due
    BY <1>15, <2>1, ResultThere, ResultClient DEF Process
  <2>2. CASE ~Due
    BY <1>15, <2>2 DEF Process, ClientStep
  <2> QED
    BY <2>1, <2>2
<1>16. CASE UNCHANGED vars
  BY <1>16 DEF vars, ClientStep, TypeOK, lengthVars
<1> QED
  BY <1>1, <1>2, <1>3, <1>4, <1>5, <1>6, <1>7, <1>8, <1>9, <1>10, <1>11, <1>12, <1>13, <1>14, <1>15, <1>16 DEF Next, Loop

\* To its clients the engine is a set of token streams: a request only grows,
\* by at least one token and never beyond its limit, is closed at its limit and
\* never changes after it is closed, whatever the switch does meanwhile.
THEOREM StreamsKept == Spec => Stream!StreamSafety
<1>1. Init => Stream!StreamInit
  BY DEF Init, Stream!StreamInit, StreamState, Zero
<1>2. Inv /\ [Next]_vars => [Stream!StreamNext]_(Stream!streamVars)
  <2> SUFFICES ASSUME Inv, [Next]_vars
               PROVE  Stream!StreamNext
    BY DEF Stream!streamVars
  <2> SUFFICES ASSUME NEW s \in Requests
               PROVE  Stream!Open(s) \/ Stream!Emit(s) \/ Stream!Cancel(s) \/ Stream!Quiet(s)
    BY DEF Stream!StreamNext
  <2>1. ClientStep(s)
    BY ClientSees
  <2>2. /\ StreamState[s] = CASE status[s] = "none" -> "none"
                              [] status[s] = "done" -> "closed"
                              [] OTHER -> "open"
        /\ StreamState'[s] = CASE status'[s] = "none" -> "none"
                               [] status'[s] = "done" -> "closed"
                               [] OTHER -> "open"
    BY DEF StreamState
  <2>3. CASE status'[s] = status[s] /\ out'[s] = out[s]
    BY <2>2, <2>3 DEF Stream!Quiet
  <2>4. CASE status[s] = "none" /\ status'[s] = "waiting" /\ out'[s] = out[s]
    BY <2>2, <2>4 DEF Stream!Open
  <2>5. CASE /\ status[s] \in {"waiting", "active"} /\ out'[s] = out[s]
             /\ status'[s] \in {"waiting", "active", "done"}
    BY <2>2, <2>5 DEF Stream!Quiet, Stream!Cancel
  <2>6. CASE /\ status[s] = "active" /\ status'[s] \in {"active", "done"}
             /\ out'[s] \in (out[s] + 1)..MaxTokens
             /\ out'[s] = MaxTokens => status'[s] = "done"
    BY <2>2, <2>6 DEF Stream!Emit
  <2> QED
    BY <2>1, <2>3, <2>4, <2>5, <2>6 DEF ClientStep
<1> QED
  BY <1>1, <1>2, Invariant, PTL DEF Spec, Stream!StreamSafety
=============================================================================
