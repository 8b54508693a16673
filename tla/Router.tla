------------------------------- MODULE Router -------------------------------
(***************************************************************************)
(* MultiBackendRouter in "tr" mode: the life of a program (an agent whose  *)
(* LLM calls share a KV cache), the accounting of BackendState and the     *)
(* periodic scheduler that pauses and resumes programs                     *)
(* (src/scheduler/ThunderAgent/scheduler/router.py, backend/state.py,      *)
(* program/state.py, and the chat and release routes of app.py).           *)
(*                                                                         *)
(* One asyncio event loop runs everything, and pause_resume_lock is never  *)
(* held across a suspending await, so an action is the code between two    *)
(* suspension points: the weight-sync gate, the wait for resume, the       *)
(* forwarding of the request, the metrics fetch of a tick and its SD POSTs.*)
(*                                                                         *)
(* Program objects have an identity of their own: a request keeps the      *)
(* object it got from get_or_create_program even when the program id is    *)
(* released and created again meanwhile.  Token counts are small numbers;  *)
(* what a payload estimates to and what a response reports are inputs.     *)
(***************************************************************************)
EXTENDS Integers, FiniteSetsExt

CONSTANTS
  Pids,            \* program ids
  Objects,         \* Program objects (bound: incarnations of the ids)
  IdOf,            \* IdOf[o]: program_id of object o
  Requests,        \* chat-completion requests that can be in progress
  Backends,
  DefaultBackend,  \* the first backend
  Capacity,        \* cache_config.total_tokens_capacity
  Configured,      \* backends whose cache config was fetched at start-up
  Flaky,           \* backends whose metrics fetch may fail
  Buffer,          \* BUFFER_PER_PROGRAM
  WeightNum, WeightDen,  \* acting_token_weight = WeightNum / WeightDen
  UseDecay,        \* use_acting_token_decay
  Estimates,       \* token counts a payload may be estimated to
  Usages,          \* token counts a response may report
  MaxTokens,       \* bound: streaming stops counting here
  MaxFuture,       \* bound: future_paused_tokens
  SRTF,            \* scheduler_policy is one of the remaining-steps policies
  Sequential,      \* clients wait for a response before the next call
  None

ASSUME RouterAssumption ==
  /\ IdOf \in [Objects -> Pids]
  /\ DefaultBackend \in Backends
  /\ Configured \subseteq Backends /\ Flaky \subseteq Backends
  /\ Capacity \in [Backends -> Nat]
  /\ Buffer \in Nat /\ WeightNum \in Nat /\ WeightDen \in Nat \ {0}
  /\ Estimates \subseteq Nat /\ Usages \subseteq Nat
  /\ MaxTokens \in Nat /\ MaxFuture \in Nat
  /\ UseDecay \in BOOLEAN /\ SRTF \in BOOLEAN /\ Sequential \in BOOLEAN
  /\ None \notin Objects /\ None \notin Backends

VARIABLES
  prog,      \* the Program objects
  programs,  \* router.programs: id -> object or None
  reg,       \* backend._programs: backend -> id -> object or None
  queue,     \* keys of global_waiting_queue
  future,    \* backend.future_paused_tokens
  healthy,   \* set of healthy backends
  req,       \* the chat_completions coroutines
  tick,      \* _scheduled_check: "sleep", "fetch" (metrics), "sd" (SD POSTs)
  sync       \* weight sync is active

vars == <<prog, programs, reg, queue, future, healthy, req, tick, sync>>

\* A Program as get_or_create_program makes it.  step_count is only ever
\* compared with 1, so it saturates at 2; event is waiting_event: absent,
\* "clear" (waited for) or "set".
NewProgram ==
  [state |-> "ACTIVE", status |-> "REASONING", url |-> None, origin |-> None,
   tokens |-> 0, steps |-> 0, marked |-> FALSE, event |-> "none"]

Unborn == [NewProgram EXCEPT !.state = "UNBORN"]

\* A chat request: pc is where its coroutine is suspended.
\*   idle      not in progress
\*   gate      waiting for the weight-sync event;   passed   that wait is over
\*   paused    waiting for resume (PAUSED program); woken    that wait is over
\*   queued    waiting as a new program;            admitted that wait is over
\*   inflight  forwarded to backend target
NoRequest == [pc |-> "idle", obj |-> None, new |-> FALSE, target |-> None]

ProgramType ==
  [state : {"UNBORN", "ACTIVE", "PAUSED", "TERMINATED"},
   status : {"REASONING", "ACTING"},
   url : Backends \cup {None}, origin : Backends \cup {None},
   tokens : Nat, steps : 0..2, marked : BOOLEAN,
   event : {"none", "clear", "set"}]

RequestType ==
  [pc : {"idle", "gate", "passed", "paused", "woken", "queued", "admitted", "inflight"},
   obj : Objects \cup {None}, new : BOOLEAN, target : Backends \cup {None}]

TypeOK ==
  /\ prog \in [Objects -> ProgramType]
  /\ programs \in [Pids -> Objects \cup {None}]
  /\ reg \in [Backends -> [Pids -> Objects \cup {None}]]
  /\ queue \subseteq Pids
  /\ future \in [Backends -> Nat]
  /\ healthy \subseteq Backends
  /\ req \in [Requests -> RequestType]
  /\ tick \in {"sleep", "fetch", "sd"}
  /\ sync \in BOOLEAN

Init ==
  /\ prog = [o \in Objects |-> Unborn]
  /\ programs = [p \in Pids |-> None]
  /\ reg = [b \in Backends |-> [p \in Pids |-> None]]
  /\ queue = {}
  /\ future = [b \in Backends |-> 0]
  /\ healthy = Backends
  /\ req = [r \in Requests |-> NoRequest]
  /\ tick = "sleep"
  /\ sync = FALSE
-----------------------------------------------------------------------------
(***************************************************************************)
(* BackendState: everything is computed from the registered programs.      *)
(***************************************************************************)
Registered(b) == {reg[b][p] : p \in Pids} \ {None}

TokensOf(S) == MapThenSumSet(LAMBDA o : prog[o].tokens, S)

With(S, status) == {o \in S : prog[o].status = status}

\* Weighted use of a set of programs, buffers included; shared_tokens is 0
\* because nothing calls update_shared_tokens.
Used(S) ==
  TokensOf(With(S, "REASONING"))
    + (WeightNum * TokensOf(With(S, "ACTING"))) \div WeightDen
    + Buffer * Cardinality(S)

ActiveTokens(b) == Used(Registered(b)) - Buffer * Cardinality(Registered(b))

\* remaining_capacity; a backend without cache config has no limit.
Remaining(b) == Capacity[b] - Used(Registered(b))

Fits(b, n) == b \notin Configured \/ Remaining(b) >= n

\* Mutation: the program stays registered.
UnregisterNothing(S) == reg

\* register_program / unregister_program
Register(b, o) == [reg EXCEPT ![b][IdOf[o]] = o]
Unregister(S) ==
  [b \in Backends |-> [p \in Pids |->
     IF \E o \in S : prog[o].url = b /\ IdOf[o] = p THEN None ELSE reg[b][p]]]
-----------------------------------------------------------------------------
(***************************************************************************)
(* The chat route.                                                         *)
(***************************************************************************)
\* Mutation: every request goes to the first backend.
BackendForIgnoresMigration(pg, pr, p) == DefaultBackend

\* get_backend_for_program: looks the id up again, with the first backend as
\* the fallback for a program that is gone or has no backend.
BackendFor(pg, pr, p) ==
  IF pg[p] # None /\ pr[pg[p]].url # None THEN pr[pg[p]].url ELSE DefaultBackend

\* update_program_before_request has returned (its result is not looked at)
\* and proxy_request is under way.
Forward(r, o) ==
  req' = [req EXCEPT ![r] = [pc |-> "inflight", obj |-> o, new |-> FALSE,
                             target |-> BackendFor(programs', prog', IdOf[o])]]

Suspend(r, o, where, new) ==
  req' = [req EXCEPT ![r] = [pc |-> where, obj |-> o, new |-> new, target |-> None]]

\* Mutation: the buffer of the new program is forgotten.
SelectBackendWithoutBuffer(n) ==
  LET room == {b \in healthy : Fits(b, n)}
  IN IF queue # {} THEN {}
     ELSE {b \in room : \A c \in room : ActiveTokens(b) <= ActiveTokens(c)}

\* _select_backend_for_new_program: only past an empty queue, a healthy backend
\* with room, least active tokens first.
SelectBackend(n) ==
  LET room == {b \in healthy : Fits(b, n + Buffer)}
  IN IF queue # {} THEN {}
     ELSE {b \in room : \A c \in room : ActiveTokens(b) <= ActiveTokens(c)}

\* Steps 2 and 3 of update_program_before_request for object o, whose record is
\* s by now: assign a new program, queue it, go on with a program that has a
\* backend, or give up without one (return False) - and be forwarded anyway.
AssignNew(r, o, s, b) ==
  /\ prog' = [prog EXCEPT ![o] = [s EXCEPT !.url = b, !.status = "REASONING"]]
  /\ reg' = Register(b, o)
  /\ Forward(r, o)
  /\ UNCHANGED queue

QueueNew(r, o, s) ==
  /\ prog' = [prog EXCEPT ![o] = [s EXCEPT !.status = "REASONING", !.event = "clear",
                                           !.state = "PAUSED"]]
  /\ queue' = queue \cup {IdOf[o]}
  /\ Suspend(r, o, "queued", TRUE)
  /\ UNCHANGED reg

\* Mutation: the status of a returning program is not set.
KeepBackendOnly(r, o, s) ==
  /\ prog' = [prog EXCEPT ![o] = s]
  /\ Forward(r, o)
  /\ UNCHANGED <<reg, queue>>

KeepBackend(r, o, s) ==
  /\ prog' = [prog EXCEPT ![o] = [s EXCEPT !.status = "REASONING"]]
  /\ Forward(r, o)
  /\ UNCHANGED <<reg, queue>>

NoValidBackend(r, o, s) ==
  /\ prog' = [prog EXCEPT ![o] = s]
  /\ Forward(r, o)
  /\ UNCHANGED <<reg, queue>>

Schedule(r, o, s, new) ==
  \/ /\ new /\ s.url = None
     /\ \/ \E b \in SelectBackend(s.tokens) : AssignNew(r, o, s, b)
        \/ SelectBackend(s.tokens) = {} /\ QueueNew(r, o, s)
  \/ s.url # None /\ KeepBackend(r, o, s)
  \/ ~new /\ s.url = None /\ NoValidBackend(r, o, s)

\* Step 1: a program with a waiting event waits for it; a set event (left by
\* release_program) does not hold the request.
WaitForResume(r, o, s, new) ==
  /\ prog' = [prog EXCEPT ![o] = [s EXCEPT !.status = "REASONING"]]
  /\ Suspend(r, o, IF s.event = "set" THEN "woken" ELSE "paused", new)
  /\ UNCHANGED <<reg, queue>>

\* update_program_before_request behind the gate: count the step, estimate the
\* tokens (to n), then step 1 or steps 2 and 3.
BeforeRequest(r, o, n) ==
  LET was == IF prog[o].state = "UNBORN" THEN NewProgram ELSE prog[o]
      s == [was EXCEPT !.steps = IF @ = 0 THEN 1 ELSE 2, !.tokens = n]
      new == s.steps = 1
  IN IF s.event # "none" THEN WaitForResume(r, o, s, new)
                         ELSE Schedule(r, o, s, new)

\* The object a request for id p works on: the current one or a new one.
ObjectFor(p) ==
  IF programs[p] # None THEN {programs[p]}
  ELSE {o \in Objects : IdOf[o] = p /\ prog[o].state = "UNBORN"}

Busy(p) == \E r \in Requests : req[r].pc # "idle" /\ IdOf[req[r].obj] = p

\* chat_completions: get_or_create_program and, if no weight sync is active,
\* the whole of update_program_before_request up to its first wait.
Arrive(r, p, o, n) ==
  /\ req[r].pc = "idle"
  /\ Sequential => ~Busy(p)
  /\ o \in ObjectFor(p)
  /\ ~sync
  /\ programs' = [programs EXCEPT ![p] = o]
  /\ BeforeRequest(r, o, n)
  /\ UNCHANGED <<future, healthy, tick, sync>>

ArriveAtGate(r, p, o) ==
  /\ req[r].pc = "idle"
  /\ Sequential => ~Busy(p)
  /\ o \in ObjectFor(p)
  /\ sync
  /\ programs' = [programs EXCEPT ![p] = o]
  /\ prog' = [prog EXCEPT ![o] = IF @.state = "UNBORN" THEN NewProgram ELSE @]
  /\ Suspend(r, o, "gate", FALSE)
  /\ UNCHANGED <<reg, queue, future, healthy, tick, sync>>

PassGate(r, n) ==
  /\ req[r].pc = "passed"
  /\ UNCHANGED programs
  /\ BeforeRequest(r, req[r].obj, n)
  /\ UNCHANGED <<future, healthy, tick, sync>>

\* The wait of step 1 is over: fall through to steps 2 and 3.
GoOnAfterPause(r) ==
  /\ req[r].pc = "woken"
  /\ UNCHANGED programs
  /\ Schedule(r, req[r].obj, prog[req[r].obj], req[r].new)
  /\ UNCHANGED <<future, healthy, tick, sync>>

\* The wait of a queued new program is over: return True.
GoOnAfterQueue(r) ==
  /\ req[r].pc = "admitted"
  /\ UNCHANGED <<prog, programs>>
  /\ Forward(r, req[r].obj)
  /\ UNCHANGED <<reg, queue, future, healthy, tick, sync>>

\* update_program_tokens_streaming
StreamProgress(r) ==
  /\ req[r].pc = "inflight"
  /\ prog[req[r].obj].tokens < MaxTokens
  /\ prog' = [prog EXCEPT ![req[r].obj].tokens = @ + 1]
  /\ UNCHANGED <<programs, reg, queue, future, healthy, req, tick, sync>>
-----------------------------------------------------------------------------
(***************************************************************************)
(* Pausing and resuming one program.                                       *)
(***************************************************************************)
\* _pause_program on the record; Unregister and the queue go with it.
Paused(s) ==
  [s EXCEPT !.origin = s.url, !.url = None, !.state = "PAUSED", !.event = "clear"]

\* _mark_program_for_pause on the record; future_paused_tokens goes with it.
Marked(s) == [s EXCEPT !.marked = TRUE]

\* _resume_program on the record; its event is set and dropped.
Resumed(s, b) ==
  [s EXCEPT !.url = b, !.origin = None, !.state = "ACTIVE", !.event = "none"]

\* Mutation: the event is dropped without being set.
WakeNobody(S) == req

\* Setting the waiting event of the objects in S wakes the requests that wait
\* for it, for good.
Wake(S) ==
  [r \in Requests |->
     IF req[r].obj \in S /\ req[r].pc = "paused" THEN [req[r] EXCEPT !.pc = "woken"]
     ELSE IF req[r].obj \in S /\ req[r].pc = "queued" THEN [req[r] EXCEPT !.pc = "admitted"]
     ELSE req[r]]

Waiting(r) == req[r].pc \in {"paused", "queued"}

\* Mutation: the clamp at 0 is missing.
DeductUnclamped(b, n) == [future EXCEPT ![b] = @ - n]

\* future_paused_tokens -= n, clamped at 0
Deduct(b, n) == [future EXCEPT ![b] = IF @ >= n THEN @ - n ELSE 0]

\* _resume_program for the PAUSED ones among the objects S (each one the
\* current object of its id), at[o] being the target backend.
ResumeAt(S, at) ==
  LET woken == {o \in S : prog[o].state = "PAUSED"}
  IN /\ prog' = [o \in Objects |-> IF o \in woken THEN Resumed(prog[o], at[o]) ELSE prog[o]]
     /\ reg' = [b \in Backends |-> [p \in Pids |->
          IF programs[p] \in woken /\ at[programs[p]] = b THEN programs[p] ELSE reg[b][p]]]
     /\ req' = Wake(woken)

\* Mutation: the program is paused and its mark kept.
FinishKeepsMark(r, n) ==
  LET o == req[r].obj
      s == [prog[o] EXCEPT !.status = "ACTING", !.tokens = n]
  IN /\ req[r].pc = "inflight"
     /\ req' = [req EXCEPT ![r] = NoRequest]
     /\ IF s.marked /\ s.url # None
          THEN /\ prog' = [prog EXCEPT ![o] = Paused(s)]
               /\ future' = Deduct(s.url, n)
               /\ reg' = Unregister({o})
               /\ queue' = queue \cup {IdOf[o]}
          ELSE /\ prog' = [prog EXCEPT ![o] = s]
               /\ UNCHANGED <<future, reg, queue>>
     /\ UNCHANGED <<programs, healthy, tick, sync>>

\* The response reports its usage: update_program_after_request, which pauses
\* a program that was marked while it was on the GPU.
Finish(r, n) ==
  LET o == req[r].obj
      s == [prog[o] EXCEPT !.status = "ACTING", !.tokens = n]
  IN /\ req[r].pc = "inflight"
     /\ req' = [req EXCEPT ![r] = NoRequest]
     /\ IF s.marked /\ s.url # None
          THEN /\ prog' = [prog EXCEPT ![o] = Paused([s EXCEPT !.marked = FALSE])]
               /\ future' = Deduct(s.url, n)
               /\ reg' = Unregister({o})
               /\ queue' = queue \cup {IdOf[o]}
          ELSE /\ prog' = [prog EXCEPT ![o] = s]
               /\ UNCHANGED <<future, reg, queue>>
     /\ UNCHANGED <<programs, healthy, tick, sync>>

\* The request fails, the client goes away or the response has no usage: the
\* callback is never called and the program is left as it is.
FinishWithoutUsage(r) ==
  /\ req[r].pc = "inflight"
  /\ req' = [req EXCEPT ![r] = NoRequest]
  /\ UNCHANGED <<prog, programs, reg, queue, future, healthy, tick, sync>>

\* release_program
Release(p) ==
  LET o == programs[p]
      s == prog[o]
      unmark == s.marked /\ s.url # None
  IN /\ o # None
     /\ Sequential => ~Busy(p)
     /\ programs' = [programs EXCEPT ![p] = None]
     /\ prog' = [prog EXCEPT ![o] =
          [s EXCEPT !.state = "TERMINATED",
                    !.marked = @ /\ ~unmark,
                    !.event = IF s.state = "PAUSED" /\ @ # "none" THEN "set" ELSE @]]
     /\ future' = IF unmark THEN Deduct(s.url, s.tokens) ELSE future
     /\ IF s.state = "PAUSED"
          THEN queue' = queue \ {p} /\ req' = Wake({o}) /\ UNCHANGED reg
          ELSE reg' = Unregister({o}) /\ UNCHANGED <<queue, req>>
     /\ UNCHANGED <<healthy, tick, sync>>

\* select_backend_for_new_program_default: the least loaded healthy backend,
\* the first one if none is healthy.
LeastLoaded ==
  LET load(b) == Cardinality({p \in Pids : programs[p] # None /\ prog[programs[p]].url = b})
  IN IF healthy = {} THEN {DefaultBackend}
     ELSE {b \in healthy : \A c \in healthy : load(b) <= load(c)}

\* Mutation: the program is resumed without being claimed from the queue.
ForceResumeWithoutClaim(r) ==
  LET c == programs[IdOf[req[r].obj]]
  IN /\ Waiting(r)
     /\ IdOf[req[r].obj] \in queue /\ c # None /\ prog[c].state = "PAUSED"
     /\ \E b \in (IF prog[c].origin = None THEN LeastLoaded ELSE {prog[c].origin}) :
          /\ prog' = [prog EXCEPT ![c] = Resumed(@, b)]
          /\ reg' = Register(b, c)
          /\ req' = Wake({c})
     /\ UNCHANGED <<queue, programs, future, healthy, tick, sync>>

\* Mutation: the timeout respects the capacity.
ForceResumeIfFits(r) ==
  LET c == programs[IdOf[req[r].obj]]
  IN /\ Waiting(r)
     /\ IdOf[req[r].obj] \in queue /\ c # None /\ prog[c].state = "PAUSED"
     /\ queue' = queue \ {IdOf[c]}
     /\ \E b \in {h \in LeastLoaded : Fits(h, prog[c].tokens + Buffer)} :
          /\ prog' = [prog EXCEPT ![c] = Resumed(@, b)]
          /\ reg' = Register(b, c)
          /\ req' = Wake({c})
     /\ UNCHANGED <<programs, future, healthy, tick, sync>>

\* _wait_for_resume after 30 minutes: claim the program and resume it whatever
\* the capacity, to its origin or, for a new program, to the least loaded
\* backend.  (The request itself goes on in the next step; the code does not
\* suspend in between.)
ForceResume(r) ==
  LET p == IdOf[req[r].obj]
      c == programs[p]
  IN /\ Waiting(r)
     /\ p \in queue /\ c # None /\ prog[c].state = "PAUSED"
     /\ queue' = queue \ {p}
     /\ \E b \in (IF prog[c].origin = None THEN LeastLoaded ELSE {prog[c].origin}) :
          LET woken == Wake({c})
          IN /\ prog' = [prog EXCEPT ![c] = Resumed(@, b)]
             /\ reg' = Register(b, c)
             /\ req' = [woken EXCEPT ![r].pc = IF req[r].pc = "paused" THEN "woken" ELSE "admitted"]
     /\ UNCHANGED <<programs, future, healthy, tick, sync>>

\* The same when the claim finds nothing to resume: a stale queue entry is
\* dropped and the request goes on.
ClaimNothing(r) ==
  LET p == IdOf[req[r].obj]
      c == programs[p]
  IN /\ Waiting(r)
     /\ ~(p \in queue /\ c # None /\ prog[c].state = "PAUSED")
     /\ queue' = queue \ {p}
     /\ req' = [req EXCEPT ![r].pc = IF @ = "paused" THEN "woken" ELSE "admitted"]
     /\ UNCHANGED <<prog, programs, reg, future, healthy, tick, sync>>
-----------------------------------------------------------------------------
(***************************************************************************)
(* The periodic scheduler.                                                 *)
(***************************************************************************)
Need(S) == TokensOf(S) + Buffer * Cardinality(S)

\* Orders of the objects S (as rank functions) that respect a relation; the
\* code breaks ties by insertion order, here they may fall either way.
Orders(S, before(_, _)) ==
  {rank \in [S -> 1..Cardinality(S)] :
     \A o, q \in S : /\ o # q => rank[o] # rank[q]
                     /\ before(o, q) => rank[o] < rank[q]}

\* _get_resume_candidates: programs with a pending request, then new ones, then
\* idle ones, smallest first; the remaining-steps policies order by data of
\* the clients, which is any order here.
Group(o) ==
  IF prog[o].steps = 1 THEN 2 ELSE IF prog[o].status = "REASONING" THEN 1 ELSE 3

Ahead(o, q) ==
  /\ ~SRTF
  /\ \/ Group(o) < Group(q)
     \/ Group(o) = Group(q) /\ prog[o].tokens < prog[q].tokens

Larger(o, q) == prog[o].tokens > prog[q].tokens

Candidates == {programs[p] : p \in queue} \ {None}

\* Mutation: an exact fit is refused.
IsSelectionStrict(S, rank, total) ==
  \A o \in DOMAIN rank :
    o \in S <=> Need({q \in S : rank[q] < rank[o]} \cup {o}) < total

\* _greedy_resume, step 1: walk the candidates in priority order and select
\* each one that still fits the total capacity.
IsSelection(S, rank, total) ==
  \A o \in DOMAIN rank :
    o \in S <=> Need({q \in S : rank[q] < rank[o]} \cup {o}) <= total

\* _greedy_resume, step 2: largest first, each to the backend with the most
\* capacity left, skipping what does not fit there; a backend leaves the list
\* when no more than a buffer is left of it.
IsPlacement(at, S, pos, cap) ==
  \A o \in S :
    LET left(b) == cap[b] - Need({q \in S : at[q] = b /\ pos[q] < pos[o]})
        open == {b \in DOMAIN cap : left(b) > Buffer}
        best == {b \in open : \A c \in open : left(b) >= left(c)}
        fits == {b \in best : Need({o}) <= left(b)}
    IN IF fits = {} THEN at[o] = None ELSE at[o] \in fits

\* What the acting programs of each backend count for when resuming: their
\* weighted tokens or, with decay, anything from 0 to their full tokens.
ActingEstimates ==
  LET acting(b) == TokensOf(With(Registered(b), "ACTING"))
      most == Max({0} \cup {acting(b) : b \in Configured})
  IN IF UseDecay
       THEN {est \in [Configured -> 0..most] : \A b \in Configured : est[b] <= acting(b)}
       ELSE {[b \in Configured |-> (WeightNum * acting(b)) \div WeightDen]}

\* remaining_capacity_with_decay, or remaining_capacity
ResumeCapacity(b, acting) ==
  Capacity[b] - TokensOf(With(Registered(b), "REASONING")) - acting[b]
    - Buffer * Cardinality(Registered(b))

\* All outcomes of _greedy_resume: where each candidate is resumed, or None.
IsPlan(at, open, acting) ==
  LET cap == [b \in open |-> ResumeCapacity(b, acting)]
      total == MapThenSumSet(LAMBDA b : cap[b], open)
  IN \E S \in SUBSET Candidates :
       /\ \A o \in Candidates \ S : at[o] = None
       /\ \E rank \in Orders(Candidates, Ahead) : IsSelection(S, rank, total)
       /\ \E pos \in Orders(S, Larger) : IsPlacement(at, S, pos, cap)

ResumePlans(acting) ==
  LET open == {b \in Configured \cap healthy : ResumeCapacity(b, acting) > Buffer}
  IN {at \in [Candidates -> open \cup {None}] : IsPlan(at, open, acting)}

\* _scheduler_loop: no tick starts during a weight sync.
TickStart ==
  /\ tick = "sleep"
  /\ ~sync
  /\ tick' = "fetch"
  /\ UNCHANGED <<prog, programs, reg, queue, future, healthy, req, sync>>

\* fetch_metrics, by the tick or by the monitor loop.
FetchMetrics(b) ==
  /\ b \in Flaky
  /\ healthy' \in {healthy \cup {b}, healthy \ {b}}
  /\ UNCHANGED <<prog, programs, reg, queue, future, req, tick, sync>>

\* _scheduled_check between its metrics fetch and its SD POSTs.
TickResume ==
  /\ tick = "fetch"
  /\ tick' = "sd"
  /\ \E acting \in ActingEstimates :
       \E at \in ResumePlans(acting) :
         LET S == {o \in Candidates : at[o] # None}
         IN ResumeAt(S, at) /\ queue' = queue \ {IdOf[o] : o \in S}
  /\ UNCHANGED <<programs, future, healthy, sync>>

\* _pause_until_safe on b: its acting programs (those of router.programs) are
\* paused smallest first until the rest fits; if that is not enough, every
\* reasoning program is marked, since a mark does not change the capacity.
OnBackend(b) == {o \in {programs[p] : p \in Pids} \ {None} : prog[o].url = b}

RemainingWithout(b, S) ==
  Capacity[b] - Used(Registered(b) \ {reg[b][p] : p \in {IdOf[o] : o \in S}})

IsPauseSet(b, S) ==
  LET acting == With(OnBackend(b), "ACTING")
  IN /\ S \subseteq acting
     /\ \A o \in S, q \in acting \ S : prog[o].tokens <= prog[q].tokens
     /\ S = acting \/ RemainingWithout(b, S) >= 0
     /\ \A o \in S : (\A q \in S : prog[q].tokens <= prog[o].tokens)
                       => RemainingWithout(b, S \ {o}) < 0


ToMark(b, S) ==
  {o \in With(OnBackend(b), "REASONING") :
     ~prog[o].marked /\ RemainingWithout(b, S) < 0}

\* _scheduled_check after its SD POSTs: every configured backend over capacity.
TickPause ==
  LET over == {b \in Configured : Remaining(b) < 0}
      live == {programs[p] : p \in Pids} \ {None}
  IN /\ tick = "sd"
     /\ tick' = "sleep"
     /\ \E S \in SUBSET {o \in live : prog[o].url \in over} :
          LET on(b) == {o \in S : prog[o].url = b}
              marks == UNION {ToMark(b, on(b)) : b \in over}
          IN /\ \A b \in over : IsPauseSet(b, on(b))
             /\ prog' = [o \in Objects |->
                  IF o \in S THEN Paused(prog[o])
                  ELSE IF o \in marks THEN Marked(prog[o])
                  ELSE prog[o]]
             /\ reg' = Unregister(S)
             /\ queue' = queue \cup {IdOf[o] : o \in S}
             /\ future' = [b \in Backends |->
                  future[b] + TokensOf({o \in marks : prog[o].url = b})]
     /\ \A b \in Backends : future'[b] \in 0..MaxFuture
     /\ UNCHANGED <<programs, healthy, req, sync>>

(***************************************************************************)
(* Weight sync, as SyncGate describes it and WeightSync implements it.     *)
(***************************************************************************)
SyncBegin ==
  /\ ~sync
  /\ sync' = TRUE
  /\ UNCHANGED <<prog, programs, reg, queue, future, healthy, req, tick>>

SyncEnd ==
  /\ sync
  /\ sync' = FALSE
  /\ req' = [r \in Requests |->
       IF req[r].pc = "gate" THEN [req[r] EXCEPT !.pc = "passed"] ELSE req[r]]
  /\ UNCHANGED <<prog, programs, reg, queue, future, healthy, tick>>

RequestStep(r) ==
  \/ \E p \in Pids, o \in Objects :
       ArriveAtGate(r, p, o) \/ \E n \in Estimates : Arrive(r, p, o, n)
  \/ \E n \in Estimates : PassGate(r, n)
  \/ GoOnAfterPause(r)
  \/ GoOnAfterQueue(r)
  \/ StreamProgress(r)
  \/ \E n \in Usages : Finish(r, n)
  \/ FinishWithoutUsage(r)
  \/ ForceResume(r)
  \/ ClaimNothing(r)

Next ==
  \/ \E r \in Requests : RequestStep(r)
  \/ \E p \in Pids : Release(p)
  \/ \E b \in Backends : FetchMetrics(b)
  \/ TickStart
  \/ TickResume
  \/ TickPause
  \/ SyncBegin
  \/ SyncEnd

Spec == Init /\ [][Next]_vars

\* Ready coroutines and expired timers run: the 30-minute wait of a program
\* ends, a weight sync ends (WeightSync), a woken request goes on, ticks recur.
Fairness ==
  /\ \A r \in Requests :
       /\ WF_vars(\E n \in Estimates : PassGate(r, n))
       /\ WF_vars(GoOnAfterPause(r))
       /\ WF_vars(GoOnAfterQueue(r))
       /\ WF_vars(ForceResume(r))
       /\ WF_vars(ClaimNothing(r))
  /\ WF_vars(SyncEnd)
  /\ WF_vars(TickStart) /\ WF_vars(TickResume) /\ WF_vars(TickPause)

FairSpec == Spec /\ Fairness
-----------------------------------------------------------------------------
(***************************************************************************)
(* Properties.                                                             *)
(***************************************************************************)

\* The three views of a program agree: the waiting queue holds exactly the
\* PAUSED programs, and a backend's _programs holds exactly the ACTIVE
\* programs whose backend_url names it - each on one backend, none released.
PoolConsistent ==
  Sequential =>
    /\ \A p \in Pids :
         p \in queue <=> programs[p] # None /\ prog[programs[p]].state = "PAUSED"
    /\ \A b \in Backends, o \in Objects :
         reg[b][IdOf[o]] = o <=> /\ programs[IdOf[o]] = o
                                 /\ prog[o].state = "ACTIVE"
                                 /\ prog[o].url = b

\* No lost wakeup: a request waiting for resume waits on the live event of a
\* program that the scheduler and the timeout can still find in the queue.
NoStrandedWaiter ==
  Sequential => \A r \in Requests : Waiting(r) =>
    LET o == req[r].obj
    IN /\ programs[IdOf[o]] = o
       /\ prog[o].event = "clear"
       /\ IdOf[o] \in queue

\* A forwarded request runs on the backend that accounts for its program, and
\* the program counts as REASONING there until the response: whatever was
\* paused, resumed, migrated or forced meanwhile.
InFlightAtHome ==
  Sequential => \A r \in Requests : req[r].pc = "inflight" =>
    LET o == req[r].obj
    IN /\ reg[req[r].target][IdOf[o]] = o
       /\ prog[o].status = "REASONING"

\* A mark is always redeemable: a marked program is REASONING on a backend, so
\* the end of its request (or its release) can clear the mark and the pause.
MarkedIsResident ==
  \A o \in Objects : prog[o].marked =>
    /\ prog[o].status = "REASONING"
    /\ prog[o].state = "ACTIVE"
    /\ prog[o].url # None

\* Whatever clients do - overlapping requests, releases in the middle of a
\* wait - a paused program is never lost: its id is in the queue, so a tick or
\* the timeout will find it, and its waiters wait on an event yet to be set.
PausedIsFindable ==
  /\ \A p \in Pids :
       programs[p] # None /\ prog[programs[p]].state = "PAUSED" =>
         /\ p \in queue
         /\ prog[programs[p]].event = "clear"
  /\ \A r \in Requests : Waiting(r) => prog[req[r].obj].event = "clear"

\* Whatever clients do, a backend charges a program's tokens only while the
\* program names it as its backend, hence at most one backend charges them.
ChargedAtHome ==
  \A b \in Backends, o \in Objects :
    reg[b][IdOf[o]] = o => prog[o].url = b

\* Without decay, neither admission of a new program nor a scheduler tick puts
\* a program on a backend that then is over capacity; only the 30-minute
\* forced resume may.
AdmissionWithinCapacity ==
  [][~UseDecay /\ Sequential /\ WeightNum <= WeightDen /\ ~(\E r \in Requests : ForceResume(r))
       => \A b \in Configured : ~(Registered(b)' \subseteq Registered(b))
                                  => Remaining(b)' >= 0]_vars

\* The head of the queue is never starved by a tick: when each candidate that
\* may come first fits some open backend, _greedy_resume() resumes a program,
\* whatever the others take of the total capacity without fitting anywhere.
HeadOfLineResumes ==
  [][/\ tick = "fetch" /\ tick' = "sd" /\ ~UseDecay
     /\ Candidates # {}
     /\ \A o \in Candidates :
          (\A q \in Candidates : ~Ahead(q, o)) =>
            \E b \in Configured \cap healthy :
              Remaining(b) > Buffer /\ Need({o}) <= Remaining(b)
     => queue' # queue]_vars


\* Every request is forwarded in the end: it survives weight syncs, pauses and
\* full backends.
RequestServed ==
  \A r \in Requests : req[r].pc # "idle" ~> req[r].pc \in {"inflight", "idle"}
=============================================================================
