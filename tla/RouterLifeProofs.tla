-------------------------- MODULE RouterLifeProofs --------------------------
(***************************************************************************)
(* What holds of Router whatever the clients do: overlapping requests of   *)
(* one program, releases in the middle of a wait, ids created again.       *)
(* The inductive invariant LifeInv says of every Program record which      *)
(* combinations of its fields occur, ties the waiting requests to the      *)
(* events they wait for, the live programs to the queue and the backends'  *)
(* _programs to backend_url.                                               *)
(***************************************************************************)
EXTENDS RouterProofs

\* The combinations of fields a Program record may have.  A program that has
\* counted no step has never had a backend nor been paused.
GoodRecord(s) ==
  /\ s.state = "PAUSED" => s.url = None /\ s.event = "clear"
  /\ s.steps = 0 => s.url = None /\ s.event = "none"
  /\ s.state = "UNBORN" => s.steps = 0
  /\ s.marked => s.status = "REASONING" /\ s.state = "ACTIVE" /\ s.url # None

GoodRecords == \A o \in Objects : GoodRecord(prog[o])

\* A request works on a created program; one in step 1 of the wait is not new,
\* so its program will not be assigned a second time.
GoodRequest(q, pr) ==
  /\ q.pc # "idle" => pr[q.obj].state # "UNBORN"
  /\ q.pc \in {"paused", "woken"} => ~q.new
  /\ q.pc \in {"paused", "queued"} => pr[q.obj].event = "clear"

GoodRequests == \A r \in Requests : GoodRequest(req[r], prog)

\* The programs in router.programs; the paused ones are queued.
GoodPrograms ==
  \A p \in Pids : programs[p] # None =>
    /\ IdOf[programs[p]] = p
    /\ prog[programs[p]].state \in {"ACTIVE", "PAUSED"}
    /\ prog[programs[p]].state = "PAUSED" => p \in queue

LifeInv == TypeInv /\ GoodRecords /\ GoodRequests /\ GoodPrograms /\ ChargedAtHome

\* The fields of a record after it was paused, resumed or marked.
LEMMA PausedFields ==
  ASSUME NEW s \in ProgramType
  PROVE  /\ Paused(s).state = "PAUSED" /\ Paused(s).url = None /\ Paused(s).event = "clear"
         /\ Paused(s).steps = s.steps /\ Paused(s).status = s.status
         /\ Paused(s).marked = s.marked
<1>1. Paused(s).marked = s.marked
  BY DEF Paused, ProgramType
<1>2. /\ Paused(s).state = "PAUSED" /\ Paused(s).url = None /\ Paused(s).event = "clear"
      /\ Paused(s).steps = s.steps /\ Paused(s).status = s.status
  BY DEF Paused, ProgramType
<1> QED
  BY <1>1, <1>2

LEMMA ResumedFields ==
  ASSUME NEW s \in ProgramType, NEW b
  PROVE  /\ Resumed(s, b).state = "ACTIVE" /\ Resumed(s, b).url = b
         /\ Resumed(s, b).event = "none" /\ Resumed(s, b).steps = s.steps
         /\ Resumed(s, b).status = s.status
         /\ Resumed(s, b).marked = s.marked
<1>1. Resumed(s, b).marked = s.marked
  BY DEF Resumed, ProgramType
<1>2. /\ Resumed(s, b).state = "ACTIVE" /\ Resumed(s, b).url = b
      /\ Resumed(s, b).event = "none" /\ Resumed(s, b).steps = s.steps
      /\ Resumed(s, b).status = s.status
  BY DEF Resumed, ProgramType
<1> QED
  BY <1>1, <1>2

LEMMA MarkFields ==
  ASSUME NEW s \in ProgramType
  PROVE  LET m == Marked(s)
         IN /\ m.state = s.state /\ m.url = s.url /\ m.event = s.event
            /\ m.steps = s.steps /\ m.status = s.status /\ m.marked
BY DEF ProgramType, Marked

\* The three properties of Router this module is about follow.
LEMMA LifeImplies == LifeInv => MarkedIsResident /\ PausedIsFindable /\ ChargedAtHome
<1> SUFFICES ASSUME LifeInv
             PROVE  MarkedIsResident /\ PausedIsFindable /\ ChargedAtHome
  OBVIOUS
<1>1. MarkedIsResident
  BY DEF LifeInv, GoodRecords, GoodRecord, MarkedIsResident
<1>2. PausedIsFindable
  BY DEF LifeInv, TypeInv, TypeOK, GoodRecords, GoodRecord, GoodPrograms, GoodRequests,
         GoodRequest, PausedIsFindable, Waiting
<1> QED
  BY <1>1, <1>2 DEF LifeInv

LEMMA LifeInit == Init => LifeInv
<1> SUFFICES ASSUME Init PROVE LifeInv
  OBVIOUS
<1>1. TypeInv
  BY TypeInit
<1>2. GoodRecord(Unborn)
  BY DEF GoodRecord, Unborn, NewProgram
<1>3. GoodRecords /\ GoodRequests /\ GoodPrograms
  BY <1>2 DEF Init, GoodRecords, GoodRequests, GoodRequest, GoodPrograms, NoRequest
<1>4. ChargedAtHome
  BY RouterAssumption DEF Init, ChargedAtHome
<1> QED
  BY <1>1, <1>3, <1>4 DEF LifeInv
-----------------------------------------------------------------------------
(***************************************************************************)
(* The chat route.                                                         *)
(***************************************************************************)
\* s is the record of object o after get_or_create_program and the counting of
\* the step: created if it was not, otherwise as it was.
Begun(o, s) ==
  /\ s \in ProgramType
  /\ GoodRecord(s)
  /\ s.steps # 0
  /\ s.url = prog[o].url
  /\ s.event = prog[o].event
  /\ s.state = IF prog[o].state = "UNBORN" THEN "ACTIVE" ELSE prog[o].state

\* programs after get_or_create_program returned object o.
Known(o) ==
  /\ programs' \in [Pids -> Objects \cup {None}]
  /\ \A p \in Pids : programs'[p] # programs[p] =>
       programs'[p] = o /\ IdOf[o] = p /\ prog[o].state = "UNBORN"

\* Changing only the record of o, to t, and only the request r.
Changes(r, o, t) ==
  /\ prog' = [prog EXCEPT ![o] = t]
  /\ \A q \in Requests : q # r => req'[q] = req[q]

\* What has to be checked of such a change.
LEMMA ChangeKeepsLife ==
  ASSUME LifeInv, NEW r \in Requests, NEW o \in Objects, NEW t \in ProgramType,
         Known(o), Changes(r, o, t), GoodRecord(t), t.state # "UNBORN",
         prog[o].state = "UNBORN" \/ prog[o].event = t.event \/ t.event = "clear",
         t.state \in {"PAUSED", IF prog[o].state = "UNBORN" THEN "ACTIVE" ELSE prog[o].state},
         t.state = "PAUSED" => IdOf[o] \in queue' \/ prog[o].state = "PAUSED",
         queue \subseteq queue', GoodRequest(req'[r], prog')
  PROVE  GoodRecords' /\ GoodRequests' /\ GoodPrograms'
<1>1. GoodRecords'
  BY DEF LifeInv, TypeInv, TypeOK, GoodRecords, Changes
<1>2. prog'[o] = t /\ \A x \in Objects : x # o => prog'[x] = prog[x]
  BY DEF LifeInv, TypeInv, TypeOK, Changes
<1>3. ASSUME NEW q \in Requests
      PROVE  GoodRequest(req'[q], prog')
  <2>1. CASE q = r
    BY <2>1
  <2>2. CASE q # r
    <3>1. req'[q] = req[q] /\ GoodRequest(req[q], prog)
      BY <2>2 DEF Changes, LifeInv, GoodRequests
    <3>2. req[q].pc # "idle" => req[q].obj \in Objects
      BY DEF LifeInv, TypeInv, HasObject
    <3>3. GoodRecord(prog[o])
      BY DEF LifeInv, GoodRecords
    <3> QED
      BY <1>2, <3>1, <3>2, <3>3 DEF GoodRequest, GoodRecord
  <2> QED
    BY <2>1, <2>2
<1>4. GoodPrograms'
  <2> SUFFICES ASSUME NEW p \in Pids, programs'[p] # None
               PROVE  /\ IdOf[programs'[p]] = p
                      /\ prog'[programs'[p]].state \in {"ACTIVE", "PAUSED"}
                      /\ prog'[programs'[p]].state = "PAUSED" => p \in queue'
    BY DEF GoodPrograms
  <2>1. CASE programs'[p] = programs[p]
    <3>1. programs[p] \in Objects
      BY <2>1 DEF Known
    <3> QED
      BY <1>2, <2>1, <3>1 DEF LifeInv, GoodPrograms
  <2>2. CASE programs'[p] # programs[p]
    BY <1>2, <2>2 DEF Known
  <2> QED
    BY <2>1, <2>2
<1> QED
  BY <1>1, <1>3, <1>4 DEF GoodRequests

\* A program that keeps its backend stays charged as it is.
LEMMA ChargeKept ==
  ASSUME LifeInv, NEW o \in Objects, NEW t \in ProgramType,
         prog' = [prog EXCEPT ![o] = t], t.url = prog[o].url, reg' = reg
  PROVE  ChargedAtHome'
BY DEF LifeInv, TypeInv, TypeOK, ChargedAtHome

\* Forwarding after the wait in step 1 is harmless, since the request is not
\* new; a new program is assigned or queued, never twice.
LEMMA ScheduleLife ==
  ASSUME LifeInv, NEW r \in Requests, NEW o \in Objects, NEW s, NEW new \in BOOLEAN,
         Known(o), Begun(o, s), new => s.event = "none" /\ s.state # "PAUSED",
         Schedule(r, o, s, new)
  PROVE  GoodRecords' /\ GoodRequests' /\ GoodPrograms' /\ ChargedAtHome'
<1> DEFINE Goal == GoodRecords' /\ GoodRequests' /\ GoodPrograms' /\ ChargedAtHome'
<1>0. TypeOK /\ IdOf[o] \in Pids /\ prog[o] \in ProgramType
  BY RouterAssumption DEF LifeInv, TypeInv, TypeOK
<1>1. ASSUME NEW t, prog' = [prog EXCEPT ![o] = t], t \in ProgramType, Forward(r, o),
             t.state # "UNBORN"
      PROVE  Changes(r, o, t) /\ GoodRequest(req'[r], prog')
  BY <1>0, <1>1 DEF Forward, TypeOK, Changes, GoodRequest
<1>2. ASSUME NEW b \in SelectBackend(s.tokens), new, s.url = None, AssignNew(r, o, s, b)
      PROVE  Goal
  <2> DEFINE t == [s EXCEPT !.url = b, !.status = "REASONING"]
  <2>1. b \in Backends /\ b # None
    BY <1>0, <1>2, RouterAssumption DEF SelectBackend, TypeOK
  <2>2. /\ t \in ProgramType /\ t.url = b /\ t.status = "REASONING"
        /\ t.state = s.state /\ t.event = s.event /\ t.steps = s.steps /\ t.marked = s.marked
    BY <2>1 DEF Begun, ProgramType
  <2>3. prog' = [prog EXCEPT ![o] = t] /\ reg' = Register(b, o) /\ Forward(r, o) /\ queue' = queue
    BY <1>2 DEF AssignNew
  <2> HIDE DEF t
  <2>4. GoodRecord(t) /\ t.state # "UNBORN"
    BY <1>2, <2>2 DEF Begun, GoodRecord
  <2>5. GoodRecords' /\ GoodRequests' /\ GoodPrograms'
    BY <1>1, <1>2, <2>2, <2>3, <2>4, ChangeKeepsLife DEF Begun
  <2>6. ChargedAtHome'
    <3> SUFFICES ASSUME NEW c \in Backends, NEW x \in Objects, reg'[c][IdOf[x]] = x
                 PROVE  prog'[x].url = c
      BY DEF ChargedAtHome
    <3>1. CASE x = o
      <4>1. CASE c = b
        BY <1>0, <2>2, <2>3, <3>1, <4>1 DEF TypeOK
      <4>2. CASE c # b
        <5>1. reg[c][IdOf[o]] = o
          BY <1>0, <2>3, <3>1, <4>2 DEF TypeOK, Register
        <5>2. prog[o].url = c
          BY <5>1 DEF LifeInv, ChargedAtHome
        <5> QED
          BY <1>2, <5>2, RouterAssumption DEF Begun
      <4> QED
        BY <4>1, <4>2
    <3>2. CASE x # o
      BY <1>0, <2>3, <3>2 DEF TypeOK, Register, LifeInv, ChargedAtHome
    <3> QED
      BY <3>1, <3>2
  <2> QED
    BY <2>5, <2>6
<1>3. ASSUME new, s.url = None, QueueNew(r, o, s)
      PROVE  Goal
  <2> DEFINE t == [s EXCEPT !.status = "REASONING", !.event = "clear", !.state = "PAUSED"]
  <2>1. /\ t \in ProgramType /\ t.url = None /\ t.state = "PAUSED" /\ t.event = "clear"
        /\ t.steps = s.steps /\ t.marked = s.marked
    BY <1>3 DEF Begun, ProgramType
  <2>2. /\ prog' = [prog EXCEPT ![o] = t] /\ reg' = reg
        /\ Suspend(r, o, "queued", TRUE) /\ queue' = queue \cup {IdOf[o]}
    BY <1>3 DEF QueueNew
  <2> HIDE DEF t
  <2>3. GoodRecord(t)
    BY <1>3, <2>1 DEF Begun, GoodRecord
  <2>4. Changes(r, o, t) /\ GoodRequest(req'[r], prog')
    BY <1>0, <2>1, <2>2 DEF Suspend, TypeOK, Changes, GoodRequest
  <2>5. GoodRecords' /\ GoodRequests' /\ GoodPrograms'
    BY <2>1, <2>2, <2>3, <2>4, ChangeKeepsLife
  <2>6. ChargedAtHome'
    BY <1>3, <2>1, <2>2, ChargeKept DEF Begun
  <2> QED
    BY <2>5, <2>6
<1>4. ASSUME NEW t, t \in {s, [s EXCEPT !.status = "REASONING"]},
             prog' = [prog EXCEPT ![o] = t], Forward(r, o), reg' = reg, queue' = queue
      PROVE  Goal
  <2>1. /\ t \in ProgramType /\ t.url = s.url /\ t.state = s.state /\ t.event = s.event
        /\ t.steps = s.steps /\ t.marked = s.marked
        /\ t.status = s.status \/ t.status = "REASONING"
    BY <1>4 DEF Begun, ProgramType
  <2>2. GoodRecord(t) /\ t.state # "UNBORN"
    BY <2>1 DEF Begun, GoodRecord
  <2>3. GoodRecords' /\ GoodRequests' /\ GoodPrograms'
    BY <1>1, <1>4, <2>1, <2>2, ChangeKeepsLife DEF Begun
  <2>4. ChargedAtHome'
    BY <1>4, <2>1, ChargeKept DEF Begun
  <2> QED
    BY <2>3, <2>4
<1> QED
  BY <1>2, <1>3, <1>4 DEF Schedule, KeepBackend, NoValidBackend

\* Counting the step of a request begins it.
LEMMA CountingBegins ==
  ASSUME LifeInv, NEW o \in Objects, NEW n \in Nat
  PROVE  LET was == IF prog[o].state = "UNBORN" THEN NewProgram ELSE prog[o]
             s == [was EXCEPT !.steps = IF @ = 0 THEN 1 ELSE 2, !.tokens = n]
         IN /\ Begun(o, s)
            /\ s.steps = 1 => s.event = "none" /\ s.state # "PAUSED"
            /\ prog[o].steps = 0 => s.steps = 1
<1> DEFINE was == IF prog[o].state = "UNBORN" THEN NewProgram ELSE prog[o]
           k == IF was.steps = 0 THEN 1 ELSE 2
           s == [was EXCEPT !.steps = k, !.tokens = n]
<1>1. was \in ProgramType
  BY RecordTypes DEF LifeInv, TypeInv, TypeOK
<1>2. GoodRecord(was) /\ was.state # "UNBORN"
  BY DEF LifeInv, GoodRecords, GoodRecord, NewProgram
<1>3. /\ was.url = prog[o].url /\ was.event = prog[o].event
      /\ was.state = IF prog[o].state = "UNBORN" THEN "ACTIVE" ELSE prog[o].state
  BY DEF LifeInv, GoodRecords, GoodRecord, NewProgram
<1>4. k \in 1..2 /\ (k = 1 <=> was.steps = 0)
  OBVIOUS
<1>8. prog[o].steps = 0 => was.steps = 0
  BY DEF NewProgram
<1> HIDE DEF was, k
<1>5. /\ s \in ProgramType /\ s.steps = k /\ s.url = was.url /\ s.event = was.event
      /\ s.state = was.state /\ s.marked = was.marked /\ s.status = was.status
  <2>1. k \in 0..2
    BY <1>4
  <2>2. s \in ProgramType
    BY <1>1, <2>1 DEF ProgramType
  <2>3. /\ s.steps = k /\ s.url = was.url /\ s.event = was.event
        /\ s.state = was.state /\ s.status = was.status
    BY <1>1 DEF ProgramType
  <2>4. s.marked = was.marked
    BY <1>1 DEF ProgramType
  <2> QED
    BY <2>2, <2>3, <2>4
<1> HIDE DEF s
<1>6. Begun(o, s)
  BY <1>2, <1>3, <1>4, <1>5 DEF Begun, GoodRecord
<1>7. s.steps = 1 => s.event = "none" /\ s.state # "PAUSED"
  BY <1>2, <1>4, <1>5 DEF GoodRecord
<1>9. prog[o].steps = 0 => s.steps = 1
  BY <1>4, <1>5, <1>8
<1> QED
  BY <1>6, <1>7, <1>9 DEF s, was, k

\* The whole of update_program_before_request behind the gate.
LEMMA BeforeRequestLife ==
  ASSUME LifeInv, NEW r \in Requests, NEW o \in Objects, NEW n \in Nat,
         Known(o), BeforeRequest(r, o, n)
  PROVE  GoodRecords' /\ GoodRequests' /\ GoodPrograms' /\ ChargedAtHome'
<1> DEFINE was == IF prog[o].state = "UNBORN" THEN NewProgram ELSE prog[o]
           s == [was EXCEPT !.steps = IF @ = 0 THEN 1 ELSE 2, !.tokens = n]
           new == s.steps = 1
<1>0. Begun(o, s) /\ (new => s.event = "none" /\ s.state # "PAUSED")
  BY CountingBegins, Zenon
<1>1. Begun(o, s) /\ (new => s.event = "none" /\ s.state # "PAUSED") /\ new \in BOOLEAN
  <2> HIDE DEF s
  <2> QED
    BY <1>0
<1>2. \/ s.event # "none" /\ WaitForResume(r, o, s, new)
      \/ Schedule(r, o, s, new)
  BY Zenon DEF BeforeRequest
<1> HIDE DEF s, new
<1>3. CASE Schedule(r, o, s, new)
  BY <1>1, <1>3, ScheduleLife
<1>4. CASE s.event # "none" /\ WaitForResume(r, o, s, new)
  <2> DEFINE t == [s EXCEPT !.status = "REASONING"]
  <2>1. /\ t \in ProgramType /\ t.url = s.url /\ t.state = s.state /\ t.event = s.event
        /\ t.steps = s.steps /\ t.marked = s.marked /\ t.status = "REASONING"
    BY <1>1 DEF Begun, ProgramType
  <2>2. prog' = [prog EXCEPT ![o] = t] /\ reg' = reg /\ queue' = queue
    BY <1>4 DEF WaitForResume
  <2>3. Suspend(r, o, IF s.event = "set" THEN "woken" ELSE "paused", new)
    BY <1>4 DEF WaitForResume
  <2> HIDE DEF t
  <2>4. s.event \in {"set", "clear"} /\ ~new
    BY <1>1, <1>4 DEF Begun, ProgramType
  <2>5. GoodRecord(t) /\ t.state # "UNBORN"
    BY <1>1, <2>1 DEF Begun, GoodRecord
  <2>6. TypeOK
    BY DEF LifeInv, TypeInv
  <2>7. Changes(r, o, t) /\ prog'[o] = t
    BY <2>2, <2>3, <2>6 DEF Changes, Suspend, TypeOK
  <2>8. GoodRequest(req'[r], prog')
    BY <2>1, <2>3, <2>4, <2>5, <2>6, <2>7 DEF Suspend, TypeOK, GoodRequest
  <2>9. GoodRecords' /\ GoodRequests' /\ GoodPrograms'
    BY <1>1, <2>1, <2>2, <2>5, <2>7, <2>8, ChangeKeepsLife DEF Begun
  <2>10. ChargedAtHome'
    BY <1>1, <2>1, <2>2, ChargeKept DEF Begun
  <2> QED
    BY <2>9, <2>10
<1> QED
  BY <1>2, <1>3, <1>4

-----------------------------------------------------------------------------
(***************************************************************************)
(* Waking, resuming and pausing.                                           *)
(***************************************************************************)
\* The requests that wait for an object of W are woken, perhaps others too.
Awakened(W) ==
  \A q \in Requests :
    /\ req'[q].obj = req[q].obj
    /\ req'[q].new = req[q].new
    /\ req'[q].target = req[q].target
    /\ \/ req'[q].pc = req[q].pc /\ (Waiting(q) => req[q].obj \notin W)
       \/ req[q].pc = "paused" /\ req'[q].pc = "woken"
       \/ req[q].pc = "queued" /\ req'[q].pc = "admitted"

LEMMA WakeAwakens ==
  ASSUME TypeOK, NEW W, req' = Wake(W)
  PROVE  Awakened(W)
BY DEF TypeOK, RequestType, Wake, Awakened, Waiting

\* The timeout also moves its own request on.
LEMMA WakeOneAwakens ==
  ASSUME TypeInv, NEW r \in Requests, Waiting(r), NEW W,
         req' = [Wake(W) EXCEPT ![r].pc = IF req[r].pc = "paused" THEN "woken" ELSE "admitted"]
  PROVE  Awakened(W)
<1> DEFINE f == Wake(W)
           w == IF req[r].pc = "paused" THEN "woken" ELSE "admitted"
<1>1. f \in [Requests -> RequestType]
  BY WakeTypes
<1>2. \A q \in Requests :
        /\ f[q].obj = req[q].obj
        /\ f[q].new = req[q].new
        /\ f[q].target = req[q].target
        /\ \/ f[q].pc = req[q].pc /\ (Waiting(q) => req[q].obj \notin W)
           \/ req[q].pc = "paused" /\ f[q].pc = "woken"
           \/ req[q].pc = "queued" /\ f[q].pc = "admitted"
  BY DEF TypeInv, TypeOK, RequestType, Wake, Waiting
<1>3. w \in {"woken", "admitted"} /\ req' = [f EXCEPT ![r].pc = w]
  OBVIOUS
<1>4. \/ req[r].pc = "paused" /\ w = "woken"
      \/ req[r].pc = "queued" /\ w = "admitted"
  BY DEF Waiting
<1> HIDE DEF f, w
<1>5. req'[r].pc = w /\ req'[r].obj = f[r].obj /\ req'[r].new = f[r].new
      /\ req'[r].target = f[r].target
  BY <1>1, <1>3 DEF RequestType
<1>6. \A q \in Requests : q # r => req'[q] = f[q]
  BY <1>1, <1>3
<1> QED
  BY <1>2, <1>4, <1>5, <1>6 DEF Awakened

\* Resuming live paused programs, wherever they go, keeps the invariant.
LEMMA ResumeLife ==
  ASSUME LifeInv, NEW W \in SUBSET Objects, NEW at,
         \A o \in W : prog[o].state = "PAUSED" /\ at[o] \in Backends,
         prog' = [o \in Objects |-> IF o \in W THEN Resumed(prog[o], at[o]) ELSE prog[o]],
         \A b \in Backends, p \in Pids :
           \/ reg'[b][p] = reg[b][p]
           \/ reg'[b][p] \in W /\ at[reg'[b][p]] = b,
         programs' = programs,
         \A p \in queue \ queue' :
           programs[p] # None => prog'[programs[p]].state # "PAUSED",
         Awakened(W)
  PROVE  GoodRecords' /\ GoodRequests' /\ GoodPrograms' /\ ChargedAtHome'
<1>0. \A o \in Objects : prog[o] \in ProgramType /\ GoodRecord(prog[o])
  BY DEF LifeInv, TypeInv, TypeOK, GoodRecords
<1>1. \A o \in Objects : o \notin W => prog'[o] = prog[o]
  OBVIOUS
<1>2. \A o \in W : /\ prog'[o].url = at[o] /\ prog'[o].state = "ACTIVE"
                   /\ prog'[o].event = "none" /\ prog'[o].steps = prog[o].steps
                   /\ prog'[o].marked = prog[o].marked
  BY <1>0, ResumedFields
<1>3. GoodRecords'
  <2> SUFFICES ASSUME NEW o \in Objects PROVE GoodRecord(prog'[o])
    BY DEF GoodRecords
  <2>1. CASE o \in W
    <3>1. /\ prog'[o].state = "ACTIVE" /\ prog'[o].event = "none" /\ prog[o].steps # 0
          /\ prog'[o].steps = prog[o].steps /\ ~prog'[o].marked
      BY <1>0, <1>2, <2>1 DEF GoodRecord
    <3> QED
      BY <3>1 DEF GoodRecord
  <2>2. CASE o \notin W
    BY <1>0, <1>1, <2>2
  <2> QED
    BY <2>1, <2>2
<1>4. GoodRequests'
  <2> SUFFICES ASSUME NEW q \in Requests PROVE GoodRequest(req'[q], prog')
    BY DEF GoodRequests
  <2>1. GoodRequest(req[q], prog) /\ (req[q].pc # "idle" => req[q].obj \in Objects)
    BY DEF LifeInv, GoodRequests, TypeInv, HasObject
  <2>2. CASE req[q].obj \in W
    BY <1>2, <2>1, <2>2 DEF Awakened, GoodRequest, Waiting
  <2>3. CASE req[q].obj \notin W
    BY <1>1, <2>1, <2>3 DEF Awakened, GoodRequest, Waiting
  <2> QED
    BY <2>2, <2>3
<1>5. GoodPrograms'
  <2> SUFFICES ASSUME NEW p \in Pids, programs[p] # None
               PROVE  /\ IdOf[programs[p]] = p
                      /\ prog'[programs[p]].state \in {"ACTIVE", "PAUSED"}
                      /\ prog'[programs[p]].state = "PAUSED" => p \in queue'
    BY DEF GoodPrograms
  <2>1. programs[p] \in Objects
    BY DEF LifeInv, TypeInv, TypeOK
  <2> QED
    BY <1>1, <1>2, <2>1 DEF LifeInv, GoodPrograms
<1>6. ChargedAtHome'
  <2> SUFFICES ASSUME NEW b \in Backends, NEW x \in Objects, reg'[b][IdOf[x]] = x
               PROVE  prog'[x].url = b
    BY DEF ChargedAtHome
  <2>1. IdOf[x] \in Pids
    BY RouterAssumption
  <2>2. CASE x \in W /\ at[x] = b
    BY <1>2, <2>2
  <2>3. CASE ~(x \in W /\ at[x] = b)
    <3>1. reg[b][IdOf[x]] = x
      BY <2>1, <2>3
    <3>2. prog[x].url = b
      BY <3>1 DEF LifeInv, ChargedAtHome
    <3>3. x \notin W
      BY <1>0, <3>2, RouterAssumption DEF GoodRecord
    <3> QED
      BY <1>1, <3>2, <3>3
  <2> QED
    BY <2>2, <2>3
<1> QED
  BY <1>3, <1>4, <1>5, <1>6

\* A program that is unregistered from its backend is charged nowhere.
LEMMA UnregisterLife ==
  ASSUME LifeInv, NEW S, NEW b \in Backends, NEW x \in Objects,
         Unregister(S)[b][IdOf[x]] = x
  PROVE  prog[x].url = b /\ x \notin S
<1>1. IdOf[x] \in Pids /\ x # None
  BY RouterAssumption
<1>2. reg[b][IdOf[x]] = x /\ ~(x \in S /\ prog[x].url = b)
  BY <1>1 DEF Unregister
<1> QED
  BY <1>2 DEF LifeInv, ChargedAtHome

\* A step of a request keeps the invariant.
LEMMA RequestStepLife ==
  ASSUME LifeInv, NEW r \in Requests, RequestStep(r)
  PROVE  GoodRecords' /\ GoodRequests' /\ GoodPrograms' /\ ChargedAtHome'
<1> DEFINE Goal == GoodRecords' /\ GoodRequests' /\ GoodPrograms' /\ ChargedAtHome'
<1>0. TypeInv /\ TypeOK /\ HasObject
  BY DEF LifeInv, TypeInv
<1>a. ASSUME NEW p \in Pids, NEW o \in ObjectFor(p), programs' = [programs EXCEPT ![p] = o]
      PROVE  Known(o)
  BY <1>0, <1>a, ObjectForTypes DEF Known, ObjectFor, TypeOK
<1>1. ASSUME NEW p \in Pids, NEW o \in Objects, NEW n \in Estimates, Arrive(r, p, o, n)
      PROVE  Goal
  <2>1. Known(o) /\ n \in Nat
    BY <1>a, <1>1, RouterAssumption DEF Arrive
  <2> QED
    BY <1>1, <2>1, BeforeRequestLife DEF Arrive
<1>2. ASSUME NEW p \in Pids, NEW o \in Objects, ArriveAtGate(r, p, o)
      PROVE  Goal
  <2> DEFINE t == IF prog[o].state = "UNBORN" THEN NewProgram ELSE prog[o]
  <2>1. Known(o)
    BY <1>a, <1>2 DEF ArriveAtGate
  <2>2. /\ prog' = [prog EXCEPT ![o] = t] /\ Suspend(r, o, "gate", FALSE)
        /\ reg' = reg /\ queue' = queue
    BY <1>2 DEF ArriveAtGate
  <2>3. t \in ProgramType
    BY <1>0, RecordTypes DEF TypeOK
  <2>4. /\ t.url = prog[o].url /\ t.event = prog[o].event /\ GoodRecord(t)
        /\ t.state = IF prog[o].state = "UNBORN" THEN "ACTIVE" ELSE prog[o].state
    BY DEF LifeInv, GoodRecords, GoodRecord, NewProgram
  <2> HIDE DEF t
  <2>5. Changes(r, o, t) /\ GoodRequest(req'[r], prog')
    BY <1>0, <2>2, <2>3, <2>4 DEF Suspend, Changes, GoodRequest, TypeOK
  <2>6. GoodRecords' /\ GoodRequests' /\ GoodPrograms'
    BY <2>1, <2>2, <2>3, <2>4, <2>5, ChangeKeepsLife
  <2> QED
    BY <2>2, <2>3, <2>4, <2>6, ChargeKept
<1>3. ASSUME NEW n \in Estimates, PassGate(r, n)
      PROVE  Goal
  <2>1. req[r].obj \in Objects /\ Known(req[r].obj) /\ n \in Nat
    BY <1>0, <1>3, RouterAssumption DEF PassGate, HasObject, Known, TypeOK
  <2> QED
    BY <1>3, <2>1, BeforeRequestLife DEF PassGate
<1>4. CASE GoOnAfterPause(r)
  <2> DEFINE o == req[r].obj
  <2>1. o \in Objects /\ Known(o) /\ req[r].new = FALSE /\ prog[o].state # "UNBORN"
    BY <1>0, <1>4 DEF GoOnAfterPause, HasObject, Known, TypeOK, RequestType,
                      LifeInv, GoodRequests, GoodRequest
  <2>2. \/ prog[o].url # None /\ KeepBackend(r, o, prog[o])
        \/ prog[o].url = None /\ NoValidBackend(r, o, prog[o])
    BY <1>4, <2>1, Zenon DEF GoOnAfterPause, Schedule
  <2>3. PICK t \in {prog[o], [prog[o] EXCEPT !.status = "REASONING"]} :
           prog' = [prog EXCEPT ![o] = t] /\ Forward(r, o) /\ reg' = reg /\ queue' = queue
    BY <2>2 DEF KeepBackend, NoValidBackend
  <2>4. prog[o] \in ProgramType /\ GoodRecord(prog[o])
    BY <1>0, <2>1 DEF TypeOK, LifeInv, GoodRecords
  <2>5. /\ t \in ProgramType /\ t.url = prog[o].url /\ t.state = prog[o].state
        /\ t.event = prog[o].event /\ t.steps = prog[o].steps /\ t.marked = prog[o].marked
        /\ t.status = prog[o].status \/ t.status = "REASONING"
    BY <2>3, <2>4 DEF ProgramType
  <2>6. GoodRecord(t)
    BY <2>4, <2>5 DEF GoodRecord
  <2>7. Changes(r, o, t) /\ GoodRequest(req'[r], prog')
    BY <1>0, <2>1, <2>3, <2>5 DEF Forward, Changes, GoodRequest, TypeOK
  <2> HIDE DEF o
  <2>8. GoodRecords' /\ GoodRequests' /\ GoodPrograms'
    BY <2>1, <2>3, <2>5, <2>6, <2>7, ChangeKeepsLife
  <2> QED
    BY <2>1, <2>3, <2>5, <2>8, ChargeKept
<1>5. CASE GoOnAfterQueue(r)
  <2>1. /\ \A q \in Requests : q # r => req'[q] = req[q]
        /\ req'[r].obj = req[r].obj /\ req'[r].pc = "inflight" /\ req[r].pc # "idle"
    BY <1>0, <1>5 DEF GoOnAfterQueue, Forward, TypeOK
  <2>2. GoodRequests'
    BY <1>5, <2>1 DEF GoOnAfterQueue, LifeInv, GoodRequests, GoodRequest
  <2> QED
    BY <1>5, <2>2 DEF GoOnAfterQueue, LifeInv, GoodRecords, GoodPrograms, ChargedAtHome
<1>6. CASE StreamProgress(r)
  <2> DEFINE o == req[r].obj
             t == [prog[o] EXCEPT !.tokens = prog[o].tokens + 1]
  <2>1. o \in Objects /\ prog[o] \in ProgramType
    BY <1>0, <1>6 DEF StreamProgress, HasObject, TypeOK
  <2>2. /\ t.url = prog[o].url /\ t.state = prog[o].state /\ t.event = prog[o].event
        /\ t.steps = prog[o].steps /\ t.marked = prog[o].marked /\ t.status = prog[o].status
    BY <2>1 DEF ProgramType
  <2>3. prog' = [prog EXCEPT ![o] = t]
    BY <1>6 DEF StreamProgress
  <2> HIDE DEF t
  <2>4. \A x \in Objects : /\ prog'[x].url = prog[x].url /\ prog'[x].state = prog[x].state
                           /\ prog'[x].event = prog[x].event /\ prog'[x].steps = prog[x].steps
                           /\ prog'[x].marked = prog[x].marked /\ prog'[x].status = prog[x].status
    BY <1>0, <2>1, <2>2, <2>3 DEF TypeOK
  <2>5. GoodRecords' /\ ChargedAtHome'
    BY <1>6, <2>4 DEF StreamProgress, LifeInv, GoodRecords, GoodRecord, ChargedAtHome
  <2>6. GoodRequests'
    BY <1>0, <1>6, <2>4 DEF StreamProgress, LifeInv, GoodRequests, GoodRequest, HasObject
  <2>7. GoodPrograms'
    BY <1>0, <1>6, <2>4 DEF StreamProgress, LifeInv, GoodPrograms, TypeOK
  <2> QED
    BY <2>5, <2>6, <2>7
<1>8. CASE FinishWithoutUsage(r)
  BY <1>0, <1>8 DEF FinishWithoutUsage, NoRequest, LifeInv, GoodRecords, GoodRequests,
                    GoodRequest, GoodPrograms, ChargedAtHome, TypeOK
<1>7. ASSUME NEW n \in Usages, Finish(r, n)
      PROVE  Goal
  <2> DEFINE o == req[r].obj
             s == [prog[o] EXCEPT !.status = "ACTING", !.tokens = n]
             m == [s EXCEPT !.marked = FALSE]
  <2>1. /\ o \in Objects /\ prog[o] \in ProgramType /\ n \in Nat /\ GoodRecord(prog[o])
        /\ prog[o].state # "UNBORN" /\ req[r].pc = "inflight"
    BY <1>0, <1>7, RouterAssumption
       DEF Finish, HasObject, TypeOK, LifeInv, GoodRecords, GoodRequests, GoodRequest
  <2>2. /\ s \in ProgramType /\ s.url = prog[o].url /\ s.state = prog[o].state
        /\ s.event = prog[o].event /\ s.steps = prog[o].steps
    BY <2>1 DEF ProgramType
  <2>3. s.marked = prog[o].marked
    BY <2>1 DEF ProgramType
  <2>4. GoodRequest(req'[r], prog') /\ (\A q \in Requests : q # r => req'[q] = req[q])
    BY <1>0, <1>7 DEF Finish, TypeOK, NoRequest, GoodRequest
  <2>5. programs' = programs /\ Known(o)
    BY <1>0, <1>7 DEF Finish, Known, TypeOK
  <2>6. CASE s.marked /\ s.url # None
    <3> DEFINE t == Paused(m)
    <3>1. m \in ProgramType /\ m.url = s.url /\ m.steps = s.steps /\ m.marked = FALSE
      BY <2>2 DEF ProgramType
    <3>2. /\ prog' = [prog EXCEPT ![o] = t] /\ reg' = Unregister({o})
          /\ queue' = queue \cup {IdOf[o]}
      BY <1>7, <2>6, Zenon DEF Finish
    <3> HIDE DEF m
    <3>3. t \in ProgramType
      BY <3>1, RecordTypes
    <3>4. /\ t.state = "PAUSED" /\ t.url = None /\ t.event = "clear"
          /\ t.steps = s.steps /\ t.marked = FALSE
      BY <3>1 DEF Paused, ProgramType
    <3> HIDE DEF t, s
    <3>5. GoodRecord(t)
      BY <2>1, <2>2, <2>6, <3>4 DEF GoodRecord
    <3>6. GoodRecords' /\ GoodRequests' /\ GoodPrograms'
      BY <2>1, <2>4, <2>5, <3>2, <3>3, <3>4, <3>5, ChangeKeepsLife DEF Changes
    <3>7. ChargedAtHome'
      BY <1>0, <2>1, <3>2, UnregisterLife DEF ChargedAtHome, TypeOK
    <3> QED
      BY <3>6, <3>7
  <2>7. CASE ~(s.marked /\ s.url # None)
    <3>1. prog' = [prog EXCEPT ![o] = s] /\ reg' = reg /\ queue' = queue
      BY <1>7, <2>7, Zenon DEF Finish
    <3> HIDE DEF s
    <3>2. GoodRecord(s)
      BY <2>1, <2>2, <2>3, <2>7 DEF GoodRecord
    <3>3. GoodRecords' /\ GoodRequests' /\ GoodPrograms'
      BY <2>1, <2>2, <2>4, <2>5, <3>1, <3>2, ChangeKeepsLife DEF Changes
    <3>4. ChargedAtHome'
      BY <2>1, <2>2, <3>1, ChargeKept
    <3> QED
      BY <3>3, <3>4
  <2> QED
    BY <2>6, <2>7
<1>9. CASE ForceResume(r)
  <2> DEFINE p == IdOf[req[r].obj]
             c == programs[p]
  <2>1. p \in queue /\ c # None /\ prog[c].state = "PAUSED" /\ Waiting(r) /\ programs' = programs
        /\ queue' = queue \ {p}
    BY <1>9 DEF ForceResume
  <2>2. p \in Pids /\ c \in Objects /\ IdOf[c] = p
    BY <1>0, <2>1 DEF TypeOK, LifeInv, GoodPrograms
  <2>3. PICK b \in (IF prog[c].origin = None THEN LeastLoaded ELSE {prog[c].origin}) :
          /\ prog' = [prog EXCEPT ![c] = Resumed(@, b)]
          /\ reg' = Register(b, c)
          /\ req' = [Wake({c}) EXCEPT ![r].pc = IF req[r].pc = "paused" THEN "woken" ELSE "admitted"]
    BY <1>9 DEF ForceResume
  <2>4. b \in Backends
    <3>1. prog[c].origin \in Backends \cup {None}
      BY <1>0, <2>2 DEF TypeOK, ProgramType
    <3> QED
      BY <1>0, <3>1, LeastLoadedTypes
  <2>5. Awakened({c})
    BY <1>0, <2>1, <2>3, WakeOneAwakens
  <2> HIDE DEF c, p
  <2> DEFINE at == [x \in {c} |-> b]
  <2>6. prog' = [x \in Objects |-> IF x \in {c} THEN Resumed(prog[x], at[x]) ELSE prog[x]]
    BY <1>0, <2>2, <2>3 DEF TypeOK
  <2>7. \A d \in Backends, x \in Pids :
          reg'[d][x] = reg[d][x] \/ (reg'[d][x] \in {c} /\ at[reg'[d][x]] = d)
    BY <1>0, <2>2, <2>3, <2>4 DEF TypeOK, Register
  <2>8. \A x \in queue \ queue' : programs[x] # None => prog'[programs[x]].state # "PAUSED"
    <3>1. prog'[c].state = "ACTIVE"
      BY <1>0, <2>2, <2>3 DEF TypeOK, Resumed, ProgramType
    <3> QED
      BY <2>1, <3>1 DEF c
  <2>9. \A x \in {c} : prog[x].state = "PAUSED" /\ at[x] \in Backends
    BY <2>1, <2>4
  <2> HIDE DEF at
  <2> QED
    BY <2>1, <2>2, <2>5, <2>6, <2>7, <2>8, <2>9, ResumeLife
<1>10. CASE ClaimNothing(r)
  <2>1. PICK w \in {"woken", "admitted"} : req' = [req EXCEPT ![r].pc = w]
                                        /\ (w = "woken" => req[r].pc = "paused")
    BY <1>10 DEF ClaimNothing
  <2>2. /\ \A q \in Requests : q # r => req'[q] = req[q]
        /\ req'[r].obj = req[r].obj /\ req'[r].new = req[r].new /\ req'[r].pc = w
        /\ req[r].pc # "idle"
    BY <1>0, <1>10, <2>1 DEF TypeOK, RequestType, ClaimNothing, Waiting
  <2>3. GoodRequests'
    BY <1>10, <2>1, <2>2 DEF ClaimNothing, LifeInv, GoodRequests, GoodRequest
  <2>4. GoodPrograms'
    BY <1>10 DEF ClaimNothing, LifeInv, GoodPrograms
  <2> QED
    BY <1>10, <2>3, <2>4 DEF ClaimNothing, LifeInv, GoodRecords, ChargedAtHome
<1> QED
  BY <1>1, <1>2, <1>3, <1>4, <1>5, <1>6, <1>7, <1>8, <1>9, <1>10 DEF RequestStep
-----------------------------------------------------------------------------
(***************************************************************************)
(* All steps.                                                              *)
(***************************************************************************)
LEMMA LifeStep == LifeInv /\ [Next]_vars => LifeInv'
<1> SUFFICES ASSUME LifeInv, [Next]_vars
             PROVE  LifeInv'
  OBVIOUS
<1> DEFINE Goal == GoodRecords' /\ GoodRequests' /\ GoodPrograms' /\ ChargedAtHome'
<1>0. TypeInv /\ TypeOK /\ HasObject
  BY DEF LifeInv, TypeInv
<1> SUFFICES Goal
  BY <1>0, TypeStep DEF LifeInv
<1>1. ASSUME NEW r \in Requests, RequestStep(r)
      PROVE  Goal
  BY <1>1, RequestStepLife
<1>2. ASSUME NEW p \in Pids, Release(p)
      PROVE  Goal
  <2> DEFINE o == programs[p]
             s == prog[o]
             m == s.marked /\ ~(s.marked /\ s.url # None)
             e == IF s.state = "PAUSED" /\ s.event # "none" THEN "set" ELSE s.event
             t == [s EXCEPT !.state = "TERMINATED", !.marked = m, !.event = e]
  <2>1. /\ o \in Objects /\ s \in ProgramType /\ GoodRecord(s) /\ IdOf[o] = p
        /\ s.state \in {"ACTIVE", "PAUSED"}
    BY <1>0, <1>2 DEF Release, TypeOK, LifeInv, GoodRecords, GoodPrograms
  <2>2. ~m
    BY <2>1 DEF GoodRecord
  <2>3. prog' = [prog EXCEPT ![o] = t] /\ programs' = [programs EXCEPT ![p] = None]
    BY <1>2, Zenon DEF Release
  <2>4. /\ t.state = "TERMINATED" /\ t.event = e /\ t.url = s.url /\ t.steps = s.steps /\ t.marked = m
    <3> HIDE DEF s, m, e
    <3> QED
      BY <2>1 DEF ProgramType
  <2>5. \/ s.state = "PAUSED" /\ queue' = queue \ {p} /\ req' = Wake({o}) /\ reg' = reg
        \/ s.state # "PAUSED" /\ reg' = Unregister({o}) /\ queue' = queue /\ req' = req
    BY <1>2, Zenon DEF Release
  <2>6. s.state = "PAUSED" => s.steps # 0
    BY <2>1 DEF GoodRecord
  <2>7. s.state # "PAUSED" => e = s.event
    OBVIOUS
  <2> HIDE DEF t, m
  <2>8. GoodRecord(t)
    BY <2>1, <2>2, <2>4, <2>6, <2>7 DEF GoodRecord
  <2>9. prog'[o] = t /\ \A x \in Objects : x # o => prog'[x] = prog[x]
    BY <1>0, <2>1, <2>3 DEF TypeOK
  <2>10. GoodRecords'
    BY <2>8, <2>9 DEF GoodRecords, LifeInv
  <2>11. GoodPrograms'
    <3> SUFFICES ASSUME NEW x \in Pids, programs'[x] # None
                 PROVE  /\ IdOf[programs'[x]] = x
                        /\ prog'[programs'[x]].state \in {"ACTIVE", "PAUSED"}
                        /\ prog'[programs'[x]].state = "PAUSED" => x \in queue'
      BY DEF GoodPrograms
    <3>1. x # p /\ programs'[x] = programs[x] /\ programs[x] \in Objects
      BY <1>0, <2>3 DEF TypeOK
    <3>2. IdOf[programs[x]] = x /\ programs[x] # o
      BY <2>1, <3>1 DEF LifeInv, GoodPrograms
    <3> QED
      BY <2>5, <2>9, <3>1, <3>2 DEF LifeInv, GoodPrograms
  <2>12. Awakened({o}) \/ (s.state # "PAUSED" /\ req' = req)
    BY <1>0, <2>5, WakeAwakens
  <2>13. GoodRequests'
    <3> SUFFICES ASSUME NEW q \in Requests PROVE GoodRequest(req'[q], prog')
      BY DEF GoodRequests
    <3>1. GoodRequest(req[q], prog) /\ (req[q].pc # "idle" => req[q].obj \in Objects)
      BY <1>0 DEF LifeInv, GoodRequests, HasObject
    <3>2. CASE req[q].obj = o
      <4>1. CASE Awakened({o})
        BY <2>4, <2>9, <3>1, <3>2, <4>1 DEF Awakened, GoodRequest, Waiting
      <4>2. CASE s.state # "PAUSED" /\ req' = req
        BY <2>4, <2>7, <2>9, <3>1, <3>2, <4>2 DEF GoodRequest
      <4> QED
        BY <2>12, <4>1, <4>2
    <3>3. CASE req[q].obj # o
      BY <2>9, <2>12, <3>1, <3>3 DEF Awakened, GoodRequest, Waiting
    <3> QED
      BY <3>2, <3>3
  <2>14. ChargedAtHome'
    <3> SUFFICES ASSUME NEW b \in Backends, NEW x \in Objects, reg'[b][IdOf[x]] = x
                 PROVE  prog'[x].url = b
      BY DEF ChargedAtHome
    <3>1. prog[x].url = b
      BY <2>5, UnregisterLife DEF LifeInv, ChargedAtHome
    <3> QED
      BY <2>4, <2>9, <3>1
  <2> QED
    BY <2>10, <2>11, <2>13, <2>14
<1>3. ASSUME NEW b \in Backends, FetchMetrics(b)
      PROVE  Goal
  BY <1>3 DEF FetchMetrics, LifeInv, GoodRecords, GoodRequests, GoodPrograms, ChargedAtHome
<1>4. CASE TickStart
  BY <1>4 DEF TickStart, LifeInv, GoodRecords, GoodRequests, GoodPrograms, ChargedAtHome
<1>5. CASE TickResume
  <2>0. PICK acting \in ActingEstimates : \E at \in ResumePlans(acting) :
          /\ ResumeAt({o \in Candidates : at[o] # None}, at)
          /\ queue' = queue \ {IdOf[o] : o \in {o \in Candidates : at[o] # None}}
    BY <1>5, Zenon DEF TickResume
  <2>1. PICK at \in ResumePlans(acting) :
          /\ ResumeAt({o \in Candidates : at[o] # None}, at)
          /\ queue' = queue \ {IdOf[o] : o \in {o \in Candidates : at[o] # None}}
    BY <2>0, Zenon
  <2> DEFINE S == {o \in Candidates : at[o] # None}
             W == {o \in S : prog[o].state = "PAUSED"}
  <2>2. S \subseteq Objects /\ \A o \in S : at[o] \in Backends
    BY <1>0, PlanTypes
  <2>3. /\ prog' = [o \in Objects |-> IF o \in W THEN Resumed(prog[o], at[o]) ELSE prog[o]]
        /\ reg' = [b \in Backends |-> [p \in Pids |->
             IF programs[p] \in W /\ at[programs[p]] = b THEN programs[p] ELSE reg[b][p]]]
        /\ req' = Wake(W)
    BY <2>1 DEF ResumeAt
  <2>4. \A o \in W : o \in S /\ o \in Objects /\ prog[o].state = "PAUSED" /\ at[o] \in Backends
    BY <2>2
  <2>5. \A p \in queue \ queue' : \E o \in S : IdOf[o] = p
    BY <2>1
  <2>6. \A o \in S : programs[IdOf[o]] = o
    BY <1>0, PlanTypes DEF LifeInv, GoodPrograms, TypeOK, Candidates
  <2>7. \A o \in S : o \in W \/ prog[o].state # "PAUSED"
    OBVIOUS
  <2> HIDE DEF S, W
  <2>8. Awakened(W)
    BY <1>0, <2>3, WakeAwakens
  <2>9. \A o \in W : prog'[o].state = "ACTIVE"
    BY <1>0, <2>3, <2>4 DEF TypeOK, Resumed, ProgramType
  <2>10. \A p \in queue \ queue' : programs[p] # None => prog'[programs[p]].state # "PAUSED"
    <3> SUFFICES ASSUME NEW p \in queue \ queue', programs[p] # None
                 PROVE  prog'[programs[p]].state # "PAUSED"
      OBVIOUS
    <3>1. PICK o \in S : IdOf[o] = p
      BY <2>5
    <3> QED
      BY <2>2, <2>3, <2>6, <2>7, <2>9, <3>1
  <2>11. \A b \in Backends, p \in Pids :
           reg'[b][p] = reg[b][p] \/ (reg'[b][p] \in W /\ at[reg'[b][p]] = b)
    BY <2>3
  <2>12. programs' = programs /\ W \in SUBSET Objects
    BY <1>5, <2>4 DEF TickResume
  <2> QED
    BY <2>3, <2>4, <2>8, <2>10, <2>11, <2>12, ResumeLife
<1>6. CASE TickPause
  <2>1. PICK S, marks : PauseStep(S, marks)
    BY <1>6, TickPauseEffect
  <2>2. programs' = programs /\ req' = req
    BY <1>6 DEF TickPause
  <2>3. \A o \in S \cup marks :
          o \in Objects /\ prog[o].url \in Backends /\ prog[o].state = "ACTIVE" /\ prog[o].url # None
    BY <1>0, <2>1, RouterAssumption
       DEF PauseStep, Live, LifeInv, GoodPrograms, GoodRecords, GoodRecord, TypeOK
  <2>4. \A o \in S : prog[o].status = "ACTING" /\ ~prog[o].marked
    BY <2>1, <2>3 DEF PauseStep, LifeInv, GoodRecords, GoodRecord
  <2>5. \A o \in marks : prog[o].status = "REASONING" /\ o \notin S
    BY <2>1, <2>4 DEF PauseStep
  <2>6. \A o \in Objects : prog[o] \in ProgramType /\ GoodRecord(prog[o])
    BY <1>0 DEF TypeOK, LifeInv, GoodRecords
  <2>7. /\ \A o \in S : prog'[o] = Paused(prog[o])
        /\ \A o \in marks : prog'[o] = Marked(prog[o])
        /\ \A o \in Objects : o \notin S \cup marks => prog'[o] = prog[o]
    BY <2>1, <2>3, <2>5 DEF PauseStep
  <2>8. \A o \in S : /\ prog'[o].state = "PAUSED" /\ prog'[o].url = None /\ prog'[o].event = "clear"
                     /\ prog'[o].steps = prog[o].steps /\ prog'[o].marked = prog[o].marked
    BY <2>3, <2>6, <2>7, PausedFields
  <2>9. \A o \in marks :
          /\ prog'[o].state = prog[o].state /\ prog'[o].url = prog[o].url
          /\ prog'[o].event = prog[o].event /\ prog'[o].steps = prog[o].steps
          /\ prog'[o].status = prog[o].status
    BY <2>3, <2>6, <2>7, MarkFields
  <2>10. GoodRecords'
    <3> SUFFICES ASSUME NEW o \in Objects PROVE GoodRecord(prog'[o])
      BY DEF GoodRecords
    <3>1. CASE o \in S
      BY <2>3, <2>4, <2>6, <2>8, <3>1 DEF GoodRecord
    <3>2. CASE o \in marks
      BY <2>3, <2>5, <2>6, <2>9, <3>2 DEF GoodRecord
    <3> QED
      BY <2>6, <2>7, <3>1, <3>2
  <2>11. GoodRequests'
    <3> SUFFICES ASSUME NEW q \in Requests PROVE GoodRequest(req[q], prog')
      BY <2>2 DEF GoodRequests
    <3>1. GoodRequest(req[q], prog) /\ (req[q].pc # "idle" => req[q].obj \in Objects)
      BY <1>0 DEF LifeInv, GoodRequests, HasObject
    <3> QED
      BY <2>7, <2>8, <2>9, <3>1 DEF GoodRequest
  <2>12. GoodPrograms'
    <3> SUFFICES ASSUME NEW p \in Pids, programs[p] # None
                 PROVE  /\ IdOf[programs[p]] = p
                        /\ prog'[programs[p]].state \in {"ACTIVE", "PAUSED"}
                        /\ prog'[programs[p]].state = "PAUSED" => p \in queue'
      BY <2>2 DEF GoodPrograms
    <3>1. queue' = queue \cup {IdOf[o] : o \in S}
      BY <2>1 DEF PauseStep
    <3>2. /\ IdOf[programs[p]] = p /\ programs[p] \in Objects
          /\ prog[programs[p]].state \in {"ACTIVE", "PAUSED"}
          /\ prog[programs[p]].state = "PAUSED" => p \in queue
      BY <1>0 DEF LifeInv, GoodPrograms, TypeOK
    <3> QED
      BY <2>7, <2>8, <2>9, <3>1, <3>2
  <2>13. ChargedAtHome'
    <3> SUFFICES ASSUME NEW b \in Backends, NEW x \in Objects, reg'[b][IdOf[x]] = x
                 PROVE  prog'[x].url = b
      BY DEF ChargedAtHome
    <3>1. prog[x].url = b /\ x \notin S
      BY <2>1, UnregisterLife DEF PauseStep
    <3> QED
      BY <2>7, <2>9, <3>1
  <2> QED
    BY <2>10, <2>11, <2>12, <2>13
<1>7. CASE SyncBegin
  BY <1>7 DEF SyncBegin, LifeInv, GoodRecords, GoodRequests, GoodPrograms, ChargedAtHome
<1>8. CASE SyncEnd
  <2>1. \A q \in Requests : /\ req'[q].obj = req[q].obj /\ req'[q].new = req[q].new
                            /\ \/ req'[q].pc = req[q].pc
                               \/ req[q].pc = "gate" /\ req'[q].pc = "passed"
    BY <1>0, <1>8 DEF SyncEnd, TypeOK, RequestType
  <2>2. GoodRequests'
    BY <1>8, <2>1 DEF SyncEnd, LifeInv, GoodRequests, GoodRequest
  <2> QED
    BY <1>8, <2>2 DEF SyncEnd, LifeInv, GoodRecords, GoodPrograms, ChargedAtHome
<1>9. CASE UNCHANGED vars
  BY <1>9 DEF vars, LifeInv, GoodRecords, GoodRequests, GoodPrograms, ChargedAtHome
<1> QED
  BY <1>1, <1>2, <1>3, <1>4, <1>5, <1>6, <1>7, <1>8, <1>9 DEF Next

LEMMA LifeInvariance == Spec => []LifeInv
BY LifeInit, LifeStep, PTL DEF Spec

\* Whatever the clients do, a marked program is REASONING on a backend: the end
\* of its request or its release finds the mark and clears it.
THEOREM MarkedResident == Spec => []MarkedIsResident
BY LifeInvariance, LifeImplies, PTL

\* Whatever the clients do, a paused program is in the waiting queue and its
\* waiters wait on an event that has yet to be set: no wakeup is lost.
THEOREM PausedFindable == Spec => []PausedIsFindable
BY LifeInvariance, LifeImplies, PTL

\* Whatever the clients do, a program's tokens are charged to no backend but
\* the one its backend_url names.
THEOREM Charged == Spec => []ChargedAtHome
BY LifeInvariance, LifeImplies, PTL
=============================================================================
