---------------------------- MODULE RouterProofs ----------------------------
(***************************************************************************)
(* Proofs about Router for any programs, requests, backends and capacities.*)
(***************************************************************************)
EXTENDS Router, TLAPS

-----------------------------------------------------------------------------
(***************************************************************************)
(* Type correctness.                                                       *)
(***************************************************************************)

\* Creating, pausing and resuming a program yields well-formed records.
LEMMA RecordTypes ==
  /\ NewProgram \in ProgramType
  /\ NoRequest \in RequestType
  /\ \A s \in ProgramType : Paused(s) \in ProgramType
  /\ \A s \in ProgramType, b \in Backends : Resumed(s, b) \in ProgramType
<1>1. NewProgram \in ProgramType
  <2>1. None \in Backends \cup {None} /\ 0 \in Nat /\ 0 \in 0..2
    OBVIOUS
  <2> QED
    BY <2>1 DEF NewProgram, ProgramType
<1>2. NoRequest \in RequestType
  <2>1. None \in Backends \cup {None} /\ None \in Objects \cup {None}
    OBVIOUS
  <2> QED
    BY <2>1 DEF NoRequest, RequestType
<1>3. ASSUME NEW s \in ProgramType
      PROVE  Paused(s) \in ProgramType
  BY <1>3 DEF ProgramType, Paused
<1>4. ASSUME NEW s \in ProgramType, NEW b \in Backends
      PROVE  Resumed(s, b) \in ProgramType
  BY <1>4 DEF ProgramType, Resumed
<1> QED
  BY <1>1, <1>2, <1>3, <1>4

\* get_backend_for_program always finds a backend.
LEMMA BackendForType ==
  ASSUME NEW pg \in [Pids -> Objects \cup {None}], NEW pr \in [Objects -> ProgramType],
         NEW p \in Pids
  PROVE  BackendFor(pg, pr, p) \in Backends
BY RouterAssumption DEF BackendFor, ProgramType

\* Forwarding or suspending a request keeps the requests well-formed.
LEMMA RequestUpdates ==
  ASSUME TypeOK, NEW r \in Requests, NEW o \in Objects
  PROVE  /\ programs' \in [Pids -> Objects \cup {None}] /\ prog' \in [Objects -> ProgramType]
              /\ Forward(r, o) => req' \in [Requests -> RequestType]
         /\ \A new \in BOOLEAN, w \in {"gate", "paused", "woken", "queued"} :
              Suspend(r, o, w, new) => req' \in [Requests -> RequestType]
<1>1. IdOf[o] \in Pids
  BY RouterAssumption
<1>2. ASSUME programs' \in [Pids -> Objects \cup {None}], prog' \in [Objects -> ProgramType],
             Forward(r, o)
      PROVE  req' \in [Requests -> RequestType]
  <2>1. BackendFor(programs', prog', IdOf[o]) \in Backends
    BY <1>1, <1>2, BackendForType
  <2> QED
    BY <1>2, <2>1 DEF Forward, TypeOK, RequestType
<1>3. ASSUME NEW new \in BOOLEAN, NEW w \in {"gate", "paused", "woken", "queued"},
             Suspend(r, o, w, new)
      PROVE  req' \in [Requests -> RequestType]
  BY <1>3 DEF Suspend, TypeOK, RequestType
<1> QED
  BY <1>2, <1>3

\* The part of the state that update_program_before_request changes.
FlowTypes ==
  /\ prog' \in [Objects -> ProgramType]
  /\ reg' \in [Backends -> [Pids -> Objects \cup {None}]]
  /\ queue' \subseteq Pids
  /\ req' \in [Requests -> RequestType]

\* Steps 2 and 3 of update_program_before_request are type-correct.
LEMMA ScheduleTypes ==
  ASSUME TypeOK, NEW r \in Requests, NEW o \in Objects, NEW s \in ProgramType,
         NEW new \in BOOLEAN, programs' \in [Pids -> Objects \cup {None}],
         Schedule(r, o, s, new)
  PROVE  FlowTypes
<1> USE DEF FlowTypes
<1>0. IdOf[o] \in Pids
  BY RouterAssumption
<1>1. ASSUME NEW b \in SelectBackend(s.tokens), AssignNew(r, o, s, b) PROVE FlowTypes
  <2>1. b \in Backends
    BY <1>1 DEF SelectBackend, TypeOK
  <2>2. prog' \in [Objects -> ProgramType]
    BY <1>1, <2>1 DEF AssignNew, TypeOK, ProgramType
  <2>3. reg' \in [Backends -> [Pids -> Objects \cup {None}]]
    BY <1>0, <1>1, <2>1 DEF AssignNew, Register, TypeOK
  <2>4. req' \in [Requests -> RequestType]
    BY <1>1, <2>2, RequestUpdates DEF AssignNew
  <2> QED
    BY <1>1, <2>2, <2>3, <2>4 DEF AssignNew, TypeOK
<1>2. CASE QueueNew(r, o, s)
  <2>1. prog' \in [Objects -> ProgramType]
    BY <1>2 DEF QueueNew, TypeOK, ProgramType
  <2>2. req' \in [Requests -> RequestType]
    BY <1>2, RequestUpdates DEF QueueNew
  <2> QED
    BY <1>0, <1>2, <2>1, <2>2 DEF QueueNew, TypeOK
<1>3. CASE KeepBackend(r, o, s)
  <2>1. prog' \in [Objects -> ProgramType]
    BY <1>3 DEF KeepBackend, TypeOK, ProgramType
  <2>2. req' \in [Requests -> RequestType]
    BY <1>3, <2>1, RequestUpdates DEF KeepBackend
  <2> QED
    BY <1>3, <2>1, <2>2 DEF KeepBackend, TypeOK
<1>4. CASE NoValidBackend(r, o, s)
  <2>1. prog' \in [Objects -> ProgramType]
    BY <1>4 DEF NoValidBackend, TypeOK
  <2>2. req' \in [Requests -> RequestType]
    BY <1>4, <2>1, RequestUpdates DEF NoValidBackend
  <2> QED
    BY <1>4, <2>1, <2>2 DEF NoValidBackend, TypeOK
<1> QED
  BY <1>1, <1>2, <1>3, <1>4 DEF Schedule

\* update_program_before_request behind the gate is type-correct.
LEMMA BeforeRequestTypes ==
  ASSUME TypeOK, NEW r \in Requests, NEW o \in Objects, NEW n \in Nat,
         programs' \in [Pids -> Objects \cup {None}],
         BeforeRequest(r, o, n)
  PROVE  FlowTypes
<1> DEFINE was == IF prog[o].state = "UNBORN" THEN NewProgram ELSE prog[o]
           s == [was EXCEPT !.steps = IF @ = 0 THEN 1 ELSE 2, !.tokens = n]
           new == s.steps = 1
<1>1. was \in ProgramType
  BY RecordTypes DEF TypeOK
<1>2. s \in ProgramType
  <2> DEFINE k == IF was.steps = 0 THEN 1 ELSE 2
  <2>1. k \in 0..2
    OBVIOUS
  <2> HIDE DEF was, k
  <2>2. [was EXCEPT !.steps = k, !.tokens = n] \in ProgramType
    BY <1>1, <2>1 DEF ProgramType
  <2> QED
    BY <2>2 DEF k
<1>3. new \in BOOLEAN
  OBVIOUS
<1>4. \/ s.event # "none" /\ WaitForResume(r, o, s, new)
      \/ Schedule(r, o, s, new)
  BY Zenon DEF BeforeRequest
<1> HIDE DEF s, new
<1>5. CASE WaitForResume(r, o, s, new)
  <2>1. prog' \in [Objects -> ProgramType]
    BY <1>2, <1>5 DEF WaitForResume, TypeOK, ProgramType
  <2>2. req' \in [Requests -> RequestType]
    BY <1>3, <1>5, RequestUpdates DEF WaitForResume
  <2> QED
    BY <1>5, <2>1, <2>2 DEF WaitForResume, TypeOK, FlowTypes
<1>6. CASE Schedule(r, o, s, new)
  BY <1>2, <1>3, <1>6, ScheduleTypes
<1> QED
  BY <1>4, <1>5, <1>6

\* A request in progress works on some program object.
HasObject == \A r \in Requests : req[r].pc # "idle" => req[r].obj \in Objects

TypeInv == TypeOK /\ HasObject

\* Waking requests changes nothing but where they are.
LEMMA WakeTypes ==
  ASSUME TypeInv, NEW S
  PROVE  /\ Wake(S) \in [Requests -> RequestType]
         /\ \A r \in Requests : Wake(S)[r].pc # "idle" => Wake(S)[r].obj \in Objects
         /\ \A r \in Requests : Wake(S)[r].obj = req[r].obj
BY DEF TypeInv, TypeOK, HasObject, Wake, RequestType

\* Every branch of update_program_before_request ends with the request
\* forwarded or suspended.
Moves(r, o) ==
  \/ Forward(r, o)
  \/ \E w \in {"paused", "woken", "queued"} : \E new : Suspend(r, o, w, new)

LEMMA ScheduleMoves ==
  ASSUME NEW r, NEW o, NEW s, NEW new, Schedule(r, o, s, new)
  PROVE  Moves(r, o)
BY DEF Schedule, AssignNew, QueueNew, KeepBackend, NoValidBackend, Moves

LEMMA BeforeRequestMoves ==
  ASSUME NEW r, NEW o, NEW n, BeforeRequest(r, o, n)
  PROVE  Moves(r, o)
<1> DEFINE was == IF prog[o].state = "UNBORN" THEN NewProgram ELSE prog[o]
           s == [was EXCEPT !.steps = IF @ = 0 THEN 1 ELSE 2, !.tokens = n]
<1>1. WaitForResume(r, o, s, s.steps = 1) \/ Schedule(r, o, s, s.steps = 1)
  BY Zenon DEF BeforeRequest
<1> HIDE DEF s
<1>2. WaitForResume(r, o, s, s.steps = 1) => Moves(r, o)
  BY DEF WaitForResume, Moves
<1> QED
  BY <1>1, <1>2, ScheduleMoves

\* A request that moves works on o; the others stay as they are.
LEMMA MovesEffect ==
  ASSUME TypeOK, NEW r \in Requests, NEW o, Moves(r, o)
  PROVE  /\ req'[r].obj = o
         /\ req'[r].pc \in {"inflight", "paused", "woken", "queued"}
         /\ \A q \in Requests : q # r => req'[q] = req[q]
<1>1. CASE Forward(r, o)
  BY <1>1 DEF Forward, TypeOK
<1>2. ASSUME NEW w \in {"paused", "woken", "queued"}, NEW new, Suspend(r, o, w, new)
      PROVE  /\ req'[r].obj = o
             /\ req'[r].pc \in {"inflight", "paused", "woken", "queued"}
             /\ \A q \in Requests : q # r => req'[q] = req[q]
  BY <1>2 DEF Suspend, TypeOK
<1> QED
  BY <1>1, <1>2 DEF Moves

LEMMA MovesKeepsObjects ==
  ASSUME TypeInv, NEW r \in Requests, NEW o \in Objects, Moves(r, o)
  PROVE  HasObject'
BY MovesEffect DEF TypeInv, HasObject

\* Unregistering and resuming keep the backends' _programs well-formed.
LEMMA RegistryTypes ==
  ASSUME TypeOK
  PROVE  /\ \A S : Unregister(S) \in [Backends -> [Pids -> Objects \cup {None}]]
         /\ \A b \in Backends, o \in Objects :
              Register(b, o) \in [Backends -> [Pids -> Objects \cup {None}]]
         /\ \A b \in Backends, n \in Nat : Deduct(b, n) \in [Backends -> Nat]
<1>1. \A S : Unregister(S) \in [Backends -> [Pids -> Objects \cup {None}]]
  BY DEF TypeOK, Unregister
<1>2. \A b \in Backends, o \in Objects :
        Register(b, o) \in [Backends -> [Pids -> Objects \cup {None}]]
  BY RouterAssumption DEF TypeOK, Register
<1>3. ASSUME NEW b \in Backends, NEW n \in Nat
      PROVE  Deduct(b, n) \in [Backends -> Nat]
  <2>1. (IF future[b] >= n THEN future[b] - n ELSE 0) \in Nat
    BY DEF TypeOK
  <2> QED
    BY <2>1 DEF TypeOK, Deduct
<1> QED
  BY <1>1, <1>2, <1>3

\* _greedy_resume resumes programs to backends.
LEMMA PlanTypes ==
  ASSUME TypeOK, NEW acting, NEW at \in ResumePlans(acting)
  PROVE  /\ at \in [Candidates -> Backends \cup {None}]
         /\ Candidates \subseteq Objects
         /\ \A o \in Candidates : IdOf[o] \in Pids /\ \E p \in queue : programs[p] = o
<1>1. Candidates \subseteq Objects /\ \A o \in Candidates : \E p \in queue : programs[p] = o
  BY DEF TypeOK, Candidates
<1>2. at \in [Candidates -> Backends \cup {None}]
  BY DEF ResumePlans, TypeOK
<1> QED
  BY <1>1, <1>2, RouterAssumption

\* _greedy_resume's selected programs get well-formed records.
LEMMA ResumeAtTypes ==
  ASSUME TypeInv, NEW S \in SUBSET Objects, NEW at, \A o \in S : at[o] \in Backends,
         ResumeAt(S, at)
  PROVE  /\ prog' \in [Objects -> ProgramType]
         /\ reg' \in [Backends -> [Pids -> Objects \cup {None}]]
         /\ req' \in [Requests -> RequestType]
         /\ HasObject'
<1>1. prog' \in [Objects -> ProgramType]
  BY RecordTypes DEF ResumeAt, TypeInv, TypeOK
<1>2. reg' \in [Backends -> [Pids -> Objects \cup {None}]]
  BY DEF ResumeAt, TypeInv, TypeOK
<1>3. req' \in [Requests -> RequestType] /\ HasObject'
  BY WakeTypes DEF ResumeAt, HasObject
<1> QED
  BY <1>1, <1>2, <1>3

\* The choice of backend for a new program.
LEMMA LeastLoadedTypes == TypeOK => LeastLoaded \subseteq Backends
BY RouterAssumption DEF TypeOK, LeastLoaded

\* Moving a request on keeps it well-formed.
LEMMA MoveOn ==
  ASSUME NEW f \in [Requests -> RequestType], NEW r \in Requests,
         NEW w \in {"woken", "admitted"}
  PROVE  /\ [f EXCEPT ![r].pc = w] \in [Requests -> RequestType]
         /\ [f EXCEPT ![r].pc = w][r].pc = w
         /\ \A q \in Requests : [f EXCEPT ![r].pc = w][q].obj = f[q].obj
         /\ \A q \in Requests : q # r => [f EXCEPT ![r].pc = w][q] = f[q]
<1>1. [f[r] EXCEPT !.pc = w] \in RequestType
  BY DEF RequestType
<1>2. [f[r] EXCEPT !.pc = w].pc = w /\ [f[r] EXCEPT !.pc = w].obj = f[r].obj
  BY DEF RequestType
<1> QED
  BY <1>1, <1>2

\* The object a chat request gets is one of the program's own.
LEMMA ObjectForTypes ==
  ASSUME TypeOK, NEW p \in Pids, NEW o \in ObjectFor(p)
  PROVE  /\ o \in Objects
         /\ [programs EXCEPT ![p] = o] \in [Pids -> Objects \cup {None}]
BY DEF TypeOK, ObjectFor

\* A step of a request keeps the types.
LEMMA RequestStepTypes ==
  ASSUME TypeInv, NEW r \in Requests, RequestStep(r)
  PROVE  TypeInv'
<1> USE DEF TypeInv
<1>1. ASSUME NEW p \in Pids, NEW o \in Objects, NEW n \in Estimates, Arrive(r, p, o, n)
      PROVE  TypeInv'
  <2>1. programs' \in [Pids -> Objects \cup {None}]
    BY <1>1, ObjectForTypes DEF Arrive
  <2>2. n \in Nat
    BY RouterAssumption
  <2>3. FlowTypes
    BY <1>1, <2>1, <2>2, BeforeRequestTypes DEF Arrive
  <2>4. HasObject'
    BY <1>1, BeforeRequestMoves, MovesKeepsObjects DEF Arrive
  <2> QED
    BY <1>1, <2>1, <2>3, <2>4 DEF Arrive, FlowTypes, TypeOK
<1>2. ASSUME NEW p \in Pids, NEW o \in Objects, ArriveAtGate(r, p, o)
      PROVE  TypeInv'
  <2>1. programs' \in [Pids -> Objects \cup {None}]
    BY <1>2, ObjectForTypes DEF ArriveAtGate
  <2>2. prog' \in [Objects -> ProgramType]
    BY <1>2, RecordTypes DEF ArriveAtGate, TypeOK
  <2>3. req' \in [Requests -> RequestType]
    BY <1>2, RequestUpdates DEF ArriveAtGate
  <2>4. HasObject'
    BY <1>2 DEF ArriveAtGate, Suspend, HasObject, TypeOK
  <2> QED
    BY <1>2, <2>1, <2>2, <2>3, <2>4 DEF ArriveAtGate, TypeOK
<1>3. ASSUME NEW n \in Estimates, PassGate(r, n)
      PROVE  TypeInv'
  <2>1. req[r].obj \in Objects /\ n \in Nat
    BY <1>3, RouterAssumption DEF PassGate, HasObject
  <2>2. programs' \in [Pids -> Objects \cup {None}]
    BY <1>3 DEF PassGate, TypeOK
  <2>3. FlowTypes
    BY <1>3, <2>1, <2>2, BeforeRequestTypes DEF PassGate
  <2>4. HasObject'
    BY <1>3, <2>1, BeforeRequestMoves, MovesKeepsObjects DEF PassGate
  <2> QED
    BY <1>3, <2>2, <2>3, <2>4 DEF PassGate, FlowTypes, TypeOK
<1>4. CASE GoOnAfterPause(r)
  <2>1. req[r].obj \in Objects /\ req[r].new \in BOOLEAN
    BY <1>4 DEF GoOnAfterPause, HasObject, TypeOK, RequestType
  <2>2. programs' \in [Pids -> Objects \cup {None}] /\ prog[req[r].obj] \in ProgramType
    BY <1>4, <2>1 DEF GoOnAfterPause, TypeOK
  <2>3. FlowTypes
    BY <1>4, <2>1, <2>2, ScheduleTypes DEF GoOnAfterPause
  <2>4. HasObject'
    BY <1>4, <2>1, ScheduleMoves, MovesKeepsObjects DEF GoOnAfterPause
  <2> QED
    BY <1>4, <2>2, <2>3, <2>4 DEF GoOnAfterPause, FlowTypes, TypeOK
<1>5. CASE GoOnAfterQueue(r)
  <2>1. req[r].obj \in Objects
    BY <1>5 DEF GoOnAfterQueue, HasObject
  <2>2. programs' \in [Pids -> Objects \cup {None}] /\ prog' \in [Objects -> ProgramType]
    BY <1>5 DEF GoOnAfterQueue, TypeOK
  <2>3. req' \in [Requests -> RequestType]
    BY <1>5, <2>1, <2>2, RequestUpdates DEF GoOnAfterQueue
  <2>4. HasObject'
    BY <1>5, <2>1, MovesKeepsObjects DEF GoOnAfterQueue, Moves
  <2> QED
    BY <1>5, <2>2, <2>3, <2>4 DEF GoOnAfterQueue, TypeOK
<1>6. CASE StreamProgress(r)
  <2>1. req[r].obj \in Objects
    BY <1>6 DEF StreamProgress, HasObject
  <2>2. prog[req[r].obj] \in ProgramType
    BY <2>1 DEF TypeOK
  <2>3. prog[req[r].obj].tokens + 1 \in Nat
    BY <2>2 DEF ProgramType
  <2>4. [prog[req[r].obj] EXCEPT !.tokens = prog[req[r].obj].tokens + 1] \in ProgramType
    BY <2>2, <2>3 DEF ProgramType
  <2>5. prog' \in [Objects -> ProgramType]
    BY <1>6, <2>1, <2>4 DEF StreamProgress, TypeOK
  <2> QED
    BY <1>6, <2>5 DEF StreamProgress, TypeOK, HasObject
<1>7. ASSUME NEW n \in Usages, Finish(r, n)
      PROVE  TypeInv'
  <2> DEFINE o == req[r].obj
             s == [prog[o] EXCEPT !.status = "ACTING", !.tokens = n]
             t == [s EXCEPT !.marked = FALSE]
  <2>1. o \in Objects /\ n \in Nat /\ prog[o] \in ProgramType
    BY <1>7, RouterAssumption DEF Finish, HasObject, TypeOK
  <2>2. s \in ProgramType
    BY <2>1 DEF ProgramType
  <2>3. t \in ProgramType
    BY <2>2 DEF ProgramType
  <2>4. Paused(t) \in ProgramType
    BY <2>3, RecordTypes
  <2>5. prog' \in [Objects -> ProgramType]
    BY <1>7, <2>1, <2>2, <2>4 DEF Finish, TypeOK
  <2>6. req' \in [Requests -> RequestType] /\ HasObject'
    BY <1>7, RecordTypes DEF Finish, TypeOK, HasObject, NoRequest
  <2>7. s.url # None => s.url \in Backends
    BY <2>2 DEF ProgramType
  <2>8. reg' \in [Backends -> [Pids -> Objects \cup {None}]]
    BY <1>7, RegistryTypes DEF Finish, TypeOK
  <2>9. future' \in [Backends -> Nat]
    BY <1>7, <2>1, <2>7, RegistryTypes DEF Finish, TypeOK
  <2>10. queue' \subseteq Pids
    BY <1>7, <2>1, RouterAssumption DEF Finish, TypeOK
  <2> QED
    BY <1>7, <2>5, <2>6, <2>8, <2>9, <2>10 DEF Finish, TypeOK
<1>8. CASE FinishWithoutUsage(r)
  BY <1>8, RecordTypes DEF FinishWithoutUsage, TypeOK, HasObject, NoRequest
<1>9. CASE ForceResume(r)
  <2> DEFINE c == programs[IdOf[req[r].obj]]
  <2>1. PICK b \in Backends : /\ prog' = [prog EXCEPT ![c] = Resumed(@, b)]
                             /\ reg' = Register(b, c)
                             /\ req' = [Wake({c}) EXCEPT ![r].pc =
                                          IF req[r].pc = "paused" THEN "woken" ELSE "admitted"]
    <3>1. c # None /\ IdOf[req[r].obj] \in queue
      BY <1>9 DEF ForceResume
    <3>2. c \in Objects
      BY <3>1 DEF TypeOK
    <3>3. \A x \in (IF prog[c].origin = None THEN LeastLoaded ELSE {prog[c].origin}) : x \in Backends
      <4>1. prog[c].origin \in Backends \cup {None}
        BY <3>2 DEF TypeOK, ProgramType
      <4> QED
        BY <4>1, LeastLoadedTypes
    <3> QED
      BY <1>9, <3>3 DEF ForceResume
  <2>2. c \in Objects
    BY <1>9 DEF ForceResume, TypeOK
  <2>3. prog' \in [Objects -> ProgramType]
    BY <2>1, <2>2, RecordTypes DEF TypeOK
  <2>4. reg' \in [Backends -> [Pids -> Objects \cup {None}]]
    BY <2>1, <2>2, RegistryTypes
  <2>5. Wake({c}) \in [Requests -> RequestType] /\ \A q \in Requests : Wake({c})[q].obj = req[q].obj
                                                /\ (Wake({c})[q].pc # "idle" => req[q].obj \in Objects)
    BY WakeTypes
  <2>6. PICK w \in {"woken", "admitted"} : req' = [Wake({c}) EXCEPT ![r].pc = w]
    <3>1. CASE req[r].pc = "paused"
      BY <2>1, <3>1
    <3>2. CASE req[r].pc # "paused"
      BY <2>1, <3>2
    <3> QED
      BY <3>1, <3>2
  <2>7. req' \in [Requests -> RequestType]
    BY <2>5, <2>6, MoveOn
  <2>8. HasObject'
    <3>1. req[r].obj \in Objects
      BY <1>9 DEF ForceResume, Waiting, HasObject
    <3>2. \A q \in Requests : req'[q].obj = req[q].obj /\ (q # r => req'[q].pc = Wake({c})[q].pc)
      <4> DEFINE f == Wake({c})
      <4>1. /\ f \in [Requests -> RequestType]
            /\ \A q \in Requests : f[q].obj = req[q].obj
            /\ req' = [f EXCEPT ![r].pc = w]
        BY <2>5, <2>6
      <4> HIDE DEF f
      <4>2. \A q \in Requests : req'[q].obj = f[q].obj /\ (q # r => req'[q] = f[q])
        BY <4>1, MoveOn
      <4> QED
        BY <4>1, <4>2 DEF f
    <3> QED
      BY <2>5, <3>1, <3>2 DEF HasObject
  <2> QED
    BY <1>9, <2>3, <2>4, <2>7, <2>8 DEF ForceResume, TypeOK
<1>10. CASE ClaimNothing(r)
  <2>1. PICK w \in {"woken", "admitted"} : req' = [req EXCEPT ![r].pc = w]
    BY <1>10 DEF ClaimNothing
  <2>2. req' \in [Requests -> RequestType]
    BY <2>1, MoveOn DEF TypeOK
  <2>3. HasObject'
    BY <1>10, <2>1, MoveOn DEF ClaimNothing, Waiting, TypeOK, HasObject
  <2> QED
    BY <1>10, <2>2, <2>3 DEF ClaimNothing, TypeOK
<1> QED
  BY <1>1, <1>2, <1>3, <1>4, <1>5, <1>6, <1>7, <1>8, <1>9, <1>10 DEF RequestStep

\* What _pause_until_safe does to the programs: some ACTING ones (S) are paused
\* and some REASONING ones (marks) are marked, all of them live and resident.
Live == {programs[p] : p \in Pids} \ {None}

PauseStep(S, marks) ==
  /\ S \subseteq {o \in Live : prog[o].url \in Configured /\ prog[o].status = "ACTING"}
  /\ marks \subseteq {o \in Live : prog[o].url \in Configured /\ prog[o].status = "REASONING"}
  /\ prog' = [o \in Objects |->
       IF o \in S THEN Paused(prog[o])
       ELSE IF o \in marks THEN Marked(prog[o])
       ELSE prog[o]]
  /\ reg' = Unregister(S)
  /\ queue' = queue \cup {IdOf[o] : o \in S}

LEMMA TickPauseEffect ==
  ASSUME TickPause
  PROVE  /\ \E S, marks : PauseStep(S, marks)
         /\ future' = [b \in Backends |-> future'[b]]
<1> DEFINE over == {b \in Configured : Remaining(b) < 0}
           on(S, b) == {o \in S : prog[o].url = b}
           marks(S) == UNION {ToMark(b, on(S, b)) : b \in over}
<1>1. PICK S \in SUBSET {o \in Live : prog[o].url \in over} :
        /\ \A b \in over : IsPauseSet(b, on(S, b))
        /\ prog' = [o \in Objects |->
             IF o \in S THEN Paused(prog[o])
             ELSE IF o \in marks(S) THEN Marked(prog[o])
             ELSE prog[o]]
        /\ reg' = Unregister(S)
        /\ queue' = queue \cup {IdOf[o] : o \in S}
        /\ future' = [b \in Backends |->
             future[b] + TokensOf({o \in marks(S) : prog[o].url = b})]
  BY Zenon DEF TickPause, Live
<1>2. ASSUME NEW o \in S
      PROVE  prog[o].url \in over /\ o \in Live /\ prog[o].status = "ACTING"
  <2>1. prog[o].url \in over /\ o \in Live
    BY <1>1
  <2>2. on(S, prog[o].url) \subseteq With(OnBackend(prog[o].url), "ACTING")
    BY <1>1, <2>1 DEF IsPauseSet
  <2>3. o \in on(S, prog[o].url)
    OBVIOUS
  <2> QED
    BY <2>1, <2>2, <2>3 DEF With
<1>3. ASSUME NEW o \in marks(S)
      PROVE  prog[o].url \in over /\ o \in Live /\ prog[o].status = "REASONING"
  <2>1. PICK b \in over : o \in ToMark(b, on(S, b))
    OBVIOUS
  <2>2. o \in With(OnBackend(b), "REASONING")
    BY <2>1 DEF ToMark
  <2> QED
    BY <2>2 DEF With, OnBackend, Live
<1>4. PauseStep(S, marks(S))
  <2>1. over \subseteq Configured
    OBVIOUS
  <2> HIDE DEF over, marks
  <2> QED
    BY <1>1, <1>2, <1>3, <2>1 DEF PauseStep
<1>5. future' = [b \in Backends |-> future'[b]]
  <2> DEFINE g(b) == future[b] + TokensOf({o \in marks(S) : prog[o].url = b})
  <2>1. future' = [b \in Backends |-> g(b)]
    BY <1>1, Zenon
  <2> HIDE DEF g
  <2> QED
    BY <2>1
<1> HIDE DEF marks
<1> QED
  BY <1>4, <1>5

\* Router.TypeOK is preserved by every step.
LEMMA TypeStep == TypeInv /\ [Next]_vars => TypeInv'
<1> SUFFICES ASSUME TypeInv, [Next]_vars
             PROVE  TypeInv'
  OBVIOUS
<1> USE DEF TypeInv
<1>1. ASSUME NEW r \in Requests, RequestStep(r)
      PROVE  TypeInv'
  BY <1>1, RequestStepTypes
<1>2. ASSUME NEW p \in Pids, Release(p)
      PROVE  TypeInv'
  <2> DEFINE o == programs[p]
             s == prog[o]
             m == s.marked /\ ~(s.marked /\ s.url # None)
             e == IF s.state = "PAUSED" /\ s.event # "none" THEN "set" ELSE s.event
  <2>1. o \in Objects /\ s \in ProgramType
    BY <1>2 DEF Release, TypeOK
  <2>2. s.url # None => s.url \in Backends
    BY <2>1 DEF ProgramType
  <2>3. s.tokens \in Nat /\ e \in {"none", "clear", "set"} /\ m \in BOOLEAN
    BY <2>1 DEF ProgramType
  <2>4. prog' = [prog EXCEPT ![o] = [s EXCEPT !.state = "TERMINATED", !.marked = m, !.event = e]]
    BY <1>2, Zenon DEF Release
  <2>5. [s EXCEPT !.state = "TERMINATED", !.marked = m, !.event = e] \in ProgramType
    <3> HIDE DEF s, m, e
    <3> QED
      BY <2>1, <2>3 DEF ProgramType
  <2>6. prog' \in [Objects -> ProgramType]
    BY <2>1, <2>4, <2>5 DEF TypeOK
  <2>7. future' \in [Backends -> Nat]
    BY <1>2, <2>2, <2>3, RegistryTypes DEF Release, TypeOK
  <2>8. req' \in [Requests -> RequestType] /\ HasObject'
    BY <1>2, WakeTypes DEF Release, TypeOK, HasObject
  <2>9. reg' \in [Backends -> [Pids -> Objects \cup {None}]]
    BY <1>2, RegistryTypes DEF Release, TypeOK
  <2>10. queue' \subseteq Pids /\ programs' \in [Pids -> Objects \cup {None}]
    BY <1>2 DEF Release, TypeOK
  <2> QED
    BY <1>2, <2>6, <2>7, <2>8, <2>9, <2>10 DEF Release, TypeOK
<1>3. ASSUME NEW b \in Backends, FetchMetrics(b)
      PROVE  TypeInv'
  BY <1>3 DEF FetchMetrics, TypeOK, HasObject
<1>4. CASE TickStart
  BY <1>4 DEF TickStart, TypeOK, HasObject
<1>5. CASE TickResume
  <2>0. PICK acting \in ActingEstimates : \E at \in ResumePlans(acting) :
          /\ ResumeAt({o \in Candidates : at[o] # None}, at)
          /\ queue' = queue \ {IdOf[o] : o \in {o \in Candidates : at[o] # None}}
    BY <1>5, Zenon DEF TickResume
  <2>1. PICK at \in ResumePlans(acting) :
          /\ ResumeAt({o \in Candidates : at[o] # None}, at)
          /\ queue' = queue \ {IdOf[o] : o \in {o \in Candidates : at[o] # None}}
    BY <2>0, Zenon
  <2> DEFINE S == {o \in Candidates : at[o] # None}
  <2>2. S \in SUBSET Objects /\ \A o \in S : at[o] \in Backends
    BY PlanTypes
  <2> HIDE DEF S
  <2>3. /\ prog' \in [Objects -> ProgramType]
        /\ reg' \in [Backends -> [Pids -> Objects \cup {None}]]
        /\ req' \in [Requests -> RequestType]
        /\ HasObject'
    BY <2>1, <2>2, ResumeAtTypes DEF S
  <2>4. queue' \subseteq Pids
    BY <2>1 DEF TypeOK
  <2> QED
    BY <1>5, <2>3, <2>4 DEF TickResume, TypeOK
<1>6. CASE TickPause
  <2>1. PICK S, marks : PauseStep(S, marks)
    BY <1>6, TickPauseEffect
  <2>2. prog' \in [Objects -> ProgramType]
    <3>1. \A o \in Objects : Marked(prog[o]) \in ProgramType
      BY DEF TypeOK, ProgramType, Marked
    <3> QED
      BY <2>1, <3>1, RecordTypes DEF PauseStep, TypeOK
  <2>3. reg' \in [Backends -> [Pids -> Objects \cup {None}]]
    BY <2>1, RegistryTypes DEF PauseStep
  <2>4. S \subseteq Objects
    BY <2>1 DEF PauseStep, Live, TypeOK
  <2>5. queue' \subseteq Pids
    BY <2>1, <2>4, RouterAssumption DEF PauseStep, TypeOK
  <2>6. future' \in [Backends -> Nat]
    <3>1. \A b \in Backends : future'[b] \in 0..MaxFuture
      BY <1>6, Zenon DEF TickPause
    <3>2. 0..MaxFuture \subseteq Nat
      BY RouterAssumption
    <3> QED
      BY <1>6, <3>1, <3>2, TickPauseEffect
  <2> QED
    BY <1>6, <2>2, <2>3, <2>5, <2>6 DEF TickPause, TypeOK, HasObject
<1>7. CASE SyncBegin
  BY <1>7 DEF SyncBegin, TypeOK, HasObject
<1>8. CASE SyncEnd
  <2>1. req' \in [Requests -> RequestType] /\ HasObject'
    BY <1>8 DEF SyncEnd, TypeOK, HasObject, RequestType
  <2> QED
    BY <1>8, <2>1 DEF SyncEnd, TypeOK
<1>9. CASE UNCHANGED vars
  BY <1>9 DEF vars, TypeOK, HasObject
<1> QED
  BY <1>1, <1>2, <1>3, <1>4, <1>5, <1>6, <1>7, <1>8, <1>9 DEF Next

\* Initially nothing is in progress.
LEMMA TypeInit == Init => TypeInv
<1> SUFFICES ASSUME Init PROVE TypeInv
  OBVIOUS
<1>1. Unborn \in ProgramType
  BY RecordTypes DEF Unborn, ProgramType
<1> QED
  BY <1>1, RecordTypes DEF Init, TypeInv, TypeOK, HasObject, NoRequest

LEMMA TypeInvariance == Spec => []TypeInv
BY TypeInit, TypeStep, PTL DEF Spec

\* The router's data stay well-formed - in particular future_paused_tokens
\* never goes negative and every request that is forwarded has a target - for
\* any programs, requests, backends and capacities.
THEOREM TypeCorrect == Spec => []TypeOK
<1>1. TypeInv => TypeOK
  BY DEF TypeInv
<1> QED
  BY <1>1, TypeInvariance, PTL
=============================================================================
