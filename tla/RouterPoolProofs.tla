-------------------------- MODULE RouterPoolProofs --------------------------
(***************************************************************************)
(* What holds of Router when every program waits for a response before its *)
(* next call and is released only between calls: the waiting queue, the    *)
(* backends' _programs and router.programs describe the same programs, no  *)
(* waiting request is stranded, and a forwarded request runs where its     *)
(* program is accounted for.  PoolInv is inductive relative to LifeInv.    *)
(***************************************************************************)
EXTENDS RouterLifeProofs

\* At most one request per program, and it holds the program's current object.
Alone ==
  \A q, r \in Requests :
    q # r /\ req[q].pc # "idle" /\ req[r].pc # "idle"
      => IdOf[req[q].obj] # IdOf[req[r].obj]

Owned == \A r \in Requests : req[r].pc # "idle" => programs[IdOf[req[r].obj]] = req[r].obj

\* The state of the program at each stage of its request.
Served(q, pr) ==
  /\ q.pc \in {"paused", "queued"} =>
       pr[q.obj].state = "PAUSED" /\ pr[q.obj].status = "REASONING"
  /\ q.pc \in {"woken", "admitted", "inflight"} =>
       pr[q.obj].state = "ACTIVE" /\ pr[q.obj].url # None /\ pr[q.obj].status = "REASONING"
  /\ q.pc = "inflight" => q.target = pr[q.obj].url

AllServed == \A r \in Requests : Served(req[r], prog)

\* The queue and the backends hold nothing but live programs.
QueueExact == \A p \in queue : programs[p] # None /\ prog[programs[p]].state = "PAUSED"

RegExact ==
  \A b \in Backends, o \in Objects :
    reg[b][IdOf[o]] = o <=> /\ programs[IdOf[o]] = o
                            /\ prog[o].state = "ACTIVE"
                            /\ prog[o].url = b

RegOwn == \A b \in Backends, p \in Pids : reg[b][p] # None => IdOf[reg[b][p]] = p

\* An active program has no waiting event, and a backend unless it is new.
Ready(s) == s.state = "ACTIVE" => s.event = "none" /\ (s.url = None => s.steps = 0)

Placed == \A p \in Pids : programs[p] # None => Ready(prog[programs[p]])

PoolInv == Alone /\ Owned /\ AllServed /\ QueueExact /\ RegExact /\ RegOwn /\ Placed

SeqInv == Sequential => PoolInv

\* The three properties of Router this module is about follow.
LEMMA PoolImplies ==
  LifeInv /\ SeqInv => PoolConsistent /\ NoStrandedWaiter /\ InFlightAtHome
<1> SUFFICES ASSUME LifeInv, Sequential, PoolInv
             PROVE  PoolConsistent /\ NoStrandedWaiter /\ InFlightAtHome
  BY DEF SeqInv, PoolConsistent, NoStrandedWaiter, InFlightAtHome
<1>0. TypeOK /\ HasObject
  BY DEF LifeInv, TypeInv
<1>1. PoolConsistent
  <2>1. \A p \in Pids : p \in queue <=> programs[p] # None /\ prog[programs[p]].state = "PAUSED"
    BY DEF PoolInv, QueueExact, LifeInv, GoodPrograms
  <2> QED
    BY <2>1 DEF PoolConsistent, PoolInv, RegExact
<1>2. ASSUME NEW r \in Requests, Waiting(r)
      PROVE  /\ programs[IdOf[req[r].obj]] = req[r].obj
             /\ prog[req[r].obj].event = "clear"
             /\ IdOf[req[r].obj] \in queue
  <2>1. req[r].pc \in {"paused", "queued"}
    BY <1>2 DEF Waiting
  <2>2. /\ req[r].obj \in Objects /\ programs[IdOf[req[r].obj]] = req[r].obj
        /\ prog[req[r].obj].state = "PAUSED"
    BY <1>0, <2>1 DEF HasObject, PoolInv, Owned, AllServed, Served
  <2>3. IdOf[req[r].obj] \in Pids /\ req[r].obj # None
    BY <2>2, RouterAssumption
  <2> QED
    BY <2>2, <2>3 DEF LifeInv, GoodPrograms, GoodRecords, GoodRecord
<1>3. ASSUME NEW r \in Requests, req[r].pc = "inflight"
      PROVE  reg[req[r].target][IdOf[req[r].obj]] = req[r].obj /\ prog[req[r].obj].status = "REASONING"
  <2>1. /\ req[r].obj \in Objects /\ programs[IdOf[req[r].obj]] = req[r].obj
        /\ prog[req[r].obj].state = "ACTIVE" /\ prog[req[r].obj].status = "REASONING"
        /\ prog[req[r].obj].url = req[r].target /\ req[r].target # None
    BY <1>0, <1>3 DEF HasObject, PoolInv, Owned, AllServed, Served
  <2>2. req[r].target \in Backends
    BY <1>0, <2>1 DEF TypeOK, RequestType
  <2> QED
    BY <2>1, <2>2 DEF PoolInv, RegExact
<1> QED
  BY <1>1, <1>2, <1>3 DEF NoStrandedWaiter, InFlightAtHome

LEMMA PoolInit == Init => PoolInv
<1> SUFFICES ASSUME Init PROVE PoolInv
  OBVIOUS
<1>1. Alone /\ Owned /\ AllServed
  BY DEF Init, Alone, Owned, AllServed, Served, NoRequest
<1>2. RegExact
  BY RouterAssumption DEF Init, RegExact
<1>3. QueueExact /\ RegOwn /\ Placed
  BY DEF Init, QueueExact, RegOwn, Placed
<1> QED
  BY <1>1, <1>2, <1>3 DEF PoolInv
-----------------------------------------------------------------------------
(***************************************************************************)
(* A step that concerns one program: its object o, its request r.          *)
(***************************************************************************)
\* No other request is about the program of o.
Excl(r, o) ==
  \A q \in Requests : q # r /\ req[q].pc # "idle" => IdOf[req[q].obj] # IdOf[o]

OnlyObject(o) == \A x \in Objects : x # o => prog'[x] = prog[x]

OnlyProgram(p) == \A x \in Pids : x # p => programs'[x] = programs[x]

LEMMA RequestPart ==
  ASSUME PoolInv, TypeInv, NEW r \in Requests, NEW o \in Objects, Excl(r, o),
         OnlyObject(o), OnlyProgram(IdOf[o]),
         \A q \in Requests : q # r => req'[q] = req[q],
         \/ req'[r].pc = "idle"
         \/ req'[r].obj = o /\ programs'[IdOf[o]] = o,
         Served(req'[r], prog')
  PROVE  Alone' /\ Owned' /\ AllServed'
<1>1. ASSUME NEW q \in Requests, q # r, req[q].pc # "idle"
      PROVE  /\ req[q].obj \in Objects /\ IdOf[req[q].obj] \in Pids
             /\ IdOf[req[q].obj] # IdOf[o] /\ req[q].obj # o
  BY <1>1, RouterAssumption DEF TypeInv, HasObject, Excl
<1>2. Alone'
  <2> SUFFICES ASSUME NEW q \in Requests, NEW u \in Requests, q # u,
                      req'[q].pc # "idle", req'[u].pc # "idle"
               PROVE  IdOf[req'[q].obj] # IdOf[req'[u].obj]
    BY DEF Alone
  <2> QED
    BY <1>1 DEF PoolInv, Alone
<1>3. Owned'
  BY <1>1 DEF PoolInv, Owned, OnlyProgram
<1>4. AllServed'
  <2> SUFFICES ASSUME NEW q \in Requests PROVE Served(req'[q], prog')
    BY DEF AllServed
  <2>1. CASE q # r
    BY <1>1, <2>1 DEF PoolInv, AllServed, Served, OnlyObject
  <2> QED
    BY <2>1
<1> QED
  BY <1>2, <1>3, <1>4

\* Where the program of o is registered before the step.
LEMMA RegBefore ==
  ASSUME PoolInv, TypeInv, NEW o \in Objects, programs[IdOf[o]] \in {o, None}
  PROVE  \A b \in Backends :
           /\ reg[b][IdOf[o]] \in {o, None}
           /\ reg[b][IdOf[o]] = o <=> programs[IdOf[o]] = o /\ prog[o].state = "ACTIVE"
                                       /\ prog[o].url = b
<1> SUFFICES ASSUME NEW b \in Backends
             PROVE  /\ reg[b][IdOf[o]] \in {o, None}
                    /\ reg[b][IdOf[o]] = o <=> programs[IdOf[o]] = o /\ prog[o].state = "ACTIVE"
                                                /\ prog[o].url = b
  OBVIOUS
<1>1. IdOf[o] \in Pids
  BY RouterAssumption
<1>2. reg[b][IdOf[o]] \in Objects \cup {None}
  BY <1>1 DEF TypeInv, TypeOK
<1>3. ASSUME reg[b][IdOf[o]] \in Objects
      PROVE  reg[b][IdOf[o]] = o
  <2> DEFINE x == reg[b][IdOf[o]]
  <2>1. IdOf[x] = IdOf[o] /\ x # None
    BY <1>1, <1>3, RouterAssumption DEF PoolInv, RegOwn
  <2>2. programs[IdOf[x]] = x
    BY <1>3, <2>1 DEF PoolInv, RegExact
  <2> QED
    BY <2>1, <2>2
<1> QED
  BY <1>2, <1>3 DEF PoolInv, RegExact

LEMMA ProgramPart ==
  ASSUME PoolInv, TypeInv, NEW o \in Objects, programs'[IdOf[o]] = o,
         OnlyObject(o), OnlyProgram(IdOf[o]),
         \A x \in queue' : x \in queue \/ x = IdOf[o],
         IdOf[o] \in queue' => prog'[o].state = "PAUSED",
         \A b \in Backends, x \in Pids : x # IdOf[o] => reg'[b][x] = reg[b][x],
         \A b \in Backends : /\ reg'[b][IdOf[o]] \in {o, None}
                             /\ reg'[b][IdOf[o]] = o
                                  <=> prog'[o].state = "ACTIVE" /\ prog'[o].url = b,
         Ready(prog'[o]), \A p \in Pids : programs[p] # None => IdOf[programs[p]] = p
  PROVE  QueueExact' /\ RegExact' /\ RegOwn' /\ Placed'
<1> DEFINE p == IdOf[o]
<1>0. p \in Pids /\ o # None
  BY RouterAssumption
<1>1. ASSUME NEW x \in Pids, x # p, programs[x] # None
      PROVE  programs[x] # o /\ programs[x] \in Objects /\ prog'[programs[x]] = prog[programs[x]]
  BY <1>1 DEF TypeInv, TypeOK, OnlyObject
<1>2. QueueExact'
  <2> SUFFICES ASSUME NEW x \in queue'
               PROVE  programs'[x] # None /\ prog'[programs'[x]].state = "PAUSED"
    BY DEF QueueExact
  <2>1. CASE x = p
    BY <1>0, <2>1
  <2>2. CASE x # p
    BY <1>1, <2>2 DEF PoolInv, QueueExact, TypeInv, TypeOK, OnlyProgram
  <2> QED
    BY <2>1, <2>2
<1>3. RegExact'
  <2> SUFFICES ASSUME NEW b \in Backends, NEW x \in Objects
               PROVE  reg'[b][IdOf[x]] = x <=> /\ programs'[IdOf[x]] = x
                                               /\ prog'[x].state = "ACTIVE"
                                               /\ prog'[x].url = b
    BY DEF RegExact
  <2>1. IdOf[x] \in Pids /\ x # None
    BY RouterAssumption
  <2>2. CASE x = o
    BY <2>2
  <2>3. CASE x # o /\ IdOf[x] = p
    BY <2>1, <2>3
  <2>4. CASE x # o /\ IdOf[x] # p
    BY <2>1, <2>4 DEF OnlyObject, OnlyProgram, PoolInv, RegExact
  <2> QED
    BY <2>2, <2>3, <2>4
<1>4. RegOwn'
  BY DEF PoolInv, RegOwn
<1>5. Placed'
  <2> SUFFICES ASSUME NEW x \in Pids, programs'[x] # None
               PROVE  Ready(prog'[programs'[x]])
    BY DEF Placed
  <2>1. CASE x = p
    BY <2>1
  <2>2. CASE x # p
    BY <1>1, <2>2 DEF PoolInv, Placed, OnlyProgram
  <2> QED
    BY <2>1, <2>2
<1> QED
  BY <1>2, <1>3, <1>4, <1>5

\* A request is forwarded to the backend of its program.
LEMMA ForwardServed ==
  ASSUME TypeOK, NEW r \in Requests, NEW o \in Objects, Forward(r, o),
         programs'[IdOf[o]] = o, prog'[o].state = "ACTIVE", prog'[o].url # None,
         prog'[o].status = "REASONING"
  PROVE  /\ Served(req'[r], prog') /\ req'[r].obj = o
         /\ \A q \in Requests : q # r => req'[q] = req[q]
<1>1. o # None
  BY RouterAssumption
<1>2. BackendFor(programs', prog', IdOf[o]) = prog'[o].url
  BY <1>1 DEF BackendFor
<1>3. /\ req'[r] = [pc |-> "inflight", obj |-> o, new |-> FALSE, target |-> prog'[o].url]
      /\ \A q \in Requests : q # r => req'[q] = req[q]
  BY <1>2 DEF Forward, TypeOK
<1> QED
  BY <1>3 DEF Served

\* update_program_before_request behind the gate: a live or new program is
\* assigned, queued, kept on its backend or waited for; the branch without a
\* valid backend is not reached.
LEMMA BeforeRequestPool ==
  ASSUME Sequential, LifeInv, PoolInv, NEW r \in Requests, NEW o \in Objects, NEW n \in Nat,
         Excl(r, o), OnlyProgram(IdOf[o]), programs'[IdOf[o]] = o,
         \/ programs[IdOf[o]] = o
         \/ programs[IdOf[o]] = None /\ prog[o].state = "UNBORN",
         BeforeRequest(r, o, n)
  PROVE  PoolInv'
<1> DEFINE p == IdOf[o]
           was == IF prog[o].state = "UNBORN" THEN NewProgram ELSE prog[o]
           s == [was EXCEPT !.steps = IF @ = 0 THEN 1 ELSE 2, !.tokens = n]
           new == s.steps = 1
<1>0. TypeInv /\ TypeOK /\ p \in Pids /\ o # None
  BY RouterAssumption DEF LifeInv, TypeInv
<1>1. /\ Begun(o, s) /\ (new => s.event = "none" /\ s.state # "PAUSED")
      /\ prog[o].steps = 0 => s.steps = 1
  BY CountingBegins, Zenon
<1>2. \/ s.event # "none" /\ WaitForResume(r, o, s, new)
      \/ s.event = "none" /\ Schedule(r, o, s, new)
  BY Zenon DEF BeforeRequest
<1> HIDE DEF s
<1>3. /\ s.state \in {"ACTIVE", "PAUSED"}
      /\ s.state = "ACTIVE" => s.event = "none" /\ (s.url = None => new)
      /\ s.state = "PAUSED" => s.event = "clear" /\ s.url = None
                                /\ programs[p] = o /\ prog[o].state = "PAUSED"
  <2>1. GoodRecord(prog[o])
    BY DEF LifeInv, GoodRecords
  <2>2. CASE programs[p] = o
    BY <1>0, <1>1, <2>1, <2>2
       DEF Begun, GoodRecord, LifeInv, GoodPrograms, PoolInv, Placed, Ready
  <2>3. CASE programs[p] = None /\ prog[o].state = "UNBORN"
    BY <1>1, <2>1, <2>3 DEF Begun, GoodRecord
  <2> QED
    BY <2>2, <2>3
<1>4. /\ \A b \in Backends : reg[b][p] \in {o, None}
      /\ \A b \in Backends : reg[b][p] = o <=> programs[p] = o /\ prog[o].state = "ACTIVE"
                                               /\ prog[o].url = b
  BY <1>0, RegBefore
<1>5. \A x \in Pids : programs[x] # None => IdOf[programs[x]] = x
  BY DEF LifeInv, GoodPrograms
<1>6. p \in queue => programs[p] = o /\ prog[o].state = "PAUSED"
  BY <1>0 DEF PoolInv, QueueExact
<1>a. ASSUME NEW t, prog' = [prog EXCEPT ![o] = t]
      PROVE  prog'[o] = t /\ OnlyObject(o)
  BY <1>0, <1>a DEF TypeOK, OnlyObject
<1> DEFINE Goal == PoolInv'
<1>7. ASSUME new, s.url = None, NEW b \in SelectBackend(s.tokens), AssignNew(r, o, s, b)
      PROVE  Goal
  <2> DEFINE t == [s EXCEPT !.url = b, !.status = "REASONING"]
  <2>1. b \in Backends /\ b # None
    BY <1>0, <1>7, RouterAssumption DEF SelectBackend, TypeOK
  <2>2. /\ t.url = b /\ t.status = "REASONING" /\ t.state = s.state /\ t.event = s.event
    BY <1>1, <2>1 DEF Begun, ProgramType
  <2>3. prog' = [prog EXCEPT ![o] = t] /\ reg' = Register(b, o) /\ Forward(r, o) /\ queue' = queue
    BY <1>7 DEF AssignNew
  <2> HIDE DEF t
  <2>4. prog'[o] = t /\ OnlyObject(o)
    BY <1>a, <2>3
  <2>5. t.state = "ACTIVE" /\ t.event = "none"
    BY <1>1, <1>3, <1>7, <2>2
  <2>6. /\ Served(req'[r], prog') /\ req'[r].obj = o
        /\ \A q \in Requests : q # r => req'[q] = req[q]
    BY <1>0, <2>1, <2>2, <2>3, <2>4, <2>5, ForwardServed
  <2>7. Alone' /\ Owned' /\ AllServed'
    BY <1>0, <2>4, <2>6, RequestPart
  <2>8. \A c \in Backends, x \in Pids : x # p => reg'[c][x] = reg[c][x]
    BY <1>0, <2>3 DEF TypeOK, Register
  <2>9. \A c \in Backends : c # b => reg'[c][p] = reg[c][p]
    BY <1>0, <2>3 DEF TypeOK, Register
  <2>10. reg'[b][p] = o
    BY <1>0, <2>1, <2>3 DEF TypeOK, Register
  <2>11. s.url = prog[o].url
    BY <1>1 DEF Begun
  <2>12. \A c \in Backends : /\ reg'[c][p] \in {o, None}
                             /\ reg'[c][p] = o <=> t.state = "ACTIVE" /\ t.url = c
    BY <1>4, <1>7, <2>2, <2>5, <2>9, <2>10, <2>11, RouterAssumption
  <2>13. Ready(t)
    BY <2>1, <2>2, <2>5 DEF Ready
  <2>14. p \notin queue
    BY <1>1, <1>3, <1>6, <1>7, <2>2, <2>5 DEF Begun
  <2>15. QueueExact' /\ RegExact' /\ RegOwn' /\ Placed'
    BY <1>0, <1>5, <2>3, <2>4, <2>8, <2>12, <2>13, <2>14, ProgramPart
  <2> QED
    BY <2>7, <2>15 DEF PoolInv
<1>8. ASSUME new, s.url = None, QueueNew(r, o, s)
      PROVE  Goal
  <2> DEFINE t == [s EXCEPT !.status = "REASONING", !.event = "clear", !.state = "PAUSED"]
  <2>1. t.state = "PAUSED" /\ t.status = "REASONING"
    BY <1>1 DEF Begun, ProgramType
  <2>2. /\ prog' = [prog EXCEPT ![o] = t] /\ reg' = reg
        /\ Suspend(r, o, "queued", TRUE) /\ queue' = queue \cup {p}
    BY <1>8 DEF QueueNew
  <2> HIDE DEF t
  <2>3. prog'[o] = t /\ OnlyObject(o)
    BY <1>a, <2>2
  <2>4. /\ Served(req'[r], prog') /\ req'[r].obj = o
        /\ \A q \in Requests : q # r => req'[q] = req[q]
    BY <1>0, <2>1, <2>2, <2>3 DEF Suspend, TypeOK, Served
  <2>5. Alone' /\ Owned' /\ AllServed'
    BY <1>0, <2>3, <2>4, RequestPart
  <2>6. \A c \in Backends : reg[c][p] \in {o, None} /\ reg[c][p] # o
    BY <1>1, <1>4, <1>8, RouterAssumption DEF Begun
  <2>7. Ready(t)
    BY <2>1 DEF Ready
  <2>8. QueueExact' /\ RegExact' /\ RegOwn' /\ Placed'
    BY <1>0, <1>5, <2>1, <2>2, <2>3, <2>6, <2>7, ProgramPart
  <2> QED
    BY <2>5, <2>8 DEF PoolInv
<1>9. ASSUME s.event = "none", s.url # None, KeepBackend(r, o, s)
      PROVE  Goal
  <2> DEFINE t == [s EXCEPT !.status = "REASONING"]
  <2>1. t.state = s.state /\ t.status = "REASONING" /\ t.url = s.url /\ t.event = s.event
    BY <1>1 DEF Begun, ProgramType
  <2>2. prog' = [prog EXCEPT ![o] = t] /\ reg' = reg /\ Forward(r, o) /\ queue' = queue
    BY <1>9 DEF KeepBackend
  <2> HIDE DEF t
  <2>3. prog'[o] = t /\ OnlyObject(o)
    BY <1>a, <2>2
  <2>4. s.state = "ACTIVE"
    BY <1>3, <1>9
  <2>5. /\ Served(req'[r], prog') /\ req'[r].obj = o
        /\ \A q \in Requests : q # r => req'[q] = req[q]
    BY <1>0, <1>9, <2>1, <2>2, <2>3, <2>4, ForwardServed
  <2>6. Alone' /\ Owned' /\ AllServed'
    BY <1>0, <2>3, <2>5, RequestPart
  <2>7. programs[p] = o /\ prog[o].state = "ACTIVE" /\ prog[o].url = s.url
    BY <1>1, <1>9, <2>4 DEF Begun, LifeInv, GoodRecords, GoodRecord
  <2>8. Ready(t) /\ p \notin queue
    BY <1>6, <1>9, <2>1, <2>7 DEF Ready
  <2>9. QueueExact' /\ RegExact' /\ RegOwn' /\ Placed'
    BY <1>0, <1>4, <1>5, <2>1, <2>2, <2>3, <2>4, <2>7, <2>8, ProgramPart
  <2> QED
    BY <2>6, <2>9 DEF PoolInv
<1>10. ASSUME s.event # "none", WaitForResume(r, o, s, new)
      PROVE  Goal
  <2> DEFINE t == [s EXCEPT !.status = "REASONING"]
  <2>1. t.state = s.state /\ t.status = "REASONING" /\ t.url = s.url /\ t.event = s.event
    BY <1>1 DEF Begun, ProgramType
  <2>2. s.state = "PAUSED" /\ s.event = "clear" /\ prog[o].state = "PAUSED" /\ s.url = None
    BY <1>3, <1>10
  <2>3. /\ prog' = [prog EXCEPT ![o] = t] /\ reg' = reg /\ queue' = queue
        /\ Suspend(r, o, "paused", new)
    BY <1>10, <2>2 DEF WaitForResume
  <2> HIDE DEF t
  <2>4. prog'[o] = t /\ OnlyObject(o)
    BY <1>a, <2>3
  <2>5. /\ Served(req'[r], prog') /\ req'[r].obj = o
        /\ \A q \in Requests : q # r => req'[q] = req[q]
    BY <1>0, <2>1, <2>2, <2>3, <2>4 DEF Suspend, TypeOK, Served
  <2>6. Alone' /\ Owned' /\ AllServed'
    BY <1>0, <2>4, <2>5, RequestPart
  <2>7. Ready(t)
    BY <2>1, <2>2 DEF Ready
  <2>8. QueueExact' /\ RegExact' /\ RegOwn' /\ Placed'
    BY <1>0, <1>4, <1>5, <2>1, <2>2, <2>3, <2>4, <2>7, ProgramPart
  <2> QED
    BY <2>6, <2>8 DEF PoolInv
<1> QED
  <2>1. CASE s.event # "none" /\ WaitForResume(r, o, s, new)
    BY <1>10, <2>1
  <2>2. CASE s.event = "none" /\ Schedule(r, o, s, new)
    <3>1. s.state = "ACTIVE" /\ (s.url = None => new)
      BY <1>3, <2>2
    <3> HIDE DEF new
    <3> QED
      BY <1>7, <1>8, <1>9, <2>2, <3>1 DEF Schedule
  <2> QED
    BY <1>2, <2>1, <2>2

\* A change of o's record that keeps state, backend and event, with the request
\* moving as the caller says.
LEMMA TouchPool ==
  ASSUME LifeInv, PoolInv, NEW r \in Requests, NEW o \in Objects,
         programs[IdOf[o]] = o, programs' = programs, reg' = reg, queue' = queue,
         OnlyObject(o), prog'[o].state = prog[o].state, prog'[o].url = prog[o].url,
         prog'[o].event = prog[o].event, prog'[o].steps = prog[o].steps
  PROVE  QueueExact' /\ RegExact' /\ RegOwn' /\ Placed'
<1>0. TypeInv /\ TypeOK /\ IdOf[o] \in Pids /\ o # None
  BY RouterAssumption DEF LifeInv, TypeInv
<1>1. \A x \in Pids : programs[x] # None => IdOf[programs[x]] = x
  BY DEF LifeInv, GoodPrograms
<1>2. IdOf[o] \in queue => prog[o].state = "PAUSED"
  BY DEF PoolInv, QueueExact
<1>3. \A b \in Backends :
         /\ reg[b][IdOf[o]] \in {o, None}
         /\ reg[b][IdOf[o]] = o <=> prog[o].state = "ACTIVE" /\ prog[o].url = b
  BY <1>0, RegBefore
<1>4. Ready(prog'[o]) /\ OnlyProgram(IdOf[o])
  BY <1>0 DEF PoolInv, Placed, Ready, OnlyProgram
<1> QED
  BY <1>0, <1>1, <1>2, <1>3, <1>4, ProgramPart

\* Resuming live programs W, all of them PAUSED, each at its backend.
LEMMA ResumePool ==
  ASSUME LifeInv, PoolInv, NEW W \in SUBSET Objects, NEW at,
         \A o \in W : /\ programs[IdOf[o]] = o /\ prog[o].state = "PAUSED"
                      /\ at[o] \in Backends,
         prog' = [o \in Objects |-> IF o \in W THEN Resumed(prog[o], at[o]) ELSE prog[o]],
         \A b \in Backends, p \in Pids :
           reg'[b][p] = IF programs[p] \in W /\ at[programs[p]] = b THEN programs[p]
                        ELSE reg[b][p],
         programs' = programs, queue' = queue \ {IdOf[o] : o \in W}, Awakened(W),
         \A q \in Requests : req'[q].pc = req[q].pc \/ req[q].obj \in W
  PROVE  PoolInv'
<1>0. TypeInv /\ TypeOK /\ HasObject
  BY DEF LifeInv, TypeInv
<1>1. \A o \in Objects : o \notin W => prog'[o] = prog[o]
  OBVIOUS
<1>2. \A o \in W : /\ prog'[o].url = at[o] /\ prog'[o].url # None /\ prog'[o].state = "ACTIVE"
                   /\ prog'[o].event = "none" /\ prog'[o].status = prog[o].status
  BY <1>0, ResumedFields, RouterAssumption DEF TypeOK
<1>3. Alone' /\ Owned'
  BY DEF Awakened, PoolInv, Alone, Owned
<1>4. AllServed'
  <2> SUFFICES ASSUME NEW q \in Requests PROVE Served(req'[q], prog')
    BY DEF AllServed
  <2>1. Served(req[q], prog) /\ (req[q].pc # "idle" => req[q].obj \in Objects)
    BY <1>0 DEF PoolInv, AllServed, HasObject
  <2>2. CASE req[q].obj \in W
    <3>1. req[q].pc \notin {"woken", "admitted", "inflight"}
      BY <2>1, <2>2 DEF Served
    <3>2. req'[q].pc # "inflight" /\ req'[q].pc \notin {"paused", "queued"}
      BY <2>2, <3>1 DEF Awakened, Waiting
    <3>3. req'[q].pc \in {"woken", "admitted"} => prog[req[q].obj].status = "REASONING"
      BY <2>1, <2>2, <3>1 DEF Awakened, Served
    <3>4. req'[q].obj = req[q].obj
      BY DEF Awakened
    <3>5. prog'[req[q].obj].state = "ACTIVE" /\ prog'[req[q].obj].url # None
          /\ prog'[req[q].obj].status = prog[req[q].obj].status
      BY <1>2, <2>2
    <3> QED
      BY <3>2, <3>3, <3>4, <3>5 DEF Served
  <2>3. CASE req[q].obj \notin W
    <3>1. req'[q].pc = req[q].pc /\ req'[q].obj = req[q].obj /\ req'[q].target = req[q].target
      BY <2>3 DEF Awakened
    <3>2. req[q].pc # "idle" => prog'[req[q].obj] = prog[req[q].obj]
      BY <1>1, <2>1, <2>3
    <3> QED
      BY <2>1, <3>1, <3>2 DEF Served
  <2> QED
    BY <2>2, <2>3
<1>5. QueueExact'
  <2> SUFFICES ASSUME NEW p \in queue, p \notin {IdOf[o] : o \in W}
               PROVE  programs[p] # None /\ prog'[programs[p]].state = "PAUSED"
    BY DEF QueueExact
  <2>1. programs[p] # None /\ prog[programs[p]].state = "PAUSED" /\ programs[p] \in Objects
    BY <1>0 DEF PoolInv, QueueExact, TypeOK
  <2>2. programs[p] \notin W
    BY <1>0, <2>1 DEF LifeInv, GoodPrograms, TypeOK
  <2> QED
    BY <1>1, <2>1, <2>2
<1>6. RegExact'
  <2> SUFFICES ASSUME NEW b \in Backends, NEW x \in Objects
               PROVE  reg'[b][IdOf[x]] = x <=> /\ programs[IdOf[x]] = x
                                               /\ prog'[x].state = "ACTIVE"
                                               /\ prog'[x].url = b
    BY DEF RegExact
  <2>1. IdOf[x] \in Pids /\ x # None
    BY RouterAssumption
  <2>2. reg[b][IdOf[x]] = x <=> programs[IdOf[x]] = x /\ prog[x].state = "ACTIVE" /\ prog[x].url = b
    BY DEF PoolInv, RegExact
  <2>3. CASE x \in W
    <3>1. programs[IdOf[x]] = x /\ prog[x].state = "PAUSED"
      BY <2>3
    <3>2. prog'[x].state = "ACTIVE" /\ prog'[x].url = at[x]
      BY <1>2, <2>3
    <3>3. reg'[b][IdOf[x]] = IF at[x] = b THEN x ELSE reg[b][IdOf[x]]
      BY <2>1, <2>3, <3>1
    <3>4. reg[b][IdOf[x]] # x
      BY <2>2, <3>1
    <3> QED
      BY <3>1, <3>2, <3>3, <3>4
  <2>4. CASE x \notin W
    <3>1. programs[IdOf[x]] \in W => reg[b][IdOf[x]] # x
      BY <2>2, <2>4
    <3> QED
      BY <1>1, <2>1, <2>2, <2>4, <3>1
  <2> QED
    BY <2>3, <2>4
<1>7. RegOwn'
  <2> SUFFICES ASSUME NEW b \in Backends, NEW p \in Pids, reg'[b][p] # None
               PROVE  IdOf[reg'[b][p]] = p
    BY DEF RegOwn
  <2>1. programs[p] \in W => IdOf[programs[p]] = p
    BY RouterAssumption DEF LifeInv, GoodPrograms
  <2> QED
    BY <2>1 DEF PoolInv, RegOwn
<1>8. Placed'
  <2> SUFFICES ASSUME NEW p \in Pids, programs[p] # None
               PROVE  Ready(prog'[programs[p]])
    BY DEF Placed
  <2>1. programs[p] \in Objects /\ Ready(prog[programs[p]])
    BY <1>0 DEF TypeOK, PoolInv, Placed
  <2> QED
    BY <1>1, <1>2, <2>1 DEF Ready
<1> QED
  BY <1>3, <1>4, <1>5, <1>6, <1>7, <1>8 DEF PoolInv

\* A step of a request keeps the invariant.
LEMMA RequestStepPool ==
  ASSUME Sequential, LifeInv, PoolInv, NEW r \in Requests, RequestStep(r)
  PROVE  PoolInv'
<1>0. TypeInv /\ TypeOK /\ HasObject
  BY DEF LifeInv, TypeInv
<1>a. ASSUME req[r].pc # "idle"
      PROVE  /\ req[r].obj \in Objects /\ IdOf[req[r].obj] \in Pids
             /\ programs[IdOf[req[r].obj]] = req[r].obj
             /\ Excl(r, req[r].obj)
  <2>1. req[r].obj \in Objects
    BY <1>0, <1>a DEF HasObject
  <2>2. Excl(r, req[r].obj)
    BY <1>a DEF Excl, PoolInv, Alone
  <2> QED
    BY <1>a, <2>1, <2>2, RouterAssumption DEF PoolInv, Owned
<1>b. ASSUME NEW p \in Pids, NEW o \in ObjectFor(p), ~Busy(p), req[r].pc = "idle",
             programs' = [programs EXCEPT ![p] = o]
      PROVE  /\ o \in Objects /\ IdOf[o] = p /\ Excl(r, o) /\ OnlyProgram(p) /\ programs'[p] = o
             /\ \/ programs[p] = o
                \/ programs[p] = None /\ prog[o].state = "UNBORN"
  <2>1. o \in Objects /\ OnlyProgram(p) /\ programs'[p] = o
    BY <1>0, <1>b, ObjectForTypes DEF TypeOK, OnlyProgram
  <2>2. IdOf[o] = p /\ (programs[p] = o \/ (programs[p] = None /\ prog[o].state = "UNBORN"))
    BY <1>b DEF ObjectFor, LifeInv, GoodPrograms
  <2>3. Excl(r, o)
    BY <1>b, <2>2 DEF Excl, Busy
  <2> QED
    BY <2>1, <2>2, <2>3
<1>1. ASSUME NEW p \in Pids, NEW o \in Objects, NEW n \in Estimates, Arrive(r, p, o, n)
      PROVE  PoolInv'
  <2>1. /\ IdOf[o] = p /\ Excl(r, o) /\ OnlyProgram(p) /\ programs'[p] = o /\ n \in Nat
        /\ \/ programs[p] = o
           \/ programs[p] = None /\ prog[o].state = "UNBORN"
    BY <1>b, <1>1, RouterAssumption DEF Arrive
  <2> QED
    BY <1>1, <2>1, BeforeRequestPool DEF Arrive
<1>2. ASSUME NEW p \in Pids, NEW o \in Objects, ArriveAtGate(r, p, o)
      PROVE  PoolInv'
  <2> DEFINE t == IF prog[o].state = "UNBORN" THEN NewProgram ELSE prog[o]
  <2>1. /\ IdOf[o] = p /\ Excl(r, o) /\ OnlyProgram(p) /\ programs'[p] = o
        /\ \/ programs[p] = o
           \/ programs[p] = None /\ prog[o].state = "UNBORN"
    BY <1>b, <1>2 DEF ArriveAtGate
  <2>2. /\ prog' = [prog EXCEPT ![o] = t] /\ Suspend(r, o, "gate", FALSE)
        /\ reg' = reg /\ queue' = queue
    BY <1>2 DEF ArriveAtGate
  <2>3. prog'[o] = t /\ OnlyObject(o)
    BY <1>0, <2>2 DEF TypeOK, OnlyObject
  <2>4. /\ Served(req'[r], prog') /\ req'[r].obj = o
        /\ \A q \in Requests : q # r => req'[q] = req[q]
    BY <1>0, <2>2 DEF Suspend, TypeOK, Served
  <2>5. Alone' /\ Owned' /\ AllServed'
    BY <1>0, <2>1, <2>3, <2>4, RequestPart
  <2>6. \A x \in Pids : programs[x] # None => IdOf[programs[x]] = x
    BY DEF LifeInv, GoodPrograms
  <2>7. o # None
    BY RouterAssumption
  <2>8. CASE programs[p] = o
    <3>1. prog[o].state # "UNBORN" /\ t = prog[o]
      BY <2>7, <2>8 DEF LifeInv, GoodPrograms
    <3>2. programs' = programs
      BY <1>0, <1>2, <2>8 DEF ArriveAtGate, TypeOK
    <3>3. QueueExact' /\ RegExact' /\ RegOwn' /\ Placed'
      BY <2>1, <2>2, <2>3, <2>8, <3>1, <3>2, TouchPool
    <3> QED
      BY <2>5, <3>3 DEF PoolInv
  <2>9. CASE programs[p] = None /\ prog[o].state = "UNBORN"
    <3>1. t.state = "ACTIVE" /\ t.event = "none" /\ t.url = None /\ t.steps = 0
      BY <2>9 DEF NewProgram
    <3>2. Ready(t)
      BY <3>1 DEF Ready
    <3>3. \A b \in Backends : reg[b][p] \in {o, None} /\ reg[b][p] # o /\ b # None
      BY <1>0, <2>1, <2>7, <2>9, RegBefore, RouterAssumption
    <3>4. p \notin queue
      BY <2>9 DEF PoolInv, QueueExact
    <3> HIDE DEF t
    <3>5. QueueExact' /\ RegExact' /\ RegOwn' /\ Placed'
      BY <1>0, <2>1, <2>2, <2>3, <2>6, <3>1, <3>2, <3>3, <3>4, ProgramPart
    <3> QED
      BY <2>5, <3>5 DEF PoolInv
  <2> QED
    BY <2>1, <2>8, <2>9
<1>3. ASSUME NEW n \in Estimates, PassGate(r, n)
      PROVE  PoolInv'
  <2> DEFINE o == req[r].obj
  <2>1. /\ o \in Objects /\ programs[IdOf[o]] = o /\ Excl(r, o) /\ n \in Nat
        /\ OnlyProgram(IdOf[o]) /\ programs'[IdOf[o]] = o
    BY <1>a, <1>3, RouterAssumption DEF PassGate, OnlyProgram
  <2> QED
    BY <1>3, <2>1, BeforeRequestPool DEF PassGate
<1>c. ASSUME req[r].pc \in {"woken", "admitted"}, programs' = programs, reg' = reg, queue' = queue,
             NEW t, prog' = [prog EXCEPT ![req[r].obj] = t],
             t \in {prog[req[r].obj], [prog[req[r].obj] EXCEPT !.status = "REASONING"]},
             Forward(r, req[r].obj)
      PROVE  PoolInv'
  <2> DEFINE o == req[r].obj
  <2>1. o \in Objects /\ programs[IdOf[o]] = o /\ Excl(r, o) /\ prog[o] \in ProgramType
        /\ OnlyProgram(IdOf[o])
    BY <1>0, <1>a, <1>c DEF TypeOK, OnlyProgram
  <2>2. prog[o].state = "ACTIVE" /\ prog[o].url # None /\ prog[o].status = "REASONING"
    BY <1>c DEF PoolInv, AllServed, Served
  <2>3. /\ t.state = prog[o].state /\ t.url = prog[o].url /\ t.event = prog[o].event
        /\ t.steps = prog[o].steps /\ t.status = "REASONING"
    BY <1>c, <2>1, <2>2 DEF ProgramType
  <2>4. prog'[o] = t /\ OnlyObject(o)
    BY <1>0, <1>c, <2>1 DEF TypeOK, OnlyObject
  <2> HIDE DEF o
  <2>5. /\ Served(req'[r], prog') /\ req'[r].obj = o
        /\ \A q \in Requests : q # r => req'[q] = req[q]
    BY <1>0, <1>c, <2>1, <2>2, <2>3, <2>4, ForwardServed DEF o
  <2>6. Alone' /\ Owned' /\ AllServed'
    BY <1>0, <1>c, <2>1, <2>4, <2>5, RequestPart
  <2>7. QueueExact' /\ RegExact' /\ RegOwn' /\ Placed'
    BY <1>c, <2>1, <2>3, <2>4, TouchPool
  <2> QED
    BY <2>6, <2>7 DEF PoolInv
<1>4. CASE GoOnAfterPause(r)
  <2> DEFINE o == req[r].obj
  <2>1. prog[o].url # None /\ req[r].pc = "woken" /\ req[r].new = FALSE
    BY <1>0, <1>4 DEF GoOnAfterPause, PoolInv, AllServed, Served, LifeInv, GoodRequests,
                      GoodRequest, TypeOK, RequestType
  <2>2. KeepBackend(r, o, prog[o])
    BY <1>4, <2>1, Zenon DEF GoOnAfterPause, Schedule
  <2>3. programs' = programs
    BY <1>4 DEF GoOnAfterPause
  <2> QED
    BY <1>c, <2>1, <2>2, <2>3 DEF KeepBackend
<1>5. CASE GoOnAfterQueue(r)
  <2>1. req[r].pc = "admitted" /\ req[r].obj \in Objects
    BY <1>a, <1>5 DEF GoOnAfterQueue
  <2>2. prog' = [prog EXCEPT ![req[r].obj] = prog[req[r].obj]]
    BY <1>0, <1>5, <2>1 DEF GoOnAfterQueue, TypeOK
  <2> QED
    BY <1>c, <1>5, <2>1, <2>2 DEF GoOnAfterQueue
<1>6. CASE StreamProgress(r)
  <2> DEFINE o == req[r].obj
             t == [prog[o] EXCEPT !.tokens = prog[o].tokens + 1]
  <2>1. o \in Objects /\ prog[o] \in ProgramType /\ programs[IdOf[o]] = o /\ Excl(r, o)
        /\ req[r].pc = "inflight" /\ req' = req /\ programs' = programs /\ reg' = reg
        /\ queue' = queue /\ OnlyProgram(IdOf[o])
    BY <1>0, <1>a, <1>6 DEF StreamProgress, TypeOK, OnlyProgram
  <2>2. /\ t.url = prog[o].url /\ t.state = prog[o].state /\ t.event = prog[o].event
        /\ t.steps = prog[o].steps /\ t.status = prog[o].status
    BY <2>1 DEF ProgramType
  <2>3. prog' = [prog EXCEPT ![o] = t]
    BY <1>6 DEF StreamProgress
  <2>4. prog'[o] = t /\ OnlyObject(o)
    BY <1>0, <2>1, <2>3 DEF TypeOK, OnlyObject
  <2> HIDE DEF t
  <2>5. Served(req'[r], prog')
    BY <2>1, <2>2, <2>4 DEF PoolInv, AllServed, Served
  <2>6. Alone' /\ Owned' /\ AllServed'
    BY <1>0, <2>1, <2>4, <2>5, RequestPart
  <2>7. QueueExact' /\ RegExact' /\ RegOwn' /\ Placed'
    BY <2>1, <2>2, <2>4, TouchPool
  <2> QED
    BY <2>6, <2>7 DEF PoolInv
<1>7. ASSUME NEW n \in Usages, Finish(r, n)
      PROVE  PoolInv'
  <2> DEFINE o == req[r].obj
             s == [prog[o] EXCEPT !.status = "ACTING", !.tokens = n]
             m == [s EXCEPT !.marked = FALSE]
  <2>1. /\ o \in Objects /\ prog[o] \in ProgramType /\ n \in Nat /\ IdOf[o] \in Pids /\ o # None
        /\ programs[IdOf[o]] = o /\ Excl(r, o) /\ programs' = programs /\ OnlyProgram(IdOf[o])
    BY <1>0, <1>a, <1>7, RouterAssumption DEF Finish, TypeOK, OnlyProgram
  <2>2. /\ s \in ProgramType /\ s.url = prog[o].url /\ s.state = prog[o].state
        /\ s.event = prog[o].event /\ s.steps = prog[o].steps
    BY <2>1 DEF ProgramType
  <2>3. /\ \A q \in Requests : q # r => req'[q] = req[q]
        /\ req'[r].pc = "idle" /\ Served(req'[r], prog')
    BY <1>0, <1>7 DEF Finish, TypeOK, NoRequest, Served
  <2>4. CASE s.marked /\ s.url # None
    <3> DEFINE t == Paused(m)
    <3>1. m \in ProgramType
      BY <2>2 DEF ProgramType
    <3>2. /\ prog' = [prog EXCEPT ![o] = t] /\ reg' = Unregister({o})
          /\ queue' = queue \cup {IdOf[o]}
      BY <1>7, <2>4, Zenon DEF Finish
    <3>3. t.state = "PAUSED"
      BY <3>1, PausedFields
    <3>4. prog'[o] = t /\ OnlyObject(o)
      BY <1>0, <2>1, <3>2 DEF TypeOK, OnlyObject
    <3> HIDE DEF t
    <3>5. Alone' /\ Owned' /\ AllServed'
      BY <1>0, <2>1, <2>3, <3>4, RequestPart
    <3>6. \A b \in Backends : reg[b][IdOf[o]] \in {o, None}
      BY <1>0, <2>1, RegBefore
    <3>7. \A b \in Backends, x \in Pids : x # IdOf[o] => reg'[b][x] = reg[b][x]
      BY <3>2 DEF Unregister
    <3>8. \A b \in Backends : reg'[b][IdOf[o]] # o
      <4> HIDE DEF o
      <4> SUFFICES ASSUME NEW b \in Backends, Unregister({o})[b][IdOf[o]] = o
                   PROVE  FALSE
        BY <3>2
      <4>1. o \notin {o}
        BY <2>1, UnregisterLife
      <4> QED
        BY <4>1
    <3>9. \A b \in Backends : reg'[b][IdOf[o]] \in {o, None}
      BY <2>1, <3>2, <3>6 DEF Unregister
    <3>10. Ready(prog'[o])
      BY <3>3, <3>4 DEF Ready
    <3>11. \A x \in Pids : programs[x] # None => IdOf[programs[x]] = x
      BY DEF LifeInv, GoodPrograms
    <3>12. QueueExact' /\ RegExact' /\ RegOwn' /\ Placed'
      BY <1>0, <2>1, <3>2, <3>3, <3>4, <3>7, <3>8, <3>9, <3>10, <3>11, ProgramPart
    <3> QED
      BY <3>5, <3>12 DEF PoolInv
  <2>5. CASE ~(s.marked /\ s.url # None)
    <3>1. prog' = [prog EXCEPT ![o] = s] /\ reg' = reg /\ queue' = queue
      BY <1>7, <2>5, Zenon DEF Finish
    <3>2. prog'[o] = s /\ OnlyObject(o)
      BY <1>0, <2>1, <3>1 DEF TypeOK, OnlyObject
    <3> HIDE DEF s
    <3>3. Alone' /\ Owned' /\ AllServed'
      BY <1>0, <2>1, <2>3, <3>2, RequestPart
    <3>4. QueueExact' /\ RegExact' /\ RegOwn' /\ Placed'
      BY <2>1, <2>2, <3>1, <3>2, TouchPool
    <3> QED
      BY <3>3, <3>4 DEF PoolInv
  <2> QED
    BY <2>4, <2>5
<1>8. CASE FinishWithoutUsage(r)
  <2>1. /\ \A q \in Requests : q # r => req'[q] = req[q]
        /\ req'[r].pc = "idle" /\ Served(req'[r], prog')
    BY <1>0, <1>8 DEF FinishWithoutUsage, TypeOK, NoRequest, Served
  <2>2. req[r].pc # "idle"
    BY <1>8 DEF FinishWithoutUsage
  <2>3. Alone' /\ Owned' /\ AllServed'
    BY <1>0, <1>a, <1>8, <2>1, <2>2, RequestPart DEF FinishWithoutUsage, OnlyObject, OnlyProgram
  <2> QED
    BY <1>8, <2>3 DEF FinishWithoutUsage, PoolInv, QueueExact, RegExact, RegOwn, Placed
<1>9. CASE ForceResume(r)
  <2> DEFINE p == IdOf[req[r].obj]
             c == programs[p]
  <2>1. /\ p \in queue /\ c # None /\ prog[c].state = "PAUSED" /\ Waiting(r)
        /\ programs' = programs /\ queue' = queue \ {p}
    BY <1>9 DEF ForceResume
  <2>2. c = req[r].obj /\ c \in Objects /\ IdOf[c] = p /\ p \in Pids
    BY <1>a, <2>1 DEF Waiting
  <2>3. PICK b \in (IF prog[c].origin = None THEN LeastLoaded ELSE {prog[c].origin}) :
          /\ prog' = [prog EXCEPT ![c] = Resumed(@, b)]
          /\ reg' = Register(b, c)
          /\ req' = [Wake({c}) EXCEPT ![r].pc = IF req[r].pc = "paused" THEN "woken" ELSE "admitted"]
    BY <1>9 DEF ForceResume
  <2>4. b \in Backends
    <3>1. prog[c].origin \in Backends \cup {None}
      BY <1>0, <2>2 DEF TypeOK, ProgramType
    <3> QED
      BY <1>0, <3>1, LeastLoadedTypes
  <2>5. Awakened({c})
    BY <1>0, <2>1, <2>3, WakeOneAwakens
  <2>6. \A q \in Requests : req'[q].pc = req[q].pc \/ req[q].obj \in {c}
    <3> SUFFICES ASSUME NEW q \in Requests, req[q].obj # c
                 PROVE  req'[q].pc = req[q].pc
      OBVIOUS
    <3>1. q # r /\ Wake({c})[q] = req[q] /\ Wake({c}) \in [Requests -> RequestType]
      BY <1>0, <2>2, WakeTypes DEF Wake
    <3>2. req'[q] = Wake({c})[q]
      BY <2>3, <3>1
    <3> QED
      BY <3>1, <3>2
  <2> HIDE DEF c, p
  <2> DEFINE at == [x \in {c} |-> b]
  <2>7. prog' = [x \in Objects |-> IF x \in {c} THEN Resumed(prog[x], at[x]) ELSE prog[x]]
    BY <1>0, <2>2, <2>3 DEF TypeOK
  <2>8. programs[p] = c /\ \A x \in Pids : programs[x] = c => x = p
    BY <2>1, <2>2 DEF LifeInv, GoodPrograms, c
  <2>9. \A d \in Backends, x \in Pids :
          reg'[d][x] = IF programs[x] \in {c} /\ at[programs[x]] = d THEN programs[x] ELSE reg[d][x]
    BY <1>0, <2>2, <2>3, <2>4, <2>8 DEF TypeOK, Register
  <2>10. \A x \in {c} : programs[IdOf[x]] = x /\ prog[x].state = "PAUSED" /\ at[x] \in Backends
    BY <2>1, <2>2, <2>4, <2>8
  <2>11. queue' = queue \ {IdOf[x] : x \in {c}}
    BY <2>1, <2>2
  <2> HIDE DEF at
  <2> QED
    BY <2>1, <2>2, <2>5, <2>6, <2>7, <2>9, <2>10, <2>11, ResumePool
<1>10. CASE ClaimNothing(r)
  <2>1. Waiting(r) /\ ~(/\ IdOf[req[r].obj] \in queue /\ programs[IdOf[req[r].obj]] # None
                        /\ prog[programs[IdOf[req[r].obj]]].state = "PAUSED")
    BY <1>10 DEF ClaimNothing
  <2>2. /\ programs[IdOf[req[r].obj]] = req[r].obj /\ req[r].obj \in Objects
        /\ IdOf[req[r].obj] \in Pids /\ prog[req[r].obj].state = "PAUSED"
    BY <1>a, <2>1 DEF Waiting, PoolInv, AllServed, Served
  <2>3. FALSE
    BY <2>1, <2>2, RouterAssumption DEF LifeInv, GoodPrograms
  <2> QED
    BY <2>3
<1> QED
  BY <1>1, <1>2, <1>3, <1>4, <1>5, <1>6, <1>7, <1>8, <1>9, <1>10 DEF RequestStep
-----------------------------------------------------------------------------
(***************************************************************************)
(* All steps.                                                              *)
(***************************************************************************)
LEMMA PoolStep ==
  ASSUME Sequential, LifeInv, PoolInv, [Next]_vars
  PROVE  PoolInv'
<1>0. TypeInv /\ TypeOK /\ HasObject
  BY DEF LifeInv, TypeInv
<1>1. ASSUME NEW r \in Requests, RequestStep(r)
      PROVE  PoolInv'
  BY <1>1, RequestStepPool
<1>2. ASSUME NEW p \in Pids, Release(p)
      PROVE  PoolInv'
  <2> DEFINE o == programs[p]
             s == prog[o]
  <2>1. /\ o \in Objects /\ IdOf[o] = p /\ s.state \in {"ACTIVE", "PAUSED"} /\ ~Busy(p)
    BY <1>0, <1>2 DEF Release, TypeOK, LifeInv, GoodPrograms
  <2>2. PICK t : prog' = [prog EXCEPT ![o] = t]
    BY <1>2 DEF Release
  <2>3. programs' = [programs EXCEPT ![p] = None]
    BY <1>2 DEF Release
  <2>4. \/ s.state = "PAUSED" /\ queue' = queue \ {p} /\ req' = Wake({o}) /\ reg' = reg
        \/ s.state # "PAUSED" /\ reg' = Unregister({o}) /\ queue' = queue /\ req' = req
    BY <1>2, Zenon DEF Release
  <2>5. \A x \in Objects : x # o => prog'[x] = prog[x]
    BY <1>0, <2>1, <2>2 DEF TypeOK
  <2>6. \A x \in Pids : programs'[x] = IF x = p THEN None ELSE programs[x]
    BY <1>0, <2>3 DEF TypeOK
  <2>7. \A q \in Requests : req[q].pc # "idle" =>
          /\ req[q].obj \in Objects /\ IdOf[req[q].obj] \in Pids
          /\ IdOf[req[q].obj] # p /\ req[q].obj # o
    BY <1>0, <2>1, RouterAssumption DEF HasObject, Busy
  <2>8. req' = req
    <3>1. ASSUME req' = Wake({o})
          PROVE  req' = req
      <4>1. \A q \in Requests : req'[q] = req[q]
        BY <2>7, <3>1 DEF Wake
      <4>2. req' \in [Requests -> RequestType] /\ req \in [Requests -> RequestType]
        BY <1>0, <3>1, WakeTypes DEF TypeOK
      <4>3. \A f, g \in [Requests -> RequestType] : (\A q \in Requests : f[q] = g[q]) => f = g
        OBVIOUS
      <4> QED
        BY <4>1, <4>2, <4>3
    <3> QED
      BY <2>4, <3>1
  <2>9. Alone' /\ Owned' /\ AllServed'
    <3>1. Alone'
      BY <2>8 DEF PoolInv, Alone
    <3>2. Owned'
      BY <2>6, <2>7, <2>8 DEF PoolInv, Owned
    <3>3. AllServed'
      <4> SUFFICES ASSUME NEW q \in Requests PROVE Served(req[q], prog')
        BY <2>8 DEF AllServed
      <4>1. Served(req[q], prog) /\ (req[q].pc # "idle" => prog'[req[q].obj] = prog[req[q].obj])
        BY <2>5, <2>7 DEF PoolInv, AllServed
      <4> QED
        BY <4>1 DEF Served
    <3> QED
      BY <3>1, <3>2, <3>3
  <2>10. \A x \in Pids : x # p /\ programs[x] # None =>
           programs[x] \in Objects /\ prog'[programs[x]] = prog[programs[x]]
    BY <1>0, <2>1, <2>5 DEF TypeOK, LifeInv, GoodPrograms
  <2>11. QueueExact'
    <3>1. p \notin queue'
      BY <2>4 DEF PoolInv, QueueExact
    <3> QED
      BY <1>0, <2>4, <2>6, <2>10, <3>1 DEF PoolInv, QueueExact, TypeOK
  <2>12. \A b \in Backends : reg'[b][p] = None
    <3> SUFFICES ASSUME NEW b \in Backends PROVE reg'[b][p] = None
      OBVIOUS
    <3>1. /\ reg[b][p] \in {o, None}
          /\ reg[b][p] = o <=> prog[o].state = "ACTIVE" /\ prog[o].url = b
      BY <1>0, <2>1, RegBefore
    <3> QED
      BY <2>1, <2>4, <3>1 DEF Unregister
  <2>13. \A b \in Backends, x \in Pids : x # p => reg'[b][x] = reg[b][x]
    BY <2>1, <2>4 DEF Unregister
  <2>14. RegExact'
    <3> SUFFICES ASSUME NEW b \in Backends, NEW x \in Objects
                 PROVE  reg'[b][IdOf[x]] = x <=> /\ programs'[IdOf[x]] = x
                                                 /\ prog'[x].state = "ACTIVE"
                                                 /\ prog'[x].url = b
      BY DEF RegExact
    <3>1. IdOf[x] \in Pids /\ x # None
      BY RouterAssumption
    <3>2. CASE IdOf[x] = p
      BY <2>6, <2>12, <3>1, <3>2
    <3>3. CASE IdOf[x] # p
      <4>1. x # o
        BY <2>1, <3>3
      <4> QED
        BY <2>5, <2>6, <2>13, <3>1, <3>3, <4>1 DEF PoolInv, RegExact
    <3> QED
      BY <3>2, <3>3
  <2>15. RegOwn'
    BY <2>12, <2>13 DEF PoolInv, RegOwn
  <2>16. Placed'
    BY <2>6, <2>10 DEF PoolInv, Placed
  <2> QED
    BY <2>9, <2>11, <2>14, <2>15, <2>16 DEF PoolInv
<1>3. ASSUME NEW b \in Backends, FetchMetrics(b)
      PROVE  PoolInv'
  BY <1>3 DEF FetchMetrics, PoolInv, Alone, Owned, AllServed, QueueExact, RegExact, RegOwn, Placed
<1>4. CASE TickStart
  BY <1>4 DEF TickStart, PoolInv, Alone, Owned, AllServed, QueueExact, RegExact, RegOwn, Placed
<1>5. CASE TickResume
  <2>0. PICK acting \in ActingEstimates : \E at \in ResumePlans(acting) :
          /\ ResumeAt({o \in Candidates : at[o] # None}, at)
          /\ queue' = queue \ {IdOf[o] : o \in {o \in Candidates : at[o] # None}}
    BY <1>5, Zenon DEF TickResume
  <2>1. PICK at \in ResumePlans(acting) :
          /\ ResumeAt({o \in Candidates : at[o] # None}, at)
          /\ queue' = queue \ {IdOf[o] : o \in {o \in Candidates : at[o] # None}}
    BY <2>0, Zenon
  <2> DEFINE S == {o \in Candidates : at[o] # None}
  <2>2. S \in SUBSET Objects /\ \A o \in S : at[o] \in Backends
    BY <1>0, PlanTypes
  <2>3. \A o \in S : programs[IdOf[o]] = o /\ prog[o].state = "PAUSED"
    <3> SUFFICES ASSUME NEW o \in Candidates
                 PROVE  programs[IdOf[o]] = o /\ prog[o].state = "PAUSED"
      OBVIOUS
    <3>1. PICK p \in queue : programs[p] = o
      BY <1>0, PlanTypes
    <3>2. p \in Pids
      BY <1>0 DEF TypeOK
    <3> QED
      BY <3>1, <3>2 DEF PoolInv, QueueExact, LifeInv, GoodPrograms
  <2>4. {o \in S : prog[o].state = "PAUSED"} = S
    BY <2>3
  <2>5. ResumeAt(S, at) /\ queue' = queue \ {IdOf[o] : o \in S}
    BY <2>1
  <2> HIDE DEF S
  <2>6. /\ prog' = [o \in Objects |-> IF o \in S THEN Resumed(prog[o], at[o]) ELSE prog[o]]
        /\ reg' = [b \in Backends |-> [p \in Pids |->
             IF programs[p] \in S /\ at[programs[p]] = b THEN programs[p] ELSE reg[b][p]]]
        /\ req' = Wake(S)
    BY <2>4, <2>5 DEF ResumeAt
  <2>7. Awakened(S)
    BY <1>0, <2>6, WakeAwakens
  <2>8. \A q \in Requests : req'[q].pc = req[q].pc \/ req[q].obj \in S
    BY <2>6 DEF Wake
  <2>9. \A b \in Backends, p \in Pids :
          reg'[b][p] = IF programs[p] \in S /\ at[programs[p]] = b THEN programs[p] ELSE reg[b][p]
    BY <2>6
  <2>10. programs' = programs
    BY <1>5 DEF TickResume
  <2> QED
    BY <2>2, <2>3, <2>5, <2>6, <2>7, <2>8, <2>9, <2>10, ResumePool
<1>6. CASE TickPause
  <2>1. PICK S, marks : PauseStep(S, marks)
    BY <1>6, TickPauseEffect
  <2>2. programs' = programs /\ req' = req
    BY <1>6 DEF TickPause
  <2>3. \A o \in S \cup marks :
          /\ o \in Objects /\ prog[o] \in ProgramType /\ programs[IdOf[o]] = o /\ IdOf[o] \in Pids
          /\ prog[o].state = "ACTIVE"
    BY <1>0, <2>1, RouterAssumption
       DEF PauseStep, Live, LifeInv, GoodPrograms, GoodRecords, GoodRecord, TypeOK
  <2>4. /\ \A o \in S : prog[o].status = "ACTING"
        /\ \A o \in marks : o \notin S
    BY <2>1 DEF PauseStep
  <2>5. /\ \A o \in S : prog'[o] = Paused(prog[o])
        /\ \A o \in marks : prog'[o] = Marked(prog[o])
        /\ \A o \in Objects : o \notin S \cup marks => prog'[o] = prog[o]
    BY <2>1, <2>3, <2>4 DEF PauseStep
  <2>6. \A o \in S : prog'[o].state = "PAUSED"
    BY <2>3, <2>5, PausedFields
  <2>7. \A o \in Objects : o \notin S =>
          /\ prog'[o].state = prog[o].state /\ prog'[o].url = prog[o].url
          /\ prog'[o].event = prog[o].event /\ prog'[o].steps = prog[o].steps
          /\ prog'[o].status = prog[o].status
    BY <2>3, <2>5, MarkFields
  <2>8. Alone' /\ Owned'
    BY <2>2 DEF PoolInv, Alone, Owned
  <2>9. AllServed'
    <3> SUFFICES ASSUME NEW q \in Requests PROVE Served(req[q], prog')
      BY <2>2 DEF AllServed
    <3>1. Served(req[q], prog) /\ (req[q].pc # "idle" => req[q].obj \in Objects)
      BY <1>0 DEF PoolInv, AllServed, HasObject
    <3>2. CASE req[q].obj \in S
      <4>1. req[q].pc \notin {"paused", "queued", "woken", "admitted", "inflight"}
        BY <2>3, <2>4, <3>1, <3>2 DEF Served
      <4> QED
        BY <4>1 DEF Served
    <3>3. CASE req[q].obj \notin S
      BY <2>7, <3>1, <3>3 DEF Served
    <3> QED
      BY <3>2, <3>3
  <2>10. queue' = queue \cup {IdOf[o] : o \in S} /\ reg' = Unregister(S)
    BY <2>1 DEF PauseStep
  <2>11. QueueExact'
    <3> SUFFICES ASSUME NEW p \in queue'
                 PROVE  programs[p] # None /\ prog'[programs[p]].state = "PAUSED"
      BY <2>2 DEF QueueExact
    <3>1. CASE p \in {IdOf[o] : o \in S}
      BY <2>3, <2>6, <3>1, RouterAssumption
    <3>2. CASE p \in queue
      <4>1. programs[p] \in Objects /\ programs[p] # None /\ prog[programs[p]].state = "PAUSED"
        BY <1>0, <3>2 DEF PoolInv, QueueExact, TypeOK
      <4> QED
        BY <2>6, <2>7, <4>1
    <3> QED
      BY <2>10, <3>1, <3>2
  <2>12. RegExact'
    <3> SUFFICES ASSUME NEW b \in Backends, NEW x \in Objects
                 PROVE  reg'[b][IdOf[x]] = x <=> /\ programs[IdOf[x]] = x
                                                 /\ prog'[x].state = "ACTIVE"
                                                 /\ prog'[x].url = b
      BY <2>2 DEF RegExact
    <3>1. IdOf[x] \in Pids /\ x # None
      BY RouterAssumption
    <3>2. reg[b][IdOf[x]] = x <=> programs[IdOf[x]] = x /\ prog[x].state = "ACTIVE" /\ prog[x].url = b
      BY DEF PoolInv, RegExact
    <3>3. CASE x \in S
      <4>1. reg'[b][IdOf[x]] # x
        BY <2>10, <3>3, UnregisterLife
      <4> QED
        BY <2>6, <3>3, <4>1
    <3>4. CASE x \notin S
      <4>1. reg'[b][IdOf[x]] = x => reg[b][IdOf[x]] = x
        BY <2>10, <3>1 DEF Unregister
      <4>2. ASSUME programs[IdOf[x]] = x
            PROVE  reg'[b][IdOf[x]] = reg[b][IdOf[x]]
        <5>1. ~ \E o \in S : IdOf[o] = IdOf[x]
          BY <2>3, <3>4, <4>2
        <5> QED
          BY <2>10, <3>1, <5>1 DEF Unregister
      <4> QED
        BY <2>7, <3>2, <3>4, <4>1, <4>2
    <3> QED
      BY <3>3, <3>4
  <2>13. RegOwn'
    BY <2>10 DEF PoolInv, RegOwn, Unregister
  <2>14. Placed'
    <3> SUFFICES ASSUME NEW p \in Pids, programs[p] # None
                 PROVE  Ready(prog'[programs[p]])
      BY <2>2 DEF Placed
    <3>1. programs[p] \in Objects /\ Ready(prog[programs[p]])
      BY <1>0 DEF TypeOK, PoolInv, Placed
    <3> QED
      BY <2>6, <2>7, <3>1 DEF Ready
  <2> QED
    BY <2>8, <2>9, <2>11, <2>12, <2>13, <2>14 DEF PoolInv
<1>7. CASE SyncBegin
  BY <1>7 DEF SyncBegin, PoolInv, Alone, Owned, AllServed, QueueExact, RegExact, RegOwn, Placed
<1>8. CASE SyncEnd
  <2>1. \A q \in Requests : /\ req'[q].obj = req[q].obj /\ req'[q].target = req[q].target
                            /\ \/ req'[q].pc = req[q].pc
                               \/ req[q].pc = "gate" /\ req'[q].pc = "passed"
    BY <1>0, <1>8 DEF SyncEnd, TypeOK, RequestType
  <2>2. Alone' /\ Owned'
    BY <1>8, <2>1 DEF SyncEnd, PoolInv, Alone, Owned
  <2>3. AllServed'
    BY <1>8, <2>1 DEF SyncEnd, PoolInv, AllServed, Served
  <2> QED
    BY <1>8, <2>2, <2>3 DEF SyncEnd, PoolInv, QueueExact, RegExact, RegOwn, Placed
<1>9. CASE UNCHANGED vars
  BY <1>9 DEF vars, PoolInv, Alone, Owned, AllServed, QueueExact, RegExact, RegOwn, Placed
<1> QED
  BY <1>1, <1>2, <1>3, <1>4, <1>5, <1>6, <1>7, <1>8, <1>9 DEF Next

LEMMA SeqInvariance == Spec => [](LifeInv /\ SeqInv)
<1>1. Init => SeqInv
  BY PoolInit DEF SeqInv
<1>2. LifeInv /\ SeqInv /\ [Next]_vars => SeqInv'
  <2> SUFFICES ASSUME LifeInv, PoolInv, Sequential, [Next]_vars
               PROVE  PoolInv'
    BY DEF SeqInv
  <2> QED
    BY PoolStep
<1> QED
  BY <1>1, <1>2, LifeInvariance, PTL DEF Spec

\* With one request at a time per program, the waiting queue holds exactly the
\* paused programs and the backends exactly the active ones, for any number of
\* programs, backends and any interleaving of ticks, timeouts and releases.
THEOREM PoolIsConsistent == Spec => []PoolConsistent
BY SeqInvariance, PoolImplies, PTL

\* With one request at a time per program, a waiting request can always be
\* found by the scheduler and by its own timeout.
THEOREM WaitersAreFound == Spec => []NoStrandedWaiter
BY SeqInvariance, PoolImplies, PTL

\* With one request at a time per program, a forwarded request runs on the
\* backend that accounts for its program, whatever migrated it.
THEOREM RequestsRunAtHome == Spec => []InFlightAtHome
BY SeqInvariance, PoolImplies, PTL
=============================================================================
