----------------------------- MODULE TokenStream -----------------------------
(***************************************************************************)
(* What an engine promises to its clients: every request is a stream that, *)
(* once open, grows by whole tokens, never beyond its limit and never      *)
(* after it was closed, and that is closed in the end.  Nothing is said of *)
(* batches, drafts or of the mode the engine decodes in; SpecEngine shows  *)
(* that the engine keeps the promise however often that mode is switched.  *)
(***************************************************************************)
EXTENDS Naturals

CONSTANTS
  Streams,           \* the requests
  Limit              \* tokens after which a stream is closed at the latest

VARIABLES
  state,             \* per stream "none", "open", "closed"
  out                \* per stream, the tokens sent to the client

streamVars == <<state, out>>

StreamInit ==
  /\ state = [s \in Streams |-> "none"]
  /\ out = [s \in Streams |-> 0]

Open(s) ==
  /\ state[s] = "none"
  /\ state'[s] = "open"
  /\ out'[s] = out[s]

\* One or more tokens arrive; the last one may close the stream.
Emit(s) ==
  /\ state[s] = "open"
  /\ out'[s] \in (out[s] + 1)..Limit
  /\ state'[s] \in {"open", "closed"}
  /\ out'[s] = Limit => state'[s] = "closed"

\* The client or the operator gives the stream up.
Cancel(s) ==
  /\ state[s] = "open"
  /\ state'[s] = "closed"
  /\ out'[s] = out[s]

Quiet(s) == state'[s] = state[s] /\ out'[s] = out[s]

\* One batch may serve several streams at once.
StreamNext ==
  \A s \in Streams : Open(s) \/ Emit(s) \/ Cancel(s) \/ Quiet(s)

StreamSafety == StreamInit /\ [][StreamNext]_streamVars

Served == \A s \in Streams : state[s] = "open" ~> state[s] = "closed"

StreamSpec == StreamSafety /\ Served
=============================================================================
