------------------------------ MODULE PromptReplay ------------------------------
(***************************************************************************)
(* What a browser shows of the approvals a host waits for.  The host keeps *)
(* a registry of open approvals; a connection generation opens an event    *)
(* stream, on which the host replays the registry and then pushes changes. *)
(* The client keeps a status per session, buffers prompts of sessions it   *)
(* has no instance of, and rebuilds an opened instance when a generation   *)
(* is connected.  Streams are lost, and approvals settle, at any time.     *)
(***************************************************************************)
EXTENDS Naturals, Sequences, SequencesExt

CONSTANTS Approvals,  \* the approvals asked for in one session
          MaxGen,     \* bound on the connection generations
          Features    \* what may happen, see below

(* Assumed by the modules that instantiate this one. *)
PromptReplayAssumption ==
  /\ MaxGen \in Nat \ {0}
  /\ Features \subseteq {"early",   \* a handshake succeeds after frames were handled
                         "failed",  \* a handshake fails after frames were handled
                         "cold"}    \* the instance exists before it is opened

VARIABLES
  fresh,     \* approvals not asked for yet
  pending,   \* pendingApprovals of the host, in the order of arrival
  stream,    \* the frames between the host and the client's sinks
  mux,       \* the host has this generation's stream in muxQueues
  gen,       \* the generation's number
  link,      \* connecting, connected, or backoff
  heard,     \* frames were handled before the handshake was done
  state,     \* lastState: none, connected, reconnecting
  dots,      \* pendingInteractions of the session
  buffer,    \* its pendingBuffers
  instance,  \* the Session: none, cold, opened
  shown      \* its pending map

host == <<fresh, pending>>
client == <<dots, buffer, instance, shown>>
wire == <<stream, mux>>
loop == <<gen, link, heard, state>>
vars == <<host, wire, loop, client>>

Waiting == {pending[i] : i \in DOMAIN pending}
Requested(a) == [type |-> "requested", id |-> a]
Resolved(a) == [type |-> "resolved", id |-> a]

Init ==
  /\ fresh = Approvals /\ pending = <<>>
  /\ stream = <<>> /\ mux = FALSE
  /\ gen = 1 /\ link = "connecting" /\ heard = FALSE /\ state = "none"
  /\ dots = {} /\ buffer = {} /\ instance = "none" /\ shown = {}

--------------------------------------------------------------------------------
(* A plausible bug: a mutated form of the definition it is named after. *)

ResyncBug == UNCHANGED shown                    \* the instance keeps its prompts

--------------------------------------------------------------------------------
(* The host *)

(* A frame for every connected stream, which comes to one. *)
Broadcast(frame) ==
  stream' = IF mux THEN Append(stream, frame) ELSE stream

(* What a stream starts with. *)
Replay == [i \in DOMAIN pending |-> Requested(pending[i])]

(* A tool call asks. *)
Ask(a) ==
  /\ a \in fresh /\ fresh' = fresh \ {a} /\ pending' = Append(pending, a)
  /\ Broadcast(Requested(a))
  /\ UNCHANGED <<mux, loop, client>>

(* The first claimant settles it: an answer from here or from another browser, *)
(* the abort of its turn, the end of the gateway.                              *)
Settle(a) ==
  /\ \E i \in DOMAIN pending : pending[i] = a /\ pending' = RemoveAt(pending, i)
  /\ Broadcast(Resolved(a))
  /\ UNCHANGED <<fresh, mux, loop, client>>

(* The generation's stream reaches the host. *)
MuxOpens ==
  /\ link # "backoff" /\ ~mux /\ mux' = TRUE
  /\ stream' = Replay
  /\ UNCHANGED <<host, loop, client>>

--------------------------------------------------------------------------------
(* The connection loop *)

(* What a connected generation does to the session's instance. *)
Resync == shown' = IF instance = "opened" THEN {} ELSE shown

(* The handshake is done: the streams are open, or the wait for them timed *)
(* out, and the host described itself.                                     *)
Connected ==
  /\ link = "connecting" /\ (heard => "early" \in Features)
  /\ link' = "connected" /\ state' = "connected"
  /\ Resync
  /\ UNCHANGED <<host, wire, gen, heard, dots, buffer, instance>>

(* What the death of a generation drops. *)
Disconnected == dots' = {} /\ buffer' = {}

(* The generation ends: a stream broke, or the handshake failed.  The state *)
(* sink hears of changes only.                                              *)
Lost ==
  /\ link # "backoff" /\ (link = "connecting" /\ heard => "failed" \in Features)
  /\ link' = "backoff" /\ state' = "reconnecting" /\ heard' = FALSE
  /\ mux' = FALSE /\ stream' = <<>>
  /\ IF state = "reconnecting" THEN UNCHANGED <<dots, buffer>> ELSE Disconnected
  /\ UNCHANGED <<host, gen, instance, shown>>

Retry ==
  /\ link = "backoff" /\ gen < MaxGen
  /\ link' = "connecting" /\ gen' = gen + 1
  /\ UNCHANGED <<host, wire, heard, state, client>>

--------------------------------------------------------------------------------
(* The session manager *)

(* The next frame: the session's status, then its instance or its buffer. *)
Deliver ==
  /\ stream # <<>>
  /\ link = "connected" \/ Features \cap {"early", "failed"} # {}
  /\ stream' = Tail(stream) /\ heard' = (heard \/ link = "connecting")
  /\ LET frame == Head(stream)
         after(set) == IF frame.type = "requested" THEN set \cup {frame.id} ELSE set \ {frame.id}
     IN /\ dots' = after(dots)
        /\ IF instance = "none"
             THEN buffer' = after(buffer) /\ UNCHANGED shown
             ELSE shown' = after(shown) /\ UNCHANGED buffer
  /\ UNCHANGED <<host, mux, gen, link, state, instance>>

(* What stays buffered then. *)
Kept == {}

(* An instance is built and takes over what was buffered for it. *)
Instantiate ==
  /\ instance = "none"
  /\ instance' \in {"opened"} \cup (Features \cap {"cold"})
  /\ shown' = buffer /\ buffer' = Kept
  /\ UNCHANGED <<host, wire, loop, dots>>

(* The session comes on stage. *)
Open ==
  /\ instance = "cold" /\ instance' = "opened"
  /\ UNCHANGED <<host, wire, loop, dots, buffer, shown>>

--------------------------------------------------------------------------------
Next == \/ \E a \in Approvals : Ask(a) \/ Settle(a)
        \/ MuxOpens \/ Connected \/ Lost \/ Retry
        \/ Deliver \/ Instantiate \/ Open

Spec == Init /\ [][Next]_vars

(* Streams open, handshakes end, frames arrive and the loop goes on. *)
Fairness == WF_vars(MuxOpens) /\ WF_vars(Connected) /\ WF_vars(Deliver) /\ WF_vars(Retry)

FairSpec == Spec /\ Fairness

--------------------------------------------------------------------------------
(* Properties *)

TypeOK ==
  /\ fresh \subseteq Approvals /\ Waiting \subseteq Approvals
  /\ \A i, j \in DOMAIN pending : pending[i] = pending[j] => i = j
  /\ stream \in Seq({Requested(a) : a \in Approvals} \cup {Resolved(a) : a \in Approvals})
  /\ {mux, heard} \subseteq BOOLEAN /\ gen \in 1 .. MaxGen
  /\ link \in {"connecting", "connected", "backoff"}
  /\ state \in {"none", "connected", "reconnecting"}
  /\ dots \subseteq Approvals /\ buffer \subseteq Approvals /\ shown \subseteq Approvals
  /\ instance \in {"none", "cold", "opened"} /\ (instance # "none" => buffer = {})

(* Everything the host told this generation has arrived. *)
Current == link = "connected" /\ mux /\ stream = <<>>

(* The session list marks exactly the sessions the host waits for, and what is *)
(* buffered for a session without an instance is what is pending.              *)
StatusAgrees ==
  Current => dots = Waiting /\ (instance = "none" => buffer = Waiting)

(* An opened session shows no prompt that was settled while it was away. *)
NoPhantomPrompt == Current /\ instance = "opened" => shown \subseteq Waiting

(* An instance shows every prompt the host waits for. *)
NoPromptLost == Current /\ instance # "none" => Waiting \subseteq shown

(* A pending prompt comes to be shown in an opened session, however often the *)
(* connection was lost, or is settled.                                        *)
PromptsArrive ==
  \A a \in Approvals :
    (a \in Waiting /\ instance = "opened")
      ~> (a \in shown \/ a \notin Waiting \/ (link = "backoff" /\ gen = MaxGen))

================================================================================
