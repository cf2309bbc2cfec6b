---------------------------- MODULE WorkflowRunProofs ----------------------------
(***************************************************************************)
(* Proofs about WorkflowRun for any number of calls, any slots and any      *)
(* setups: what a run of a workflow script keeps, whatever order messages,  *)
(* deaths, cancellations and disposals take.                                *)
(*                                                                          *)
(* The invariant follows the one request of each call through the two       *)
(* channels: it is in one place, and what the worker, the host and the      *)
(* provider know of it fits that place (Placed).  From there the children   *)
(* that exist are children of calls that hold a slot.  The count of a       *)
(* result rests on the order of the channel to the host (Counting).         *)
(***************************************************************************)
EXTENDS WorkflowRun, TLAPS, SequenceTheorems, FiniteSetTheorems

HostMessages ==
  [type : {"Ready", "Note"}, call : {NoCall}]
    \cup [type : {"AgentStart", "AgentEnd", "ChildStart", "ChildDispose"}, call : Calls]
    \cup [type : {"Result"}, call : {NoCall},
          result : [reason : Reasons, started : 0 .. Cardinality(Calls)]]

WorkerMessages ==
  [type : {"Go", "Cancel"}, call : {NoCall}]
    \cup [type : {"ChildStarted", "ChildStartError", "ChildSettled", "ChildDisposed"}, call : Calls]

Elements(q) == {q[i] : i \in DOMAIN q}
InHost(type, c) == Msg(type, c) \in Elements(toHost)
InWorker(type, c) == Msg(type, c) \in Elements(toWorker)

(* The types. *)
HostTyped ==
  /\ cancelled \in BOOLEAN /\ claimed \in BOOLEAN /\ death \in BOOLEAN /\ gone \in BOOLEAN
  /\ grace \in {"off", "armed"} /\ disposal \in {"none", "waiting", "terminating", "done"}
  /\ result \in [reason : Reasons \cup {"none"}, started : 0 .. Cardinality(Calls),
                 seen : 0 .. Cardinality(Calls), open : 0 .. Cardinality(Calls)]
  /\ accepted \in Nat /\ child \in [Calls -> ChildStates]
  /\ acks \subseteq Calls /\ ledger \subseteq Calls
  /\ ended \in [Calls -> Nat] /\ late \subseteq {"note", "agent-start", "agent-end"}

WorkerTyped ==
  /\ thread \in {"up", "dead"} /\ fault \in BOOLEAN /\ stopping \in BOOLEAN
  /\ script \in {"gated", "running", "done"} /\ told \in BOOLEAN
  /\ call \in [Calls -> CallStates] /\ waiters \in Seq(Calls) /\ reported \subseteq Calls
  /\ notes \in 0 .. MaxNotes

Typed ==
  /\ setup \in Setups /\ HostTyped /\ WorkerTyped
  /\ toHost \in Seq(HostMessages) /\ toWorker \in Seq(WorkerMessages)

(* The run is decided once, by the first that claims it, and a cancellation that was *)
(* accepted before then decides how.                                                 *)
Decided ==
  /\ claimed <=> Settled
  /\ grace = "armed" => cancelled /\ ~claimed
  /\ death => claimed
  /\ gone => death
  /\ disposal # "none" => cancelled \/ claimed
  /\ told \/ Msg("Cancel", NoCall) \in Elements(toWorker) => cancelled
  /\ \A m \in Elements(toHost) : m.type = "Result" /\ m.result.reason = "cancelled" => cancelled
  /\ Settled => (cancelled <=> result.reason = "cancelled")
  /\ disposal = "done" => \A c \in Calls : child[c] # "live"

(* Messages a call sends or gets at most once. *)
Once == {"AgentStart", "ChildStart", "ChildDispose", "ChildStarted", "ChildStartError", "ChildDisposed"}
Single(q) == \A i, j \in DOMAIN q : q[i] = q[j] /\ q[i].type \in Once => i = j

(* Those that wait for a slot are in line once. *)
InLine ==
  /\ \A i \in DOMAIN waiters : call[waiters[i]] = "queued"
  /\ \A i, j \in DOMAIN waiters : waiters[i] = waiters[j] => i = j

(* The request for a child, its answer, the request for its disposal and the answer to *)
(* that are each in one place, and what the worker and the provider know fits it.      *)
Starting(c) ==
  /\ InHost("ChildStart", c) =>
       /\ call[c] = "starting" /\ child[c] = "none"
       /\ ~InWorker("ChildStarted", c) /\ ~InWorker("ChildStartError", c)
  /\ child[c] = "starting" =>
       /\ call[c] = "starting"
       /\ ~InWorker("ChildStarted", c) /\ ~InWorker("ChildStartError", c)
  /\ InWorker("ChildStarted", c) =>
       /\ call[c] = "starting" /\ child[c] \in {"live", "disposing", "gone"}
       /\ ~InWorker("ChildStartError", c)
  /\ InWorker("ChildStartError", c) =>
       /\ call[c] = "starting" /\ child[c] \in {"none", "refused", "gone"}
       /\ Admitting => child[c] = "gone"

Disposing(c) ==
  /\ InHost("ChildDispose", c) => call[c] = "disposing" /\ c \notin acks /\ ~InWorker("ChildDisposed", c)
  /\ c \in acks => call[c] = "disposing" /\ child[c] = "disposing" /\ ~InWorker("ChildDisposed", c)
  /\ InWorker("ChildDisposed", c) => call[c] = "disposing" /\ child[c] = "gone"

Standing(c) ==
  /\ call[c] \in {"none", "queued"} => child[c] = "none"
  /\ call[c] \in {"running", "disposing"} => child[c] \in {"live", "disposing", "gone"}
  /\ call[c] = "ended" /\ Admitting => child[c] \in {"none", "gone"}

Placed ==
  /\ Single(toHost) /\ Single(toWorker)
  /\ \A c \in Calls : Starting(c) /\ Disposing(c) /\ Standing(c)

(* An agent is announced once, by a call that has its child; a death closes all. *)
Announcing ==
  /\ \A c \in Calls : InHost("AgentStart", c) => c \notin Announced
  /\ \A c \in Calls : InHost("AgentStart", c) \/ c \in Announced =>
       /\ call[c] \in {"running", "disposing", "ended"}
       /\ child[c] \in {"live", "disposing", "gone"}
  /\ \A c \in Calls : ended[c] <= 1 /\ (c \in ledger => ended[c] = 0)
  /\ death => ledger = {}

(* The slots and the count of requests that were accepted. *)
Slots ==
  /\ Cardinality(Holding) <= MaxConcurrent
  /\ accepted = Cardinality({c \in Calls : child[c] # "none"})

(* A result under way counts every agent announced by the time it arrives. *)
Before(i) == Announced \cup {c \in Calls : \E j \in 1 .. i - 1 : toHost[j] = Msg("AgentStart", c)}
Counting ==
  /\ \A i \in DOMAIN toHost :
       toHost[i].type = "Result" => Cardinality(Before(i)) <= toHost[i].result.started
  /\ CountCovers

IInv ==
  /\ Typed /\ Decided /\ InLine /\ Placed /\ Announcing /\ Slots /\ Counting

--------------------------------------------------------------------------------
(* Queues *)

LEMMA AppendTo ==
  ASSUME NEW S, NEW q \in Seq(S), NEW m \in S
  PROVE  /\ Append(q, m) \in Seq(S) /\ Elements(Append(q, m)) = Elements(q) \cup {m}
         /\ Len(Append(q, m)) = Len(q) + 1 /\ Append(q, m)[Len(q) + 1] = m
         /\ \A i \in DOMAIN q : Append(q, m)[i] = q[i]
         /\ Single(q) /\ (m.type \in Once => m \notin Elements(q)) => Single(Append(q, m))
<1>1. /\ Append(q, m) \in Seq(S) /\ Len(Append(q, m)) = Len(q) + 1
      /\ \A i \in 1 .. Len(q) : Append(q, m)[i] = q[i]
      /\ Append(q, m)[Len(q) + 1] = m
  BY AppendProperties
<1> DEFINE r == Append(q, m)
<1>2. DOMAIN r = 1 .. Len(q) + 1 /\ DOMAIN q = 1 .. Len(q) /\ Len(q) \in Nat
  BY <1>1
<1>3. ASSUME Single(q), m.type \in Once => m \notin Elements(q) PROVE Single(r)
  <2> SUFFICES ASSUME NEW i \in DOMAIN r, NEW j \in DOMAIN r, r[i] = r[j], r[i].type \in Once
               PROVE  i = j
    BY DEF Single
  <2>1. CASE i \in DOMAIN q /\ j \in DOMAIN q
    BY <1>1, <1>2, <1>3, <2>1 DEF Single
  <2>2. CASE i = Len(q) + 1 \/ j = Len(q) + 1
    BY <1>1, <1>2, <1>3, <2>2 DEF Elements
  <2> QED
    BY <1>2, <2>1, <2>2
<1>4. Elements(r) = Elements(q) \cup {m}
  BY <1>1, <1>2 DEF Elements
<1> QED
  BY <1>1, <1>2, <1>3, <1>4

LEMMA AppendTwo ==
  ASSUME NEW S, NEW q \in Seq(S), NEW e \in S, NEW d \in S
  PROVE  /\ Append(Append(q, e), d) \in Seq(S)
         /\ Elements(Append(Append(q, e), d)) = Elements(q) \cup {e, d}
         /\ Single(q) /\ e.type \notin Once /\ d # e /\ d \notin Elements(q)
              => Single(Append(Append(q, e), d))
<1> DEFINE r == Append(q, e)
<1>1. /\ r \in Seq(S) /\ Elements(r) = Elements(q) \cup {e}
      /\ Single(q) /\ (e.type \in Once => e \notin Elements(q)) => Single(r)
  BY AppendTo
<1>2. PICK x \in Seq(S) : x = r
  BY <1>1
<1> HIDE DEF r
<1>3. /\ Append(x, d) \in Seq(S) /\ Elements(Append(x, d)) = Elements(x) \cup {d}
      /\ Single(x) /\ (d.type \in Once => d \notin Elements(x)) => Single(Append(x, d))
  BY AppendTo
<1>4. r = Append(q, e)
  BY DEF r
<1> QED
  BY <1>1, <1>2, <1>3, <1>4

LEMMA TailOf ==
  ASSUME NEW S, NEW q \in Seq(S), q # <<>>
  PROVE  /\ Tail(q) \in Seq(S) /\ Elements(Tail(q)) \subseteq Elements(q)
         /\ Head(q) \in S /\ Head(q) \in Elements(q) /\ Head(q) = q[1]
         /\ Len(Tail(q)) = Len(q) - 1 /\ \A i \in DOMAIN Tail(q) : Tail(q)[i] = q[i + 1]
         /\ Single(q) => Single(Tail(q))
         /\ Single(q) /\ Head(q).type \in Once => Head(q) \notin Elements(Tail(q))
<1>1. /\ Tail(q) \in Seq(S) /\ Len(Tail(q)) = Len(q) - 1
      /\ \A i \in 1 .. Len(q) - 1 : Tail(q)[i] = q[i + 1]
  BY HeadTailProperties
<1>2. Len(q) \in Nat \ {0} /\ DOMAIN q = 1 .. Len(q) /\ DOMAIN Tail(q) = 1 .. Len(q) - 1
  BY <1>1, EmptySeq
<1>3. Head(q) = q[1] /\ q[1] \in S
  BY <1>2
<1>4. \A i \in DOMAIN Tail(q) : i + 1 \in DOMAIN q /\ i + 1 # 1 /\ Tail(q)[i] = q[i + 1]
  BY <1>1, <1>2
<1>5. Elements(Tail(q)) \subseteq Elements(q)
  BY <1>4 DEF Elements
<1>6. Single(q) => Single(Tail(q))
  BY <1>2, <1>4 DEF Single
<1>7. ASSUME Single(q), Head(q).type \in Once PROVE Head(q) \notin Elements(Tail(q))
  BY <1>2, <1>3, <1>4, <1>7 DEF Single, Elements
<1> QED
  BY <1>1, <1>2, <1>3, <1>4, <1>5, <1>6, <1>7 DEF Elements

LEMMA MsgIs ==
  ASSUME NEW t1, NEW c1, NEW t2, NEW c2
  PROVE  /\ Msg(t1, c1) = Msg(t2, c2) <=> t1 = t2 /\ c1 = c2
         /\ Msg(t1, c1).type = t1 /\ Msg(t1, c1).call = c1
BY DEF Msg

LEMMA HostMsg ==
  /\ \A c \in Calls : \A t \in {"AgentStart", "AgentEnd", "ChildStart", "ChildDispose"} :
       Msg(t, c) \in HostMessages
  /\ Msg("Note", NoCall) \in HostMessages /\ Msg("Ready", NoCall) \in HostMessages
BY DEF HostMessages, Msg

LEMMA WorkerMsg ==
  /\ \A c \in Calls : \A t \in {"ChildStarted", "ChildStartError", "ChildSettled", "ChildDisposed"} :
       Msg(t, c) \in WorkerMessages
  /\ Msg("Go", NoCall) \in WorkerMessages /\ Msg("Cancel", NoCall) \in WorkerMessages
BY DEF WorkerMessages, Msg

LEMMA HostMsgIs ==
  ASSUME NEW m \in HostMessages
  PROVE  \/ m.type = "Ready" /\ m = Msg("Ready", NoCall)
         \/ m.type = "Note" /\ m = Msg("Note", NoCall)
         \/ /\ m.type \in {"AgentStart", "AgentEnd", "ChildStart", "ChildDispose"}
            /\ m.call \in Calls /\ m = Msg(m.type, m.call)
         \/ /\ m.type = "Result"
            /\ m.result \in [reason : Reasons, started : 0 .. Cardinality(Calls)]
BY DEF HostMessages, Msg

LEMMA WorkerMsgIs ==
  ASSUME NEW m \in WorkerMessages
  PROVE  \/ m.type = "Go" /\ m = Msg("Go", NoCall)
         \/ m.type = "Cancel" /\ m = Msg("Cancel", NoCall)
         \/ /\ m.type \in {"ChildStarted", "ChildStartError", "ChildSettled", "ChildDisposed"}
            /\ m.call \in Calls /\ m = Msg(m.type, m.call)
BY DEF WorkerMessages, Msg

(* What a message to the worker adds. *)
LEMMA PostOne ==
  ASSUME toWorker \in Seq(WorkerMessages), NEW m \in WorkerMessages, Post(<<m>>)
  PROVE  /\ toWorker' \in Seq(WorkerMessages)
         /\ Elements(toWorker') \subseteq Elements(toWorker) \cup {m}
         /\ Single(toWorker) /\ (m.type \in Once => m \notin Elements(toWorker)) => Single(toWorker')
<1>1. toWorker \o <<m>> = Append(toWorker, m)
  BY AppendIsConcat
<1>2. toWorker' = toWorker \/ toWorker' = Append(toWorker, m)
  BY <1>1 DEF Post
<1>3. /\ Append(toWorker, m) \in Seq(WorkerMessages)
      /\ Elements(Append(toWorker, m)) = Elements(toWorker) \cup {m}
      /\ Single(toWorker) /\ (m.type \in Once => m \notin Elements(toWorker))
           => Single(Append(toWorker, m))
  BY AppendTo
<1>4. CASE toWorker' = toWorker
  BY <1>4
<1>5. CASE toWorker' = Append(toWorker, m)
  BY <1>3, <1>5
<1> QED
  BY <1>2, <1>4, <1>5

--------------------------------------------------------------------------------
(* The steps, one for each kind of message *)

Reads(m) ==
  /\ thread = "up" /\ toWorker # <<>> /\ Head(toWorker) = m /\ toWorker' = Tail(toWorker)
  /\ UNCHANGED <<reported, notes>> /\ WorkerUnchanged

GoRead ==
  /\ Reads(Msg("Go", NoCall))
  /\ script' = IF script = "gated" THEN "running" ELSE script
  /\ UNCHANGED <<told, call, waiters, toHost>>

CancelRead ==
  /\ Reads(Msg("Cancel", NoCall))
  /\ told' = TRUE
  /\ call' = [x \in Calls |-> IF call[x] = "queued" THEN "ended" ELSE call[x]]
  /\ waiters' = <<>>
  /\ \/ script = "gated" /\ script' = "done" /\ toHost' = Append(toHost, Drive("cancelled", TRUE))
     \/ UNCHANGED <<script, toHost>>

StartedRead(c) ==
  /\ Reads(Msg("ChildStarted", c))
  /\ \/ /\ told /\ call' = [call EXCEPT ![c] = "disposing"]
        /\ toHost' = Append(toHost, Msg("ChildDispose", c))
     \/ /\ ~told /\ call' = [call EXCEPT ![c] = "running"]
        /\ toHost' = Append(toHost, Msg("AgentStart", c))
  /\ UNCHANGED <<script, told, waiters>>

ReleaseRead(c) ==
  /\ Reads(Msg("ChildStartError", c)) \/ Reads(Msg("ChildDisposed", c))
  /\ ReleaseSlot(c)
  /\ UNCHANGED <<script, told>>

SettledRead(c) ==
  /\ Reads(Msg("ChildSettled", c))
  /\ \/ /\ call[c] = "running" /\ call' = [call EXCEPT ![c] = "disposing"]
        /\ toHost' = Append(Append(toHost, Msg("AgentEnd", c)), Msg("ChildDispose", c))
     \/ call[c] # "running" /\ UNCHANGED <<call, toHost>>
  /\ UNCHANGED <<script, told, waiters>>

Gets(m) == toHost # <<>> /\ ~gone /\ Head(toHost) = m /\ toHost' = Tail(toHost) /\ UNCHANGED worker

BarredRead == \E m \in HostMessages : Gets(m) /\ Barred /\ UNCHANGED <<host, toWorker, ended, late>>
ReadyRead == Gets(Msg("Ready", NoCall)) /\ ~Barred /\ OnReady
NoteRead == Gets(Msg("Note", NoCall)) /\ ~Barred /\ OnNote
AgentStartRead(c) == Gets(Msg("AgentStart", c)) /\ ~Barred /\ OnAgentStart(c)
AgentEndRead(c) == Gets(Msg("AgentEnd", c)) /\ ~Barred /\ OnAgentEnd(c)
ChildStartRead(c) == Gets(Msg("ChildStart", c)) /\ ~Barred /\ OnChildStart(c)
ChildDisposeRead(c) == Gets(Msg("ChildDispose", c)) /\ ~Barred /\ OnChildDispose(c)
ResultRead ==
  \E m \in HostMessages : m.type = "Result" /\ Gets(m) /\ ~Barred /\ OnResult(m.result)

LEMMA WorkerReads ==
  ASSUME Typed, WorkerReceives
  PROVE  \/ GoRead \/ CancelRead
         \/ \E c \in Calls : StartedRead(c) \/ ReleaseRead(c) \/ SettledRead(c)
<1> DEFINE m == Head(toWorker)
<1>1. toWorker # <<>> /\ toWorker \in Seq(WorkerMessages) /\ m \in WorkerMessages
  BY TailOf DEF Typed, WorkerReceives
<1>2. Reads(m)
  BY <1>1 DEF WorkerReceives, Reads
<1>3. PICK x \in WorkerMessages : x = m
  BY <1>1
<1> HIDE DEF m
<1>4. \/ m = Msg("Go", NoCall) \/ m = Msg("Cancel", NoCall)
      \/ /\ m.type \in {"ChildStarted", "ChildStartError", "ChildSettled", "ChildDisposed"}
         /\ m.call \in Calls /\ m = Msg(m.type, m.call)
  BY <1>3, WorkerMsgIs
<1>5. m.type = "Go" => GoRead
  <2> SUFFICES ASSUME m.type = "Go" PROVE GoRead
    OBVIOUS
  <2>1. m = Msg("Go", NoCall)
    BY <1>4, MsgIs
  <2> QED
    BY <1>2, <2>1, MsgIs DEF WorkerReceives, GoRead, m
<1>6. m.type = "Cancel" => CancelRead
  <2> SUFFICES ASSUME m.type = "Cancel" PROVE CancelRead
    OBVIOUS
  <2>1. m = Msg("Cancel", NoCall)
    BY <1>4, MsgIs
  <2> QED
    BY <1>2, <2>1, MsgIs DEF WorkerReceives, CancelRead, m
<1>7. ASSUME m.type = "ChildStarted" PROVE m.call \in Calls /\ StartedRead(m.call)
  <2>1. m.call \in Calls /\ m = Msg("ChildStarted", m.call)
    BY <1>4, <1>7, MsgIs
  <2> QED
    BY <1>2, <1>7, <2>1 DEF WorkerReceives, StartedRead, m
<1>8. ASSUME m.type \in {"ChildStartError", "ChildDisposed"}
      PROVE m.call \in Calls /\ ReleaseRead(m.call)
  <2>1. m.call \in Calls /\ m = Msg(m.type, m.call)
    BY <1>4, <1>8, MsgIs
  <2>2. Reads(Msg("ChildStartError", m.call)) \/ Reads(Msg("ChildDisposed", m.call))
    BY <1>2, <1>8, <2>1
  <2>3. ReleaseSlot(m.call) /\ UNCHANGED <<script, told>>
    BY <1>8 DEF WorkerReceives, m
  <2> QED
    BY <2>1, <2>2, <2>3 DEF ReleaseRead
<1>9. ASSUME m.type = "ChildSettled" PROVE m.call \in Calls /\ SettledRead(m.call)
  <2>1. m.call \in Calls /\ m = Msg("ChildSettled", m.call)
    BY <1>4, <1>9, MsgIs
  <2>2. toHost \o <<Msg("AgentEnd", m.call), Msg("ChildDispose", m.call)>>
          = Append(Append(toHost, Msg("AgentEnd", m.call)), Msg("ChildDispose", m.call))
    <3> DEFINE e == Msg("AgentEnd", m.call)
               d == Msg("ChildDispose", m.call)
    <3>1. e \in HostMessages /\ d \in HostMessages /\ toHost \in Seq(HostMessages)
      BY <2>1, HostMsg DEF Typed
    <3> HIDE DEF e, d
    <3>2. toHost \o <<e, d>> = Append(Append(toHost, e), d)
      BY <3>1
    <3> QED
      BY <3>2 DEF e, d
  <2> QED
    BY <1>2, <1>9, <2>1, <2>2 DEF WorkerReceives, SettledRead, m
<1> QED
  BY <1>4, <1>5, <1>6, <1>7, <1>8, <1>9, MsgIs

LEMMA HostReads ==
  ASSUME Typed, HostReceives
  PROVE  \/ BarredRead \/ ReadyRead \/ NoteRead \/ ResultRead
         \/ \E c \in Calls : \/ AgentStartRead(c) \/ AgentEndRead(c) \/ ChildStartRead(c)
                             \/ ChildDisposeRead(c)
<1> DEFINE m == Head(toHost)
<1>1. toHost # <<>> /\ toHost \in Seq(HostMessages) /\ m \in HostMessages
  BY TailOf DEF Typed, HostReceives
<1>2. Gets(m)
  BY <1>1 DEF HostReceives, Gets
<1>3. CASE Barred /\ UNCHANGED <<host, toWorker, ended, late>>
  BY <1>1, <1>2, <1>3 DEF BarredRead
<1>4. \/ Barred /\ UNCHANGED <<host, toWorker, ended, late>>
      \/ ~Barred /\ m.type = "Ready" /\ OnReady
      \/ ~Barred /\ m.type = "Note" /\ OnNote
      \/ ~Barred /\ m.type = "AgentStart" /\ OnAgentStart(m.call)
      \/ ~Barred /\ m.type = "AgentEnd" /\ OnAgentEnd(m.call)
      \/ ~Barred /\ m.type = "ChildStart" /\ OnChildStart(m.call)
      \/ ~Barred /\ m.type = "ChildDispose" /\ OnChildDispose(m.call)
      \/ ~Barred /\ m.type = "Result" /\ OnResult(m.result)
  BY Zenon DEF HostReceives
<1>5. PICK x \in HostMessages : x = m
  BY <1>1
<1> HIDE DEF m
<1>6. \/ m.type = "Ready" /\ m = Msg("Ready", NoCall)
      \/ m.type = "Note" /\ m = Msg("Note", NoCall)
      \/ /\ m.type \in {"AgentStart", "AgentEnd", "ChildStart", "ChildDispose"}
         /\ m.call \in Calls /\ m = Msg(m.type, m.call)
      \/ m.type = "Result"
  BY <1>5, HostMsgIs
<1>7. ASSUME ~(Barred /\ UNCHANGED <<host, toWorker, ended, late>>)
      PROVE  \/ ReadyRead \/ NoteRead \/ ResultRead
             \/ /\ m.call \in Calls
                /\ \/ AgentStartRead(m.call) \/ AgentEndRead(m.call) \/ ChildStartRead(m.call)
                   \/ ChildDisposeRead(m.call)
  <2>1. CASE m.type = "Ready"
    BY <1>2, <1>4, <1>6, <1>7, <2>1 DEF ReadyRead
  <2>2. CASE m.type = "Note"
    BY <1>2, <1>4, <1>6, <1>7, <2>2 DEF NoteRead
  <2>3. CASE m.type = "Result"
    BY <1>1, <1>2, <1>4, <1>7, <2>3 DEF ResultRead
  <2>4. CASE m.type \in {"AgentStart", "AgentEnd", "ChildStart", "ChildDispose"}
    BY <1>2, <1>4, <1>6, <1>7, <2>4 DEF AgentStartRead, AgentEndRead, ChildStartRead, ChildDisposeRead
  <2> QED
    BY <1>6, <2>1, <2>2, <2>3, <2>4
<1> QED
  BY <1>3, <1>7

WorkerMoves ==
  \/ Narrate \/ Crash \/ Terminated \/ GoRead \/ CancelRead
  \/ (\E r \in {"completed", "error"} : ScriptEnds(r))
  \/ \E c \in Calls : CallAgent(c) \/ StartedRead(c) \/ ReleaseRead(c) \/ SettledRead(c)

HostMoves ==
  \/ BarredRead \/ ReadyRead \/ NoteRead \/ ResultRead
  \/ ErrorEvent \/ ExitEvent \/ GraceExpires \/ Cancel \/ Dispose
  \/ DisposeReturns \/ (\E slept \in BOOLEAN : DisposeTerminates(slept))
  \/ \E c \in Calls : \/ AgentStartRead(c) \/ AgentEndRead(c) \/ ChildStartRead(c)
                      \/ ChildDisposeRead(c) \/ ProviderStep(c)

LEMMA Moves ==
  ASSUME Typed, [Next]_vars
  PROVE  UNCHANGED vars \/ (Fixed /\ (WorkerMoves \/ HostMoves))
BY WorkerReads, HostReads
DEF Next, Steps, WorkerStep, HostStep, DisposeStep, Rest, WorkerMoves, HostMoves

--------------------------------------------------------------------------------
(* What a read and a send do to the channels, in one statement each *)

HostKinds == {"AgentStart", "AgentEnd", "ChildStart", "ChildDispose"}
WorkerKinds == {"ChildStarted", "ChildStartError", "ChildSettled", "ChildDisposed"}

(* Nothing new in a channel. *)
HostQuiet ==
  /\ toHost' \in Seq(HostMessages) /\ Elements(toHost') \subseteq Elements(toHost)
  /\ Single(toHost) => Single(toHost')
WorkerQuiet ==
  /\ toWorker' \in Seq(WorkerMessages) /\ Elements(toWorker') \subseteq Elements(toWorker)
  /\ Single(toWorker) => Single(toWorker')

(* One message more. *)
HostSent(m) ==
  /\ toHost' \in Seq(HostMessages) /\ Elements(toHost') = Elements(toHost) \cup {m}
  /\ Single(toHost) /\ (m.type \in Once => m \notin Elements(toHost)) => Single(toHost')
WorkerSent(m) ==
  /\ toWorker' \in Seq(WorkerMessages) /\ Elements(toWorker') \subseteq Elements(toWorker) \cup {m}
  /\ Single(toWorker) /\ (m.type \in Once => m \notin Elements(toWorker)) => Single(toWorker')

LEMMA HostAppends ==
  ASSUME Typed, NEW m \in HostMessages, toHost' = Append(toHost, m)
  PROVE  HostSent(m)
<1>1. toHost \in Seq(HostMessages)
  BY DEF Typed
<1>2. /\ Append(toHost, m) \in Seq(HostMessages)
      /\ Elements(Append(toHost, m)) = Elements(toHost) \cup {m}
      /\ Single(toHost) /\ (m.type \in Once => m \notin Elements(toHost))
           => Single(Append(toHost, m))
  BY <1>1, AppendTo
<1> QED
  BY <1>2 DEF HostSent

LEMMA WorkerPosts ==
  ASSUME Typed, NEW m \in WorkerMessages, Post(<<m>>)
  PROVE  WorkerSent(m)
BY PostOne DEF Typed, WorkerSent

LEMMA HostKeeps ==
  ASSUME Typed, UNCHANGED toHost
  PROVE  HostQuiet
BY DEF Typed, HostQuiet

LEMMA WorkerKeeps ==
  ASSUME Typed, UNCHANGED toWorker
  PROVE  WorkerQuiet
BY DEF Typed, WorkerQuiet

LEMMA HostTakes ==
  ASSUME Typed, NEW m, Gets(m)
  PROVE  /\ m \in HostMessages /\ m \in Elements(toHost) /\ HostQuiet
         /\ Single(toHost) /\ m.type \in Once => m \notin Elements(toHost')
<1>1. toHost \in Seq(HostMessages) /\ toHost # <<>> /\ m = Head(toHost) /\ toHost' = Tail(toHost)
  BY DEF Typed, Gets
<1>2. /\ Tail(toHost) \in Seq(HostMessages) /\ Elements(Tail(toHost)) \subseteq Elements(toHost)
      /\ Head(toHost) \in HostMessages /\ Head(toHost) \in Elements(toHost)
      /\ Single(toHost) => Single(Tail(toHost))
      /\ Single(toHost) /\ Head(toHost).type \in Once => Head(toHost) \notin Elements(Tail(toHost))
  BY <1>1, TailOf
<1> QED
  BY <1>1, <1>2 DEF HostQuiet

LEMMA WorkerTakes ==
  ASSUME Typed, NEW m, Reads(m)
  PROVE  /\ m \in WorkerMessages /\ m \in Elements(toWorker) /\ WorkerQuiet
         /\ Single(toWorker) /\ m.type \in Once => m \notin Elements(toWorker')
<1>1. /\ toWorker \in Seq(WorkerMessages) /\ toWorker # <<>>
      /\ m = Head(toWorker) /\ toWorker' = Tail(toWorker)
  BY DEF Typed, Reads
<1>2. /\ Tail(toWorker) \in Seq(WorkerMessages) /\ Elements(Tail(toWorker)) \subseteq Elements(toWorker)
      /\ Head(toWorker) \in WorkerMessages /\ Head(toWorker) \in Elements(toWorker)
      /\ Single(toWorker) => Single(Tail(toWorker))
      /\ Single(toWorker) /\ Head(toWorker).type \in Once
           => Head(toWorker) \notin Elements(Tail(toWorker))
  BY <1>1, TailOf
<1> QED
  BY <1>1, <1>2 DEF WorkerQuiet

(* The same about the messages of a call. *)
LEMMA HostQuietFor ==
  ASSUME HostQuiet, NEW c \in Calls
  PROVE  \A t \in HostKinds : InHost(t, c)' => InHost(t, c)
BY DEF HostQuiet, InHost

LEMMA WorkerQuietFor ==
  ASSUME WorkerQuiet, NEW c \in Calls
  PROVE  \A t \in WorkerKinds : InWorker(t, c)' => InWorker(t, c)
BY DEF WorkerQuiet, InWorker

LEMMA HostSentFor ==
  ASSUME NEW m, HostSent(m), NEW c \in Calls
  PROVE  \A t \in HostKinds : InHost(t, c)' => InHost(t, c) \/ (m.type = t /\ m.call = c)
BY MsgIs DEF HostSent, InHost

LEMMA WorkerSentFor ==
  ASSUME NEW m, WorkerSent(m), NEW c \in Calls
  PROVE  \A t \in WorkerKinds : InWorker(t, c)' => InWorker(t, c) \/ (m.type = t /\ m.call = c)
BY MsgIs DEF WorkerSent, InWorker

(* What the script reports. *)
LEMMA Driven ==
  ASSUME Typed, NEW r \in Reasons, NEW b \in BOOLEAN
  PROVE  /\ Drive(r, b) \in HostMessages /\ Drive(r, b).type = "Result"
         /\ Drive(r, b).result.reason = (IF b THEN "cancelled" ELSE r)
         /\ Drive(r, b).result.started = Cardinality({c \in Calls : call[c] # "none"})
<1>1. Cardinality({c \in Calls : call[c] # "none"}) \in 0 .. Cardinality(Calls)
  <2> DEFINE S == {c \in Calls : call[c] # "none"}
  <2>1. IsFiniteSet(S) /\ Cardinality(S) <= Cardinality(Calls)
    BY FS_Subset, CallsAssumption
  <2>2. Cardinality(S) \in Nat /\ Cardinality(Calls) \in Nat
    BY <2>1, FS_CardinalityType, CallsAssumption
  <2> QED
    BY <2>1, <2>2
<1>2. (IF b THEN "cancelled" ELSE r) \in Reasons
  BY DEF Reasons
<1> QED
  BY <1>1, <1>2 DEF Drive, HostMessages

--------------------------------------------------------------------------------
(* The initial states *)

LEMMA Start == Init => IInv
<1> SUFFICES ASSUME Init PROVE IInv
  OBVIOUS
<1> USE DEF Init
<1>1. /\ Msg("Ready", NoCall) \in HostMessages
      /\ toHost \in Seq(HostMessages) /\ toWorker \in Seq(WorkerMessages) /\ waiters \in Seq(Calls)
      /\ Elements(toHost) = {Msg("Ready", NoCall)} /\ Elements(toWorker) = {}
      /\ DOMAIN toWorker = {} /\ DOMAIN waiters = {} /\ DOMAIN toHost = {1}
  BY HostMsg DEF Elements
<1>2. Cardinality(Calls) \in Nat /\ IsFiniteSet(Calls)
  BY CallsAssumption, FS_CardinalityType
<1>3. setup.slots \in Nat /\ setup.notes \in Nat
  BY SetupsAssumption
<1>4. Typed
  <2>1. NoResult \in [reason : Reasons \cup {"none"}, started : 0 .. Cardinality(Calls),
                     seen : 0 .. Cardinality(Calls), open : 0 .. Cardinality(Calls)]
    BY <1>2 DEF NoResult
  <2>2. HostTyped
    BY <2>1 DEF HostTyped, ChildStates
  <2>3. WorkerTyped
    <3>1. notes \in 0 .. MaxNotes
      BY <1>3 DEF MaxNotes
    <3>2. call \in [Calls -> CallStates] /\ reported \subseteq Calls /\ waiters \in Seq(Calls)
      BY <1>1 DEF CallStates
    <3> QED
      BY <3>1, <3>2 DEF WorkerTyped
  <2> QED
    BY <1>1, <2>2, <2>3 DEF Typed
<1>5. Msg("Ready", NoCall).type = "Ready"
  BY MsgIs
<1>6. Decided
  BY <1>1, <1>5, MsgIs DEF Decided, Settled, NoResult
<1>7. InLine
  BY <1>1 DEF InLine
<1>8. Single(toHost) /\ Single(toWorker)
  BY <1>1 DEF Single
<1>9. ASSUME NEW c \in Calls, NEW t \in HostKinds \cup WorkerKinds
      PROVE  ~InHost(t, c) /\ ~InWorker(t, c)
  BY <1>1, MsgIs DEF InHost, InWorker, HostKinds, WorkerKinds
<1>10. Placed
  BY <1>8, <1>9 DEF Placed, Starting, Disposing, Standing, HostKinds, WorkerKinds
<1>11. Announced = {}
  BY DEF Announced
<1>12. Announcing
  BY <1>9, <1>11 DEF Announcing, HostKinds
<1>13. Slots
  <2>1. Holding = {} /\ {c \in Calls : child[c] # "none"} = {}
    BY DEF Holding
  <2>2. Cardinality({}) = 0
    BY FS_EmptySet
  <2> QED
    <3>1. Cardinality(Holding) <= MaxConcurrent
      BY <2>1, <2>2, <1>3 DEF MaxConcurrent
    <3>2. accepted = Cardinality({c \in Calls : child[c] # "none"})
      BY <2>1, <2>2
    <3> QED
      BY <3>1, <3>2 DEF Slots
<1>14. Counting
  <2>1. toHost[1].type # "Result"
    BY <1>5
  <2>2. ~Settled
    BY DEF Settled, NoResult
  <2> QED
    BY <2>1, <2>2, <1>1 DEF Counting, CountCovers
<1> QED
  BY <1>4, <1>6, <1>7, <1>10, <1>12, <1>13, <1>14 DEF IInv

--------------------------------------------------------------------------------
(* The types *)

LEMMA Limits ==
  ASSUME Typed
  PROVE  MaxConcurrent \in Nat \ {0} /\ MaxNotes \in Nat
BY SetupsAssumption DEF Typed, MaxConcurrent, MaxNotes

LEMMA LimitsStand ==
  ASSUME Fixed
  PROVE  /\ MaxConcurrent' = MaxConcurrent /\ MaxNotes' = MaxNotes /\ Features' = Features
BY DEF Fixed, MaxConcurrent, MaxNotes, Features

LEMMA Counted ==
  ASSUME Typed
  PROVE  /\ Cardinality(Calls) \in Nat /\ IsFiniteSet(Calls)
         /\ Cardinality(Announced) \in 0 .. Cardinality(Calls)
         /\ \A S : Cardinality(ledger \ S) \in 0 .. Cardinality(Calls)
<1>1. Cardinality(Calls) \in Nat /\ IsFiniteSet(Calls)
  BY CallsAssumption, FS_CardinalityType
<1>2. \A T \in SUBSET Calls : Cardinality(T) \in 0 .. Cardinality(Calls)
  <2> SUFFICES ASSUME NEW T \in SUBSET Calls PROVE Cardinality(T) \in 0 .. Cardinality(Calls)
    OBVIOUS
  <2>1. IsFiniteSet(T) /\ Cardinality(T) <= Cardinality(Calls)
    BY <1>1, FS_Subset
  <2>2. Cardinality(T) \in Nat
    BY <2>1, FS_CardinalityType
  <2> QED
    BY <1>1, <2>1, <2>2
<1>3. Announced \in SUBSET Calls /\ \A S : ledger \ S \in SUBSET Calls
  BY DEF Announced, Typed, HostTyped
<1> QED
  BY <1>1, <1>2, <1>3

(* A settlement is a result of the run. *)
LEMMA SettleTyped ==
  ASSUME Typed, NEW reason \in Reasons, NEW started \in 0 .. Cardinality(Calls), NEW S,
         Settle(reason, started, S)
  PROVE  /\ result' \in [reason : Reasons \cup {"none"}, started : 0 .. Cardinality(Calls),
                         seen : 0 .. Cardinality(Calls), open : 0 .. Cardinality(Calls)]
         /\ grace' = "off" /\ result'.reason = reason /\ Settled'
         /\ result'.started = started /\ result'.seen = Cardinality(Announced)
<1>1. reason # "none"
  BY DEF Reasons
<1> QED
  BY <1>1, Counted DEF Settle, Settled

LEMMA EndTyped ==
  ASSUME Typed, NEW cs, EndAgents(cs)
  PROVE  ended' \in [Calls -> Nat] /\ ledger' \subseteq Calls
BY DEF Typed, HostTyped, EndAgents, Unpaired

LEMMA LateTyped ==
  ASSUME Typed, NEW kinds \in SUBSET {"note", "agent-start", "agent-end"},
         Late(kinds) \/ UNCHANGED late
  PROVE  late' \subseteq {"note", "agent-start", "agent-end"}
BY DEF Typed, HostTyped, Late

LEMMA ReapedTyped ==
  ASSUME Typed
  PROVE  Reaped \in [Calls -> ChildStates] /\ \A c \in Calls : Reaped[c] # "live"
BY DEF Typed, HostTyped, Reaped, ChildStates

(* The requests accepted are at most one for each call. *)
LEMMA AcceptedBound ==
  ASSUME Typed, Slots
  PROVE  accepted \in 0 .. Cardinality(Calls)
<1> DEFINE S == {c \in Calls : child[c] # "none"}
<1>1. IsFiniteSet(S) /\ Cardinality(S) <= Cardinality(Calls)
  BY FS_Subset, CallsAssumption
<1>2. Cardinality(S) \in Nat /\ Cardinality(Calls) \in Nat
  BY <1>1, FS_CardinalityType, CallsAssumption
<1> QED
  BY <1>1, <1>2 DEF Slots

LEMMA CancelTyped ==
  ASSUME Typed, CancelEffects \/ UNCHANGED <<cancelled, grace, toWorker>>
  PROVE  /\ cancelled' \in BOOLEAN /\ grace' \in {"off", "armed"}
         /\ toWorker' \in Seq(WorkerMessages)
<1>1. CASE CancelEffects
  <2>1. WorkerSent(Msg("Cancel", NoCall))
    BY <1>1, WorkerMsg, WorkerPosts DEF CancelEffects
  <2> QED
    BY <1>1, <2>1 DEF CancelEffects, WorkerSent
<1>2. CASE UNCHANGED <<cancelled, grace, toWorker>>
  BY <1>2 DEF Typed, HostTyped
<1> QED
  BY <1>1, <1>2

LEMMA FirstDeathTyped ==
  ASSUME Typed, Slots, FirstDeath
  PROVE  /\ death' \in BOOLEAN /\ claimed' \in BOOLEAN /\ child' \in [Calls -> ChildStates]
         /\ ended' \in [Calls -> Nat] /\ ledger' \subseteq Calls
         /\ late' \subseteq {"note", "agent-start", "agent-end"}
         /\ result' \in [reason : Reasons \cup {"none"}, started : 0 .. Cardinality(Calls),
                         seen : 0 .. Cardinality(Calls), open : 0 .. Cardinality(Calls)]
         /\ grace' \in {"off", "armed"}
<1>1. Outcome("error") \in Reasons
  BY DEF Outcome, Reasons
<1>2. /\ result' \in [reason : Reasons \cup {"none"}, started : 0 .. Cardinality(Calls),
                      seen : 0 .. Cardinality(Calls), open : 0 .. Cardinality(Calls)]
      /\ grace' \in {"off", "armed"}
  <2>1. CASE claimed
    BY <2>1 DEF FirstDeath, Typed, HostTyped
  <2>2. CASE ~claimed
    <3>1. Settle(Outcome("error"), accepted, ledger)
      BY <2>2 DEF FirstDeath
    <3> QED
      BY <1>1, <3>1, AcceptedBound, SettleTyped
  <2> QED
    BY <2>1, <2>2
<1>3. late' \subseteq {"note", "agent-start", "agent-end"}
  BY LateTyped DEF FirstDeath
<1>4. ended' \in [Calls -> Nat] /\ ledger' \subseteq Calls
  BY EndTyped DEF FirstDeath
<1> QED
  BY <1>2, <1>3, <1>4, ReapedTyped DEF FirstDeath

HostTypedNow == HostTyped /\ toWorker \in Seq(WorkerMessages)
WorkerTypedNow == WorkerTyped /\ toHost \in Seq(HostMessages)

LEMMA TailTyped ==
  ASSUME NEW S, NEW q \in Seq(S), q # <<>>
  PROVE  Tail(q) \in Seq(S) /\ Head(q) \in S
BY TailOf

LEMMA WaitersTyped ==
  ASSUME Typed, NEW c \in Calls
  PROVE  Append(waiters, c) \in Seq(Calls)
BY AppendProperties DEF Typed, WorkerTyped

(* The worker's steps. *)
LEMMA ReleaseTyped ==
  ASSUME Typed, NEW c \in Calls, ReleaseSlot(c)
  PROVE  /\ call' \in [Calls -> CallStates] /\ waiters' \in Seq(Calls)
         /\ toHost' \in Seq(HostMessages)
<1>1. CASE waiters = <<>>
  BY <1>1 DEF ReleaseSlot, Typed, WorkerTyped, CallStates
<1>2. CASE waiters # <<>>
  <2>1. waiters \in Seq(Calls) /\ call \in [Calls -> CallStates]
    BY DEF Typed, WorkerTyped
  <2>2. Tail(waiters) \in Seq(Calls) /\ Head(waiters) \in Calls
    BY <1>2, <2>1, TailTyped
  <2>3. PICK h \in Calls : h = Head(waiters)
    BY <2>2
  <2>4. HostSent(Msg("ChildStart", h))
    BY <1>2, <2>3, HostMsg, HostAppends DEF ReleaseSlot
  <2>5. call' \in [Calls -> CallStates]
    BY <1>2, <2>1, <2>3 DEF ReleaseSlot, CallStates
  <2> QED
    BY <1>2, <2>2, <2>4, <2>5 DEF ReleaseSlot, HostSent
<1> QED
  BY <1>1, <1>2

LEMMA WorkerMovesTyped ==
  ASSUME Typed, Fixed, WorkerMoves
  PROVE  Typed'
<1> USE DEF CallStates
<1>0. MaxNotes' = MaxNotes /\ MaxNotes \in Nat
  BY Limits, LimitsStand
<1>1. ASSUME Narrate PROVE HostTypedNow' /\ WorkerTypedNow'
  <2>1. HostSent(Msg("Note", NoCall))
    BY <1>1, HostMsg, HostAppends DEF Narrate
  <2>2. notes' \in 0 .. MaxNotes
    BY <1>0, <1>1 DEF Typed, WorkerTyped, Narrate
  <2> QED
    BY <1>0, <1>1, <2>1, <2>2
    DEF Typed, HostTyped, WorkerTyped, HostTypedNow, WorkerTypedNow, HostSent, Narrate, WorkerUnchanged, host
<1>2. ASSUME Crash \/ Terminated PROVE HostTypedNow' /\ WorkerTypedNow'
  <2>1. HostTyped' /\ toHost' \in Seq(HostMessages) /\ toWorker' \in Seq(WorkerMessages)
    BY <1>2 DEF Typed, HostTyped, Crash, Terminated, host
  <2>2. thread' \in {"up", "dead"} /\ fault' \in BOOLEAN
    BY <1>2 DEF Typed, WorkerTyped, Crash, Terminated
  <2>3. WorkerTyped'
    BY <1>0, <1>2, <2>2 DEF Typed, WorkerTyped, Crash, Terminated
  <2> QED
    BY <2>1, <2>3 DEF HostTypedNow, WorkerTypedNow
<1>3. ASSUME GoRead PROVE HostTypedNow' /\ WorkerTypedNow'
  <2>1. WorkerQuiet
    BY <1>3, WorkerTakes DEF GoRead
  <2>2. HostTyped'
    BY <1>3 DEF Typed, HostTyped, GoRead, Reads, WorkerUnchanged, host
  <2>3. WorkerTyped'
    BY <1>0, <1>3 DEF Typed, WorkerTyped, GoRead, Reads, WorkerUnchanged
  <2>4. toHost' \in Seq(HostMessages)
    BY <1>3 DEF Typed, GoRead
  <2> QED
    BY <2>1, <2>2, <2>3, <2>4 DEF HostTypedNow, WorkerTypedNow, WorkerQuiet
<1>4. ASSUME CancelRead PROVE HostTypedNow' /\ WorkerTypedNow'
  <2>1. WorkerQuiet
    BY <1>4, WorkerTakes DEF CancelRead
  <2>2. HostTyped'
    BY <1>4 DEF Typed, HostTyped, CancelRead, Reads, WorkerUnchanged, host
  <2>3. WorkerTyped'
    <3>1. call' \in [Calls -> CallStates] /\ waiters' \in Seq(Calls)
      BY <1>4 DEF Typed, WorkerTyped, CancelRead
    <3> QED
      BY <1>0, <1>4, <3>1 DEF Typed, WorkerTyped, CancelRead, Reads, WorkerUnchanged
  <2>4. toHost' \in Seq(HostMessages)
    <3>1. CASE UNCHANGED toHost
      BY <3>1 DEF Typed
    <3>2. CASE toHost' = Append(toHost, Drive("cancelled", TRUE))
      <4>1. Drive("cancelled", TRUE) \in HostMessages
        BY Driven DEF Reasons
      <4> QED
        BY <3>2, <4>1, HostAppends DEF HostSent
    <3> QED
      BY <1>4, <3>1, <3>2 DEF CancelRead
  <2> QED
    BY <2>1, <2>2, <2>3, <2>4 DEF HostTypedNow, WorkerTypedNow, WorkerQuiet
<1>5. ASSUME NEW r \in {"completed", "error"}, ScriptEnds(r) PROVE HostTypedNow' /\ WorkerTypedNow'
  <2>1. Drive(r, told) \in HostMessages
    BY Driven DEF Reasons, Typed, WorkerTyped
  <2>2. HostSent(Drive(r, told))
    BY <1>5, <2>1, HostAppends DEF ScriptEnds
  <2> QED
    BY <1>0, <1>5, <2>2
    DEF Typed, HostTyped, WorkerTyped, HostTypedNow, WorkerTypedNow, HostSent, ScriptEnds, WorkerUnchanged, host
<1>6. ASSUME NEW c \in Calls, CallAgent(c) PROVE HostTypedNow' /\ WorkerTypedNow'
  <2>1. HostTypedNow'
    BY <1>6 DEF Typed, HostTyped, HostTypedNow, CallAgent, WorkerUnchanged, host
  <2>2. CASE Cardinality(Holding) < MaxConcurrent
    <3>1. HostSent(Msg("ChildStart", c))
      BY <1>6, <2>2, HostMsg, HostAppends DEF CallAgent
    <3> QED
      BY <1>0, <1>6, <2>1, <2>2, <3>1
      DEF Typed, WorkerTyped, WorkerTypedNow, HostSent, CallAgent, WorkerUnchanged
  <2>3. CASE ~(Cardinality(Holding) < MaxConcurrent)
    <3>1. waiters' \in Seq(Calls)
      BY <1>6, <2>3, WaitersTyped DEF CallAgent
    <3> QED
      BY <1>0, <1>6, <2>1, <2>3, <3>1
      DEF Typed, WorkerTyped, WorkerTypedNow, CallAgent, WorkerUnchanged
  <2> QED
    BY <2>2, <2>3
<1>7. ASSUME NEW c \in Calls, StartedRead(c) PROVE HostTypedNow' /\ WorkerTypedNow'
  <2>1. WorkerQuiet
    BY <1>7, WorkerTakes DEF StartedRead
  <2>2. HostTyped'
    BY <1>7 DEF Typed, HostTyped, StartedRead, Reads, WorkerUnchanged, host
  <2>3. WorkerTyped'
    BY <1>0, <1>7 DEF Typed, WorkerTyped, StartedRead, Reads, WorkerUnchanged
  <2>4. HostSent(Msg("ChildDispose", c)) \/ HostSent(Msg("AgentStart", c))
    BY <1>7, HostMsg, HostAppends DEF StartedRead
  <2> QED
    BY <2>1, <2>2, <2>3, <2>4 DEF HostTypedNow, WorkerTypedNow, WorkerQuiet, HostSent
<1>8. ASSUME NEW c \in Calls, ReleaseRead(c) PROVE HostTypedNow' /\ WorkerTypedNow'
  <2>1. WorkerQuiet
    BY <1>8, WorkerTakes DEF ReleaseRead
  <2>2. HostTyped'
    BY <1>8 DEF Typed, HostTyped, ReleaseRead, Reads, WorkerUnchanged, host
  <2>3. /\ call' \in [Calls -> CallStates] /\ waiters' \in Seq(Calls)
        /\ toHost' \in Seq(HostMessages)
    BY <1>8, ReleaseTyped DEF ReleaseRead
  <2>4. WorkerTyped'
    BY <1>0, <1>8, <2>3 DEF Typed, WorkerTyped, ReleaseRead, Reads, WorkerUnchanged
  <2> QED
    BY <2>1, <2>2, <2>3, <2>4 DEF HostTypedNow, WorkerTypedNow, WorkerQuiet
<1>9. ASSUME NEW c \in Calls, SettledRead(c) PROVE HostTypedNow' /\ WorkerTypedNow'
  <2>1. WorkerQuiet
    BY <1>9, WorkerTakes DEF SettledRead
  <2>2. HostTyped'
    BY <1>9 DEF Typed, HostTyped, SettledRead, Reads, WorkerUnchanged, host
  <2>3. WorkerTyped'
    BY <1>0, <1>9 DEF Typed, WorkerTyped, SettledRead, Reads, WorkerUnchanged
  <2>4. toHost' \in Seq(HostMessages)
    <3> DEFINE e == Msg("AgentEnd", c)
               d == Msg("ChildDispose", c)
    <3>1. e \in HostMessages /\ d \in HostMessages /\ toHost \in Seq(HostMessages)
      BY HostMsg DEF Typed
    <3>2. toHost' = Append(Append(toHost, e), d) \/ UNCHANGED toHost
      BY <1>9 DEF SettledRead
    <3> HIDE DEF e, d
    <3>3. Append(Append(toHost, e), d) \in Seq(HostMessages)
      BY <3>1, AppendProperties
    <3> QED
      BY <3>1, <3>2, <3>3
  <2> QED
    BY <2>1, <2>2, <2>3, <2>4 DEF HostTypedNow, WorkerTypedNow, WorkerQuiet
<1>10. setup' \in Setups
  BY DEF Typed, Fixed
<1> QED
  BY <1>1, <1>2, <1>3, <1>4, <1>5, <1>6, <1>7, <1>8, <1>9, <1>10
  DEF WorkerMoves, Typed, HostTypedNow, WorkerTypedNow

(* The host's steps. *)
LEMMA WorkerStands ==
  ASSUME Typed, Fixed, UNCHANGED worker
  PROVE  WorkerTyped'
<1>1. MaxNotes' = MaxNotes
  BY LimitsStand
<1> QED
  BY <1>1 DEF Typed, WorkerTyped, worker

LEMMA HostMovesTyped ==
  ASSUME Typed, Slots, Fixed, HostMoves
  PROVE  Typed'
<1> USE DEF ChildStates
<1>0. MaxNotes' = MaxNotes
  BY LimitsStand
<1>1. ASSUME NEW m, Gets(m) PROVE WorkerTypedNow'
  <2>1. toHost' \in Seq(HostMessages)
    BY <1>1, HostTakes DEF HostQuiet
  <2>2. WorkerTyped'
    BY <1>1, WorkerStands DEF Gets
  <2> QED
    BY <2>1, <2>2 DEF WorkerTypedNow
<1>2. ASSUME BarredRead PROVE HostTypedNow' /\ WorkerTypedNow'
  <2>1. HostTypedNow'
    BY <1>2 DEF BarredRead, host, Typed, HostTyped, HostTypedNow
  <2> QED
    BY <1>1, <1>2, <2>1 DEF BarredRead
<1>3. ASSUME ReadyRead PROVE HostTypedNow' /\ WorkerTypedNow'
  <2>1. WorkerSent(Msg("Go", NoCall))
    BY <1>3, WorkerMsg, WorkerPosts DEF ReadyRead, OnReady
  <2>2. HostTypedNow'
    BY <1>3, <2>1 DEF ReadyRead, OnReady, host, Typed, HostTyped, HostTypedNow, WorkerSent
  <2> QED
    BY <1>1, <1>3, <2>2 DEF ReadyRead
<1>4. ASSUME NoteRead PROVE HostTypedNow' /\ WorkerTypedNow'
  <2>1. late' \subseteq {"note", "agent-start", "agent-end"}
    BY <1>4, LateTyped DEF NoteRead, OnNote
  <2>2. HostTypedNow'
    BY <1>4, <2>1 DEF NoteRead, OnNote, host, Typed, HostTyped, HostTypedNow
  <2> QED
    BY <1>1, <1>4, <2>2 DEF NoteRead
<1>5. ASSUME NEW c \in Calls, AgentStartRead(c) PROVE HostTypedNow' /\ WorkerTypedNow'
  <2>1. late' \subseteq {"note", "agent-start", "agent-end"}
    BY <1>5, LateTyped DEF AgentStartRead, OnAgentStart
  <2>2. HostTypedNow'
    BY <1>5, <2>1 DEF AgentStartRead, OnAgentStart, Typed, HostTyped, HostTypedNow
  <2> QED
    BY <1>1, <1>5, <2>2 DEF AgentStartRead
<1>6. ASSUME NEW c \in Calls, AgentEndRead(c) PROVE HostTypedNow' /\ WorkerTypedNow'
  <2>1. late' \subseteq {"note", "agent-start", "agent-end"}
    BY <1>6, LateTyped DEF AgentEndRead, OnAgentEnd
  <2>2. ended' \in [Calls -> Nat] /\ ledger' \subseteq Calls
    BY <1>6, EndTyped DEF AgentEndRead, OnAgentEnd
  <2>3. HostTypedNow'
    BY <1>6, <2>1, <2>2 DEF AgentEndRead, OnAgentEnd, Typed, HostTyped, HostTypedNow
  <2> QED
    BY <1>1, <1>6, <2>3 DEF AgentEndRead
<1>7. ASSUME NEW c \in Calls, ChildStartRead(c) PROVE HostTypedNow' /\ WorkerTypedNow'
  <2>1. CASE Admitting
    <3>1. HostTypedNow'
      BY <1>7, <2>1 DEF ChildStartRead, OnChildStart, Typed, HostTyped, HostTypedNow
    <3> QED
      BY <1>1, <1>7, <3>1 DEF ChildStartRead
  <2>2. CASE ~Admitting
    <3>1. WorkerSent(Msg("ChildStartError", c))
      BY <1>7, <2>2, WorkerMsg, WorkerPosts DEF ChildStartRead, OnChildStart
    <3>2. HostTypedNow'
      BY <1>7, <2>2, <3>1 DEF ChildStartRead, OnChildStart, Typed, HostTyped, HostTypedNow, WorkerSent
    <3> QED
      BY <1>1, <1>7, <3>2 DEF ChildStartRead
  <2> QED
    BY <2>1, <2>2
<1>8. ASSUME NEW c \in Calls, ChildDisposeRead(c) PROVE HostTypedNow' /\ WorkerTypedNow'
  <2>1. CASE child[c] = "gone"
    <3>1. WorkerSent(Msg("ChildDisposed", c))
      BY <1>8, <2>1, WorkerMsg, WorkerPosts DEF ChildDisposeRead, OnChildDispose
    <3>2. HostTypedNow'
      BY <1>8, <2>1, <3>1 DEF ChildDisposeRead, OnChildDispose, Typed, HostTyped, HostTypedNow, WorkerSent
    <3> QED
      BY <1>1, <1>8, <3>2 DEF ChildDisposeRead
  <2>2. CASE child[c] # "gone"
    <3>1. HostTypedNow'
      BY <1>8, <2>2 DEF ChildDisposeRead, OnChildDispose, Typed, HostTyped, HostTypedNow
    <3> QED
      BY <1>1, <1>8, <3>1 DEF ChildDisposeRead
  <2> QED
    BY <2>1, <2>2
<1>9. ASSUME ResultRead PROVE HostTypedNow' /\ WorkerTypedNow'
  <2>1. PICK m \in HostMessages : m.type = "Result" /\ Gets(m) /\ ~Barred /\ OnResult(m.result)
    BY <1>9 DEF ResultRead
  <2>2. m.result.reason \in Reasons /\ m.result.started \in 0 .. Cardinality(Calls)
    BY <2>1, HostMsgIs
  <2>3. HostTypedNow'
    <3>1. CASE claimed
      BY <2>1, <3>1 DEF OnResult, Typed, HostTyped, HostTypedNow
    <3>2. CASE ~claimed
      <4>1. Settle(Outcome(m.result.reason), m.result.started, {})
        BY <2>1, <3>2 DEF OnResult
      <4>2. Outcome(m.result.reason) \in Reasons
        BY <2>2 DEF Outcome, Reasons
      <4>3. /\ result' \in [reason : Reasons \cup {"none"}, started : 0 .. Cardinality(Calls),
                            seen : 0 .. Cardinality(Calls), open : 0 .. Cardinality(Calls)]
            /\ grace' = "off"
        BY <2>2, <4>1, <4>2, SettleTyped
      <4>4. child' \in [Calls -> ChildStates] /\ claimed' \in BOOLEAN
        BY <2>1, <3>2, ReapedTyped DEF OnResult
      <4> QED
        BY <2>1, <4>3, <4>4 DEF OnResult, Typed, HostTyped, HostTypedNow
    <3> QED
      BY <3>1, <3>2
  <2> QED
    BY <1>1, <2>1, <2>3
<1>10. ASSUME ErrorEvent PROVE HostTypedNow' /\ WorkerTypedNow'
  <2>1. WorkerTypedNow'
    BY <1>0, <1>10 DEF ErrorEvent, Typed, WorkerTyped, WorkerTypedNow
  <2>2. CASE death
    BY <1>10, <2>1, <2>2 DEF ErrorEvent, Typed, HostTyped, HostTypedNow
  <2>3. CASE ~death
    <3>1. FirstDeath
      BY <1>10, <2>3 DEF ErrorEvent
    <3>2. /\ death' \in BOOLEAN /\ claimed' \in BOOLEAN /\ child' \in [Calls -> ChildStates]
          /\ ended' \in [Calls -> Nat] /\ ledger' \subseteq Calls
          /\ late' \subseteq {"note", "agent-start", "agent-end"}
          /\ result' \in [reason : Reasons \cup {"none"}, started : 0 .. Cardinality(Calls),
                          seen : 0 .. Cardinality(Calls), open : 0 .. Cardinality(Calls)]
          /\ grace' \in {"off", "armed"}
      BY <3>1, FirstDeathTyped
    <3>3. HostTypedNow'
      BY <1>10, <3>2 DEF ErrorEvent, Typed, HostTyped, HostTypedNow
    <3> QED
      BY <2>1, <3>3
  <2> QED
    BY <2>2, <2>3
<1>11. ASSUME ExitEvent PROVE HostTypedNow' /\ WorkerTypedNow'
  <2>1. WorkerTypedNow'
    <3>1. toHost' \in Seq(HostMessages)
      BY <1>11 DEF ExitEvent
    <3>2. WorkerTyped'
      BY <1>11, WorkerStands DEF ExitEvent
    <3> QED
      BY <3>1, <3>2 DEF WorkerTypedNow
  <2>2. CASE death
    <3>1. late' \subseteq {"note", "agent-start", "agent-end"}
      BY <1>11, <2>2, LateTyped DEF ExitEvent
    <3>2. ended' \in [Calls -> Nat] /\ ledger' \subseteq Calls
      BY <1>11, <2>2, EndTyped DEF ExitEvent
    <3>3. child' \in [Calls -> ChildStates]
      BY <1>11, <2>2, ReapedTyped DEF ExitEvent
    <3>4. HostTypedNow'
      BY <1>11, <2>2, <3>1, <3>2, <3>3 DEF ExitEvent, Typed, HostTyped, HostTypedNow
    <3> QED
      BY <2>1, <3>4
  <2>3. CASE ~death
    <3>1. FirstDeath
      BY <1>11, <2>3 DEF ExitEvent
    <3>2. /\ death' \in BOOLEAN /\ claimed' \in BOOLEAN /\ child' \in [Calls -> ChildStates]
          /\ ended' \in [Calls -> Nat] /\ ledger' \subseteq Calls
          /\ late' \subseteq {"note", "agent-start", "agent-end"}
          /\ result' \in [reason : Reasons \cup {"none"}, started : 0 .. Cardinality(Calls),
                          seen : 0 .. Cardinality(Calls), open : 0 .. Cardinality(Calls)]
          /\ grace' \in {"off", "armed"}
      BY <3>1, FirstDeathTyped
    <3>3. HostTypedNow'
      BY <1>11, <3>2 DEF ExitEvent, Typed, HostTyped, HostTypedNow
    <3> QED
      BY <2>1, <3>3
  <2> QED
    BY <2>2, <2>3
<1>12. ASSUME GraceExpires PROVE HostTypedNow' /\ WorkerTypedNow'
  <2>1. WorkerTypedNow'
    BY <1>0, <1>12 DEF GraceExpires, Typed, WorkerTyped, WorkerTypedNow
  <2>2. ended' \in [Calls -> Nat] /\ ledger' \subseteq Calls
    BY <1>12, EndTyped DEF GraceExpires
  <2>3. /\ result' \in [reason : Reasons \cup {"none"}, started : 0 .. Cardinality(Calls),
                        seen : 0 .. Cardinality(Calls), open : 0 .. Cardinality(Calls)]
        /\ grace' = "off"
    <3>1. Settle("cancelled", accepted, ledger) /\ "cancelled" \in Reasons
      BY <1>12 DEF GraceExpires, Reasons
    <3> QED
      BY <3>1, AcceptedBound, SettleTyped
  <2>4. HostTypedNow'
    BY <1>12, <2>2, <2>3 DEF GraceExpires, Typed, HostTyped, HostTypedNow
  <2> QED
    BY <2>1, <2>4
<1>13. ASSUME Cancel PROVE HostTypedNow' /\ WorkerTypedNow'
  <2>1. WorkerTypedNow'
    BY <1>13, WorkerStands DEF Cancel, Typed, WorkerTypedNow
  <2>2. /\ cancelled' \in BOOLEAN /\ grace' \in {"off", "armed"}
        /\ toWorker' \in Seq(WorkerMessages)
    BY <1>13, CancelTyped DEF Cancel
  <2>3. HostTypedNow'
    BY <1>13, <2>2 DEF Cancel, Typed, HostTyped, HostTypedNow
  <2> QED
    BY <2>1, <2>3
<1>14. ASSUME Dispose PROVE HostTypedNow' /\ WorkerTypedNow'
  <2>1. WorkerTypedNow'
    BY <1>14, WorkerStands DEF Dispose, Typed, WorkerTypedNow
  <2>2. /\ cancelled' \in BOOLEAN /\ grace' \in {"off", "armed"}
        /\ toWorker' \in Seq(WorkerMessages)
    BY <1>14, CancelTyped DEF Dispose
  <2>3. HostTypedNow'
    BY <1>14, <2>2, ReapedTyped DEF Dispose, Typed, HostTyped, HostTypedNow
  <2> QED
    BY <2>1, <2>3
<1>15. ASSUME DisposeReturns PROVE HostTypedNow' /\ WorkerTypedNow'
  <2>1. WorkerTypedNow'
    BY <1>15, WorkerStands DEF DisposeReturns, Typed, WorkerTypedNow
  <2>2. HostTypedNow'
    BY <1>15, ReapedTyped DEF DisposeReturns, Typed, HostTyped, HostTypedNow
  <2> QED
    BY <2>1, <2>2
<1>16. ASSUME NEW slept \in BOOLEAN, DisposeTerminates(slept) PROVE HostTypedNow' /\ WorkerTypedNow'
  <2>1. WorkerTypedNow'
    BY <1>0, <1>16 DEF DisposeTerminates, Typed, WorkerTyped, WorkerTypedNow
  <2>2. HostTypedNow'
    BY <1>16 DEF DisposeTerminates, Typed, HostTyped, HostTypedNow
  <2> QED
    BY <2>1, <2>2
<1>17. ASSUME NEW c \in Calls, ProviderStep(c) PROVE HostTypedNow' /\ WorkerTypedNow'
  <2>1. /\ ProviderUnchanged /\ child' \in [Calls -> ChildStates] /\ acks' \subseteq Calls
        /\ reported' \subseteq Calls
    BY <1>17
    DEF ProviderStep, StartFulfils, StartRejects, ChildSettles, ChildDisposed, Typed, HostTyped, WorkerTyped
  <2>2. toWorker' \in Seq(WorkerMessages)
    <3>1. CASE UNCHANGED toWorker
      BY <3>1 DEF Typed
    <3>2. CASE \E t \in WorkerKinds : Post(<<Msg(t, c)>>)
      BY <3>2, WorkerMsg, WorkerPosts DEF WorkerKinds, WorkerSent
    <3> QED
      BY <1>17, <3>1, <3>2
      DEF ProviderStep, StartFulfils, StartRejects, ChildSettles, ChildDisposed, WorkerKinds
  <2>3. WorkerTypedNow'
    BY <1>0, <2>1 DEF ProviderUnchanged, Typed, WorkerTyped, WorkerTypedNow
  <2>4. HostTypedNow'
    BY <2>1, <2>2 DEF ProviderUnchanged, Typed, HostTyped, HostTypedNow
  <2> QED
    BY <2>3, <2>4
<1>18. setup' \in Setups
  BY DEF Typed, Fixed
<1> QED
  BY <1>2, <1>3, <1>4, <1>5, <1>6, <1>7, <1>8, <1>9, <1>10, <1>11, <1>12, <1>13, <1>14, <1>15,
     <1>16, <1>17, <1>18
  DEF HostMoves, Typed, HostTypedNow, WorkerTypedNow

--------------------------------------------------------------------------------
(* The decision *)

DecidedHost ==
  /\ claimed <=> Settled
  /\ grace = "armed" => cancelled /\ ~claimed
  /\ death => claimed
  /\ gone => death
  /\ disposal # "none" => cancelled \/ claimed
  /\ Settled => (cancelled <=> result.reason = "cancelled")
  /\ disposal = "done" => \A c \in Calls : child[c] # "live"

DecidedWord ==
  /\ told \/ Msg("Cancel", NoCall) \in Elements(toWorker) => cancelled
  /\ \A m \in Elements(toHost) : m.type = "Result" /\ m.result.reason = "cancelled" => cancelled

LEMMA DecidedParts ==
  /\ Decided <=> DecidedHost /\ DecidedWord
  /\ Decided' <=> DecidedHost' /\ DecidedWord'
BY DEF Decided, DecidedHost, DecidedWord

(* The word of a cancellation spreads through the channels. *)
LEMMA WordKept ==
  ASSUME DecidedWord, cancelled => cancelled',
         told' => told \/ cancelled',
         Msg("Cancel", NoCall) \in Elements(toWorker') =>
           Msg("Cancel", NoCall) \in Elements(toWorker) \/ cancelled',
         \A m \in Elements(toHost') :
           \/ m \in Elements(toHost)
           \/ m.type # "Result" \/ m.result.reason # "cancelled" \/ cancelled'
  PROVE  DecidedWord'
BY DEF DecidedWord

LEMMA DecidedWorker ==
  ASSUME Typed, Decided, WorkerMoves
  PROVE  Decided'
<1>1. DecidedHost /\ DecidedWord
  BY DecidedParts
<1>2. UNCHANGED host
  BY DEF WorkerMoves, Narrate, Crash, Terminated, GoRead, CancelRead, ScriptEnds, CallAgent,
         StartedRead, ReleaseRead, SettledRead, Reads, WorkerUnchanged
<1>3. DecidedHost'
  BY <1>1, <1>2 DEF DecidedHost, Settled, host
<1>4. cancelled' = cancelled
  BY <1>2 DEF host
<1>5. \A t \in HostKinds \cup {"Note"}, c \in Calls \cup {NoCall} : Msg(t, c).type # "Result"
  BY MsgIs DEF HostKinds
<1>6. ASSUME Narrate PROVE DecidedWord'
  <2>1. HostSent(Msg("Note", NoCall))
    BY <1>6, HostMsg, HostAppends DEF Narrate
  <2> QED
    BY <1>1, <1>4, <1>5, <1>6, <2>1, WordKept DEF Narrate, HostSent
<1>7. ASSUME Crash \/ Terminated PROVE DecidedWord'
  BY <1>1, <1>4, <1>7, WordKept DEF Crash, Terminated
<1>8. ASSUME NEW m, Reads(m) PROVE Elements(toWorker') \subseteq Elements(toWorker)
  BY <1>8, WorkerTakes DEF WorkerQuiet
<1>9. ASSUME GoRead PROVE DecidedWord'
  BY <1>1, <1>4, <1>8, <1>9, WordKept DEF GoRead
<1>10. ASSUME CancelRead PROVE DecidedWord'
  <2>1. Msg("Cancel", NoCall) \in Elements(toWorker)
    BY <1>10, WorkerTakes DEF CancelRead
  <2>2. cancelled
    BY <1>1, <2>1 DEF DecidedWord
  <2> QED
    BY <1>4, <2>2, <1>1, WordKept
<1>11. ASSUME NEW r \in {"completed", "error"}, ScriptEnds(r) PROVE DecidedWord'
  <2>1. told \in BOOLEAN /\ r \in Reasons
    BY DEF Typed, WorkerTyped, Reasons
  <2>2. HostSent(Drive(r, told)) /\ (Drive(r, told).result.reason = "cancelled" => told)
    BY <1>11, <2>1, Driven, HostAppends DEF ScriptEnds
  <2>3. told => cancelled
    BY <1>1 DEF DecidedWord
  <2>4. told' = told /\ toWorker' = toWorker
    BY <1>11 DEF ScriptEnds
  <2> QED
    BY <1>1, <1>4, <2>2, <2>3, <2>4, WordKept DEF HostSent
<1>12. ASSUME NEW c \in Calls, CallAgent(c) PROVE DecidedWord'
  <2>1. HostSent(Msg("ChildStart", c)) \/ UNCHANGED toHost
    BY <1>12, HostMsg, HostAppends DEF CallAgent
  <2> QED
    BY <1>1, <1>4, <1>5, <1>12, <2>1, WordKept DEF CallAgent, HostSent, HostKinds
<1>13. ASSUME NEW c \in Calls, StartedRead(c) PROVE DecidedWord'
  <2>1. HostSent(Msg("ChildDispose", c)) \/ HostSent(Msg("AgentStart", c))
    BY <1>13, HostMsg, HostAppends DEF StartedRead
  <2> QED
    BY <1>1, <1>4, <1>5, <1>8, <1>13, <2>1, WordKept DEF StartedRead, HostSent, HostKinds
<1>14. ASSUME NEW c \in Calls, ReleaseRead(c) PROVE DecidedWord'
  <2>1. \A m \in Elements(toHost') : m \in Elements(toHost) \/ m.type # "Result"
    <3>1. CASE waiters = <<>>
      BY <1>14, <3>1 DEF ReleaseRead, ReleaseSlot
    <3>2. CASE waiters # <<>>
      <4>1. PICK h \in Calls : h = Head(waiters)
        BY <3>2, TailTyped DEF Typed, WorkerTyped
      <4>2. HostSent(Msg("ChildStart", h))
        BY <1>14, <3>2, <4>1, HostMsg, HostAppends DEF ReleaseRead, ReleaseSlot
      <4> QED
        BY <1>5, <4>2 DEF HostSent, HostKinds
    <3> QED
      BY <3>1, <3>2
  <2> QED
    BY <1>1, <1>4, <1>8, <1>14, <2>1, WordKept DEF ReleaseRead
<1>15. ASSUME NEW c \in Calls, SettledRead(c) PROVE DecidedWord'
  <2>1. \A m \in Elements(toHost') : m \in Elements(toHost) \/ m.type # "Result"
    <3> DEFINE e == Msg("AgentEnd", c)
               d == Msg("ChildDispose", c)
    <3>1. e \in HostMessages /\ d \in HostMessages /\ toHost \in Seq(HostMessages)
          /\ e.type # "Result" /\ d.type # "Result"
      BY HostMsg, MsgIs DEF Typed
    <3>2. toHost' = Append(Append(toHost, e), d) \/ UNCHANGED toHost
      BY <1>15 DEF SettledRead
    <3> HIDE DEF e, d
    <3>4. Elements(Append(Append(toHost, e), d)) = Elements(toHost) \cup {e, d}
      BY <3>1, AppendTwo
    <3> QED
      BY <3>1, <3>2, <3>4
  <2> QED
    BY <1>1, <1>4, <1>8, <1>15, <2>1, WordKept DEF SettledRead
<1> QED
  BY <1>3, <1>6, <1>7, <1>9, <1>10, <1>11, <1>12, <1>13, <1>14, <1>15, DecidedParts DEF WorkerMoves

LEMMA WordHost ==
  ASSUME Typed, Decided, told' = told, cancelled => cancelled',
         \/ UNCHANGED toHost \/ toHost' = <<>> \/ \E m \in HostMessages : Gets(m),
         \/ UNCHANGED toWorker \/ cancelled'
         \/ \E m \in WorkerMessages : m # Msg("Cancel", NoCall) /\ Post(<<m>>)
  PROVE  DecidedWord'
<1>1. DecidedWord
  BY DecidedParts
<1>2. Elements(toHost') \subseteq Elements(toHost)
  <2>1. CASE toHost' = <<>>
    BY <2>1 DEF Elements
  <2>2. CASE \E m \in HostMessages : Gets(m)
    BY <2>2, HostTakes DEF HostQuiet
  <2> QED
    BY <2>1, <2>2
<1>3. Msg("Cancel", NoCall) \in Elements(toWorker') =>
        Msg("Cancel", NoCall) \in Elements(toWorker) \/ cancelled'
  <2>1. ASSUME NEW m \in WorkerMessages, m # Msg("Cancel", NoCall), Post(<<m>>)
        PROVE  Msg("Cancel", NoCall) \in Elements(toWorker') =>
                 Msg("Cancel", NoCall) \in Elements(toWorker)
    BY <2>1, WorkerPosts DEF WorkerSent
  <2> QED
    BY <2>1
<1> QED
  BY <1>1, <1>2, <1>3, WordKept

LEMMA NotCancel ==
  ASSUME NEW c \in Calls, NEW t \in WorkerKinds
  PROVE  Msg(t, c) \in WorkerMessages /\ Msg(t, c) # Msg("Cancel", NoCall)
BY WorkerMsg, MsgIs DEF WorkerKinds

LEMMA GoNotCancel == Msg("Go", NoCall) \in WorkerMessages /\ Msg("Go", NoCall) # Msg("Cancel", NoCall)
BY WorkerMsg, MsgIs

LEMMA FirstDeathDecides ==
  ASSUME Typed, Slots, DecidedHost, FirstDeath, cancelled' = cancelled, disposal' = disposal
  PROVE  /\ claimed' /\ Settled' /\ death' /\ grace' # "armed"
         /\ cancelled' <=> result'.reason = "cancelled"
         /\ \A c \in Calls : child'[c] # "live"
<1>1. \A c \in Calls : child'[c] # "live"
  BY ReapedTyped DEF FirstDeath
<1>2. CASE claimed
  BY <1>1, <1>2 DEF FirstDeath, DecidedHost, Settled
<1>3. CASE ~claimed
  <2>1. Settle(Outcome("error"), accepted, ledger)
    BY <1>3 DEF FirstDeath
  <2>2. Outcome("error") \in Reasons
    BY DEF Outcome, Reasons
  <2>3. grace' = "off" /\ result'.reason = Outcome("error") /\ Settled'
    BY <2>1, <2>2, AcceptedBound, SettleTyped
  <2> QED
    BY <1>1, <2>3 DEF FirstDeath, Outcome
<1> QED
  BY <1>2, <1>3

LEMMA DecidedHostMoves ==
  ASSUME Typed, Slots, Decided, HostMoves
  PROVE  Decided'
<1>0. DecidedHost /\ DecidedWord /\ child \in [Calls -> ChildStates] /\ cancelled \in BOOLEAN
  BY DecidedParts DEF Typed, HostTyped
<1>1. ASSUME NEW m, Gets(m) PROVE told' = told /\ m \in HostMessages
  BY <1>1, HostTakes DEF Gets, worker
<1>2. ASSUME BarredRead PROVE DecidedHost' /\ DecidedWord'
  <2>1. DecidedHost'
    BY <1>0, <1>2 DEF DecidedHost, BarredRead, host, Settled
  <2>2. cancelled' = cancelled
    BY <1>2 DEF BarredRead, host
  <2> QED
    BY <1>1, <1>2, <2>1, <2>2, WordHost DEF BarredRead
<1>3. ASSUME ReadyRead PROVE DecidedHost' /\ DecidedWord'
  <2>1. DecidedHost'
    BY <1>0, <1>3 DEF DecidedHost, ReadyRead, OnReady, host, Settled
  <2>2. cancelled' = cancelled /\ Post(<<Msg("Go", NoCall)>>)
    BY <1>3 DEF ReadyRead, OnReady, host
  <2> QED
    BY <1>1, <1>3, <2>1, <2>2, WordHost, GoNotCancel DEF ReadyRead
<1>4. ASSUME NoteRead PROVE DecidedHost' /\ DecidedWord'
  <2>1. DecidedHost'
    BY <1>0, <1>4 DEF DecidedHost, NoteRead, OnNote, host, Settled
  <2>2. cancelled' = cancelled
    BY <1>4 DEF NoteRead, OnNote, host
  <2> QED
    BY <1>1, <1>4, <2>1, <2>2, WordHost DEF NoteRead, OnNote
<1>5. ASSUME NEW c \in Calls, AgentStartRead(c) \/ AgentEndRead(c) PROVE DecidedHost' /\ DecidedWord'
  <2>1. DecidedHost'
    BY <1>0, <1>5 DEF DecidedHost, AgentStartRead, OnAgentStart, AgentEndRead, OnAgentEnd, Settled
  <2>2. cancelled' = cancelled /\ UNCHANGED toWorker
    BY <1>5 DEF AgentStartRead, OnAgentStart, AgentEndRead, OnAgentEnd
  <2> QED
    BY <1>1, <1>5, <2>1, <2>2, WordHost DEF AgentStartRead, AgentEndRead
<1>6. ASSUME NEW c \in Calls, ChildStartRead(c) PROVE DecidedHost' /\ DecidedWord'
  <2>1. DecidedHost'
    BY <1>0, <1>6 DEF DecidedHost, ChildStartRead, OnChildStart, Settled
  <2>2. cancelled' = cancelled
    BY <1>6 DEF ChildStartRead, OnChildStart
  <2>3. UNCHANGED toWorker \/ Post(<<Msg("ChildStartError", c)>>)
    BY <1>6 DEF ChildStartRead, OnChildStart
  <2> QED
    BY <1>1, <1>6, <2>1, <2>2, <2>3, WordHost, NotCancel DEF ChildStartRead, WorkerKinds
<1>7. ASSUME NEW c \in Calls, ChildDisposeRead(c) PROVE DecidedHost' /\ DecidedWord'
  <2>1. DecidedHost'
    BY <1>0, <1>7 DEF DecidedHost, ChildDisposeRead, OnChildDispose, Settled
  <2>2. cancelled' = cancelled
    BY <1>7 DEF ChildDisposeRead, OnChildDispose
  <2>3. UNCHANGED toWorker \/ Post(<<Msg("ChildDisposed", c)>>)
    BY <1>7 DEF ChildDisposeRead, OnChildDispose
  <2> QED
    BY <1>1, <1>7, <2>1, <2>2, <2>3, WordHost, NotCancel DEF ChildDisposeRead, WorkerKinds
<1>8. ASSUME ResultRead PROVE DecidedHost' /\ DecidedWord'
  <2>1. PICK m \in HostMessages : m.type = "Result" /\ Gets(m) /\ ~Barred /\ OnResult(m.result)
    BY <1>8 DEF ResultRead
  <2>2. /\ m.result.reason \in Reasons /\ m.result.started \in 0 .. Cardinality(Calls)
        /\ m \in Elements(toHost)
    BY <2>1, HostMsgIs, HostTakes
  <2>3. cancelled' = cancelled /\ UNCHANGED toWorker
    BY <2>1 DEF OnResult
  <2>4. DecidedHost'
    <3>1. CASE claimed
      BY <1>0, <2>1, <3>1 DEF OnResult, DecidedHost, Settled
    <3>2. CASE ~claimed
      <4>1. Settle(Outcome(m.result.reason), m.result.started, {})
        BY <2>1, <3>2 DEF OnResult
      <4>2. Outcome(m.result.reason) \in Reasons
        BY <2>2 DEF Outcome, Reasons
      <4>3. grace' = "off" /\ result'.reason = Outcome(m.result.reason) /\ Settled'
        BY <2>2, <4>1, <4>2, SettleTyped
      <4>4. m.result.reason = "cancelled" => cancelled
        BY <1>0, <2>1, <2>2 DEF DecidedWord
      <4>5. cancelled' <=> result'.reason = "cancelled"
        BY <2>3, <4>3, <4>4 DEF Outcome
      <4>6. claimed' /\ death' = death /\ gone' = gone /\ disposal' = disposal /\ child' = Reaped
        BY <2>1, <3>2 DEF OnResult
      <4> QED
        BY <1>0, <4>3, <4>5, <4>6, ReapedTyped DEF DecidedHost
    <3> QED
      BY <3>1, <3>2
  <2> QED
    BY <1>1, <2>1, <2>3, <2>4, WordHost
<1>9. ASSUME ErrorEvent PROVE DecidedHost' /\ DecidedWord'
  <2>1. DecidedHost'
    <3>1. CASE death
      BY <1>0, <1>9, <3>1 DEF ErrorEvent, DecidedHost, Settled
    <3>2. CASE ~death
      <4>1. FirstDeath /\ cancelled' = cancelled /\ disposal' = disposal /\ gone' = gone
        BY <1>9, <3>2 DEF ErrorEvent
      <4> QED
        BY <1>0, <4>1, FirstDeathDecides DEF DecidedHost
    <3> QED
      BY <3>1, <3>2
  <2> QED
    BY <1>9, <2>1, WordHost DEF ErrorEvent
<1>10. ASSUME ExitEvent PROVE DecidedHost' /\ DecidedWord'
  <2>1. DecidedHost'
    <3>1. CASE death
      <4>1. child' = Reaped
        BY <1>10, <3>1 DEF ExitEvent
      <4> QED
        BY <1>0, <1>10, <3>1, <4>1, ReapedTyped DEF ExitEvent, DecidedHost, Settled
    <3>2. CASE ~death
      <4>1. FirstDeath /\ cancelled' = cancelled /\ disposal' = disposal
        BY <1>10, <3>2 DEF ExitEvent
      <4> QED
        BY <1>0, <4>1, FirstDeathDecides DEF DecidedHost
    <3> QED
      BY <3>1, <3>2
  <2>2. told' = told /\ cancelled' = cancelled /\ UNCHANGED toWorker /\ toHost' = <<>>
    BY <1>10 DEF ExitEvent, worker
  <2> QED
    BY <2>1, <2>2, WordHost
<1>11. ASSUME GraceExpires PROVE DecidedHost' /\ DecidedWord'
  <2>1. cancelled
    BY <1>0, <1>11 DEF DecidedHost, GraceExpires
  <2>2. result'.reason = "cancelled" /\ Settled' /\ grace' = "off"
    <3>1. Settle("cancelled", accepted, ledger) /\ "cancelled" \in Reasons
      BY <1>11 DEF GraceExpires, Reasons
    <3> QED
      BY <3>1, AcceptedBound, SettleTyped
  <2>3. DecidedHost'
    BY <1>0, <1>11, <2>1, <2>2 DEF GraceExpires, DecidedHost
  <2> QED
    BY <1>11, <2>3, WordHost DEF GraceExpires
<1>12. ASSUME Cancel PROVE DecidedHost' /\ DecidedWord'
  <2>1. cancelled' /\ told' = told /\ UNCHANGED toHost
    BY <1>12 DEF Cancel, CancelEffects, worker
  <2>2. DecidedHost'
    BY <1>0, <1>12 DEF Cancel, CancelEffects, AcceptsCancel, DecidedHost, Settled
  <2> QED
    BY <2>1, <2>2, WordHost
<1>13. ASSUME Dispose PROVE DecidedHost' /\ DecidedWord'
  <2>1. told' = told /\ UNCHANGED toHost /\ child' = Reaped /\ disposal' = "waiting"
        /\ UNCHANGED <<claimed, death, gone, result>>
    BY <1>13 DEF Dispose, worker
  <2>2. CASE AcceptsCancel
    <3>1. cancelled' /\ grace' = "armed" /\ ~claimed /\ ~Settled
      BY <1>13, <2>2 DEF Dispose, CancelEffects, AcceptsCancel
    <3>2. DecidedHost'
      BY <1>0, <2>1, <3>1 DEF DecidedHost, Settled
    <3> QED
      BY <2>1, <3>1, <3>2, WordHost
  <2>3. CASE ~AcceptsCancel
    <3>1. UNCHANGED <<cancelled, grace, toWorker>> /\ (cancelled \/ claimed)
      BY <1>0, <1>13, <2>3 DEF Dispose, AcceptsCancel, DecidedHost
    <3>2. DecidedHost'
      BY <1>0, <2>1, <3>1 DEF DecidedHost, Settled
    <3> QED
      BY <2>1, <3>1, <3>2, WordHost
  <2> QED
    BY <2>2, <2>3
<1>14. ASSUME DisposeReturns PROVE DecidedHost' /\ DecidedWord'
  <2>1. child' = Reaped /\ disposal = "terminating"
    BY <1>14 DEF DisposeReturns
  <2>2. DecidedHost'
    BY <1>0, <1>14, <2>1, ReapedTyped DEF DisposeReturns, DecidedHost, Settled
  <2> QED
    BY <1>14, <2>2, WordHost DEF DisposeReturns, worker
<1>15. ASSUME NEW slept \in BOOLEAN, DisposeTerminates(slept) PROVE DecidedHost' /\ DecidedWord'
  <2>1. DecidedHost'
    BY <1>0, <1>15 DEF DisposeTerminates, DecidedHost, Settled
  <2> QED
    BY <1>15, <2>1, WordHost DEF DisposeTerminates
<1>16. ASSUME NEW c \in Calls, ProviderStep(c) PROVE DecidedHost' /\ DecidedWord'
  <2>1. ProviderUnchanged
    BY <1>16 DEF ProviderStep, StartFulfils, StartRejects, ChildSettles, ChildDisposed
  <2>2. \A x \in Calls : child'[x] = "live" => child[x] = "live" \/ Admitting
    BY <1>0, <1>16 DEF ProviderStep, StartFulfils, StartRejects, ChildSettles, ChildDisposed
  <2>3. DecidedHost'
    BY <1>0, <2>1, <2>2 DEF ProviderUnchanged, DecidedHost, Settled, Admitting
  <2>4. UNCHANGED toWorker \/ \E t \in WorkerKinds : Post(<<Msg(t, c)>>)
    BY <1>16
    DEF ProviderStep, StartFulfils, StartRejects, ChildSettles, ChildDisposed, WorkerKinds
  <2> QED
    BY <2>1, <2>3, <2>4, WordHost, NotCancel DEF ProviderUnchanged
<1> QED
  BY <1>2, <1>3, <1>4, <1>5, <1>6, <1>7, <1>8, <1>9, <1>10, <1>11, <1>12, <1>13, <1>14, <1>15,
     <1>16, DecidedParts
  DEF HostMoves

--------------------------------------------------------------------------------
(* The line for a slot, and the place of each request *)

PlacedFor(c) == Starting(c) /\ Disposing(c) /\ Standing(c)

LEMMA PlacedParts ==
  /\ Placed <=> Single(toHost) /\ Single(toWorker) /\ \A c \in Calls : PlacedFor(c)
  /\ Placed' <=> Single(toHost') /\ Single(toWorker') /\ \A c \in Calls : PlacedFor(c)'
BY DEF Placed, PlacedFor

(* A call that a step leaves alone keeps its place: at most its child's disposal is *)
(* started, or it leaves the line.                                                  *)
LEMMA KeptPlace ==
  ASSUME NEW c \in Calls, PlacedFor(c),
         call'[c] = call[c] \/ (call[c] = "queued" /\ call'[c] = "ended"),
         child'[c] = child[c] \/ (child[c] = "live" /\ child'[c] = "disposing"),
         c \in acks' <=> c \in acks, Admitting' => Admitting,
         InHost("ChildStart", c)' => InHost("ChildStart", c),
         InHost("ChildDispose", c)' => InHost("ChildDispose", c),
         InWorker("ChildStarted", c)' => InWorker("ChildStarted", c),
         InWorker("ChildStartError", c)' => InWorker("ChildStartError", c),
         InWorker("ChildDisposed", c)' => InWorker("ChildDisposed", c)
  PROVE  PlacedFor(c)'
<1>1. Starting(c)'
  BY DEF PlacedFor, Starting, Standing
<1>2. Disposing(c)'
  BY DEF PlacedFor, Disposing
<1>3. Standing(c)'
  BY DEF PlacedFor, Standing
<1> QED
  BY <1>1, <1>2, <1>3 DEF PlacedFor

(* Admission is never opened again. *)
LEMMA AdmissionCloses ==
  ASSUME Typed, WorkerMoves \/ HostMoves
  PROVE  Admitting' => Admitting
<1>1. WorkerMoves => UNCHANGED <<cancelled, death, claimed>>
  BY DEF WorkerMoves, Narrate, Crash, Terminated, GoRead, CancelRead, ScriptEnds, CallAgent,
         StartedRead, ReleaseRead, SettledRead, Reads, WorkerUnchanged, host
<1>2. HostMoves => (cancelled => cancelled') /\ (death => death') /\ (claimed => claimed')
  <2>1. BarredRead \/ ReadyRead \/ NoteRead => UNCHANGED <<cancelled, death, claimed>>
    BY DEF BarredRead, ReadyRead, OnReady, NoteRead, OnNote, host
  <2>2. ResultRead => UNCHANGED <<cancelled, death>> /\ (claimed => claimed')
    BY DEF ResultRead, OnResult
  <2>3. ErrorEvent \/ ExitEvent =>
          UNCHANGED cancelled /\ (death => death') /\ (claimed => claimed')
    BY DEF ErrorEvent, ExitEvent, FirstDeath
  <2>4. GraceExpires \/ Cancel \/ Dispose =>
          (cancelled => cancelled') /\ UNCHANGED death /\ (claimed => claimed')
    BY DEF GraceExpires, Cancel, Dispose, CancelEffects
  <2>5. DisposeReturns \/ (\E slept \in BOOLEAN : DisposeTerminates(slept)) =>
          UNCHANGED <<cancelled, death, claimed>>
    BY DEF DisposeReturns, DisposeTerminates
  <2>6. \A c \in Calls :
          AgentStartRead(c) \/ AgentEndRead(c) \/ ChildStartRead(c) \/ ChildDisposeRead(c)
            => UNCHANGED <<cancelled, death, claimed>>
    BY DEF AgentStartRead, OnAgentStart, AgentEndRead, OnAgentEnd, ChildStartRead, OnChildStart,
           ChildDisposeRead, OnChildDispose
  <2>7. \A c \in Calls : ProviderStep(c) => UNCHANGED <<cancelled, death, claimed>>
    BY DEF ProviderStep, StartFulfils, StartRejects, ChildSettles, ChildDisposed, ProviderUnchanged
  <2> QED
    BY <2>1, <2>2, <2>3, <2>4, <2>5, <2>6, <2>7 DEF HostMoves
<1> QED
  BY <1>1, <1>2 DEF Admitting

(* The end of an agent() call, with or without a waiter. *)
ReleasedAlone(c) ==
  call' = [call EXCEPT ![c] = "ended"] /\ UNCHANGED <<waiters, toHost>>
ReleasedTo(c, h) ==
  /\ h # c /\ call[h] = "queued" /\ waiters # <<>> /\ h = waiters[1] /\ waiters' = Tail(waiters)
  /\ call' = [call EXCEPT ![c] = "ended", ![h] = "starting"]
  /\ toHost' = Append(toHost, Msg("ChildStart", h))

LEMMA Released ==
  ASSUME Typed, InLine, NEW c \in Calls, call[c] # "queued", ReleaseSlot(c)
  PROVE  ReleasedAlone(c) \/ \E h \in Calls : ReleasedTo(c, h)
<1>1. CASE waiters = <<>>
  BY <1>1 DEF ReleaseSlot, ReleasedAlone
<1>2. CASE waiters # <<>>
  <2>1. waiters \in Seq(Calls)
    BY DEF Typed, WorkerTyped
  <2>2. Head(waiters) \in Calls /\ Head(waiters) = waiters[1] /\ 1 \in DOMAIN waiters
    BY <1>2, <2>1, TailOf, EmptySeq
  <2>3. PICK h \in Calls : h = Head(waiters)
    BY <2>2
  <2>4. call[h] = "queued"
    BY <2>2, <2>3 DEF InLine
  <2> QED
    BY <1>2, <2>2, <2>3, <2>4 DEF ReleaseSlot, ReleasedTo
<1> QED
  BY <1>1, <1>2

(* Whose slot an answer of the host ends. *)
LEMMA ReleaseAt ==
  ASSUME Typed, Placed, NEW c \in Calls, ReleaseRead(c)
  PROVE  /\ \/ Reads(Msg("ChildStartError", c)) /\ InWorker("ChildStartError", c)
            \/ Reads(Msg("ChildDisposed", c)) /\ InWorker("ChildDisposed", c)
         /\ call[c] \in {"starting", "disposing"}
<1>1. Starting(c) /\ Disposing(c)
  BY DEF Placed
<1>2. Reads(Msg("ChildStartError", c)) => InWorker("ChildStartError", c)
  BY WorkerTakes DEF InWorker
<1>3. Reads(Msg("ChildDisposed", c)) => InWorker("ChildDisposed", c)
  BY WorkerTakes DEF InWorker
<1> QED
  BY <1>1, <1>2, <1>3 DEF ReleaseRead, Starting, Disposing

LEMMA InLineKept ==
  ASSUME Typed, Placed, InLine, WorkerMoves \/ HostMoves
  PROVE  InLine'
<1>0. waiters \in Seq(Calls) /\ call \in [Calls -> CallStates]
  BY DEF Typed, WorkerTyped
<1>1. ASSUME UNCHANGED <<call, waiters>> PROVE InLine'
  BY <1>1 DEF InLine
<1>2. ASSUME NEW c \in Calls, call[c] # "queued", UNCHANGED waiters,
             \A x \in Calls \ {c} : call'[x] = call[x]
      PROVE  InLine'
  BY <1>0, <1>2 DEF InLine
<1>3. ASSUME HostMoves PROVE UNCHANGED <<call, waiters>>
  BY <1>3
  DEF HostMoves, BarredRead, ReadyRead, NoteRead, ResultRead, AgentStartRead, AgentEndRead,
      ChildStartRead, ChildDisposeRead, Gets, worker, ErrorEvent, ExitEvent, GraceExpires, Cancel,
      Dispose, DisposeReturns, DisposeTerminates, ProviderStep, StartFulfils, StartRejects,
      ChildSettles, ChildDisposed, ProviderUnchanged
<1>4. ASSUME Narrate \/ Crash \/ Terminated \/ GoRead \/ \E r \in {"completed", "error"} : ScriptEnds(r)
      PROVE  UNCHANGED <<call, waiters>>
  BY <1>4 DEF Narrate, Crash, Terminated, GoRead, ScriptEnds
<1>5. ASSUME CancelRead PROVE InLine'
  BY <1>5 DEF CancelRead, InLine
<1>6. ASSUME NEW c \in Calls, CallAgent(c) PROVE InLine'
  <2>1. CASE Cardinality(Holding) < MaxConcurrent
    BY <1>0, <1>2, <1>6, <2>1 DEF CallAgent
  <2>2. CASE ~(Cardinality(Holding) < MaxConcurrent)
    <3>1. /\ waiters' = Append(waiters, c) /\ call[c] = "none"
          /\ call' = [call EXCEPT ![c] = "queued"]
      BY <1>6, <2>2 DEF CallAgent
    <3>2. /\ Append(waiters, c) \in Seq(Calls) /\ Len(Append(waiters, c)) = Len(waiters) + 1
          /\ \A i \in 1 .. Len(waiters) : Append(waiters, c)[i] = waiters[i]
          /\ Append(waiters, c)[Len(waiters) + 1] = c
      BY <1>0, AppendProperties
    <3>3. DOMAIN waiters' = 1 .. Len(waiters) + 1 /\ DOMAIN waiters = 1 .. Len(waiters)
          /\ Len(waiters) \in Nat
      BY <1>0, <3>1, <3>2
    <3>4. \A i \in DOMAIN waiters : waiters[i] # c /\ waiters[i] \in Calls /\ call[waiters[i]] = "queued"
      BY <1>0, <3>1 DEF InLine
    <3>5. \A i \in DOMAIN waiters' :
            \/ i \in DOMAIN waiters /\ waiters'[i] = waiters[i]
            \/ i = Len(waiters) + 1 /\ waiters'[i] = c
      BY <3>1, <3>2, <3>3
    <3>6. \A i \in DOMAIN waiters' : call'[waiters'[i]] = "queued"
      BY <1>0, <3>1, <3>4, <3>5
    <3>7. \A i, j \in DOMAIN waiters' : waiters'[i] = waiters'[j] => i = j
      BY <3>4, <3>5 DEF InLine
    <3> QED
      BY <3>6, <3>7 DEF InLine
  <2> QED
    BY <2>1, <2>2
<1>7. ASSUME NEW c \in Calls, StartedRead(c) PROVE InLine'
  <2>1. InWorker("ChildStarted", c)
    BY <1>7, WorkerTakes DEF StartedRead, InWorker
  <2>2. call[c] = "starting"
    BY <2>1 DEF Placed, Starting
  <2> QED
    BY <1>0, <1>2, <1>7, <2>2 DEF StartedRead
<1>8. ASSUME NEW c \in Calls, ReleaseRead(c) PROVE InLine'
  <2>1. call[c] # "queued"
    BY <1>8, ReleaseAt
  <2>2. ReleasedAlone(c) \/ \E h \in Calls : ReleasedTo(c, h)
    BY <1>8, <2>1, Released DEF ReleaseRead
  <2>3. CASE ReleasedAlone(c)
    BY <1>0, <1>2, <2>1, <2>3 DEF ReleasedAlone
  <2>4. ASSUME NEW h \in Calls, ReleasedTo(c, h) PROVE InLine'
    <3>1. /\ waiters # <<>> /\ waiters' = Tail(waiters) /\ waiters[1] = h
          /\ call' = [call EXCEPT ![c] = "ended", ![h] = "starting"]
      BY <2>4 DEF ReleasedTo
    <3>2. /\ Tail(waiters) \in Seq(Calls) /\ Len(Tail(waiters)) = Len(waiters) - 1
          /\ \A i \in DOMAIN Tail(waiters) : Tail(waiters)[i] = waiters[i + 1]
      BY <1>0, <3>1, TailOf
    <3>3. DOMAIN waiters = 1 .. Len(waiters) /\ Len(waiters) \in Nat \ {0}
          /\ DOMAIN waiters' = 1 .. Len(waiters) - 1
      BY <1>0, <3>1, <3>2, EmptySeq
    <3>4. \A i \in DOMAIN waiters' :
            i + 1 \in DOMAIN waiters /\ i + 1 # 1 /\ waiters'[i] = waiters[i + 1]
      BY <3>1, <3>2, <3>3
    <3>5. \A i \in DOMAIN waiters' : waiters'[i] # h /\ waiters'[i] # c /\ waiters'[i] \in Calls
                                     /\ call[waiters'[i]] = "queued"
      BY <1>0, <2>1, <3>1, <3>3, <3>4 DEF InLine
    <3>6. \A i \in DOMAIN waiters' : call'[waiters'[i]] = "queued"
      BY <1>0, <3>1, <3>5
    <3>7. \A i, j \in DOMAIN waiters' : waiters'[i] = waiters'[j] => i = j
      <4> SUFFICES ASSUME NEW i \in DOMAIN waiters', NEW j \in DOMAIN waiters',
                          waiters'[i] = waiters'[j]
                   PROVE  i = j
        OBVIOUS
      <4>1. i + 1 = j + 1
        BY <3>4 DEF InLine
      <4> QED
        BY <3>3, <4>1
    <3> QED
      BY <3>6, <3>7 DEF InLine
  <2> QED
    BY <2>2, <2>3, <2>4
<1>9. ASSUME NEW c \in Calls, SettledRead(c) PROVE InLine'
  BY <1>0, <1>1, <1>2, <1>9 DEF SettledRead
<1> QED
  BY <1>1, <1>3, <1>4, <1>5, <1>6, <1>7, <1>8, <1>9 DEF WorkerMoves

(* The worker's steps. *)
LEMMA PlacedWorker ==
  ASSUME Typed, InLine, Placed, Announcing, WorkerMoves
  PROVE  Placed'
<1>0. /\ call \in [Calls -> CallStates] /\ child \in [Calls -> ChildStates]
      /\ Single(toHost) /\ Single(toWorker) /\ \A c \in Calls : PlacedFor(c)
  BY PlacedParts DEF Typed, HostTyped, WorkerTyped
<1>1. UNCHANGED <<child, acks>> /\ (Admitting' => Admitting)
  <2>1. UNCHANGED <<child, acks>>
    BY DEF WorkerMoves, Narrate, Crash, Terminated, GoRead, CancelRead, ScriptEnds, CallAgent,
           StartedRead, ReleaseRead, SettledRead, Reads, WorkerUnchanged, host
  <2> QED
    BY <2>1, AdmissionCloses
<1> DEFINE Quiet(c) == /\ InHost("ChildStart", c)' => InHost("ChildStart", c)
                       /\ InHost("ChildDispose", c)' => InHost("ChildDispose", c)
           Heard(c) == /\ InWorker("ChildStarted", c)' => InWorker("ChildStarted", c)
                       /\ InWorker("ChildStartError", c)' => InWorker("ChildStartError", c)
                       /\ InWorker("ChildDisposed", c)' => InWorker("ChildDisposed", c)
<1>2. ASSUME NEW c \in Calls, Quiet(c), Heard(c),
             call'[c] = call[c] \/ (call[c] = "queued" /\ call'[c] = "ended")
      PROVE  PlacedFor(c)'
  BY <1>0, <1>1, <1>2, KeptPlace
<1>3. ASSUME WorkerQuiet PROVE Single(toWorker') /\ \A c \in Calls : Heard(c)
  BY <1>0, <1>3, WorkerQuietFor DEF WorkerQuiet, WorkerKinds
<1>4. ASSUME HostQuiet PROVE Single(toHost') /\ \A c \in Calls : Quiet(c)
  BY <1>0, <1>4, HostQuietFor DEF HostQuiet, HostKinds
<1>5. ASSUME NEW m, Reads(m) PROVE WorkerQuiet
  BY <1>5, WorkerTakes
<1>6. ASSUME NEW m, HostSent(m), m.type \notin {"ChildStart", "ChildDispose"} PROVE \A c \in Calls : Quiet(c)
  BY <1>6, HostSentFor DEF HostKinds
<1>7. ASSUME NEW m, HostSent(m), NEW c \in Calls, m.call # c PROVE Quiet(c)
  BY <1>7, HostSentFor DEF HostKinds
<1> HIDE DEF Quiet, Heard
<1>8. ASSUME Narrate PROVE Placed'
  <2>1. HostSent(Msg("Note", NoCall)) /\ Msg("Note", NoCall).type = "Note"
    BY <1>8, HostMsg, HostAppends, MsgIs DEF Narrate
  <2>2. Single(toHost') /\ \A c \in Calls : Quiet(c)
    BY <1>0, <1>6, <2>1 DEF HostSent, Once
  <2>3. WorkerQuiet
    BY <1>8, WorkerKeeps DEF Narrate
  <2> QED
    BY <1>2, <1>3, <1>8, <2>2, <2>3, PlacedParts DEF Narrate
<1>9. ASSUME Crash \/ Terminated PROVE Placed'
  <2>1. HostQuiet /\ WorkerQuiet /\ UNCHANGED call
    BY <1>9, HostKeeps, WorkerKeeps DEF Crash, Terminated
  <2> QED
    BY <1>2, <1>3, <1>4, <2>1, PlacedParts
<1>10. ASSUME GoRead PROVE Placed'
  <2>1. HostQuiet /\ WorkerQuiet /\ UNCHANGED call
    BY <1>5, <1>10, HostKeeps DEF GoRead
  <2> QED
    BY <1>2, <1>3, <1>4, <2>1, PlacedParts
<1>11. ASSUME CancelRead PROVE Placed'
  <2>1. WorkerQuiet
    BY <1>5, <1>11 DEF CancelRead
  <2>2. Single(toHost') /\ \A c \in Calls : Quiet(c)
    <3>1. CASE UNCHANGED toHost
      BY <1>4, <3>1, HostKeeps
    <3>2. CASE toHost' = Append(toHost, Drive("cancelled", TRUE))
      <4>1. Drive("cancelled", TRUE) \in HostMessages /\ Drive("cancelled", TRUE).type = "Result"
        BY Driven DEF Reasons
      <4>2. HostSent(Drive("cancelled", TRUE))
        BY <3>2, <4>1, HostAppends
      <4> QED
        BY <1>0, <1>6, <4>1, <4>2 DEF HostSent, Once
    <3> QED
      BY <1>11, <3>1, <3>2 DEF CancelRead
  <2>3. \A c \in Calls : call'[c] = call[c] \/ (call[c] = "queued" /\ call'[c] = "ended")
    BY <1>11 DEF CancelRead
  <2> QED
    BY <1>2, <1>3, <2>1, <2>2, <2>3, PlacedParts
<1>12. ASSUME NEW r \in {"completed", "error"}, ScriptEnds(r) PROVE Placed'
  <2>1. Drive(r, told) \in HostMessages /\ Drive(r, told).type = "Result"
    BY Driven DEF Reasons, Typed, WorkerTyped
  <2>2. HostSent(Drive(r, told)) /\ WorkerQuiet /\ UNCHANGED call
    BY <1>12, <2>1, HostAppends, WorkerKeeps DEF ScriptEnds
  <2>3. Single(toHost') /\ \A c \in Calls : Quiet(c)
    BY <1>0, <1>6, <2>1, <2>2 DEF HostSent, Once
  <2> QED
    BY <1>2, <1>3, <2>2, <2>3, PlacedParts
<1>13. ASSUME NEW c \in Calls, CallAgent(c) PROVE Placed'
  <2>1. WorkerQuiet /\ call[c] = "none" /\ PlacedFor(c)
    BY <1>0, <1>13, WorkerKeeps DEF CallAgent
  <2>2. /\ Single(toWorker') /\ \A x \in Calls : Heard(x)
    BY <1>3, <2>1
  <2>3. \A x \in Calls \ {c} : call'[x] = call[x]
    BY <1>0, <1>13 DEF CallAgent
  <2>4. CASE Cardinality(Holding) < MaxConcurrent
    <3>1. HostSent(Msg("ChildStart", c)) /\ call'[c] = "starting"
      BY <1>0, <1>13, <2>4, HostMsg, HostAppends DEF CallAgent
    <3>2. ~InHost("ChildStart", c)
      BY <2>1 DEF PlacedFor, Starting
    <3>3. Single(toHost')
      BY <1>0, <3>1, <3>2 DEF HostSent, InHost
    <3>4. \A x \in Calls \ {c} : PlacedFor(x)'
      BY <1>2, <1>7, <2>2, <2>3, <3>1, MsgIs
    <3>5. InHost("ChildDispose", c)' => InHost("ChildDispose", c)
      BY <3>1, HostSentFor, MsgIs DEF HostKinds
    <3>6. PlacedFor(c)'
      BY <1>1, <2>1, <2>2, <3>1, <3>5 DEF PlacedFor, Starting, Disposing, Standing, Heard
    <3> QED
      BY <2>2, <3>3, <3>4, <3>6, PlacedParts
  <2>5. CASE ~(Cardinality(Holding) < MaxConcurrent)
    <3>1. HostQuiet /\ call'[c] = "queued"
      BY <1>0, <1>13, <2>5, HostKeeps DEF CallAgent
    <3>2. Single(toHost') /\ \A x \in Calls : Quiet(x)
      BY <1>4, <3>1
    <3>3. \A x \in Calls \ {c} : PlacedFor(x)'
      BY <1>2, <2>2, <2>3, <3>2
    <3>4. PlacedFor(c)'
      BY <1>1, <2>1, <2>2, <3>1, <3>2 DEF PlacedFor, Starting, Disposing, Standing, Heard, Quiet
    <3> QED
      BY <2>2, <3>2, <3>3, <3>4, PlacedParts
  <2> QED
    BY <2>4, <2>5
<1>14. ASSUME NEW c \in Calls, StartedRead(c) PROVE Placed'
  <2>1. WorkerQuiet /\ InWorker("ChildStarted", c) /\ ~InWorker("ChildStarted", c)'
    BY <1>0, <1>14, WorkerTakes, MsgIs DEF StartedRead, InWorker, Once
  <2>2. Single(toWorker') /\ \A x \in Calls : Heard(x)
    BY <1>3, <2>1
  <2>3. PlacedFor(c) /\ call[c] = "starting"
    BY <1>0, <2>1 DEF PlacedFor, Starting
  <2>4. ~InHost("ChildDispose", c) /\ ~InHost("AgentStart", c)
    BY <2>3 DEF PlacedFor, Disposing, Announcing
  <2>5. \A x \in Calls \ {c} : call'[x] = call[x]
    BY <1>0, <1>14 DEF StartedRead
  <2>6. ASSUME NEW t \in {"ChildDispose", "AgentStart"}, HostSent(Msg(t, c)),
               call'[c] = (IF t = "ChildDispose" THEN "disposing" ELSE "running")
        PROVE  Placed'
    <3>1. Single(toHost')
      BY <1>0, <2>4, <2>6 DEF HostSent, InHost
    <3>2. \A x \in Calls \ {c} : PlacedFor(x)'
      BY <1>2, <1>7, <2>2, <2>5, <2>6, MsgIs
    <3>3. /\ InHost("ChildStart", c)' => InHost("ChildStart", c)
          /\ InHost("ChildDispose", c)' => t = "ChildDispose"
      BY <2>4, <2>6, HostSentFor, MsgIs DEF HostKinds
    <3>4. PlacedFor(c)'
      BY <1>1, <2>1, <2>2, <2>3, <2>6, <3>3 DEF PlacedFor, Starting, Disposing, Standing, Heard
    <3> QED
      BY <2>2, <3>1, <3>2, <3>4, PlacedParts
  <2>7. \/ HostSent(Msg("ChildDispose", c)) /\ call'[c] = "disposing"
        \/ HostSent(Msg("AgentStart", c)) /\ call'[c] = "running"
    BY <1>0, <1>14, HostMsg, HostAppends DEF StartedRead
  <2> QED
    BY <2>6, <2>7
<1>15. ASSUME NEW c \in Calls, ReleaseRead(c) PROVE Placed'
  <2>1. /\ \/ Reads(Msg("ChildStartError", c)) /\ InWorker("ChildStartError", c)
           \/ Reads(Msg("ChildDisposed", c)) /\ InWorker("ChildDisposed", c)
        /\ call[c] \in {"starting", "disposing"}
    BY <1>15, ReleaseAt
  <2>2. WorkerQuiet
    BY <1>5, <2>1
  <2>3. Single(toWorker') /\ \A x \in Calls : Heard(x)
    BY <1>3, <2>2
  <2>4. \/ InWorker("ChildStartError", c) /\ ~InWorker("ChildStartError", c)'
        \/ InWorker("ChildDisposed", c) /\ ~InWorker("ChildDisposed", c)'
    BY <1>0, <2>1, WorkerTakes, MsgIs DEF InWorker, Once
  <2>5. ReleasedAlone(c) \/ \E h \in Calls : ReleasedTo(c, h)
    BY <1>15, <2>1, Released DEF ReleaseRead
  <2>6. ASSUME call'[c] = "ended", Quiet(c) PROVE PlacedFor(c)'
    BY <1>0, <1>1, <2>3, <2>4, <2>6 DEF PlacedFor, Starting, Disposing, Standing, Heard, Quiet
  <2>7. CASE ReleasedAlone(c)
    <3>1. HostQuiet /\ call'[c] = "ended" /\ \A x \in Calls \ {c} : call'[x] = call[x]
      BY <1>0, <2>7, HostKeeps DEF ReleasedAlone
    <3> QED
      BY <1>2, <1>4, <2>3, <2>6, <3>1, PlacedParts
  <2>8. ASSUME NEW h \in Calls, ReleasedTo(c, h) PROVE Placed'
    <3>1. HostSent(Msg("ChildStart", h)) /\ h # c /\ call[h] = "queued"
      BY <2>8, HostMsg, HostAppends DEF ReleasedTo
    <3>2. /\ call'[c] = "ended" /\ call'[h] = "starting"
          /\ \A x \in Calls \ {c, h} : call'[x] = call[x]
      BY <1>0, <2>8 DEF ReleasedTo
    <3>3. PlacedFor(h) /\ ~InHost("ChildStart", h)
      BY <1>0, <3>1 DEF PlacedFor, Starting
    <3>4. Single(toHost')
      BY <1>0, <3>1, <3>3 DEF HostSent, InHost
    <3>5. \A x \in Calls \ {h} : Quiet(x)
      BY <1>7, <3>1, MsgIs
    <3>6. InHost("ChildDispose", h)' => InHost("ChildDispose", h)
      BY <3>1, HostSentFor, MsgIs DEF HostKinds
    <3>7. PlacedFor(h)'
      BY <1>1, <2>3, <3>1, <3>2, <3>3, <3>6 DEF PlacedFor, Starting, Disposing, Standing, Heard
    <3>8. PlacedFor(c)' /\ \A x \in Calls \ {c, h} : PlacedFor(x)'
      BY <1>2, <2>3, <2>6, <3>1, <3>2, <3>5
    <3> QED
      BY <2>3, <3>4, <3>7, <3>8, PlacedParts
  <2> QED
    BY <2>5, <2>7, <2>8
<1>16. ASSUME NEW c \in Calls, SettledRead(c) PROVE Placed'
  <2>1. WorkerQuiet
    BY <1>5, <1>16 DEF SettledRead
  <2>2. Single(toWorker') /\ \A x \in Calls : Heard(x)
    BY <1>3, <2>1
  <2>3. CASE UNCHANGED <<call, toHost>>
    BY <1>2, <1>4, <2>2, <2>3, HostKeeps, PlacedParts
  <2>4. CASE call[c] = "running"
    <3> DEFINE e == Msg("AgentEnd", c)
               d == Msg("ChildDispose", c)
    <3>1. /\ e \in HostMessages /\ d \in HostMessages /\ toHost \in Seq(HostMessages)
          /\ e.type = "AgentEnd" /\ d.type = "ChildDispose" /\ d.call = c /\ e.call = c /\ d # e
      BY HostMsg, MsgIs DEF Typed
    <3>2. toHost' = Append(Append(toHost, e), d) /\ call' = [call EXCEPT ![c] = "disposing"]
      BY <1>16, <2>4 DEF SettledRead
    <3>3. PlacedFor(c) /\ d \notin Elements(toHost)
      BY <1>0, <2>4 DEF PlacedFor, Disposing, InHost
    <3>4. \A x \in Calls \ {c} : Msg("ChildStart", x) \notin {e, d} /\ Msg("ChildDispose", x) \notin {e, d}
      BY <3>1, MsgIs
    <3>5. Msg("ChildStart", c) \notin {e, d}
      BY <3>1, MsgIs
    <3> HIDE DEF e, d
    <3>6. e.type \notin Once
      BY <3>1 DEF Once
    <3>7. /\ Elements(toHost') = Elements(toHost) \cup {e, d}
          /\ Single(toHost')
      BY <1>0, <3>1, <3>2, <3>3, <3>6, AppendTwo
    <3>8. \A x \in Calls \ {c} : Quiet(x)
      BY <3>4, <3>7 DEF Quiet, InHost
    <3>9. InHost("ChildStart", c)' => InHost("ChildStart", c)
      BY <3>5, <3>7 DEF InHost
    <3>10. call'[c] = "disposing" /\ \A x \in Calls \ {c} : call'[x] = call[x]
      BY <1>0, <3>2
    <3>11. PlacedFor(c)'
      BY <1>1, <2>2, <2>4, <3>3, <3>9, <3>10 DEF PlacedFor, Starting, Disposing, Standing, Heard
    <3> QED
      BY <1>2, <2>2, <3>7, <3>8, <3>10, <3>11, PlacedParts
  <2> QED
    BY <1>16, <2>3, <2>4 DEF SettledRead
<1> QED
  BY <1>8, <1>9, <1>10, <1>11, <1>12, <1>13, <1>14, <1>15, <1>16 DEF WorkerMoves

(* The host's steps. *)
LEMMA PlacedHost ==
  ASSUME Typed, Decided, Placed, HostMoves
  PROVE  Placed'
<1>0. /\ child \in [Calls -> ChildStates] /\ acks \subseteq Calls
      /\ Single(toHost) /\ Single(toWorker) /\ \A c \in Calls : PlacedFor(c)
  BY PlacedParts DEF Typed, HostTyped
<1>1. UNCHANGED call /\ (Admitting' => Admitting)
  <2>1. UNCHANGED call
    BY DEF HostMoves, BarredRead, ReadyRead, NoteRead, ResultRead, AgentStartRead, AgentEndRead,
           ChildStartRead, ChildDisposeRead, Gets, worker, ErrorEvent, ExitEvent, GraceExpires,
           Cancel, Dispose, DisposeReturns, DisposeTerminates, ProviderStep, StartFulfils,
           StartRejects, ChildSettles, ChildDisposed, ProviderUnchanged
  <2> QED
    BY <2>1, AdmissionCloses
<1> DEFINE Quiet(c) == /\ InHost("ChildStart", c)' => InHost("ChildStart", c)
                       /\ InHost("ChildDispose", c)' => InHost("ChildDispose", c)
           Heard(c) == /\ InWorker("ChildStarted", c)' => InWorker("ChildStarted", c)
                       /\ InWorker("ChildStartError", c)' => InWorker("ChildStartError", c)
                       /\ InWorker("ChildDisposed", c)' => InWorker("ChildDisposed", c)
           Milder(c) == child'[c] = child[c] \/ (child[c] = "live" /\ child'[c] = "disposing")
<1>2. ASSUME NEW c \in Calls, Quiet(c), Heard(c), Milder(c), c \in acks' <=> c \in acks
      PROVE  PlacedFor(c)'
  BY <1>0, <1>1, <1>2, KeptPlace
<1>3. ASSUME WorkerQuiet PROVE Single(toWorker') /\ \A c \in Calls : Heard(c)
  BY <1>0, <1>3, WorkerQuietFor DEF WorkerQuiet, WorkerKinds
<1>4. ASSUME HostQuiet PROVE Single(toHost') /\ \A c \in Calls : Quiet(c)
  BY <1>0, <1>4, HostQuietFor DEF HostQuiet, HostKinds
<1>5. ASSUME NEW m, Gets(m) PROVE HostQuiet
  BY <1>5, HostTakes
<1>6. ASSUME NEW m, WorkerSent(m), m.type \notin Once
      PROVE Single(toWorker') /\ \A c \in Calls : Heard(c)
  BY <1>0, <1>6, WorkerSentFor DEF WorkerKinds, Once, WorkerSent
<1>7. ASSUME NEW m, WorkerSent(m), NEW c \in Calls, m.call # c PROVE Heard(c)
  BY <1>7, WorkerSentFor DEF WorkerKinds
<1>8. (child' = Reaped \/ UNCHANGED child) => \A c \in Calls : Milder(c)
  BY <1>0 DEF Reaped
<1> HIDE DEF Quiet, Heard, Milder
<1>9. ASSUME HostQuiet, WorkerQuiet, UNCHANGED acks, child' = Reaped \/ UNCHANGED child
      PROVE  Placed'
  BY <1>2, <1>3, <1>4, <1>8, <1>9, PlacedParts
<1>10. ASSUME HostQuiet, UNCHANGED acks, child' = Reaped \/ UNCHANGED child,
              NEW m, WorkerSent(m), m.type \notin Once
       PROVE  Placed'
  BY <1>2, <1>4, <1>6, <1>8, <1>10, PlacedParts
<1>11. ASSUME BarredRead \/ NoteRead PROVE Placed'
  <2>1. HostQuiet /\ UNCHANGED <<acks, child, toWorker>>
    BY <1>5, <1>11 DEF BarredRead, NoteRead, OnNote, host
  <2> QED
    BY <1>9, <2>1, WorkerKeeps
<1>12. ASSUME ReadyRead PROVE Placed'
  <2>1. HostQuiet /\ UNCHANGED <<acks, child>> /\ WorkerSent(Msg("Go", NoCall))
    BY <1>5, <1>12, WorkerMsg, WorkerPosts DEF ReadyRead, OnReady, host
  <2>2. Msg("Go", NoCall).type \notin Once
    BY MsgIs DEF Once
  <2> QED
    BY <1>10, <2>1, <2>2
<1>13. ASSUME NEW c \in Calls, AgentStartRead(c) \/ AgentEndRead(c) PROVE Placed'
  <2>1. HostQuiet /\ UNCHANGED <<acks, child, toWorker>>
    BY <1>5, <1>13 DEF AgentStartRead, OnAgentStart, AgentEndRead, OnAgentEnd
  <2> QED
    BY <1>9, <2>1, WorkerKeeps
<1>14. ASSUME ResultRead PROVE Placed'
  <2>1. HostQuiet /\ UNCHANGED <<acks, toWorker>> /\ (child' = Reaped \/ UNCHANGED child)
    BY <1>5, <1>14 DEF ResultRead, OnResult
  <2> QED
    BY <1>9, <2>1, WorkerKeeps
<1>15. ASSUME ErrorEvent \/ ExitEvent PROVE Placed'
  <2>1. UNCHANGED <<acks, toWorker>> /\ (child' = Reaped \/ UNCHANGED child)
    BY <1>15 DEF ErrorEvent, ExitEvent, FirstDeath
  <2>2. HostQuiet
    <3>1. toHost' = <<>> \/ UNCHANGED toHost
      BY <1>15 DEF ErrorEvent, ExitEvent
    <3>2. CASE toHost' = <<>>
      BY <3>2 DEF HostQuiet, Elements, Single
    <3> QED
      BY <3>1, <3>2, HostKeeps
  <2> QED
    BY <1>9, <2>1, <2>2, WorkerKeeps
<1>16. ASSUME GraceExpires \/ DisposeReturns \/ \E slept \in BOOLEAN : DisposeTerminates(slept) PROVE Placed'
  <2>1. UNCHANGED <<acks, toHost, toWorker>> /\ (child' = Reaped \/ UNCHANGED child)
    BY <1>16 DEF GraceExpires, DisposeReturns, DisposeTerminates
  <2> QED
    BY <1>9, <2>1, WorkerKeeps, HostKeeps
<1>17. ASSUME Cancel \/ Dispose PROVE Placed'
  <2>1. UNCHANGED <<acks, toHost>> /\ (child' = Reaped \/ UNCHANGED child)
    BY <1>17 DEF Cancel, Dispose
  <2>2. UNCHANGED toWorker \/ WorkerSent(Msg("Cancel", NoCall))
    BY <1>17, WorkerMsg, WorkerPosts DEF Cancel, Dispose, CancelEffects
  <2>3. Msg("Cancel", NoCall).type \notin Once
    BY MsgIs DEF Once
  <2> QED
    BY <1>9, <1>10, <2>1, <2>2, <2>3, WorkerKeeps, HostKeeps
<1>18. ASSUME NEW c \in Calls, ChildStartRead(c) PROVE Placed'
  <2>1. /\ HostQuiet /\ InHost("ChildStart", c) /\ ~InHost("ChildStart", c)'
        /\ UNCHANGED acks
    BY <1>0, <1>18, HostTakes, MsgIs DEF ChildStartRead, OnChildStart, InHost, Once
  <2>2. Single(toHost') /\ \A x \in Calls : Quiet(x)
    BY <1>4, <2>1
  <2>3. /\ PlacedFor(c) /\ call[c] = "starting" /\ child[c] = "none"
        /\ ~InWorker("ChildStarted", c) /\ ~InWorker("ChildStartError", c)
    BY <1>0, <2>1 DEF PlacedFor, Starting
  <2>4. CASE Admitting
    <3>1. UNCHANGED toWorker /\ child'[c] = "starting" /\ \A x \in Calls \ {c} : child'[x] = child[x]
      BY <1>0, <1>18, <2>4 DEF ChildStartRead, OnChildStart
    <3>2. Single(toWorker') /\ \A x \in Calls : Heard(x)
      BY <1>3, <3>1, WorkerKeeps
    <3>3. \A x \in Calls \ {c} : PlacedFor(x)'
      BY <1>2, <2>1, <2>2, <3>1, <3>2 DEF Milder
    <3>4. PlacedFor(c)'
      BY <1>1, <2>1, <2>2, <2>3, <3>1, <3>2 DEF PlacedFor, Starting, Disposing, Standing, Quiet, Heard
    <3> QED
      BY <2>2, <3>2, <3>3, <3>4, PlacedParts
  <2>5. CASE ~Admitting
    <3>1. WorkerSent(Msg("ChildStartError", c)) /\ UNCHANGED child
      BY <1>18, <2>5, WorkerMsg, WorkerPosts DEF ChildStartRead, OnChildStart
    <3>2. Single(toWorker')
      BY <1>0, <2>3, <3>1 DEF WorkerSent, InWorker
    <3>3. \A x \in Calls \ {c} : PlacedFor(x)'
      BY <1>2, <1>7, <2>1, <2>2, <3>1, MsgIs DEF Milder
    <3>4. /\ InWorker("ChildStarted", c)' => InWorker("ChildStarted", c)
          /\ InWorker("ChildDisposed", c)' => InWorker("ChildDisposed", c)
      BY <3>1, WorkerSentFor, MsgIs DEF WorkerKinds
    <3>5. PlacedFor(c)'
      BY <1>1, <2>1, <2>2, <2>3, <2>5, <3>1, <3>4
      DEF PlacedFor, Starting, Disposing, Standing, Quiet
    <3> QED
      BY <2>2, <3>2, <3>3, <3>5, PlacedParts
  <2> QED
    BY <2>4, <2>5
<1>19. ASSUME NEW c \in Calls, ChildDisposeRead(c) PROVE Placed'
  <2>1. HostQuiet /\ InHost("ChildDispose", c) /\ ~InHost("ChildDispose", c)'
    BY <1>0, <1>19, HostTakes, MsgIs DEF ChildDisposeRead, InHost, Once
  <2>2. Single(toHost') /\ \A x \in Calls : Quiet(x)
    BY <1>4, <2>1
  <2>3. /\ PlacedFor(c) /\ call[c] = "disposing" /\ c \notin acks /\ ~InWorker("ChildDisposed", c)
        /\ child[c] \in {"live", "disposing", "gone"}
    BY <1>0, <2>1 DEF PlacedFor, Disposing, Standing
  <2>4. CASE child[c] = "gone"
    <3>1. WorkerSent(Msg("ChildDisposed", c)) /\ UNCHANGED <<child, acks>>
      BY <1>19, <2>4, WorkerMsg, WorkerPosts DEF ChildDisposeRead, OnChildDispose
    <3>2. Single(toWorker')
      BY <1>0, <2>3, <3>1 DEF WorkerSent, InWorker
    <3>3. \A x \in Calls \ {c} : PlacedFor(x)'
      BY <1>2, <1>7, <2>2, <3>1, MsgIs DEF Milder
    <3>4. /\ InWorker("ChildStarted", c)' => InWorker("ChildStarted", c)
          /\ InWorker("ChildStartError", c)' => InWorker("ChildStartError", c)
      BY <3>1, WorkerSentFor, MsgIs DEF WorkerKinds
    <3>5. PlacedFor(c)'
      BY <1>1, <2>1, <2>2, <2>3, <2>4, <3>1, <3>4
      DEF PlacedFor, Starting, Disposing, Standing, Quiet
    <3> QED
      BY <2>2, <3>2, <3>3, <3>5, PlacedParts
  <2>5. CASE child[c] # "gone"
    <3>1. /\ UNCHANGED toWorker /\ acks' = acks \cup {c} /\ child'[c] = "disposing"
          /\ \A x \in Calls \ {c} : child'[x] = child[x]
      BY <1>0, <1>19, <2>5 DEF ChildDisposeRead, OnChildDispose
    <3>2. Single(toWorker') /\ \A x \in Calls : Heard(x)
      BY <1>3, <3>1, WorkerKeeps
    <3>3. \A x \in Calls \ {c} : PlacedFor(x)'
      BY <1>2, <2>2, <3>1, <3>2 DEF Milder
    <3>4. PlacedFor(c)'
      BY <1>1, <2>1, <2>2, <2>3, <2>5, <3>1, <3>2
      DEF PlacedFor, Starting, Disposing, Standing, Quiet, Heard
    <3> QED
      BY <2>2, <3>2, <3>3, <3>4, PlacedParts
  <2> QED
    BY <2>4, <2>5
<1>20. ASSUME NEW c \in Calls, StartFulfils(c) \/ StartRejects(c) PROVE Placed'
  <2>1. /\ HostQuiet /\ UNCHANGED acks /\ child[c] = "starting"
        /\ \A x \in Calls \ {c} : child'[x] = child[x]
    BY <1>0, <1>20, HostKeeps DEF StartFulfils, StartRejects, ProviderUnchanged
  <2>2. Single(toHost') /\ \A x \in Calls : Quiet(x)
    BY <1>4, <2>1
  <2>3. /\ PlacedFor(c) /\ call[c] = "starting" /\ ~InHost("ChildStart", c)
        /\ ~InWorker("ChildStarted", c) /\ ~InWorker("ChildStartError", c)
    BY <1>0, <2>1 DEF PlacedFor, Starting
  <2>4. ASSUME WorkerSent(Msg("ChildStarted", c)), child'[c] = "live" PROVE Placed'
    <3>1. Single(toWorker')
      BY <1>0, <2>3, <2>4 DEF WorkerSent, InWorker
    <3>2. \A x \in Calls \ {c} : PlacedFor(x)'
      BY <1>2, <1>7, <2>1, <2>2, <2>4, MsgIs DEF Milder
    <3>3. /\ InWorker("ChildStartError", c)' => InWorker("ChildStartError", c)
          /\ InWorker("ChildDisposed", c)' => InWorker("ChildDisposed", c)
      BY <2>4, WorkerSentFor, MsgIs DEF WorkerKinds
    <3>4. PlacedFor(c)'
      BY <1>1, <2>1, <2>2, <2>3, <2>4, <3>3 DEF PlacedFor, Starting, Disposing, Standing, Quiet
    <3> QED
      BY <2>2, <3>1, <3>2, <3>4, PlacedParts
  <2>5. ASSUME WorkerSent(Msg("ChildStartError", c)),
               child'[c] = "gone" \/ (child'[c] = "refused" /\ ~Admitting)
        PROVE  Placed'
    <3>1. Single(toWorker')
      BY <1>0, <2>3, <2>5 DEF WorkerSent, InWorker
    <3>2. \A x \in Calls \ {c} : PlacedFor(x)'
      BY <1>2, <1>7, <2>1, <2>2, <2>5, MsgIs DEF Milder
    <3>3. /\ InWorker("ChildStarted", c)' => InWorker("ChildStarted", c)
          /\ InWorker("ChildDisposed", c)' => InWorker("ChildDisposed", c)
      BY <2>5, WorkerSentFor, MsgIs DEF WorkerKinds
    <3>4. PlacedFor(c)'
      BY <1>1, <2>1, <2>2, <2>3, <2>5, <3>3 DEF PlacedFor, Starting, Disposing, Standing, Quiet
    <3> QED
      BY <2>2, <3>1, <3>2, <3>4, PlacedParts
  <2>6. \/ WorkerSent(Msg("ChildStarted", c)) /\ child'[c] = "live"
        \/ /\ WorkerSent(Msg("ChildStartError", c))
           /\ child'[c] = "gone" \/ (child'[c] = "refused" /\ ~Admitting)
    BY <1>0, <1>20, WorkerMsg, WorkerPosts DEF StartFulfils, StartRejects
  <2> QED
    BY <2>4, <2>5, <2>6
<1>21. ASSUME NEW c \in Calls, ChildSettles(c) PROVE Placed'
  <2>1. HostQuiet /\ UNCHANGED <<acks, child>> /\ WorkerSent(Msg("ChildSettled", c))
    BY <1>21, HostKeeps, WorkerMsg, WorkerPosts DEF ChildSettles, ProviderUnchanged
  <2>2. Msg("ChildSettled", c).type \notin Once
    BY MsgIs DEF Once
  <2> QED
    BY <1>10, <2>1, <2>2
<1>22. ASSUME NEW c \in Calls, ChildDisposed(c) PROVE Placed'
  <2>1. /\ HostQuiet /\ child[c] \in {"refused", "disposing"} /\ child'[c] = "gone"
        /\ \A x \in Calls \ {c} : child'[x] = child[x]
        /\ acks' = acks \ {c}
    BY <1>0, <1>22, HostKeeps DEF ChildDisposed, ProviderUnchanged
  <2>2. Single(toHost') /\ \A x \in Calls : Quiet(x)
    BY <1>4, <2>1
  <2>3. PlacedFor(c)
    BY <1>0
  <2>4. CASE c \in acks
    <3>1. WorkerSent(Msg("ChildDisposed", c))
      BY <1>22, <2>4, WorkerMsg, WorkerPosts DEF ChildDisposed
    <3>2. /\ ~InWorker("ChildDisposed", c) /\ ~InHost("ChildDispose", c)
          /\ call[c] = "disposing"
      BY <2>3, <2>4 DEF PlacedFor, Disposing
    <3>3. Single(toWorker')
      BY <1>0, <3>1, <3>2 DEF WorkerSent, InWorker
    <3>4. \A x \in Calls \ {c} : PlacedFor(x)'
      BY <1>2, <1>7, <2>1, <2>2, <3>1, MsgIs DEF Milder
    <3>5. /\ InWorker("ChildStarted", c)' => InWorker("ChildStarted", c)
          /\ InWorker("ChildStartError", c)' => InWorker("ChildStartError", c)
      BY <3>1, WorkerSentFor, MsgIs DEF WorkerKinds
    <3>6. PlacedFor(c)'
      BY <1>1, <2>1, <2>2, <2>3, <3>2, <3>5 DEF PlacedFor, Starting, Disposing, Standing, Quiet
    <3> QED
      BY <2>2, <3>3, <3>4, <3>6, PlacedParts
  <2>5. CASE c \notin acks
    <3>1. Single(toWorker') /\ \A x \in Calls : Heard(x)
      BY <1>3, <1>22, <2>5, WorkerKeeps DEF ChildDisposed
    <3>2. \A x \in Calls \ {c} : PlacedFor(x)'
      BY <1>2, <2>1, <2>2, <3>1 DEF Milder
    <3>3. PlacedFor(c)'
      BY <1>1, <2>1, <2>2, <2>3, <2>5, <3>1
      DEF PlacedFor, Starting, Disposing, Standing, Quiet, Heard
    <3> QED
      BY <2>2, <3>1, <3>2, <3>3, PlacedParts
  <2> QED
    BY <2>4, <2>5
<1> QED
  BY <1>11, <1>12, <1>13, <1>14, <1>15, <1>16, <1>17, <1>18, <1>19, <1>20, <1>21, <1>22
  DEF HostMoves, ProviderStep

--------------------------------------------------------------------------------
(* The announcements of agents *)

Begun == {"running", "disposing", "ended"}
Present == {"live", "disposing", "gone"}

(* What has begun stays begun, and a child that existed stays known. *)
LEMMA BegunStays ==
  ASSUME Typed, InLine, Placed, WorkerMoves, NEW x \in Calls, call[x] \in Begun
  PROVE  call'[x] \in Begun
<1>0. call \in [Calls -> CallStates] /\ \A c \in Calls : PlacedFor(c)
  BY PlacedParts DEF Typed, WorkerTyped
<1>1. ASSUME UNCHANGED call PROVE call'[x] \in Begun
  BY <1>1
<1>2. Narrate \/ Crash \/ Terminated \/ GoRead \/ (\E r \in {"completed", "error"} : ScriptEnds(r))
        => UNCHANGED call
  BY DEF Narrate, Crash, Terminated, GoRead, ScriptEnds
<1>3. ASSUME CancelRead PROVE call'[x] \in Begun
  BY <1>0, <1>3 DEF CancelRead, Begun
<1>4. ASSUME NEW c \in Calls, CallAgent(c) PROVE call'[x] \in Begun
  BY <1>0, <1>4 DEF CallAgent, Begun
<1>5. ASSUME NEW c \in Calls, StartedRead(c) \/ SettledRead(c) PROVE call'[x] \in Begun
  BY <1>0, <1>5 DEF StartedRead, SettledRead, Begun
<1>6. ASSUME NEW c \in Calls, ReleaseRead(c) PROVE call'[x] \in Begun
  <2>1. ReleasedAlone(c) \/ \E h \in Calls : ReleasedTo(c, h)
    <3>1. call[c] # "queued"
      BY <1>6, ReleaseAt
    <3> QED
      BY <1>6, <3>1, Released DEF ReleaseRead
  <2> QED
    BY <1>0, <2>1 DEF ReleasedAlone, ReleasedTo, Begun
<1> QED
  BY <1>1, <1>2, <1>3, <1>4, <1>5, <1>6 DEF WorkerMoves

LEMMA PresentStays ==
  ASSUME Typed, Placed, HostMoves, NEW x \in Calls
  PROVE  /\ child[x] \in Present => child'[x] \in Present
         /\ child[x] # "none" => child'[x] # "none"
         /\ child[x] = "none" /\ child'[x] # "none" => ChildStartRead(x) /\ Admitting
<1>0. child \in [Calls -> ChildStates]
  BY DEF Typed, HostTyped
<1> DEFINE Goal == /\ child[x] \in Present => child'[x] \in Present
                   /\ child[x] # "none" => child'[x] # "none"
                   /\ child[x] = "none" /\ child'[x] # "none" => ChildStartRead(x) /\ Admitting
<1>1. ASSUME child' = Reaped \/ UNCHANGED child PROVE Goal
  BY <1>0, <1>1 DEF Reaped, Present
<1>2. BarredRead \/ ReadyRead \/ NoteRead \/ ResultRead \/ ErrorEvent \/ ExitEvent \/ GraceExpires
        => child' = Reaped \/ UNCHANGED child
  BY DEF BarredRead, ReadyRead, OnReady, NoteRead, OnNote, ResultRead, OnResult, host,
         ErrorEvent, ExitEvent, FirstDeath, GraceExpires
<1>3. Cancel \/ Dispose \/ DisposeReturns \/ (\E slept \in BOOLEAN : DisposeTerminates(slept))
        => child' = Reaped \/ UNCHANGED child
  BY DEF Cancel, Dispose, DisposeReturns, DisposeTerminates
<1>4. \A c \in Calls : AgentStartRead(c) \/ AgentEndRead(c) => UNCHANGED child
  BY DEF AgentStartRead, AgentEndRead, OnAgentStart, OnAgentEnd
<1>5. ASSUME NEW c \in Calls, ChildStartRead(c) PROVE Goal
  <2>1. InHost("ChildStart", c)
    BY <1>5, HostTakes DEF ChildStartRead, InHost
  <2>2. child[c] = "none"
    BY <2>1 DEF Placed, Starting
  <2> QED
    BY <1>0, <1>5, <2>2 DEF ChildStartRead, OnChildStart, Present
<1>6. ASSUME NEW c \in Calls, ChildDisposeRead(c) PROVE Goal
  <2>1. InHost("ChildDispose", c)
    BY <1>6, HostTakes DEF ChildDisposeRead, InHost
  <2>2. child[c] # "none"
    BY <2>1 DEF Placed, Disposing, Standing
  <2> QED
    BY <1>0, <1>6, <2>2 DEF ChildDisposeRead, OnChildDispose, Present
<1>7. ASSUME NEW c \in Calls, ProviderStep(c) PROVE Goal
  BY <1>0, <1>7
  DEF ProviderStep, StartFulfils, StartRejects, ChildSettles, ChildDisposed, Present
<1> QED
  BY <1>1, <1>2, <1>3, <1>4, <1>5, <1>6, <1>7 DEF HostMoves

PairedNow == \A c \in Calls : ended[c] <= 1 /\ (c \in ledger => ended[c] = 0)

LEMMA EndKeeps ==
  ASSUME Typed, PairedNow, NEW cs, EndAgents(cs)
  PROVE  PairedNow' /\ Announced' = Announced
<1>0. ended \in [Calls -> Nat] /\ ledger \subseteq Calls
  BY DEF Typed, HostTyped
<1>1. \A c \in Calls : ended'[c] = (IF c \in cs /\ c \in ledger THEN ended[c] + 1 ELSE ended[c])
  BY DEF EndAgents, Unpaired
<1>2. ledger' = ledger \ cs
  BY DEF EndAgents
<1>3. PairedNow'
  BY <1>0, <1>1, <1>2 DEF PairedNow
<1>4. \A c \in Calls : c \in Announced' <=> c \in Announced
  BY <1>0, <1>1, <1>2 DEF PairedNow, Announced
<1>5. Announced' \subseteq Calls /\ Announced \subseteq Calls
  BY <1>0, <1>2 DEF Announced
<1> QED
  BY <1>3, <1>4, <1>5

(* What a step of the host does to the announcements. *)
LEMMA AnnouncedMoves ==
  ASSUME Typed, Placed, Announcing, HostMoves
  PROVE  /\ PairedNow'
         /\ \/ Announced' = Announced /\ ledger' \subseteq ledger
            \/ /\ ~death /\ ~death'
               /\ \E c \in Calls :
                    Gets(Msg("AgentStart", c)) /\ Announced' = Announced \cup {c}
                    /\ ledger' = ledger \cup {c}
<1>0. PairedNow /\ ended \in [Calls -> Nat] /\ ledger \subseteq Calls
  BY DEF Announcing, PairedNow, Typed, HostTyped
<1> DEFINE Goal == PairedNow' /\ Announced' = Announced /\ ledger' \subseteq ledger
<1>1. ASSUME UNCHANGED <<ledger, ended>> PROVE Goal
  BY <1>0, <1>1 DEF PairedNow, Announced
<1>2. ASSUME NEW cs, EndAgents(cs) PROVE Goal
  BY <1>0, <1>2, EndKeeps DEF EndAgents
<1>3. BarredRead \/ ReadyRead \/ NoteRead \/ ResultRead => UNCHANGED <<ledger, ended>>
  BY DEF BarredRead, ReadyRead, OnReady, NoteRead, OnNote, ResultRead, OnResult, host
<1>4. Cancel \/ Dispose \/ DisposeReturns \/ (\E slept \in BOOLEAN : DisposeTerminates(slept))
        => UNCHANGED <<ledger, ended>>
  BY DEF Cancel, Dispose, DisposeReturns, DisposeTerminates
<1>5. \A c \in Calls : ChildStartRead(c) \/ ChildDisposeRead(c) \/ ProviderStep(c)
                       => UNCHANGED <<ledger, ended>>
  BY DEF ChildStartRead, OnChildStart, ChildDisposeRead, OnChildDispose, ProviderStep, StartFulfils,
         StartRejects, ChildSettles, ChildDisposed, ProviderUnchanged
<1>6. ErrorEvent \/ ExitEvent \/ GraceExpires => UNCHANGED <<ledger, ended>> \/ EndAgents(ledger)
  BY DEF ErrorEvent, ExitEvent, FirstDeath, GraceExpires
<1>7. \A c \in Calls : AgentEndRead(c) => EndAgents({c})
  BY DEF AgentEndRead, OnAgentEnd
<1>8. ASSUME NEW c \in Calls, AgentStartRead(c)
      PROVE  /\ PairedNow' /\ ~death /\ ~death' /\ Gets(Msg("AgentStart", c))
             /\ Announced' = Announced \cup {c} /\ ledger' = ledger \cup {c}
  <2>1. /\ Gets(Msg("AgentStart", c)) /\ ledger' = ledger \cup {c} /\ ended' = ended
        /\ ~death /\ death' = death
    BY <1>8 DEF AgentStartRead, OnAgentStart, Barred
  <2>2. InHost("AgentStart", c)
    BY <2>1, HostTakes DEF InHost
  <2>3. c \notin Announced
    BY <2>2 DEF Announcing
  <2>4. ended[c] = 0
    BY <1>0, <2>3 DEF Announced
  <2>5. PairedNow'
    BY <1>0, <2>1, <2>4 DEF PairedNow
  <2> QED
    BY <1>0, <2>1, <2>5 DEF Announced
<1> QED
  BY <1>1, <1>2, <1>3, <1>4, <1>5, <1>6, <1>7, <1>8 DEF HostMoves

LEMMA AnnouncingHost ==
  ASSUME Typed, Decided, Placed, Announcing, HostMoves
  PROVE  Announcing'
<1>0. /\ Single(toHost)
      /\ UNCHANGED call
  <2>1. UNCHANGED call
    BY DEF HostMoves, BarredRead, ReadyRead, NoteRead, ResultRead, AgentStartRead, AgentEndRead,
           ChildStartRead, ChildDisposeRead, Gets, worker, ErrorEvent, ExitEvent, GraceExpires,
           Cancel, Dispose, DisposeReturns, DisposeTerminates, ProviderStep, StartFulfils,
           StartRejects, ChildSettles, ChildDisposed, ProviderUnchanged
  <2> QED
    BY <2>1 DEF Placed
<1>1. HostQuiet
  <2>1. ASSUME NEW m, Gets(m) PROVE HostQuiet
    BY <2>1, HostTakes
  <2>2. BarredRead \/ ReadyRead \/ NoteRead \/ ResultRead => HostQuiet
    BY <2>1 DEF BarredRead, ReadyRead, NoteRead, ResultRead
  <2>3. \A c \in Calls : AgentStartRead(c) \/ AgentEndRead(c) \/ ChildStartRead(c) \/ ChildDisposeRead(c)
                         => HostQuiet
    BY <2>1 DEF AgentStartRead, AgentEndRead, ChildStartRead, ChildDisposeRead
  <2>4. toHost' = <<>> => HostQuiet
    BY DEF HostQuiet, Elements, Single
  <2>5. ErrorEvent \/ ExitEvent \/ GraceExpires \/ Cancel \/ Dispose \/ DisposeReturns
          \/ (\E slept \in BOOLEAN : DisposeTerminates(slept)) \/ (\E c \in Calls : ProviderStep(c))
        => UNCHANGED toHost \/ toHost' = <<>>
    BY DEF ErrorEvent, ExitEvent, GraceExpires, Cancel, Dispose, DisposeReturns, DisposeTerminates,
           ProviderStep, StartFulfils, StartRejects, ChildSettles, ChildDisposed, ProviderUnchanged
  <2> QED
    BY <2>2, <2>3, <2>4, <2>5, HostKeeps DEF HostMoves
<1>2. \A c \in Calls : InHost("AgentStart", c)' => InHost("AgentStart", c)
  BY <1>1, HostQuietFor DEF HostKinds
<1>3. /\ PairedNow'
      /\ \/ Announced' = Announced /\ ledger' \subseteq ledger
         \/ /\ ~death /\ ~death'
            /\ \E c \in Calls :
                 Gets(Msg("AgentStart", c)) /\ Announced' = Announced \cup {c}
                 /\ ledger' = ledger \cup {c}
  BY AnnouncedMoves
<1>4. death' => ledger' = {}
  <2>1. death' => death \/ FirstDeath
    BY DEF HostMoves, BarredRead, ReadyRead, OnReady, NoteRead, OnNote, ResultRead, OnResult, host,
           AgentStartRead, OnAgentStart, AgentEndRead, OnAgentEnd, ChildStartRead, OnChildStart,
           ChildDisposeRead, OnChildDispose, ErrorEvent, ExitEvent, GraceExpires, Cancel, Dispose,
           DisposeReturns, DisposeTerminates, ProviderStep, StartFulfils, StartRejects,
           ChildSettles, ChildDisposed, ProviderUnchanged
  <2>2. FirstDeath => ledger' = {}
    BY DEF FirstDeath, EndAgents
  <2>3. death => ledger = {}
    BY DEF Announcing
  <2> QED
    BY <1>3, <2>1, <2>2, <2>3
<1>5. ASSUME NEW x \in Calls, InHost("AgentStart", x)' \/ x \in Announced'
      PROVE  call'[x] \in Begun /\ child'[x] \in Present
  <2>1. InHost("AgentStart", x) \/ x \in Announced
    <3>1. ASSUME NEW c \in Calls, Gets(Msg("AgentStart", c)) PROVE InHost("AgentStart", c)
      BY <3>1, HostTakes DEF InHost
    <3> QED
      BY <1>2, <1>3, <1>5, <3>1
  <2>2. call[x] \in Begun /\ child[x] \in Present
    BY <2>1 DEF Announcing, Begun, Present
  <2> QED
    BY <1>0, <2>2, PresentStays
<1>6. ASSUME NEW x \in Calls, InHost("AgentStart", x)' PROVE x \notin Announced'
  <2>1. x \notin Announced
    BY <1>2, <1>6 DEF Announcing
  <2>2. ASSUME NEW c \in Calls, Gets(Msg("AgentStart", c)) PROVE ~InHost("AgentStart", c)'
    BY <1>0, <2>2, HostTakes, MsgIs DEF InHost, Once
  <2> QED
    BY <1>3, <1>6, <2>1, <2>2
<1> QED
  BY <1>3, <1>4, <1>5, <1>6 DEF Announcing, PairedNow, Begun, Present

LEMMA AnnouncingWorker ==
  ASSUME Typed, InLine, Placed, Announcing, WorkerMoves
  PROVE  Announcing'
<1>1. UNCHANGED <<child, ledger, ended, death>>
  BY DEF WorkerMoves, Narrate, Crash, Terminated, GoRead, CancelRead, ScriptEnds, CallAgent,
         StartedRead, ReleaseRead, SettledRead, Reads, WorkerUnchanged, host
<1>2. Announced' = Announced
  BY <1>1 DEF Announced
<1>3. \A x \in Calls : InHost("AgentStart", x)' => InHost("AgentStart", x) \/ StartedRead(x)
  <2> DEFINE Goal == \A x \in Calls : InHost("AgentStart", x)' => InHost("AgentStart", x)
  <2>1. ASSUME UNCHANGED toHost PROVE Goal
    BY <2>1 DEF InHost
  <2>2. ASSUME NEW m, HostSent(m), m.type # "AgentStart" PROVE Goal
    BY <2>2, HostSentFor DEF HostKinds
  <2>3. ASSUME Narrate PROVE Goal
    <3>1. HostSent(Msg("Note", NoCall)) /\ Msg("Note", NoCall).type # "AgentStart"
      BY <2>3, HostMsg, HostAppends, MsgIs DEF Narrate
    <3> QED
      BY <2>2, <3>1
  <2>4. Crash \/ Terminated \/ GoRead => UNCHANGED toHost
    BY DEF Crash, Terminated, GoRead
  <2>5. ASSUME CancelRead PROVE Goal
    <3>1. Drive("cancelled", TRUE) \in HostMessages /\ Drive("cancelled", TRUE).type = "Result"
      BY Driven DEF Reasons
    <3>2. UNCHANGED toHost \/ HostSent(Drive("cancelled", TRUE))
      BY <2>5, <3>1, HostAppends DEF CancelRead
    <3> QED
      BY <2>1, <2>2, <3>1, <3>2
  <2>6. ASSUME NEW r \in {"completed", "error"}, ScriptEnds(r) PROVE Goal
    <3>1. Drive(r, told) \in HostMessages /\ Drive(r, told).type = "Result"
      BY Driven DEF Reasons, Typed, WorkerTyped
    <3>2. HostSent(Drive(r, told))
      BY <2>6, <3>1, HostAppends DEF ScriptEnds
    <3> QED
      BY <2>2, <3>1, <3>2
  <2>7. ASSUME NEW c \in Calls, CallAgent(c) PROVE Goal
    <3>1. UNCHANGED toHost \/ HostSent(Msg("ChildStart", c))
      BY <2>7, HostMsg, HostAppends DEF CallAgent
    <3>2. Msg("ChildStart", c).type # "AgentStart"
      BY MsgIs
    <3> QED
      BY <2>1, <2>2, <3>1, <3>2
  <2>8. ASSUME NEW c \in Calls, ReleaseRead(c) PROVE Goal
    <3>1. call[c] # "queued"
      BY <2>8, ReleaseAt
    <3>2. ReleasedAlone(c) \/ \E h \in Calls : ReleasedTo(c, h)
      BY <2>8, <3>1, Released DEF ReleaseRead
    <3>3. UNCHANGED toHost \/ \E h \in Calls : HostSent(Msg("ChildStart", h))
      BY <3>2, HostMsg, HostAppends DEF ReleasedAlone, ReleasedTo
    <3>4. \A h \in Calls : Msg("ChildStart", h).type # "AgentStart"
      BY MsgIs
    <3> QED
      BY <2>1, <2>2, <3>3, <3>4
  <2>9. ASSUME NEW c \in Calls, SettledRead(c) PROVE Goal
    <3> DEFINE e == Msg("AgentEnd", c)
               d == Msg("ChildDispose", c)
    <3>1. /\ e \in HostMessages /\ d \in HostMessages /\ toHost \in Seq(HostMessages)
          /\ \A x \in Calls : Msg("AgentStart", x) \notin {e, d}
      BY HostMsg, MsgIs DEF Typed
    <3>2. toHost' = Append(Append(toHost, e), d) \/ UNCHANGED toHost
      BY <2>9 DEF SettledRead
    <3> HIDE DEF e, d
    <3>3. Elements(Append(Append(toHost, e), d)) = Elements(toHost) \cup {e, d}
      BY <3>1, AppendTwo
    <3> QED
      BY <3>1, <3>2, <3>3 DEF InHost
  <2>10. ASSUME NEW c \in Calls, StartedRead(c)
         PROVE \A x \in Calls : InHost("AgentStart", x)' => InHost("AgentStart", x) \/ x = c
    <3>1. HostSent(Msg("ChildDispose", c)) \/ HostSent(Msg("AgentStart", c))
      BY <2>10, HostMsg, HostAppends DEF StartedRead
    <3> QED
      BY <3>1, HostSentFor, MsgIs DEF HostKinds
  <2> HIDE DEF Goal
  <2>11. Goal \/ \E c \in Calls : StartedRead(c)
    BY <2>1, <2>3, <2>4, <2>5, <2>6, <2>7, <2>8, <2>9 DEF WorkerMoves
  <2> QED
    BY <2>10, <2>11 DEF Goal
<1>4. ASSUME NEW x \in Calls, StartedRead(x)
      PROVE  /\ x \notin Announced /\ child[x] \in Present
             /\ InHost("AgentStart", x)' => call'[x] = "running" \/ InHost("AgentStart", x)
  <2>1. InWorker("ChildStarted", x) /\ call \in [Calls -> CallStates]
    BY <1>4, WorkerTakes DEF StartedRead, InWorker, Typed, WorkerTyped
  <2>2. call[x] = "starting" /\ child[x] \in Present
    BY <2>1 DEF Placed, Starting, Present
  <2>3. x \notin Announced
    BY <2>2 DEF Announcing
  <2>4. \/ HostSent(Msg("ChildDispose", x))
        \/ call'[x] = "running"
    BY <1>4, <2>1, HostMsg, HostAppends DEF StartedRead
  <2> QED
    BY <2>2, <2>3, <2>4, HostSentFor, MsgIs DEF HostKinds
<1>5. ASSUME NEW x \in Calls, InHost("AgentStart", x)' PROVE x \notin Announced'
  BY <1>2, <1>3, <1>4, <1>5 DEF Announcing
<1>6. ASSUME NEW x \in Calls, InHost("AgentStart", x)' \/ x \in Announced'
      PROVE  call'[x] \in Begun /\ child'[x] \in Present
  <2>1. CASE InHost("AgentStart", x) \/ x \in Announced
    <3>1. call[x] \in Begun /\ child[x] \in Present
      BY <2>1 DEF Announcing, Begun, Present
    <3> QED
      BY <1>1, <3>1, BegunStays
  <2>2. CASE ~(InHost("AgentStart", x) \/ x \in Announced)
    BY <1>1, <1>2, <1>3, <1>4, <1>6, <2>2 DEF Begun
  <2> QED
    BY <2>1, <2>2
<1> QED
  BY <1>1, <1>5, <1>6 DEF Announcing, Begun, Present

--------------------------------------------------------------------------------
(* The slots *)

LEMMA PartSize ==
  ASSUME NEW T, T \subseteq Calls
  PROVE  IsFiniteSet(T) /\ Cardinality(T) \in Nat
BY CallsAssumption, FS_Subset, FS_CardinalityType

LEMMA SmallerPart ==
  ASSUME NEW S, NEW T, S \subseteq T, T \subseteq Calls
  PROVE  Cardinality(S) <= Cardinality(T)
BY PartSize, FS_Subset

LEMMA SlotsKept ==
  ASSUME Typed, Fixed, InLine, Placed, Slots, WorkerMoves \/ HostMoves
  PROVE  Slots'
<1>0. /\ call \in [Calls -> CallStates] /\ child \in [Calls -> ChildStates]
      /\ MaxConcurrent' = MaxConcurrent /\ MaxConcurrent \in Nat
  BY Limits, LimitsStand DEF Typed, HostTyped, WorkerTyped
<1> DEFINE Held == Cardinality(Holding') <= MaxConcurrent
           Asked == {c \in Calls : child[c] # "none"}
<1>1. ASSUME Holding' \subseteq Holding PROVE Held
  <2>1. Cardinality(Holding') <= Cardinality(Holding)
    BY <1>1, SmallerPart DEF Holding
  <2>2. Cardinality(Holding') \in Nat /\ Cardinality(Holding) \in Nat
    BY <1>1, PartSize DEF Holding
  <2> QED
    BY <1>0, <2>1, <2>2 DEF Slots
<1>2. ASSUME UNCHANGED call PROVE Held
  BY <1>1, <1>2 DEF Holding
<1>3. ASSUME WorkerMoves PROVE Held
  <2>1. Narrate \/ Crash \/ Terminated \/ GoRead \/ (\E r \in {"completed", "error"} : ScriptEnds(r))
          => UNCHANGED call
    BY DEF Narrate, Crash, Terminated, GoRead, ScriptEnds
  <2>2. ASSUME CancelRead PROVE Held
    <3>1. Holding' \subseteq Holding
      BY <2>2 DEF CancelRead, Holding
    <3> QED
      BY <1>1, <3>1
  <2>3. ASSUME NEW c \in Calls, CallAgent(c) PROVE Held
    <3>1. CASE Cardinality(Holding) < MaxConcurrent
      <4>1. Holding' = Holding \cup {c} /\ c \notin Holding
        BY <1>0, <2>3, <3>1 DEF CallAgent, Holding
      <4>2. IsFiniteSet(Holding) /\ Cardinality(Holding) \in Nat
        BY PartSize DEF Holding
      <4>3. Cardinality(Holding \cup {c}) = Cardinality(Holding) + 1
        BY <4>1, <4>2, FS_AddElement
      <4> QED
        BY <1>0, <3>1, <4>1, <4>2, <4>3
    <3>2. CASE ~(Cardinality(Holding) < MaxConcurrent)
      <4>1. Holding' \subseteq Holding
        BY <1>0, <2>3, <3>2 DEF CallAgent, Holding
      <4> QED
        BY <1>1, <4>1
    <3> QED
      BY <3>1, <3>2
  <2>4. ASSUME NEW c \in Calls, StartedRead(c) PROVE Held
    <3>1. InWorker("ChildStarted", c)
      BY <2>4, WorkerTakes DEF StartedRead, InWorker
    <3>2. call[c] = "starting"
      BY <3>1 DEF Placed, Starting
    <3>3. Holding' \subseteq Holding
      BY <1>0, <2>4, <3>2 DEF StartedRead, Holding
    <3> QED
      BY <1>1, <3>3
  <2>5. ASSUME NEW c \in Calls, SettledRead(c) PROVE Held
    <3>1. Holding' \subseteq Holding
      BY <1>0, <2>5 DEF SettledRead, Holding
    <3> QED
      BY <1>1, <3>1
  <2>6. ASSUME NEW c \in Calls, ReleaseRead(c) PROVE Held
    <3>1. call[c] \in {"starting", "disposing"}
      BY <2>6, ReleaseAt
    <3>2. ReleasedAlone(c) \/ \E h \in Calls : ReleasedTo(c, h)
      BY <2>6, <3>1, Released DEF ReleaseRead
    <3>3. CASE ReleasedAlone(c)
      <4>1. Holding' \subseteq Holding
        BY <1>0, <3>3 DEF ReleasedAlone, Holding
      <4> QED
        BY <1>1, <4>1
    <3>4. ASSUME NEW h \in Calls, ReleasedTo(c, h) PROVE Held
      <4>1. c \in Holding /\ h \notin Holding /\ Holding' = (Holding \ {c}) \cup {h}
        BY <1>0, <3>1, <3>4 DEF ReleasedTo, Holding
      <4>2. /\ IsFiniteSet(Holding) /\ Cardinality(Holding) \in Nat
            /\ IsFiniteSet(Holding \ {c}) /\ Cardinality(Holding \ {c}) \in Nat
        BY PartSize DEF Holding
      <4>3. Cardinality(Holding \ {c}) = Cardinality(Holding) - 1
        BY <4>1, <4>2, FS_RemoveElement
      <4>4. Cardinality((Holding \ {c}) \cup {h}) = Cardinality(Holding \ {c}) + 1
        BY <4>1, <4>2, FS_AddElement
      <4> QED
        BY <1>0, <4>1, <4>2, <4>3, <4>4 DEF Slots
    <3> QED
      BY <3>2, <3>3, <3>4
  <2> HIDE DEF Held
  <2> QED
    BY <1>2, <1>3, <2>1, <2>2, <2>3, <2>4, <2>5, <2>6 DEF WorkerMoves
<1>4. HostMoves => UNCHANGED call
  BY DEF HostMoves, BarredRead, ReadyRead, NoteRead, ResultRead, AgentStartRead, AgentEndRead,
         ChildStartRead, ChildDisposeRead, Gets, worker, ErrorEvent, ExitEvent, GraceExpires,
         Cancel, Dispose, DisposeReturns, DisposeTerminates, ProviderStep, StartFulfils,
         StartRejects, ChildSettles, ChildDisposed, ProviderUnchanged
<1>5. Held
  BY <1>2, <1>3, <1>4
<1>6. accepted' = Cardinality(Asked')
  <2>1. CASE WorkerMoves
    <3>1. UNCHANGED <<child, accepted>>
      BY <2>1
      DEF WorkerMoves, Narrate, Crash, Terminated, GoRead, CancelRead, ScriptEnds, CallAgent,
          StartedRead, ReleaseRead, SettledRead, Reads, WorkerUnchanged, host
    <3> QED
      BY <3>1 DEF Slots
  <2>2. ASSUME NEW c \in Calls, ChildStartRead(c), Admitting PROVE accepted' = Cardinality(Asked')
    <3>1. InHost("ChildStart", c)
      BY <2>2, HostTakes DEF ChildStartRead, InHost
    <3>2. child[c] = "none"
      BY <3>1 DEF Placed, Starting
    <3>3. accepted' = accepted + 1 /\ child' = [child EXCEPT ![c] = "starting"]
      BY <2>2 DEF ChildStartRead, OnChildStart
    <3>4. Asked' = Asked \cup {c} /\ c \notin Asked
      BY <1>0, <3>2, <3>3
    <3>5. IsFiniteSet(Asked)
      BY PartSize
    <3>6. Cardinality(Asked \cup {c}) = Cardinality(Asked) + 1
      BY <3>4, <3>5, FS_AddElement
    <3> QED
      BY <3>3, <3>4, <3>6 DEF Slots
  <2>3. CASE HostMoves /\ ~\E c \in Calls : ChildStartRead(c) /\ Admitting
    <3>1. accepted' = accepted
      BY <2>3
      DEF HostMoves, BarredRead, ReadyRead, OnReady, NoteRead, OnNote, ResultRead, OnResult, host,
          AgentStartRead, OnAgentStart, AgentEndRead, OnAgentEnd, ChildStartRead, OnChildStart,
          ChildDisposeRead, OnChildDispose, ErrorEvent, ExitEvent, GraceExpires, Cancel, Dispose,
          DisposeReturns, DisposeTerminates, ProviderStep, StartFulfils, StartRejects,
          ChildSettles, ChildDisposed, ProviderUnchanged
    <3>2. \A x \in Calls : child'[x] # "none" <=> child[x] # "none"
      BY <2>3, PresentStays
    <3>3. Asked' = Asked
      BY <3>2
    <3> QED
      BY <3>1, <3>3 DEF Slots
  <2> QED
    BY <2>1, <2>2, <2>3
<1> QED
  BY <1>0, <1>5, <1>6 DEF Slots

--------------------------------------------------------------------------------
(* The count of a result *)

(* A channel that got longer: what is new at its end is no result, or counts what is *)
(* announced and under way.                                                          *)
LEMMA CountingLonger ==
  ASSUME Typed, Counting, Announced' = Announced, UNCHANGED result,
         NEW n \in Nat, DOMAIN toHost = 1 .. n, DOMAIN toHost' \subseteq Nat,
         \A i \in DOMAIN toHost : toHost'[i] = toHost[i],
         \A i \in DOMAIN toHost' :
           \/ i \in DOMAIN toHost
           \/ toHost'[i].type # "Result"
           \/ i = n + 1
              /\ Cardinality(Announced \cup {c \in Calls : InHost("AgentStart", c)})
                   <= toHost'[i].result.started
  PROVE  Counting'
<1>1. \A i \in DOMAIN toHost : Before(i)' = Before(i)
  <2> SUFFICES ASSUME NEW i \in DOMAIN toHost PROVE Before(i)' = Before(i)
    OBVIOUS
  <2>1. \A j \in 1 .. i - 1 : toHost'[j] = toHost[j]
    OBVIOUS
  <2> QED
    BY <2>1 DEF Before
<1>2. Before(n + 1)' = Announced \cup {c \in Calls : InHost("AgentStart", c)}
  <2>1. \A c \in Calls : (\E j \in 1 .. n + 1 - 1 : toHost'[j] = Msg("AgentStart", c))
                         <=> InHost("AgentStart", c)
    BY DEF InHost, Elements
  <2> QED
    BY <2>1 DEF Before
<1>3. \A i \in DOMAIN toHost' :
        toHost'[i].type = "Result" => Cardinality(Before(i)') <= toHost'[i].result.started
  <2> SUFFICES ASSUME NEW i \in DOMAIN toHost', toHost'[i].type = "Result"
               PROVE  Cardinality(Before(i)') <= toHost'[i].result.started
    OBVIOUS
  <2>1. CASE i \in DOMAIN toHost
    BY <1>1, <2>1 DEF Counting
  <2>2. CASE i \notin DOMAIN toHost
    BY <1>2, <2>2
  <2> QED
    BY <2>1, <2>2
<1>4. CountCovers'
  BY DEF Counting, CountCovers, Settled
<1> QED
  BY <1>3, <1>4 DEF Counting

LEMMA CountingWorker ==
  ASSUME Typed, InLine, Placed, Announcing, Counting, WorkerMoves
  PROVE  Counting'
<1>0. /\ toHost \in Seq(HostMessages) /\ Len(toHost) \in Nat /\ DOMAIN toHost = 1 .. Len(toHost)
  BY DEF Typed
<1>1. UNCHANGED <<result, ledger, ended>>
  BY DEF WorkerMoves, Narrate, Crash, Terminated, GoRead, CancelRead, ScriptEnds, CallAgent,
         StartedRead, ReleaseRead, SettledRead, Reads, WorkerUnchanged, host
<1>2. Announced' = Announced
  BY <1>1 DEF Announced
<1>3. ASSUME UNCHANGED toHost PROVE Counting'
  <2>1. DOMAIN toHost' \subseteq Nat /\ \A i \in DOMAIN toHost' : i \in DOMAIN toHost
    BY <1>0, <1>3
  <2> QED
    BY <1>0, <1>1, <1>2, <1>3, <2>1, CountingLonger
<1> DEFINE coming == Announced \cup {c \in Calls : InHost("AgentStart", c)}
<1>4. ASSUME NEW m \in HostMessages, toHost' = Append(toHost, m),
             m.type # "Result" \/ Cardinality(coming) <= m.result.started
      PROVE  Counting'
  <2>1. /\ Append(toHost, m) \in Seq(HostMessages) /\ Len(Append(toHost, m)) = Len(toHost) + 1
        /\ Append(toHost, m)[Len(toHost) + 1] = m
        /\ \A i \in DOMAIN toHost : Append(toHost, m)[i] = toHost[i]
    BY <1>0, AppendTo
  <2>2. DOMAIN toHost' = 1 .. Len(toHost) + 1 /\ DOMAIN toHost' \subseteq Nat
    BY <1>0, <1>4, <2>1
  <2>3. \A i \in DOMAIN toHost' : i \in DOMAIN toHost \/ (i = Len(toHost) + 1 /\ toHost'[i] = m)
    BY <1>0, <1>4, <2>1, <2>2
  <2> QED
    BY <1>0, <1>1, <1>2, <1>4, <2>1, <2>2, <2>3, CountingLonger
<1>5. ASSUME NEW e \in HostMessages, NEW d \in HostMessages, toHost' = Append(Append(toHost, e), d),
             e.type # "Result", d.type # "Result"
      PROVE  Counting'
  <2>1. PICK q \in Seq(HostMessages) : q = Append(toHost, e)
    BY <1>0, AppendTo
  <2>2. /\ Len(q) = Len(toHost) + 1 /\ q[Len(toHost) + 1] = e
        /\ \A i \in DOMAIN toHost : q[i] = toHost[i]
    BY <1>0, <2>1, AppendTo
  <2>3. /\ Append(q, d) \in Seq(HostMessages) /\ Len(Append(q, d)) = Len(q) + 1
        /\ Append(q, d)[Len(q) + 1] = d /\ \A i \in DOMAIN q : Append(q, d)[i] = q[i]
    BY AppendTo
  <2>4. DOMAIN q = 1 .. Len(q) /\ DOMAIN Append(q, d) = 1 .. Len(q) + 1 /\ toHost' = Append(q, d)
    BY <1>5, <2>1, <2>3
  <2>5. /\ DOMAIN toHost' \subseteq Nat /\ \A i \in DOMAIN toHost : toHost'[i] = toHost[i]
        /\ \A i \in DOMAIN toHost' :
             i \in DOMAIN toHost \/ toHost'[i] = e \/ toHost'[i] = d
    BY <1>0, <2>2, <2>3, <2>4
  <2>6. \A i \in DOMAIN toHost' : i \in DOMAIN toHost \/ toHost'[i].type # "Result"
    BY <1>5, <2>5
  <2> QED
    BY <1>0, <1>1, <1>2, <2>5, <2>6, CountingLonger
<1>6. Cardinality(coming) <= Cardinality({c \in Calls : call[c] # "none"})
  <2>1. coming \subseteq {c \in Calls : call[c] # "none"}
    BY DEF Announcing, Announced, Typed, HostTyped
  <2> QED
    BY <2>1, SmallerPart
<1> HIDE DEF coming
<1>7. ASSUME Narrate PROVE Counting'
  <2>1. Msg("Note", NoCall) \in HostMessages /\ Msg("Note", NoCall).type # "Result"
    BY HostMsg, MsgIs
  <2> QED
    BY <1>4, <1>7, <2>1 DEF Narrate
<1>8. ASSUME Crash \/ Terminated \/ GoRead PROVE Counting'
  BY <1>3, <1>8 DEF Crash, Terminated, GoRead
<1>9. ASSUME CancelRead PROVE Counting'
  <2>1. /\ Drive("cancelled", TRUE) \in HostMessages
        /\ Drive("cancelled", TRUE).result.started = Cardinality({c \in Calls : call[c] # "none"})
    BY Driven DEF Reasons
  <2> QED
    BY <1>3, <1>4, <1>6, <1>9, <2>1 DEF CancelRead
<1>10. ASSUME NEW r \in {"completed", "error"}, ScriptEnds(r) PROVE Counting'
  <2>1. /\ Drive(r, told) \in HostMessages
        /\ Drive(r, told).result.started = Cardinality({c \in Calls : call[c] # "none"})
    BY Driven DEF Reasons, Typed, WorkerTyped
  <2> QED
    BY <1>4, <1>6, <1>10, <2>1 DEF ScriptEnds
<1>11. \A c \in Calls : \A t \in HostKinds : Msg(t, c) \in HostMessages /\ Msg(t, c).type # "Result"
  BY HostMsg, MsgIs DEF HostKinds
<1>12. ASSUME NEW c \in Calls, CallAgent(c) PROVE Counting'
  BY <1>3, <1>4, <1>11, <1>12 DEF CallAgent, HostKinds
<1>13. ASSUME NEW c \in Calls, StartedRead(c) PROVE Counting'
  BY <1>4, <1>11, <1>13 DEF StartedRead, HostKinds
<1>14. ASSUME NEW c \in Calls, ReleaseRead(c) PROVE Counting'
  <2>1. call[c] # "queued"
    BY <1>14, ReleaseAt
  <2>2. ReleasedAlone(c) \/ \E h \in Calls : ReleasedTo(c, h)
    BY <1>14, <2>1, Released DEF ReleaseRead
  <2> QED
    BY <1>3, <1>4, <1>11, <2>2 DEF ReleasedAlone, ReleasedTo, HostKinds
<1>15. ASSUME NEW c \in Calls, SettledRead(c) PROVE Counting'
  BY <1>3, <1>5, <1>11, <1>15 DEF SettledRead, HostKinds
<1> QED
  BY <1>7, <1>8, <1>9, <1>10, <1>12, <1>13, <1>14, <1>15 DEF WorkerMoves

(* A channel that lost its first message. *)
LEMMA CountingShorter ==
  ASSUME Typed, Counting, NEW m \in HostMessages, Gets(m),
         Announced' \subseteq Announced \cup {c \in Calls : m = Msg("AgentStart", c)},
         CountCovers'
  PROVE  Counting'
<1>1. /\ toHost \in Seq(HostMessages) /\ toHost # <<>> /\ m = Head(toHost) /\ toHost' = Tail(toHost)
  BY DEF Typed, Gets
<1>2. /\ Tail(toHost) \in Seq(HostMessages) /\ Head(toHost) = toHost[1]
      /\ Len(Tail(toHost)) = Len(toHost) - 1
      /\ \A i \in DOMAIN Tail(toHost) : Tail(toHost)[i] = toHost[i + 1]
  BY <1>1, TailOf
<1>3. /\ DOMAIN toHost = 1 .. Len(toHost) /\ Len(toHost) \in Nat
      /\ DOMAIN toHost' = 1 .. Len(toHost) - 1
  BY <1>1, <1>2
<1>4. \A i \in DOMAIN toHost' :
        i \in Nat \ {0} /\ i + 1 \in DOMAIN toHost /\ toHost'[i] = toHost[i + 1]
  BY <1>1, <1>2, <1>3
<1> SUFFICES ASSUME NEW i \in DOMAIN toHost', toHost'[i].type = "Result"
             PROVE  Cardinality(Before(i)') <= toHost'[i].result.started
  BY DEF Counting
<1>5. Before(i)' \subseteq Before(i + 1)
  <2>0. PICK k \in Nat : k = i + 1
    BY <1>4
  <2>1. \A c \in Calls : (\E j \in 1 .. i - 1 : toHost'[j] = Msg("AgentStart", c))
                         => \E j \in 1 .. k - 1 : toHost[j] = Msg("AgentStart", c)
    <3> SUFFICES ASSUME NEW c \in Calls, NEW j \in 1 .. i - 1, toHost'[j] = Msg("AgentStart", c)
                 PROVE  \E l \in 1 .. k - 1 : toHost[l] = Msg("AgentStart", c)
      OBVIOUS
    <3>1. j \in DOMAIN toHost' /\ j + 1 \in 1 .. k - 1
      BY <1>3, <1>4, <2>0
    <3>2. toHost[j + 1] = Msg("AgentStart", c)
      BY <1>4, <3>1
    <3> QED
      BY <3>1, <3>2
  <2>2. \A c \in Calls : m = Msg("AgentStart", c)
                         => \E j \in 1 .. k - 1 : toHost[j] = Msg("AgentStart", c)
    <3>1. 1 \in 1 .. k - 1 /\ toHost[1] = m
      BY <1>1, <1>2, <1>4, <2>0
    <3> QED
      BY <3>1
  <2>3. Before(i)' = Announced' \cup {c \in Calls : \E j \in 1 .. i - 1 : toHost'[j] = Msg("AgentStart", c)}
    BY DEF Before
  <2>4. Before(k)
          = Announced \cup {c \in Calls : \E j \in 1 .. k - 1 : toHost[j] = Msg("AgentStart", c)}
    BY DEF Before
  <2>5. Announced \subseteq Before(k)
    BY <2>4
  <2>6. {c \in Calls : m = Msg("AgentStart", c)} \subseteq Before(k)
    BY <2>2, <2>4
  <2>7. {c \in Calls : \E j \in 1 .. i - 1 : toHost'[j] = Msg("AgentStart", c)} \subseteq Before(k)
    BY <2>1, <2>4
  <2> QED
    BY <2>0, <2>3, <2>5, <2>6, <2>7
<1>6. Cardinality(Before(i)') <= Cardinality(Before(i + 1))
  <2>1. Before(i + 1) \subseteq Calls
    BY DEF Before, Announced, Typed, HostTyped
  <2> QED
    BY <1>5, <2>1, SmallerPart
<1>7. Cardinality(Before(i)') \in Nat /\ Cardinality(Before(i + 1)) \in Nat
  <2>1. Before(i + 1) \subseteq Calls
    BY DEF Before, Announced, Typed, HostTyped
  <2> QED
    BY <1>5, <2>1, PartSize
<1>8. Cardinality(Before(i + 1)) <= toHost'[i].result.started
  BY <1>4 DEF Counting
<1>9. toHost'[i].result.started \in 0 .. Cardinality(Calls)
  <2>1. PICK x \in HostMessages : x = toHost'[i]
    BY <1>1, <1>2, <1>3
  <2> QED
    BY <2>1, HostMsgIs
<1>10. Cardinality(Calls) \in Nat
  BY PartSize
<1> QED
  BY <1>6, <1>7, <1>8, <1>9, <1>10

(* A settlement counts what was announced. *)
LEMMA SettleCovers ==
  ASSUME Typed, NEW reason \in Reasons, NEW started \in 0 .. Cardinality(Calls), NEW S,
         Settle(reason, started, S), Cardinality(Announced) <= started
  PROVE  CountCovers'
BY SettleTyped DEF CountCovers

LEMMA AcceptedCovers ==
  ASSUME Typed, Announcing, Slots
  PROVE  Cardinality(Announced) <= accepted
<1>1. Announced \subseteq {c \in Calls : child[c] # "none"}
  BY DEF Announcing, Announced, Typed, HostTyped
<1> QED
  BY <1>1, SmallerPart DEF Slots

LEMMA CoversKept ==
  ASSUME Typed, Announcing, Slots, Counting, HostMoves
  PROVE  CountCovers'
<1>1. ASSUME UNCHANGED result PROVE CountCovers'
  BY <1>1 DEF Counting, CountCovers, Settled
<1>2. BarredRead \/ ReadyRead \/ NoteRead \/ Cancel \/ Dispose \/ DisposeReturns
        \/ (\E slept \in BOOLEAN : DisposeTerminates(slept)) => UNCHANGED result
  BY DEF BarredRead, ReadyRead, OnReady, NoteRead, OnNote, host, Cancel, Dispose, DisposeReturns,
         DisposeTerminates
<1>3. \A c \in Calls :
        AgentStartRead(c) \/ AgentEndRead(c) \/ ChildStartRead(c) \/ ChildDisposeRead(c) \/ ProviderStep(c)
          => UNCHANGED result
  BY DEF AgentStartRead, OnAgentStart, AgentEndRead, OnAgentEnd, ChildStartRead, OnChildStart,
         ChildDisposeRead, OnChildDispose, ProviderStep, StartFulfils, StartRejects,
         ChildSettles, ChildDisposed, ProviderUnchanged
<1>4. ASSUME FirstDeath PROVE CountCovers'
  <2>1. CASE claimed
    BY <1>1, <1>4, <2>1 DEF FirstDeath
  <2>2. CASE ~claimed
    <3>1. Settle(Outcome("error"), accepted, ledger)
      BY <1>4, <2>2 DEF FirstDeath
    <3>2. Outcome("error") \in Reasons
      BY DEF Outcome, Reasons
    <3> QED
      BY <3>1, <3>2, AcceptedBound, AcceptedCovers, SettleCovers
  <2> QED
    BY <2>1, <2>2
<1>5. ErrorEvent \/ ExitEvent => UNCHANGED result \/ FirstDeath
  BY DEF ErrorEvent, ExitEvent
<1>6. ASSUME GraceExpires PROVE CountCovers'
  <2>1. Settle("cancelled", accepted, ledger) /\ "cancelled" \in Reasons
    BY <1>6 DEF GraceExpires, Reasons
  <2> QED
    BY <2>1, AcceptedBound, AcceptedCovers, SettleCovers
<1>7. ASSUME ResultRead PROVE CountCovers'
  <2>1. PICK m \in HostMessages : m.type = "Result" /\ Gets(m) /\ ~Barred /\ OnResult(m.result)
    BY <1>7 DEF ResultRead
  <2>2. CASE claimed
    BY <1>1, <2>1, <2>2 DEF OnResult
  <2>3. CASE ~claimed
    <3>1. Settle(Outcome(m.result.reason), m.result.started, {})
      BY <2>1, <2>3 DEF OnResult
    <3>2. m.result.reason \in Reasons /\ m.result.started \in 0 .. Cardinality(Calls)
      BY <2>1, HostMsgIs
    <3>3. Outcome(m.result.reason) \in Reasons
      BY <3>2 DEF Outcome, Reasons
    <3>4. 1 \in DOMAIN toHost /\ toHost[1] = m
      <4>1. toHost \in Seq(HostMessages) /\ toHost # <<>> /\ Head(toHost) = m
        BY <2>1 DEF Gets, Typed
      <4> QED
        BY <4>1, TailOf, EmptySeq
    <3>5. Cardinality(Before(1)) <= m.result.started
      BY <2>1, <3>4 DEF Counting
    <3>6. Before(1) = Announced
      BY DEF Before
    <3> QED
      BY <3>1, <3>2, <3>3, <3>5, <3>6, SettleCovers
  <2> QED
    BY <2>2, <2>3
<1> QED
  BY <1>1, <1>2, <1>3, <1>4, <1>5, <1>6, <1>7 DEF HostMoves

LEMMA CountingHost ==
  ASSUME Typed, Placed, Announcing, Slots, Counting, HostMoves
  PROVE  Counting'
<1>1. CountCovers'
  BY CoversKept
<1>2. \/ Announced' = Announced
      \/ \E c \in Calls : Gets(Msg("AgentStart", c)) /\ Announced' = Announced \cup {c}
  BY AnnouncedMoves
<1>3. ASSUME NEW m, Gets(m) PROVE Counting'
  <2>1. m \in HostMessages
    BY <1>3, HostTakes
  <2>2. \A c \in Calls : Gets(Msg("AgentStart", c)) => m = Msg("AgentStart", c)
    BY <1>3 DEF Gets
  <2>3. Announced' \subseteq Announced \cup {c \in Calls : m = Msg("AgentStart", c)}
    BY <1>2, <2>2
  <2> QED
    BY <1>1, <1>3, <2>1, <2>3, CountingShorter
<1>4. ASSUME toHost' = <<>> PROVE Counting'
  BY <1>1, <1>4 DEF Counting
<1>5. ASSUME UNCHANGED toHost, Announced' = Announced PROVE Counting'
  BY <1>1, <1>5 DEF Counting, Before
<1>6. BarredRead \/ ReadyRead \/ NoteRead \/ ResultRead => \E m : Gets(m)
  BY DEF BarredRead, ReadyRead, NoteRead, ResultRead
<1>7. \A c \in Calls : AgentStartRead(c) \/ AgentEndRead(c) \/ ChildStartRead(c) \/ ChildDisposeRead(c)
                       => \E m : Gets(m)
  BY DEF AgentStartRead, AgentEndRead, ChildStartRead, ChildDisposeRead
<1>8. ErrorEvent \/ ExitEvent \/ GraceExpires \/ Cancel \/ Dispose \/ DisposeReturns
        \/ (\E slept \in BOOLEAN : DisposeTerminates(slept)) \/ (\E c \in Calls : ProviderStep(c))
      => UNCHANGED toHost \/ toHost' = <<>>
  BY DEF ErrorEvent, ExitEvent, GraceExpires, Cancel, Dispose, DisposeReturns, DisposeTerminates,
         ProviderStep, StartFulfils, StartRejects, ChildSettles, ChildDisposed, ProviderUnchanged
<1>9. UNCHANGED toHost \/ toHost' = <<>> \/ \E m : Gets(m)
  BY <1>6, <1>7, <1>8 DEF HostMoves
<1> QED
  BY <1>2, <1>3, <1>4, <1>5, <1>9

--------------------------------------------------------------------------------
(* The theorems *)

LEMMA Kept == IInv /\ [Next]_vars => IInv'
<1> SUFFICES ASSUME IInv, [Next]_vars PROVE IInv'
  OBVIOUS
<1>1. Typed /\ Decided /\ InLine /\ Placed /\ Announcing /\ Slots /\ Counting
  BY DEF IInv
<1>2. CASE UNCHANGED vars
  <2>1. Typed'
    BY <1>1, <1>2
    DEF Typed, HostTyped, WorkerTyped, vars, host, worker, MaxNotes
  <2>2. Decided'
    BY <1>1, <1>2 DEF Decided, Settled, vars, host, worker
  <2>3. InLine'
    BY <1>1, <1>2 DEF InLine, vars, worker
  <2>4. Placed'
    BY <1>1, <1>2
    DEF Placed, Starting, Disposing, Standing, InHost, InWorker, Admitting, vars, host, worker
  <2>5. Announced' = Announced
    BY <1>2 DEF Announced, vars, host
  <2>6. Announcing'
    BY <1>1, <1>2, <2>5 DEF Announcing, InHost, vars, host, worker
  <2>7. Slots'
    BY <1>1, <1>2 DEF Slots, Holding, MaxConcurrent, vars, host, worker
  <2>8. Counting'
    BY <1>1, <1>2, <2>5 DEF Counting, Before, CountCovers, Settled, vars, host
  <2> QED
    BY <2>1, <2>2, <2>3, <2>4, <2>6, <2>7, <2>8 DEF IInv
<1>3. CASE Fixed /\ WorkerMoves
  <2>1. Typed' /\ Decided' /\ InLine'
    BY <1>1, <1>3, WorkerMovesTyped, DecidedWorker, InLineKept
  <2>2. Placed' /\ Announcing' /\ Slots' /\ Counting'
    BY <1>1, <1>3, PlacedWorker, AnnouncingWorker, SlotsKept, CountingWorker
  <2> QED
    BY <2>1, <2>2 DEF IInv
<1>4. CASE Fixed /\ HostMoves
  <2>1. Typed' /\ Decided' /\ InLine'
    BY <1>1, <1>4, HostMovesTyped, DecidedHostMoves, InLineKept
  <2>2. Placed' /\ Announcing' /\ Slots' /\ Counting'
    BY <1>1, <1>4, PlacedHost, AnnouncingHost, SlotsKept, CountingHost
  <2> QED
    BY <2>1, <2>2 DEF IInv
<1> QED
  BY <1>1, <1>2, <1>3, <1>4, Moves

LEMMA Holds == IInv => RunHolds
<1> SUFFICES ASSUME IInv PROVE RunHolds
  OBVIOUS
<1>1. Typed /\ Decided /\ InLine /\ Placed /\ Announcing /\ Slots /\ Counting
  BY DEF IInv
<1>2. TypeOK
  <2>1. accepted \in 0 .. Cardinality(Calls)
    BY <1>1, AcceptedBound
  <2>2. Cardinality(Calls) \in Nat /\ (Calls # {} => 1 <= Cardinality(Calls))
    <3>1. IsFiniteSet(Calls) /\ Cardinality(Calls) \in Nat
      BY PartSize
    <3>2. Cardinality(Calls) = 0 <=> Calls = {}
      BY <3>1, FS_EmptySet
    <3> QED
      BY <3>1, <3>2
  <2>3. ended \in [Calls -> 0 .. Cardinality(Calls)]
    <3>1. \A c \in Calls : ended[c] \in 0 .. Cardinality(Calls)
      BY <1>1, <2>2, CallsAssumption DEF Announcing, Typed, HostTyped
    <3> QED
      BY <1>1, <3>1 DEF Typed, HostTyped
  <2>4. \A i \in DOMAIN waiters : waiters[i] \in Calls
    BY <1>1 DEF Typed, WorkerTyped
  <2>5. {cancelled, claimed, death, gone, fault, stopping, told} \subseteq BOOLEAN
    BY <1>1 DEF Typed, HostTyped, WorkerTyped
  <2> QED
    BY <1>1, <2>1, <2>3, <2>4, <2>5 DEF Typed, HostTyped, WorkerTyped, TypeOK
<1>3. AgentsPaired
  BY <1>1 DEF Announcing, Decided, AgentsPaired, Typed, HostTyped
<1>4. ConcurrencyRespected
  <2> SUFFICES ASSUME Admitting PROVE Cardinality(Unsettled) <= MaxConcurrent
    BY DEF ConcurrencyRespected
  <2>1. Unsettled \subseteq Holding
    <3> SUFFICES ASSUME NEW c \in Calls, child[c] \notin {"none", "gone"}
                 PROVE  call[c] \in {"starting", "running", "disposing"}
      BY DEF Unsettled, Holding
    <3>1. Standing(c) /\ call[c] \in CallStates
      BY <1>1 DEF Placed, Typed, WorkerTyped
    <3> QED
      BY <3>1 DEF Standing, CallStates
  <2>2. Cardinality(Unsettled) <= Cardinality(Holding)
    BY <2>1, SmallerPart DEF Holding
  <2>3. Cardinality(Unsettled) \in Nat /\ Cardinality(Holding) \in Nat
    BY PartSize DEF Unsettled, Holding
  <2> QED
    BY <1>1, <2>2, <2>3, Limits DEF Slots
<1>5. NothingUnattended /\ CancelDecides
  BY <1>1 DEF Decided, NothingUnattended, CancelDecides
<1>6. CountCovers
  BY <1>1 DEF Counting
<1> QED
  BY <1>2, <1>3, <1>4, <1>5, <1>6 DEF RunHolds

(* The invariant the run Workflow checks, for any calls, slots and setups. *)
THEOREM RunIsSafe == Spec => []RunHolds
<1>1. Spec => []IInv
  BY Start, Kept, PTL DEF Spec
<1> QED
  BY <1>1, Holds, PTL

(* A dead worker is silent: once the host has seen the death, the result   *)
(* stands, and nothing the thread had sent starts a child or announces an  *)
(* agent, in whatever order its last messages and its exit arrive.         *)
LEMMA BarrierStep == IInv /\ [Next]_vars => (death => /\ result' = result
                                                   /\ Announced' = Announced
                                                   /\ accepted' = accepted)
<1> SUFFICES ASSUME IInv, [Next]_vars, death
             PROVE  result' = result /\ Announced' = Announced /\ accepted' = accepted
  OBVIOUS
<1>1. Typed /\ Decided /\ Placed /\ Announcing
  BY DEF IInv
<1>2. claimed /\ ~(grace = "armed") /\ ~Admitting
  BY <1>1 DEF Decided, Admitting
<1>3. CASE UNCHANGED vars
  BY <1>3 DEF vars, host, Announced
<1>4. CASE WorkerMoves
  <2>1. UNCHANGED <<result, ledger, ended, accepted>>
    BY <1>4
    DEF WorkerMoves, Narrate, Crash, Terminated, GoRead, CancelRead, ScriptEnds, CallAgent,
        StartedRead, ReleaseRead, SettledRead, Reads, WorkerUnchanged, host
  <2> QED
    BY <2>1 DEF Announced
<1>5. CASE HostMoves
  <2>1. Announced' = Announced
    BY <1>1, <1>5, AnnouncedMoves
  <2>2. UNCHANGED <<result, accepted>>
    BY <1>2, <1>5
    DEF HostMoves, BarredRead, ReadyRead, OnReady, NoteRead, OnNote, ResultRead, OnResult, host,
        AgentStartRead, OnAgentStart, AgentEndRead, OnAgentEnd, ChildStartRead, OnChildStart,
        ChildDisposeRead, OnChildDispose, ErrorEvent, ExitEvent, GraceExpires, Cancel, Dispose,
        DisposeReturns, DisposeTerminates, ProviderStep, StartFulfils, StartRejects,
        ChildSettles, ChildDisposed, ProviderUnchanged
  <2> QED
    BY <2>1, <2>2
<1> QED
  BY <1>1, <1>3, <1>4, <1>5, Moves

(* No step after the exit of the thread was seen changes the outcome, the    *)
(* announced agents or the children accepted (host.ts, onWorkerDeath and the *)
(* barrier of onMessage).                                                    *)
THEOREM DeathIsFinal == Spec => DeathIsBarrier
<1>1. Spec => []IInv
  BY Start, Kept, PTL DEF Spec
<1>2. IInv /\ [Next]_vars => [death => /\ result' = result
                                       /\ Announced' = Announced
                                       /\ accepted' = accepted]_vars
  BY BarrierStep
<1> QED
  BY <1>1, <1>2, PTL DEF Spec, DeathIsBarrier
================================================================================
