-------------------------- MODULE McpConnectionProofs --------------------------
(***************************************************************************)
(* Proofs about the three parts of MCClients.  The supervisor: for any     *)
(* budget of attempts and any number of generations, list changes and      *)
(* stable connections.  The factory: for any number of attempts under one  *)
(* id and of owners.  The replay: for any number of approvals and of       *)
(* connection generations.                                                 *)
(*                                                                         *)
(* None of the properties is inductive by itself.  That the supervisor's   *)
(* budget holds rests on when the timer may be armed, and that on which    *)
(* attempt owns the close signal; its invariant has a part for each        *)
(* question: Gone (which generations are known to be gone), Quiet (what is *)
(* over once a reconnection is decided, given up or disposed of), Charged  *)
(* (attempts against the budget) and Queued (what the chain of             *)
(* synchronizations may still do).  The factory's says where an attempt    *)
(* stands in its life when it is tracked, torn down, aborted or waited     *)
(* for.  The replay's relates the frames under way to what the host waits  *)
(* for: the last frame about an approval is the truth about it, and what   *)
(* no frame speaks of is as the client shows it.                           *)
(***************************************************************************)
EXTENDS MCClients, FiniteSetTheorems, SequenceTheorems, TLAPS

Jobs(n) == [kind : {"initial", "change", "giveUp"}, gen : 0..n]

Types ==
  /\ enabled \in BOOLEAN /\ strict \in BOOLEAN
  /\ gens \in Nat \ {0} /\ closed \subseteq 1..gens /\ client \in {0, gens}
  /\ pc \in {"connect", "sync", "synced", "closing", "done"}
  /\ connected \in {"no", "fresh", "stable"} /\ failed \in 0..(MaxAttempts + 1)
  /\ timer \in BOOLEAN
  /\ syncs \in Seq(Jobs(gens))
  /\ fetching \in BOOLEAN /\ (fetching => syncs # <<>>)
  /\ published \in 0..gens
  /\ disposing \in {"no", "closing", "settling", "draining", "done"}
  /\ stopped \in BOOLEAN /\ outage \in Nat /\ stables \in 0..MaxStable

(* Every generation but the last is gone, and the last before it is replaced. *)
Gone == 1..(gens - 1) \subseteq closed /\ (timer => gens \in closed)

Quiet ==
  /\ timer => client = 0 /\ pc = "done" /\ connected = "no" /\ failed <= MaxAttempts
  /\ GaveUp => client = 0 /\ pc = "done" /\ ~timer
  /\ disposing # "no" => client = 0 /\ ~timer
  /\ disposing \in {"draining", "done"} => pc = "done"
  /\ disposing = "done" => syncs = <<>> /\ published = 0

(* Generations since the last stable connection are charged one by one. *)
Charged ==
  /\ connected = "stable" => outage = 0
  /\ client # 0 => outage <= failed + 1
  /\ timer => outage <= failed
  /\ BudgetRespected

(* The attempt under way is the only one with a job of its own on the chain, *)
(* and after giving up nothing follows the job that unregisters the tools.   *)
Queued ==
  /\ \A i \in 1..Len(syncs) : syncs[i].kind = "initial" => syncs[i].gen = gens /\ pc = "sync"
  /\ \A i, j \in 1..Len(syncs) : syncs[i].kind = "initial" /\ syncs[j].kind = "initial" => i = j
  /\ pc = "sync" => \E i \in 1..Len(syncs) : syncs[i].kind = "initial"
  /\ fetching => syncs[1].kind # "giveUp"
  /\ GaveUp => IF syncs = <<>> THEN published = 0 ELSE syncs[Len(syncs)].kind = "giveUp"

IInv == Types /\ Gone /\ Quiet /\ Charged /\ Queued /\ NotForgotten
LEMMA Steps ==
  ASSUME [Next]_vars
  PROVE  \/ Connects \/ ConnectFails \/ Synced \/ Quiesces \/ CloseTimesOut \/ Reconnect
         \/ BeginSync \/ FetchFails \/ (\E conflict \in BOOLEAN : Swap(conflict))
         \/ DisposeCloses \/ DisposeSettles \/ DisposeDrains
         \/ (\E g \in 1..gens : Closes(g)) \/ ListChanged \/ Stabilizes \/ Dispose
         \/ UNCHANGED vars
BY DEF Next, Attempt, Chain, Teardown

LEMMA Appended ==
  ASSUME NEW S, NEW s \in Seq(S), NEW e \in S
  PROVE  /\ Append(s, e) \in Seq(S) /\ Len(Append(s, e)) = Len(s) + 1
         /\ Append(s, e) # <<>> /\ Append(s, e)[Len(s) + 1] = e
         /\ \A i \in 1..Len(s) : Append(s, e)[i] = s[i]
OBVIOUS

LEMMA Shortened ==
  ASSUME NEW S, NEW s \in Seq(S), s # <<>>
  PROVE  /\ Tail(s) \in Seq(S) /\ Len(Tail(s)) = Len(s) - 1 /\ Len(s) >= 1
         /\ Head(s) = s[1] /\ s[1] \in S
         /\ \A i \in 1..Len(Tail(s)) : Tail(s)[i] = s[i + 1]
OBVIOUS

(* The one decision of a generation that is down. *)
LEMMA Down ==
  ASSUME Types, NEW g, GenerationDown(g)
  PROVE  \/ ~Current(g) /\ UNCHANGED <<link, syncs>>
         \/ /\ Current(g) /\ client' = 0
            /\ \/ ~enabled /\ UNCHANGED <<connected, failed, timer, syncs>>
               \/ /\ enabled /\ connected' = "no" /\ failed' = Spent + 1
                  /\ failed' <= MaxAttempts /\ timer' = TRUE /\ syncs' = syncs
               \/ /\ enabled /\ connected' = "no" /\ failed' = Spent + 1
                  /\ failed' > MaxAttempts /\ timer' = timer
                  /\ syncs' = Append(syncs, Job("giveUp", 0))
BY SupervisorAssumption DEF GenerationDown, ScheduleReconnect, Types, link, Spent

--------------------------------------------------------------------------------
(* Types *)

LEMMA InitIInv == Init => IInv
<1> SUFFICES ASSUME Init PROVE IInv
  OBVIOUS
<1> USE SupervisorAssumption DEF Init
<1>1. Types
  <2>1. syncs \in Seq(Jobs(gens))
    OBVIOUS
  <2>2. gens = 1 /\ closed = {} /\ failed = 0 /\ outage = 1 /\ stables = 0 /\ published = 0
    OBVIOUS
  <2>3. failed \in 0..(MaxAttempts + 1) /\ stables \in 0..MaxStable /\ published \in 0..gens
    BY <2>2
  <2> QED
    <3>1. closed \subseteq 1..gens /\ client \in {0, gens} /\ gens \in Nat \ {0} /\ outage \in Nat
      BY <2>2
    <3>2. /\ enabled \in BOOLEAN /\ strict \in BOOLEAN /\ timer \in BOOLEAN /\ stopped \in BOOLEAN
          /\ fetching \in BOOLEAN /\ ~fetching
      OBVIOUS
    <3>3. /\ pc \in {"connect", "sync", "synced", "closing", "done"}
          /\ connected \in {"no", "fresh", "stable"}
          /\ disposing \in {"no", "closing", "settling", "draining", "done"}
      OBVIOUS
    <3> QED
      BY <2>1, <2>3, <3>1, <3>2, <3>3 DEF Types
<1>2. Gone /\ Quiet /\ Charged /\ NotForgotten
  BY DEF Gone, Quiet, Charged, NotForgotten, GaveUp, BudgetRespected
<1>3. Queued
  BY DEF Queued, GaveUp
<1> QED
  BY <1>1, <1>2, <1>3 DEF IInv

LEMMA DownTypes ==
  ASSUME Types, Quiet, NEW g \in 1..gens, GenerationDown(g), UNCHANGED gens
  PROVE  /\ client' \in {0, gens'} /\ connected' \in {"no", "fresh", "stable"}
         /\ failed' \in 0..(MaxAttempts + 1) /\ timer' \in BOOLEAN
         /\ syncs' \in Seq(Jobs(gens)) /\ (syncs # <<>> => syncs' # <<>>)
<1> USE SupervisorAssumption DEF Types
<1>1. CASE ~Current(g) /\ UNCHANGED <<link, syncs>>
  BY <1>1 DEF link
<1>2. CASE Current(g) /\ client' = 0
  <2>1. Job("giveUp", 0) \in Jobs(gens)
    BY DEF Job, Jobs
  <2>2. Append(syncs, Job("giveUp", 0)) \in Seq(Jobs(gens)) /\ Append(syncs, Job("giveUp", 0)) # <<>>
    BY <2>1, Appended
  <2>3. failed <= MaxAttempts
    BY <1>2 DEF Current, Quiet, GaveUp
  <2>4. Spent + 1 \in 0..(MaxAttempts + 1)
    BY <2>3 DEF Spent
  <2> QED
    BY <1>2, <2>2, <2>4, Down
<1> QED
  BY <1>1, <1>2, Down

LEMMA SeqMonotone ==
  ASSUME NEW S, NEW T, S \subseteq T, NEW s \in Seq(S)
  PROVE  s \in Seq(T)
OBVIOUS

LEMMA TypesStep == Types /\ Quiet /\ [Next]_vars => Types'
<1> SUFFICES ASSUME Types, Quiet, [Next]_vars PROVE Types'
  OBVIOUS
<1>0. gens \in 1..gens /\ gens \in Nat /\ syncs \in Seq(Jobs(gens))
  BY DEF Types
<1>1. ASSUME Connects PROVE Types'
  <2>1. CASE gens \in closed
    BY <1>0, <1>1, <2>1, DownTypes DEF Connects, Types, policy, observed
  <2>2. CASE gens \notin closed
    <3>1. Append(syncs, Job("initial", gens)) \in Seq(Jobs(gens))
      BY <1>0, Appended DEF Job, Jobs
    <3>2. Append(syncs, Job("initial", gens)) # <<>>
      BY <1>0
    <3> QED
      BY <1>1, <2>2, <3>1, <3>2 DEF Connects, Types, policy, link, observed
  <2> QED
    BY <2>1, <2>2
<1>2. ASSUME Synced PROVE Types'
  <2>1. CASE LostMeanwhile
    BY <1>0, <1>2, <2>1, DownTypes DEF Synced, Types, policy, observed
  <2>2. CASE ~LostMeanwhile
    BY <1>2, <2>2 DEF Synced, Types, policy, observed
  <2> QED
    BY <2>1, <2>2
<1>3. ASSUME Quiesces PROVE Types'
  BY <1>0, <1>3, DownTypes DEF Quiesces, Types, policy, observed
<1>4. ASSUME ConnectFails \/ CloseTimesOut PROVE Types'
  <2>1. CASE ConnectFails
    BY <2>1 DEF ConnectFails, Types, policy, link, observed
  <2>2. CASE CloseTimesOut
    <3>1. stopped' \in BOOLEAN /\ client' \in {0, gens}
      BY <2>2 DEF CloseTimesOut, Current, Types
    <3> QED
      BY <2>2, <3>1 DEF CloseTimesOut, AfterTimeout, Types, policy
  <2> QED
    BY <1>4, <2>1, <2>2
<1>5. ASSUME Reconnect PROVE Types'
  <2>1. Jobs(gens) \subseteq Jobs(gens + 1)
    BY <1>0 DEF Jobs
  <2>2. syncs \in Seq(Jobs(gens + 1))
    BY <1>0, <2>1, SeqMonotone
  <2>3. gens + 1 \in Nat \ {0} /\ closed \subseteq 1..(gens + 1) /\ published \in 0..(gens + 1)
        /\ outage + 1 \in Nat
    BY DEF Types
  <2> QED
    BY <1>5, <2>2, <2>3 DEF Reconnect, Types, policy
<1>6. ASSUME BeginSync PROVE Types'
  <2>1. syncs # <<>> /\ Tail(syncs) \in Seq(Jobs(gens))
    BY <1>0, <1>6, Shortened DEF BeginSync
  <2>2. /\ UNCHANGED <<policy, gens, closed, link, disposing, observed>>
        /\ syncs' \in {syncs, Tail(syncs)} /\ fetching' \in BOOLEAN /\ (fetching' => syncs' = syncs)
        /\ published' \in {0, published} /\ pc' \in {pc, "synced"}
    <3>1. /\ ~fetching
          /\ \/ published' = 0 /\ syncs' = Tail(syncs) /\ fetching' = fetching /\ pc' = pc
             \/ fetching' = TRUE /\ syncs' = syncs /\ published' = published /\ pc' = pc
             \/ /\ syncs' = Tail(syncs) /\ fetching' = fetching /\ published' = published
                /\ pc' \in {pc, "synced"}
      BY <1>6 DEF BeginSync
    <3>2. UNCHANGED <<policy, gens, closed, link, disposing, observed>>
      BY <1>6 DEF BeginSync
    <3>3. fetching' \in BOOLEAN /\ (fetching' => syncs' = syncs)
      <4>1. fetching = FALSE
        BY <3>1 DEF Types
      <4> QED
        BY <3>1, <4>1
    <3> QED
      BY <3>1, <3>2, <3>3
  <2> QED
    BY <1>0, <2>1, <2>2 DEF Types, policy, link, observed
<1>7. ASSUME FetchFails PROVE Types'
  BY <1>0, <1>7, Shortened DEF FetchFails, Types, policy, link, observed
<1>8. ASSUME NEW conflict \in BOOLEAN, Swap(conflict) PROVE Types'
  <2>1. syncs # <<>>
    BY <1>8 DEF Swap, Types
  <2>2. Head(syncs) \in Jobs(gens) /\ Tail(syncs) \in Seq(Jobs(gens))
    BY <1>0, <2>1, Shortened
  <2>3. Head(syncs).gen \in 0..gens
    BY <2>2 DEF Jobs
  <2>4. /\ UNCHANGED <<policy, gens, closed, link, disposing, observed>>
        /\ syncs' = Tail(syncs) /\ ~fetching' /\ fetching' \in BOOLEAN
    BY <1>8 DEF Swap
  <2>5. published' \in 0..gens
    BY <1>0, <1>8, <2>3 DEF Swap
  <2>6. pc' \in {"connect", "sync", "synced", "closing", "done"}
    BY <1>8 DEF Swap, Types
  <2> QED
    BY <1>0, <2>2, <2>4, <2>5, <2>6 DEF Types, policy, link, observed
<1>9. ASSUME DisposeCloses \/ DisposeSettles \/ DisposeDrains PROVE Types'
  <2>1. UNCHANGED <<policy, gens, closed, link, pc, syncs, fetching, observed>>
        /\ published' \in {0, published} /\ disposing' \in {"settling", "draining", "done"}
    BY <1>9 DEF DisposeCloses, DisposeSettles, DisposeDrains
  <2> QED
    BY <1>0, <2>1 DEF Types, policy, link, observed
<1>10. ASSUME NEW g \in 1..gens, Closes(g) PROVE Types'
  <2>1. CASE Settled(g)
    BY <1>10, <2>1, DownTypes DEF Closes, Types, policy, observed
  <2>2. CASE ~Settled(g)
    BY <1>10, <2>2 DEF Closes, Types, policy, link, observed
  <2> QED
    BY <2>1, <2>2
<1>11. ASSUME ListChanged PROVE Types'
  <2>1. Job("change", client) \in Jobs(gens)
    BY <1>11 DEF ListChanged, Job, Jobs, Types
  <2>2. Append(syncs, Job("change", client)) \in Seq(Jobs(gens))
        /\ Append(syncs, Job("change", client)) # <<>>
    BY <1>0, <2>1, Appended
  <2> QED
    BY <1>11, <2>2 DEF ListChanged, Types, policy, link, observed
<1>12. ASSUME Stabilizes \/ Dispose PROVE Types'
  <2>1. CASE Stabilizes
    BY <2>1, SupervisorAssumption DEF Stabilizes, Types, policy
  <2>2. CASE Dispose
    BY <2>2 DEF Dispose, Types, policy, observed
  <2> QED
    BY <1>12, <2>1, <2>2
<1>13. CASE UNCHANGED vars
  BY <1>13 DEF vars, Types, policy, link, observed
<1> QED
  BY <1>1, <1>2, <1>3, <1>4, <1>5, <1>6, <1>7, <1>8, <1>9, <1>10, <1>11, <1>12, <1>13, Steps

--------------------------------------------------------------------------------
(* Generations known to be gone *)

LEMMA GoneStep == Types /\ Quiet /\ Gone /\ [Next]_vars => Gone'
<1> SUFFICES ASSUME Types, Quiet, Gone, [Next]_vars PROVE Gone'
  OBVIOUS
<1> USE DEF Gone
<1>1. ASSUME Connects \/ Synced \/ Quiesces PROVE Gone'
  <2>1. gens \in closed \/ timer' = timer
    BY <1>1 DEF Connects, Synced, Quiesces, LostMeanwhile, CloseProven, link
  <2> QED
    BY <1>1, <2>1 DEF Connects, Synced, Quiesces
<1>2. ASSUME Reconnect PROVE Gone'
  BY <1>2 DEF Reconnect, Types
<1>3. ASSUME NEW g \in 1..gens, Closes(g) PROVE Gone'
  <2>1. closed' = closed \union {g} /\ gens' = gens
    BY <1>3 DEF Closes
  <2>2. CASE ~Current(g)
    BY <1>3, <2>1, <2>2 DEF Closes, GenerationDown, link
  <2>3. CASE Current(g)
    BY <2>1, <2>3 DEF Current, Types
  <2> QED
    BY <2>2, <2>3
<1>4. ASSUME Dispose PROVE Gone'
  BY <1>4 DEF Dispose
<1>5. ASSUME \/ ConnectFails \/ CloseTimesOut \/ BeginSync \/ FetchFails
             \/ (\E conflict \in BOOLEAN : Swap(conflict)) \/ DisposeCloses \/ DisposeSettles
             \/ DisposeDrains \/ ListChanged \/ Stabilizes \/ UNCHANGED vars
      PROVE  Gone'
  BY <1>5 DEF ConnectFails, CloseTimesOut, BeginSync, FetchFails, Swap, DisposeCloses,
              DisposeSettles, DisposeDrains, ListChanged, Stabilizes, vars, link
<1> QED
  BY <1>1, <1>2, <1>3, <1>4, <1>5, Steps

--------------------------------------------------------------------------------
(* What is over *)

LEMMA DownQuiet ==
  ASSUME Types, Quiet, NEW g \in 1..gens, GenerationDown(g), pc' = "done",
         UNCHANGED <<disposing, published>>
  PROVE  Quiet'
<1>1. CASE ~Current(g) /\ UNCHANGED <<link, syncs>>
  BY <1>1 DEF Quiet, GaveUp, link
<1>2. CASE Current(g) /\ client' = 0
  <2>1. disposing = "no" /\ client # 0 /\ timer = FALSE
    BY <1>2 DEF Current, Quiet, Types
  <2>2. failed \in Nat /\ MaxAttempts \in Nat /\ failed <= MaxAttempts
    BY <2>1, SupervisorAssumption DEF Quiet, GaveUp, Types
  <2>3. failed' \in Nat
    <3>1. Spent + 1 \in Nat
      BY <2>2 DEF Spent
    <3>2. failed' \in {failed, Spent + 1}
      BY <1>2, Down
    <3> QED
      BY <2>2, <3>1, <3>2
  <2>4. CASE ~enabled /\ UNCHANGED <<connected, failed, timer, syncs>>
    BY <1>2, <2>1, <2>2, <2>4 DEF Quiet, GaveUp
  <2>5. CASE connected' = "no" /\ failed' <= MaxAttempts /\ timer' = TRUE
    BY <1>2, <2>1, <2>2, <2>3, <2>5 DEF Quiet, GaveUp
  <2>6. CASE connected' = "no" /\ failed' > MaxAttempts /\ timer' = timer
    BY <1>2, <2>1, <2>6 DEF Quiet, GaveUp
  <2> QED
    BY <1>2, <2>4, <2>5, <2>6, Down
<1> QED
  BY <1>1, <1>2, Down

(* The job of an attempt is on the chain only while the attempt awaits it. *)
LEMMA HeadOwned ==
  ASSUME Types, Queued, syncs # <<>>, Head(syncs).kind = "initial"
  PROVE  pc = "sync" /\ Head(syncs).gen = gens
<1>1. Head(syncs) = syncs[1] /\ 1 \in 1..Len(syncs)
  BY Shortened DEF Types
<1> QED
  BY <1>1 DEF Queued

LEMMA QuietStep == IInv /\ [Next]_vars => Quiet'
<1> SUFFICES ASSUME IInv, [Next]_vars PROVE Quiet'
  OBVIOUS
<1>0. Types /\ Quiet /\ gens \in 1..gens
  BY DEF IInv, Types
<1>1. ASSUME Connects PROVE Quiet'
  <2>1. CASE gens \in closed
    BY <1>0, <1>1, <2>1, DownQuiet DEF Connects
  <2>2. CASE gens \notin closed
    BY <1>0, <1>1, <2>2 DEF Connects, Quiet, GaveUp, link
  <2> QED
    BY <2>1, <2>2
<1>2. ASSUME Synced PROVE Quiet'
  <2>1. CASE LostMeanwhile
    BY <1>0, <1>2, <2>1, DownQuiet DEF Synced
  <2>2. CASE ~LostMeanwhile
    BY <1>0, <1>2, <2>2 DEF Synced, Quiet, GaveUp
  <2> QED
    BY <2>1, <2>2
<1>3. ASSUME Quiesces PROVE Quiet'
  BY <1>0, <1>3, DownQuiet DEF Quiesces
<1>4. ASSUME ConnectFails \/ CloseTimesOut PROVE Quiet'
  BY <1>0, <1>4 DEF ConnectFails, CloseTimesOut, AfterTimeout, Quiet, GaveUp, link
<1>5. ASSUME Reconnect PROVE Quiet'
  BY <1>0, <1>5 DEF Reconnect, Quiet, GaveUp, Types
<1>6. ASSUME BeginSync PROVE Quiet'
  BY <1>0, <1>6 DEF BeginSync, Quiet, GaveUp, link, IInv, Queued, Types
<1>7. ASSUME NEW conflict \in BOOLEAN, FetchFails \/ Swap(conflict) PROVE Quiet'
  <2>1. syncs # <<>> /\ UNCHANGED <<gens, link, disposing>>
    BY <1>0, <1>7 DEF FetchFails, Swap, Types
  <2>2. pc' # pc => Head(syncs).kind = "initial"
    BY <1>7 DEF FetchFails, Swap, FailsStartup
  <2>3. pc' # pc => pc = "sync"
    BY <2>1, <2>2, HeadOwned DEF IInv
  <2> QED
    BY <1>0, <2>1, <2>3 DEF Quiet, GaveUp, link
<1>8. ASSUME DisposeCloses \/ DisposeSettles \/ DisposeDrains PROVE Quiet'
  BY <1>0, <1>8 DEF DisposeCloses, DisposeSettles, DisposeDrains, Drained, Quiet, GaveUp, link
<1>9. ASSUME NEW g \in 1..gens, Closes(g) PROVE Quiet'
  <2>1. CASE Settled(g) /\ Current(g)
    <3>1. g = gens /\ pc = "done"
      BY <1>0, <2>1 DEF Settled, Current, Types
    <3> QED
      BY <1>0, <1>9, <2>1, <3>1, DownQuiet DEF Closes
  <2>2. CASE ~(Settled(g) /\ Current(g))
    BY <1>0, <1>9, <2>2 DEF Closes, GenerationDown, Quiet, GaveUp, link
  <2> QED
    BY <2>1, <2>2
<1>10. ASSUME ListChanged \/ Stabilizes PROVE Quiet'
  BY <1>0, <1>10 DEF ListChanged, Stabilizes, Current, Quiet, GaveUp, link
<1>11. ASSUME Dispose PROVE Quiet'
  BY <1>0, <1>11 DEF Dispose, Quiet, GaveUp
<1>12. CASE UNCHANGED vars
  BY <1>0, <1>12 DEF vars, Quiet, GaveUp, link
<1> QED
  BY <1>1, <1>2, <1>3, <1>4, <1>5, <1>6, <1>7, <1>8, <1>9, <1>10, <1>11, <1>12, Steps

--------------------------------------------------------------------------------
(* Attempts against the budget *)

LEMMA DownCharged ==
  ASSUME Types, Quiet, Charged, NEW g \in 1..gens, GenerationDown(g), UNCHANGED outage
  PROVE  Charged'
<1>1. CASE ~Current(g) /\ UNCHANGED <<link, syncs>>
  BY <1>1 DEF Charged, BudgetRespected, link
<1>2. CASE Current(g) /\ client' = 0
  <2>1. /\ client # 0 /\ timer = FALSE /\ failed \in Nat /\ outage \in Nat
        /\ outage <= failed + 1 /\ outage <= MaxAttempts + 1
    BY <1>2 DEF Current, Quiet, Types, Charged, BudgetRespected
  <2>2. outage <= Spent + 1
    BY <2>1 DEF Spent, Charged
  <2> QED
    BY <1>2, <2>1, <2>2, Down DEF Charged, BudgetRespected
<1> QED
  BY <1>1, <1>2, Down

LEMMA ChargedStep == Types /\ Quiet /\ Charged /\ [Next]_vars => Charged'
<1> SUFFICES ASSUME Types, Quiet, Charged, [Next]_vars PROVE Charged'
  OBVIOUS
<1>0. gens \in 1..gens
  BY DEF Types
<1>1. ASSUME Connects \/ Synced \/ Quiesces PROVE Charged'
  <2>1. CASE GenerationDown(gens)
    BY <1>0, <1>1, <2>1, DownCharged DEF Connects, Synced, Quiesces, observed
  <2>2. CASE UNCHANGED <<client, failed, timer, outage>> /\ connected' \in {connected, "fresh"}
    BY <2>2 DEF Charged, BudgetRespected
  <2> QED
    BY <1>1, <2>1, <2>2 DEF Connects, Synced, Quiesces, link, observed
<1>2. ASSUME Reconnect PROVE Charged'
  BY <1>2, SupervisorAssumption DEF Reconnect, Charged, BudgetRespected, Quiet, Types
<1>3. ASSUME NEW g \in 1..gens, Closes(g) PROVE Charged'
  <2>1. CASE Settled(g)
    BY <1>3, <2>1, DownCharged DEF Closes, observed
  <2>2. CASE ~Settled(g)
    BY <1>3, <2>2 DEF Closes, Charged, BudgetRespected, link, observed
  <2> QED
    BY <2>1, <2>2
<1>4. ASSUME CloseTimesOut \/ Stabilizes \/ Dispose PROVE Charged'
  BY <1>4, SupervisorAssumption
     DEF CloseTimesOut, Stabilizes, Dispose, Charged, BudgetRespected, observed, Types, Quiet
<1>5. ASSUME \/ ConnectFails \/ BeginSync \/ FetchFails
             \/ (\E conflict \in BOOLEAN : Swap(conflict)) \/ DisposeCloses \/ DisposeSettles
             \/ DisposeDrains \/ ListChanged \/ UNCHANGED vars
      PROVE  Charged'
  <2>1. UNCHANGED <<link, observed>>
    BY <1>5 DEF ConnectFails, BeginSync, FetchFails, Swap, DisposeCloses,
                DisposeSettles, DisposeDrains, ListChanged, vars
  <2> QED
    BY <2>1 DEF Charged, BudgetRespected, link, observed
<1> QED
  BY <1>1, <1>2, <1>3, <1>4, <1>5, Steps

--------------------------------------------------------------------------------
(* The chain of synchronizations *)

(* A job is queued behind the others, or a decision queues the giving up. *)
LEMMA QueuedAppend ==
  ASSUME Types, Queued, ~GaveUp, NEW job \in Jobs(gens), syncs' = Append(syncs, job),
         UNCHANGED <<gens, fetching>>,
         \/ job.kind = "change" /\ pc' = pc /\ ~GaveUp'
         \/ job.kind = "initial" /\ job.gen = gens /\ pc \notin {"sync"} /\ pc' = "sync" /\ ~GaveUp'
         \/ job.kind = "giveUp" /\ pc # "sync" /\ pc' # "sync"
  PROVE  Queued'
<1> DEFINE n == Len(syncs)
<1>1. syncs \in Seq(Jobs(gens)) /\ n \in Nat
  BY DEF Types
<1>2. /\ Len(syncs') = n + 1 /\ syncs' # <<>> /\ syncs'[n + 1] = job
      /\ \A i \in 1..n : syncs'[i] = syncs[i]
  BY <1>1, Appended
<1>3. \A i \in 1..(n + 1) : i \in 1..n \/ i = n + 1
  BY <1>1
<1>4. fetching => syncs'[1] = syncs[1]
  BY <1>1, <1>2 DEF Types
<1>5. fetching' => syncs'[1].kind # "giveUp"
  BY <1>4 DEF Queued
<1>6. CASE job.kind = "change" /\ pc' = pc /\ ~GaveUp'
  BY <1>1, <1>2, <1>3, <1>5, <1>6 DEF Queued
<1>7. CASE job.kind = "initial" /\ job.gen = gens /\ pc # "sync" /\ pc' = "sync" /\ ~GaveUp'
  <2>1. \A i \in 1..n : syncs'[i].kind # "initial"
    BY <1>2, <1>7 DEF Queued
  <2> QED
    BY <1>1, <1>2, <1>3, <1>5, <1>7, <2>1 DEF Queued
<1>8. CASE job.kind = "giveUp" /\ pc # "sync" /\ pc' # "sync"
  <2>1. \A i \in 1..(n + 1) : syncs'[i].kind # "initial"
    BY <1>2, <1>3, <1>8 DEF Queued
  <2> QED
    BY <1>1, <1>2, <1>5, <1>8, <2>1 DEF Queued
<1> QED
  BY <1>6, <1>7, <1>8

(* The first job is taken off the chain. *)
LEMMA QueuedTail ==
  ASSUME Types, Queued, syncs # <<>>, syncs' = Tail(syncs), UNCHANGED <<gens, failed>>, ~fetching',
         IF Head(syncs).kind = "initial" THEN pc' # "sync" ELSE pc' = pc,
         Head(syncs).kind = "giveUp" => published' = 0
  PROVE  Queued'
<1> DEFINE n == Len(syncs)
<1>1. /\ Len(syncs') = n - 1 /\ n \in Nat /\ n >= 1 /\ Head(syncs) = syncs[1]
      /\ \A i \in 1..(n - 1) : syncs'[i] = syncs[i + 1]
      /\ syncs' \in Seq(Jobs(gens))
  BY Shortened DEF Types
<1>2. \A i \in 1..(n - 1) : i + 1 \in 1..n /\ i + 1 # 1
  BY <1>1
<1>3. 1 \in 1..n
  BY <1>1
<1>4. GaveUp' => IF syncs' = <<>> THEN published' = 0 ELSE syncs'[Len(syncs')].kind = "giveUp"
  <2> SUFFICES ASSUME GaveUp PROVE IF syncs' = <<>> THEN published' = 0
                                   ELSE syncs'[Len(syncs')].kind = "giveUp"
    BY DEF GaveUp
  <2>1. syncs[n].kind = "giveUp"
    BY DEF Queued
  <2>2. CASE n = 1
    BY <1>1, <2>1, <2>2
  <2>3. CASE n # 1
    <3>1. n - 1 \in 1..(n - 1) /\ (n - 1) + 1 = n
      BY <1>1, <2>3
    <3>2. syncs'[n - 1] = syncs[(n - 1) + 1]
      BY <1>1, <3>1
    <3>3. Len(syncs') # 0 /\ Len(<<>>) = 0
      BY <1>1, <2>3
    <3>4. syncs' # <<>>
      BY <3>3
    <3> QED
      BY <1>1, <2>1, <3>1, <3>2, <3>4
  <2> QED
    BY <2>2, <2>3
<1>5. CASE Head(syncs).kind = "initial"
  <2>1. \A i \in 1..(n - 1) : syncs'[i].kind # "initial"
    BY <1>1, <1>2, <1>3, <1>5 DEF Queued
  <2> QED
    BY <1>1, <1>4, <1>5, <2>1 DEF Queued
<1>6. CASE Head(syncs).kind # "initial"
  <2>1. pc = "sync" => \E i \in 1..(n - 1) : syncs'[i].kind = "initial"
    <3> SUFFICES ASSUME pc = "sync" PROVE \E i \in 1..(n - 1) : syncs'[i].kind = "initial"
      OBVIOUS
    <3>1. PICK j \in 1..n : syncs[j].kind = "initial"
      BY DEF Queued
    <3>2. j # 1 /\ j - 1 \in 1..(n - 1) /\ (j - 1) + 1 = j
      BY <1>1, <1>6, <3>1
    <3> QED
      BY <1>1, <3>1, <3>2
  <2>2. \A i \in 1..(n - 1) : syncs'[i].kind = "initial" => syncs'[i].gen = gens /\ pc = "sync"
    BY <1>1, <1>2 DEF Queued
  <2>3. \A i, j \in 1..(n - 1) : syncs'[i].kind = "initial" /\ syncs'[j].kind = "initial" => i = j
    <3> SUFFICES ASSUME NEW i \in 1..(n - 1), NEW j \in 1..(n - 1),
                        syncs'[i].kind = "initial", syncs'[j].kind = "initial"
                 PROVE  i = j
      OBVIOUS
    <3>1. syncs[i + 1].kind = "initial" /\ syncs[j + 1].kind = "initial"
      BY <1>1
    <3>2. i + 1 = j + 1
      BY <1>2, <3>1 DEF Queued
    <3> QED
      BY <1>1, <3>2
  <2> QED
    BY <1>1, <1>4, <1>6, <2>1, <2>2, <2>3 DEF Queued
<1> QED
  BY <1>5, <1>6

LEMMA QueuedKept ==
  ASSUME Queued, UNCHANGED <<gens, syncs, failed, published>>, (pc = "sync" <=> pc' = "sync"),
         fetching' => fetching \/ syncs[1].kind # "giveUp"
  PROVE  Queued'
BY DEF Queued, GaveUp

LEMMA DownQueued ==
  ASSUME IInv, NEW g \in 1..gens, GenerationDown(g), pc # "sync", pc' # "sync",
         UNCHANGED <<gens, fetching, published>>
  PROVE  Queued'
<1>0. Types /\ Queued
  BY DEF IInv
<1>1. CASE ~Current(g) /\ UNCHANGED <<link, syncs>>
  BY <1>0, <1>1, QueuedKept DEF link
<1>2. CASE Current(g)
  <2>1. ~GaveUp
    BY <1>2 DEF Current, IInv, Quiet
  <2>2. CASE ~enabled /\ UNCHANGED <<connected, failed, timer, syncs>>
    BY <1>0, <2>2, QueuedKept
  <2>3. CASE failed' <= MaxAttempts /\ failed' = Spent + 1 /\ syncs' = syncs
    <3>1. ~GaveUp'
      BY <1>0, <2>3, SupervisorAssumption DEF GaveUp, Spent, Types
    <3> QED
      BY <1>0, <2>1, <2>3, <3>1 DEF Queued
  <2>4. CASE syncs' = Append(syncs, Job("giveUp", 0))
    <3>1. Job("giveUp", 0) \in Jobs(gens) /\ Job("giveUp", 0).kind = "giveUp"
      BY <1>0 DEF Job, Jobs, Types
    <3> QED
      BY <1>0, <2>1, <2>4, <3>1, QueuedAppend
  <2> QED
    BY <1>0, <1>2, <2>2, <2>3, <2>4, Down
<1> QED
  BY <1>0, <1>1, <1>2, Down

LEMMA QueuedStep == IInv /\ [Next]_vars => Queued'
<1> SUFFICES ASSUME IInv, [Next]_vars PROVE Queued'
  OBVIOUS
<1>0. Types /\ Quiet /\ Queued /\ gens \in 1..gens
  BY DEF IInv, Types
<1>1. ASSUME Connects PROVE Queued'
  <2>1. CASE gens \in closed
    BY <1>0, <1>1, <2>1, DownQueued DEF Connects
  <2>2. CASE gens \notin closed
    <3>1. Job("initial", gens) \in Jobs(gens) /\ Job("initial", gens).kind = "initial"
          /\ Job("initial", gens).gen = gens
      BY <1>0 DEF Job, Jobs, Types
    <3>2. ~GaveUp /\ ~GaveUp'
      BY <1>0, <1>1, <2>2 DEF Connects, Quiet, GaveUp, link
    <3> QED
      BY <1>0, <1>1, <2>2, <3>1, <3>2, QueuedAppend DEF Connects
  <2> QED
    BY <2>1, <2>2
<1>2. ASSUME Synced PROVE Queued'
  <2>1. CASE LostMeanwhile
    BY <1>0, <1>2, <2>1, DownQueued DEF Synced
  <2>2. CASE ~LostMeanwhile
    BY <1>0, <1>2, <2>2, QueuedKept DEF Synced
  <2> QED
    BY <2>1, <2>2
<1>3. ASSUME Quiesces PROVE Queued'
  BY <1>0, <1>3, DownQueued DEF Quiesces
<1>4. ASSUME Reconnect PROVE Queued'
  <2>1. pc = "done" /\ \A i \in 1..Len(syncs) : syncs[i].kind # "initial"
    BY <1>0, <1>4 DEF Reconnect, Quiet, Queued
  <2>2. pc' = "connect" /\ UNCHANGED <<syncs, failed, fetching, published>>
    BY <1>4 DEF Reconnect
  <2> QED
    BY <1>0, <2>1, <2>2 DEF Queued, GaveUp
<1>5. ASSUME BeginSync PROVE Queued'
  <2>1. CASE Head(syncs).kind = "giveUp"
    BY <1>0, <1>5, <2>1, QueuedTail DEF BeginSync, link, Types
  <2>2. CASE Head(syncs).kind # "giveUp" /\ Current(Head(syncs).gen)
    <3>1. Head(syncs) = syncs[1]
      BY <1>0, <1>5, Shortened DEF BeginSync, Types
    <3>2. fetching' = TRUE /\ UNCHANGED <<gens, syncs, failed, published, pc>>
      BY <1>5, <2>2 DEF BeginSync, link
    <3> QED
      BY <1>0, <2>2, <3>1, <3>2, QueuedKept
  <2>3. CASE Head(syncs).kind # "giveUp" /\ ~Current(Head(syncs).gen)
    <3>1. /\ syncs # <<>> /\ syncs' = Tail(syncs) /\ UNCHANGED <<gens, failed>> /\ ~fetching'
          /\ pc' = IF Head(syncs).kind = "initial" THEN "synced" ELSE pc
      BY <1>5, <2>3 DEF BeginSync, link
    <3> QED
      BY <1>0, <2>3, <3>1, QueuedTail
  <2> QED
    BY <2>1, <2>2, <2>3
<1>6. ASSUME NEW conflict \in BOOLEAN, FetchFails \/ Swap(conflict) PROVE Queued'
  <2>1. /\ syncs # <<>> /\ syncs' = Tail(syncs) /\ UNCHANGED <<gens, failed>> /\ ~fetching'
        /\ Head(syncs).kind # "giveUp"
    <3>1. fetching /\ Head(syncs) = syncs[1]
      BY <1>0, <1>6, Shortened DEF FetchFails, Swap, Types
    <3> QED
      BY <1>0, <1>6, <3>1 DEF FetchFails, Swap, link, Types, Queued
  <2>2. IF Head(syncs).kind = "initial" THEN pc' # "sync" ELSE pc' = pc
    BY <1>6 DEF FetchFails, Swap, FailsStartup
  <2> QED
    BY <1>0, <2>1, <2>2, QueuedTail
<1>7. ASSUME NEW g \in 1..gens, Closes(g) PROVE Queued'
  <2>1. CASE Settled(g) /\ Current(g)
    <3>1. pc = "done"
      BY <1>0, <2>1 DEF Settled, Current, Types
    <3> QED
      BY <1>0, <1>7, <2>1, <3>1, DownQueued DEF Closes
  <2>2. CASE ~(Settled(g) /\ Current(g))
    BY <1>0, <1>7, <2>2, QueuedKept DEF Closes, GenerationDown, link
  <2> QED
    BY <2>1, <2>2
<1>8. ASSUME ListChanged PROVE Queued'
  <2>1. Job("change", client) \in Jobs(gens) /\ Job("change", client).kind = "change"
    BY <1>0, <1>8 DEF ListChanged, Job, Jobs, Types
  <2>2. ~GaveUp /\ ~GaveUp'
    BY <1>0, <1>8 DEF ListChanged, Quiet, GaveUp, link
  <2> QED
    BY <1>0, <1>8, <2>1, <2>2, QueuedAppend DEF ListChanged
<1>9. ASSUME DisposeDrains PROVE Queued'
  BY <1>0, <1>9 DEF DisposeDrains, Drained, Queued, GaveUp, link, Types
<1>10. ASSUME \/ ConnectFails \/ CloseTimesOut \/ DisposeCloses \/ DisposeSettles \/ Stabilizes
              \/ Dispose \/ UNCHANGED vars
       PROVE  Queued'
  <2>1. UNCHANGED <<gens, syncs, failed, published, fetching>> /\ (pc = "sync" <=> pc' = "sync")
    BY <1>10 DEF ConnectFails, CloseTimesOut, AfterTimeout, DisposeCloses, DisposeSettles, Stabilizes,
                 Dispose, vars, link
  <2> QED
    BY <1>0, <2>1, QueuedKept
<1> QED
  BY <1>1, <1>2, <1>3, <1>4, <1>5, <1>6, <1>7, <1>8, <1>9, <1>10, Steps

--------------------------------------------------------------------------------
(* No lost connection is forgotten *)

(* A supervisor without a client has a reason, and keeps it. *)
LEMMA ReasonKept ==
  ASSUME NotForgotten, enabled' = enabled, disposing' = disposing, client = 0,
         timer' = timer, failed' = failed, stopped' = stopped
  PROVE  NotForgotten'
BY DEF NotForgotten, GaveUp

LEMMA DownRemembered ==
  ASSUME Types, NotForgotten, NEW g, GenerationDown(g), UNCHANGED <<policy, disposing, stopped>>,
         client = 0 \/ Current(g) \/ disposing # "no"
  PROVE  NotForgotten'
<1>1. CASE Current(g)
  BY <1>1, Down DEF NotForgotten, GaveUp, policy
<1>2. CASE ~Current(g) /\ client = 0
  BY <1>2, ReasonKept DEF GenerationDown, link, policy
<1>3. CASE disposing # "no"
  BY <1>3 DEF NotForgotten
<1> QED
  BY <1>1, <1>2, <1>3

LEMMA ForgottenStep == IInv /\ [Next]_vars => NotForgotten'
<1> SUFFICES ASSUME IInv, [Next]_vars PROVE NotForgotten'
  OBVIOUS
<1>0. Types /\ Quiet /\ NotForgotten /\ gens \in Nat /\ client \in {0, gens} /\ closed \subseteq 1..gens
  BY DEF IInv, Types
<1>a. client = 0 \/ Current(gens) \/ disposing # "no"
  BY <1>0 DEF Current
<1>1. ASSUME Connects PROVE NotForgotten'
  <2>1. CASE gens \in closed
    BY <1>0, <1>a, <1>1, <2>1, DownRemembered DEF Connects, observed
  <2>2. CASE gens \notin closed
    BY <1>0, <1>1, <2>2 DEF Connects, NotForgotten, GaveUp, policy, link, observed
  <2> QED
    BY <2>1, <2>2
<1>2. ASSUME Synced PROVE NotForgotten'
  <2>1. CASE LostMeanwhile
    BY <1>0, <1>a, <1>2, <2>1, DownRemembered DEF Synced, observed
  <2>2. CASE ~LostMeanwhile
    BY <1>0, <1>2, <2>2 DEF Synced, LostMeanwhile, NotForgotten, GaveUp, policy, observed
  <2> QED
    BY <2>1, <2>2
<1>3. ASSUME Quiesces PROVE NotForgotten'
  BY <1>0, <1>a, <1>3, DownRemembered DEF Quiesces, observed
<1>4. ASSUME CloseTimesOut PROVE NotForgotten'
  <2>1. CASE Current(gens)
    BY <1>0, <1>4, <2>1 DEF CloseTimesOut, NotForgotten
  <2>2. CASE ~Current(gens) /\ client = 0
    BY <1>0, <1>4, <2>2 DEF CloseTimesOut, NotForgotten, GaveUp, policy
  <2>3. CASE disposing # "no"
    BY <1>4, <2>3 DEF CloseTimesOut, NotForgotten
  <2> QED
    BY <1>a, <2>1, <2>2, <2>3
<1>5. ASSUME Reconnect PROVE NotForgotten'
  BY <1>0, <1>5 DEF Reconnect, NotForgotten
<1>6. ASSUME NEW conflict \in BOOLEAN, BeginSync \/ FetchFails \/ Swap(conflict)
      PROVE  NotForgotten'
  <2>1. UNCHANGED <<policy, closed, link, disposing, observed>> /\ (pc' = pc \/ pc' # "done")
    BY <1>6 DEF BeginSync, FetchFails, Swap
  <2> QED
    BY <1>0, <2>1 DEF NotForgotten, GaveUp, policy, link, observed
<1>7. ASSUME NEW g \in 1..gens, Closes(g) PROVE NotForgotten'
  <2>1. CASE Settled(g) /\ (client = 0 \/ Current(g) \/ disposing # "no")
    BY <1>0, <1>7, <2>1, DownRemembered DEF Closes, observed
  <2>2. CASE Settled(g) /\ client # 0 /\ ~Current(g) /\ disposing = "no"
    <3>1. client \notin closed' \/ pc # "done" \/ client \in closed
      BY <1>7, <2>2 DEF Closes, Current
    <3> QED
      BY <1>0, <1>7, <2>2, <3>1 DEF Closes, GenerationDown, NotForgotten, GaveUp, policy, link, observed
  <2>3. CASE ~Settled(g)
    <3>1. pc # "done"
      BY <2>3 DEF Settled
    <3> QED
      BY <1>0, <1>7, <2>3, <3>1 DEF Closes, NotForgotten, GaveUp, policy, link, observed
  <2> QED
    BY <2>1, <2>2, <2>3
<1>8. ASSUME Dispose \/ DisposeCloses \/ DisposeSettles \/ DisposeDrains PROVE NotForgotten'
  BY <1>0, <1>8 DEF Dispose, DisposeCloses, DisposeSettles, DisposeDrains, NotForgotten
<1>9. ASSUME ConnectFails \/ ListChanged \/ Stabilizes \/ UNCHANGED vars PROVE NotForgotten'
  <2>1. UNCHANGED <<policy, closed, client, failed, timer, disposing, stopped>>
        /\ (pc' = pc \/ pc' # "done")
    BY <1>9 DEF ConnectFails, ListChanged, Stabilizes, vars, link, observed
  <2> QED
    BY <1>0, <2>1 DEF NotForgotten, GaveUp, policy
<1> QED
  BY <1>1, <1>2, <1>3, <1>4, <1>5, <1>6, <1>7, <1>8, <1>9, Steps

--------------------------------------------------------------------------------
(* Theorems *)

LEMMA InvariantIInv == Spec => []IInv
<1>1. IInv /\ [Next]_vars => IInv'
  BY TypesStep, GoneStep, QuietStep, ChargedStep, QueuedStep, ForgottenStep DEF IInv
<1> QED
  BY <1>1, InitIInv, PTL DEF Spec

(* However close signals, errors, tool lists, timers and a disposal          *)
(* interleave, the supervisor (startConnection) starts no server before the  *)
(* last one is known to be gone, forgets no lost connection, stays within    *)
(* maxAttempts for an outage, and serves no tool once it has stopped.        *)
THEOREM SupervisorIsSafe == Spec => []SupervisorSafe
<1>1. IInv => NoOverlap
  <2> SUFFICES ASSUME IInv PROVE Cardinality(1..gens \ closed) <= 1
    BY DEF NoOverlap
  <2>1. gens \in Nat \ {0} /\ 1..gens \ closed \subseteq {gens}
    BY DEF IInv, Types, Gone
  <2>2. IsFiniteSet({gens}) /\ Cardinality({gens}) = 1
    BY FS_Singleton
  <2> QED
    BY <2>1, <2>2, FS_Subset
<1>2. IInv => BudgetRespected
  BY DEF IInv, Charged
<1>3. IInv => StoppedServesNothing
  BY DEF IInv, Types, Quiet, Queued, StoppedServesNothing
<1>4. IInv => TypeOK
  <2> SUFFICES ASSUME IInv PROVE TypeOK
    OBVIOUS
  <2> DEFINE Initial == {i \in DOMAIN syncs : syncs[i].kind = "initial"}
  <2>1. Types /\ Queued /\ DOMAIN syncs = 1..Len(syncs)
    BY DEF IInv, Types
  <2>2. ASSUME pc = "sync" PROVE Cardinality(Initial) = 1
    <3>1. PICK i \in 1..Len(syncs) : syncs[i].kind = "initial"
      BY <2>1, <2>2 DEF Queued
    <3>2. Initial = {i}
      BY <2>1, <3>1 DEF Queued
    <3> QED
      BY <3>2, FS_Singleton
  <2>3. ASSUME pc # "sync" PROVE Cardinality(Initial) = 0
    <3>1. Initial = {}
      BY <2>1, <2>3 DEF Queued
    <3> QED
      BY <3>1, FS_EmptySet
  <2>4. Cardinality(Initial) = IF pc = "sync" THEN 1 ELSE 0
    BY <2>2, <2>3
  <2>5. timer => client = 0
    BY DEF IInv, Quiet
  <2> QED
    BY <2>1, <2>4, <2>5 DEF TypeOK, Types, Jobs
<1> QED
  BY <1>1, <1>2, <1>3, <1>4, InvariantIInv, PTL DEF SupervisorSafe, IInv

(* A recovered connection whose tools meet a name that is taken stays        *)
(* connected: only the activation's own synchronization may fail it.         *)
THEOREM ConflictsStayContained == Spec => ConflictsContained
<1> DEFINE Contained == published # 0 /\ published' = 0 /\ pc # "closing" /\ pc' = "closing" => gens = 1
<1>1. IInv /\ [Next]_vars => [Contained]_vars
  <2> SUFFICES ASSUME IInv, [Next]_vars PROVE Contained
    OBVIOUS
  <2>1. ASSUME NEW conflict \in BOOLEAN, Swap(conflict) PROVE Contained
    <3>1. pc # "closing" /\ pc' = "closing" => FailsStartup(Head(syncs))
      BY <2>1 DEF Swap
    <3>2. FailsStartup(Head(syncs)) => gens = 1
      BY <2>1, HeadOwned DEF FailsStartup, Swap, IInv, Types
    <3> QED
      BY <3>1, <3>2
  <2>2. CASE ConnectFails \/ FetchFails
    BY <2>2 DEF ConnectFails, FetchFails
  <2>3. CASE Connects \/ Synced \/ Quiesces \/ CloseTimesOut \/ Reconnect \/ BeginSync
    BY <2>3 DEF Connects, Synced, Quiesces, CloseTimesOut, AfterTimeout, Reconnect, BeginSync
  <2>4. CASE \/ DisposeCloses \/ DisposeSettles \/ DisposeDrains \/ (\E g \in 1..gens : Closes(g))
             \/ ListChanged \/ Stabilizes \/ Dispose \/ UNCHANGED vars
    BY <2>4 DEF DisposeCloses, DisposeSettles, DisposeDrains, Closes, ListChanged, Stabilizes,
                Dispose, vars
  <2> QED
    BY <2>1, <2>2, <2>3, <2>4, Steps
<1>2. Spec => [][Contained]_vars
  BY <1>1, InvariantIInv, PTL DEF Spec
<1> QED
  BY <1>2 DEF ConflictsContained

--------------------------------------------------------------------------------
(* The agent factory *)

(* One entry per id, held by a live agent; an agent works until it is torn down. *)
Placed ==
  /\ agents = sessions
  /\ agents # None => agents \in tracked
  /\ \A a \in Attempts : factoryPc[a] = "published" /\ disp[a] # "done" => agents = a
  /\ \A a \in busy : agents = a /\ disp[a] \in {"no", "drain"}

Before == {"new", "draining", "released", "loading", "loaded", "listing"}

(* What is under construction or live is known to both owners, until it is torn down. *)
Known ==
  /\ tracked = followed
  /\ \A a \in Attempts :
       /\ disp[a] \in {"drain", "scope"} => a \in tracked
       /\ disp[a] = "done" => a \notin tracked
       /\ disp[a] # "no" => a \in aborted
       /\ factoryPc[a] \in Before => a \notin tracked /\ disp[a] = "no"
       /\ factoryPc[a] \in {"setup", "published"} /\ disp[a] = "no" => a \in tracked
       /\ factoryPc[a] = "unwinding" => disp[a] # "no"
       /\ factoryPc[a] = "rejected" /\ a \in tracked => disp[a] # "no"

Sorted ==
  \A a \in Attempts :
    /\ factoryPc[a] \in {"draining", "released", "listing"} => Kind[a] = "configured"
    /\ Kind[a] = "configured" /\ disp[a] = "no" => a \notin aborted
    /\ prep[a] = "held" => factoryPc[a] \in {"loaded", "setup", "unwinding"}
    /\ factoryPc[a] = "rejected" /\ Kind[a] # "configured" => a \notin tracked

Owed ==
  \A a \in Attempts : OwnerOf[a] \in Owners /\ owner[OwnerOf[a]] # "active" =>
    /\ a \in tracked => disp[a] # "no"
    /\ owner[OwnerOf[a]] = "gone" /\ a \in joins[OwnerOf[a]] => disp[a] = "done"

Ended ==
  /\ factory # "active" =>
       /\ Agents!Running \cup tracked \subseteq waits
       /\ \A a \in tracked : disp[a] # "no"
  /\ factory = "gone" => Agents!Running = {} /\ tracked = {}

FactoryInv == Agents!TypeOK /\ Placed /\ Known /\ Sorted /\ Owed /\ Ended

(* The cases of an action that branches, as facts about what it assigns. *)
CallCases(a) ==
  /\ factoryPc[a] = "new" /\ Agents!OwnerActive(a) /\ factory = "active"
  /\ \/ /\ factoryPc' = [factoryPc EXCEPT ![a] = "rejected"] /\ Kind[a] = "create"
        /\ UNCHANGED <<prep, tracked, followed>>
     \/ /\ factoryPc' = [factoryPc EXCEPT ![a] = "setup"] /\ prep' = [prep EXCEPT ![a] = "held"]
        /\ Kind[a] = "create"
        /\ tracked' = tracked \cup {a} /\ followed' = followed \cup {a}
     \/ /\ factoryPc' = [factoryPc EXCEPT ![a] = "loading"]
        /\ UNCHANGED <<prep, tracked, followed>>
     \/ /\ \/ factoryPc' = [factoryPc EXCEPT ![a] = "released"]
           \/ factoryPc' = [factoryPc EXCEPT ![a] = "draining"]
        /\ Kind[a] = "configured"
        /\ UNCHANGED <<prep, tracked, followed>>
  /\ UNCHANGED <<late, aborted, disp, busy, agents, sessions, stored, owner, joins, factory, waits>>

LEMMA Calls ==
  ASSUME NEW a \in Attempts, Agents!Call(a)
  PROVE  CallCases(a)
<1> USE FactoryBounds DEF Agents!AgentFactoryAssumption, Agents!Goes, Agents!Holds,
        Agents!Prepare, Agents!Owned, Agents!registry, Agents!fibers, CallCases
<1>1. CASE Kind[a] = "create"
  <2>1. CASE sessions # None
    BY <1>1, <2>1 DEF Agents!Call
  <2>2. CASE sessions = None
    BY <1>1, <2>2 DEF Agents!Call
  <2> QED
    BY <2>1, <2>2
<1>2. CASE Kind[a] = "resume"
  BY <1>2 DEF Agents!Call
<1>3. CASE Kind[a] = "configured"
  BY <1>3 DEF Agents!Call
<1> QED
  BY <1>1, <1>2, <1>3

Tears(a) ==
  /\ disp' = [disp EXCEPT ![a] = IF disp[a] = "no" THEN "drain" ELSE disp[a]]
  /\ aborted' = aborted \cup {a}

LEMMA BeginsOne ==
  ASSUME Agents!TypeOK, NEW a \in Attempts, Agents!Begin({a})
  PROVE  Tears(a)
<1>1. \A b \in Attempts : disp'[b] = [disp EXCEPT ![a] = IF disp[a] = "no" THEN "drain"
                                                         ELSE disp[a]][b]
  BY DEF Agents!TypeOK, Agents!Begin
<1> QED
  BY <1>1 DEF Agents!TypeOK, Agents!Begin, Tears

(* A publication: the id is taken, it succeeds, or a listener ends it. *)
PublishCases(a, to) ==
  \/ /\ sessions # None
     /\ Tears(a) /\ factoryPc' = [factoryPc EXCEPT ![a] = to]
     /\ UNCHANGED <<prep, agents, sessions, stored>>
  \/ /\ sessions = None /\ sessions' = a /\ agents' = a
     /\ factoryPc' = [factoryPc EXCEPT ![a] = "published"]
     /\ prep' = [prep EXCEPT ![a] = "released"]
     /\ stored' \in {stored, TRUE} /\ UNCHANGED <<disp, aborted>>
  \/ /\ sessions = None /\ sessions' = a /\ agents' = a
     /\ Tears(a) /\ factoryPc' = [factoryPc EXCEPT ![a] = to]
     /\ UNCHANGED <<prep, stored>>

LEMMA Publishes ==
  ASSUME Agents!TypeOK, NEW a \in Attempts, NEW to, Agents!Publish(a, to)
  PROVE  PublishCases(a, to)
<1>1. CASE sessions # None
  BY <1>1, BeginsOne DEF Agents!Publish, Agents!Goes, Agents!registry, PublishCases
<1>2. CASE sessions = None
  BY <1>2, BeginsOne DEF Agents!Publish, Agents!Goes, Agents!Holds, PublishCases
<1> QED
  BY <1>1, <1>2

ListCases(a) ==
  /\ factoryPc[a] = "listing"
  /\ \/ /\ factoryPc' = [factoryPc EXCEPT ![a] = "rejected"]
        /\ UNCHANGED <<prep, aborted, tracked, followed, disp, agents, sessions, stored>>
     \/ /\ factory = "active"
        /\ tracked' = tracked \cup {a} /\ followed' = followed \cup {a}
        /\ PublishCases(a, "rejected")
  /\ UNCHANGED <<late, busy, owner, joins, factory, waits>>

LEMMA Lists ==
  ASSUME Agents!TypeOK, NEW a \in Attempts, Agents!Listed(a)
  PROVE  ListCases(a)
<1>1. CASE stored \/ sessions # None \/ factory # "active"
  BY <1>1 DEF Agents!Listed, Agents!Goes, Agents!tears, Agents!registry, Agents!fibers, ListCases
<1>2. CASE ~(stored \/ sessions # None \/ factory # "active")
  BY <1>2, Publishes DEF Agents!Listed, Agents!Prepare, Agents!fibers, ListCases
<1> QED
  BY <1>1, <1>2

LEMMA TypingStep ==
  ASSUME FactoryInv, [Agents!Next]_factoryVars
  PROVE  Agents!TypeOK'
<1> USE FactoryBounds DEF Agents!AgentFactoryAssumption, FactoryInv, Agents!TypeOK,
        Agents!tears, Agents!registry, Agents!fibers
<1>1. ASSUME NEW a \in Attempts, Agents!Call(a) PROVE Agents!TypeOK'
  BY <1>1, Calls DEF Placed, Known, CallCases
<1>2. ASSUME NEW a \in Attempts, Agents!Resumes(a) PROVE Agents!TypeOK'
  BY <1>2 DEF Placed, Known, Agents!Goes, Agents!Resumes
<1>3. ASSUME NEW a \in Attempts, Agents!LoadOk(a) PROVE Agents!TypeOK'
  BY <1>3 DEF Placed, Known, Agents!LoadAbort, Agents!Owned, Agents!OwnerActive, Agents!Goes,
       Agents!Holds, Agents!LoadOk
<1>4. ASSUME NEW a \in Attempts, Agents!LoadFails(a) PROVE Agents!TypeOK'
  BY <1>4 DEF Placed, Known, Agents!Goes, Agents!LoadFails
<1>5. ASSUME NEW a \in Attempts, Agents!LoadAborted(a) PROVE Agents!TypeOK'
  BY <1>5 DEF Placed, Known, Agents!Goes, Agents!LoadAborted
<1>6. ASSUME NEW a \in Attempts, Agents!LateLoad(a) PROVE Agents!TypeOK'
  BY <1>6 DEF Placed, Known, Agents!Abandoned, Agents!LateLoad
<1>7. ASSUME NEW a \in Attempts, Agents!Loaded(a) PROVE Agents!TypeOK'
  BY <1>7 DEF Placed, Known, Agents!Owned, Agents!OwnerActive, Agents!Goes, Agents!Holds,
       Agents!Prepare, Agents!Loaded
<1>8. ASSUME NEW a \in Attempts, Agents!Listed(a) PROVE Agents!TypeOK'
  <2>1. ListCases(a) /\ a \notin tracked /\ disp[a] = "no" /\ Kind[a] = "configured"
    BY <1>8, Lists DEF Known, Before, Sorted, ListCases
  <2>2. CASE /\ factoryPc' = [factoryPc EXCEPT ![a] = "rejected"]
             /\ UNCHANGED <<prep, aborted, tracked, followed, disp, agents, sessions, stored>>
    BY <2>1, <2>2 DEF Placed, Known, ListCases
  <2>3. CASE factory = "active" /\ tracked' = tracked \cup {a} /\ followed' = followed \cup {a}
             /\ PublishCases(a, "rejected")
    <3>1. CASE sessions # None /\ Tears(a) /\ factoryPc' = [factoryPc EXCEPT ![a] = "rejected"]
               /\ UNCHANGED <<prep, agents, sessions, stored>>
      BY <2>1, <2>3, <3>1 DEF Placed, Known, ListCases, Tears
    <3>2. CASE /\ sessions = None /\ sessions' = a /\ agents' = a
               /\ factoryPc' = [factoryPc EXCEPT ![a] = "published"]
               /\ prep' = [prep EXCEPT ![a] = "released"]
               /\ stored' \in {stored, TRUE} /\ UNCHANGED <<disp, aborted>>
      <4>1. stored' \in BOOLEAN
        BY <3>2
      <4> QED
        BY <2>1, <2>3, <3>2, <4>1 DEF Placed, Known, ListCases
    <3>3. CASE /\ sessions = None /\ sessions' = a /\ agents' = a
               /\ Tears(a) /\ factoryPc' = [factoryPc EXCEPT ![a] = "rejected"]
               /\ UNCHANGED <<prep, stored>>
      BY <2>1, <2>3, <3>3 DEF Placed, Known, ListCases, Tears
    <3> QED
      BY <2>3, <3>1, <3>2, <3>3 DEF PublishCases
  <2> QED
    BY <2>1, <2>2, <2>3 DEF ListCases
<1>9. ASSUME NEW a \in Attempts, Agents!SetupOk(a) PROVE Agents!TypeOK'
  <2>1. /\ factoryPc[a] = "setup" /\ a \notin aborted /\ disp[a] = "no" /\ a \in tracked
        /\ UNCHANGED <<late, tracked, followed, busy, owner, joins, factory, waits>>
        /\ PublishCases(a, "unwinding")
    BY <1>9, Publishes DEF Known, Agents!SetupOk, Agents!Publishable
  <2>2. CASE sessions # None /\ Tears(a) /\ factoryPc' = [factoryPc EXCEPT ![a] = "unwinding"]
             /\ UNCHANGED <<prep, agents, sessions, stored>>
    BY <2>1, <2>2 DEF Placed, Known, Tears
  <2>3. CASE /\ sessions = None /\ sessions' = a /\ agents' = a
             /\ factoryPc' = [factoryPc EXCEPT ![a] = "published"]
             /\ prep' = [prep EXCEPT ![a] = "released"]
             /\ stored' \in {stored, TRUE} /\ UNCHANGED <<disp, aborted>>
    BY <2>1, <2>3 DEF Placed, Known
  <2>4. CASE /\ sessions = None /\ sessions' = a /\ agents' = a
             /\ Tears(a) /\ factoryPc' = [factoryPc EXCEPT ![a] = "unwinding"]
             /\ UNCHANGED <<prep, stored>>
    BY <2>1, <2>4 DEF Placed, Known, Tears
  <2> QED
    BY <2>1, <2>2, <2>3, <2>4 DEF PublishCases
<1>10. ASSUME NEW a \in Attempts, Agents!SetupFails(a) PROVE Agents!TypeOK'
  BY <1>10 DEF Placed, Known, Agents!Begin, Agents!Goes, Agents!SetupFails
<1>11. ASSUME NEW a \in Attempts, Agents!Rejects(a) PROVE Agents!TypeOK'
  BY <1>11 DEF Placed, Known, Agents!Unwound, Agents!Goes, Agents!Holds, Agents!Rejects
<1>12. ASSUME NEW a \in Attempts, Agents!CallerAborts(a) PROVE Agents!TypeOK'
  BY <1>12 DEF Placed, Known, Agents!Running, Agents!CallerAborts
<1>13. ASSUME NEW a \in Attempts, Agents!Works(a) PROVE Agents!TypeOK'
  BY <1>13 DEF Placed, Known, Agents!Works
<1>14. ASSUME NEW a \in Attempts, Agents!WorkEnds(a) PROVE Agents!TypeOK'
  BY <1>14 DEF Placed, Known, Agents!WorkEnds
<1>15. ASSUME NEW a \in Attempts, Agents!HandleDisposes(a) PROVE Agents!TypeOK'
  BY <1>15 DEF Placed, Known, Agents!Begin, Agents!HandleDisposes
<1>16. ASSUME NEW a \in Attempts, Agents!Drains(a) PROVE Agents!TypeOK'
  BY <1>16 DEF Placed, Known, Agents!Drains
<1>17. ASSUME NEW a \in Attempts, Agents!Unwinds(a) PROVE Agents!TypeOK'
  BY <1>17 DEF Placed, Known, Agents!Detached, Agents!Woken, Agents!Unwinds
<1>18. ASSUME NEW o \in Owners, Agents!OwnerUnloads(o) PROVE Agents!TypeOK'
  BY <1>18 DEF Placed, Known, Agents!Joinable, Agents!Begin, Agents!OwnerUnloads
<1>19. ASSUME NEW o \in Owners, Agents!OwnerUnloaded(o) PROVE Agents!TypeOK'
  BY <1>19 DEF Placed, Known, Agents!OwnerUnloaded
<1>20. CASE Agents!FactoryUnloads
  BY <1>20 DEF Placed, Known, Agents!Begin, Agents!Wrappers, Agents!Running, Agents!FactoryUnloads
<1>21. CASE Agents!FactoryUnloaded
  BY <1>21 DEF Placed, Known, Agents!Wrappers, Agents!Running, Agents!FactoryUnloaded
<1>22. CASE UNCHANGED factoryVars
  BY <1>22 DEF Placed, Known, factoryVars
<1> QED
  BY <1>1, <1>2, <1>3, <1>4, <1>5, <1>6, <1>7, <1>8, <1>9, <1>10, <1>11, <1>12, <1>13, <1>14,
       <1>15, <1>16, <1>17, <1>18, <1>19, <1>20, <1>21, <1>22 DEF Agents!Next, Agents!Continues,
       Agents!SetupAborted

LEMMA PlacedStep ==
  ASSUME FactoryInv, [Agents!Next]_factoryVars
  PROVE  Placed'
<1> USE FactoryBounds DEF Agents!AgentFactoryAssumption, FactoryInv, Agents!TypeOK,
        Agents!tears, Agents!registry, Agents!fibers
<1>1. ASSUME NEW a \in Attempts, Agents!Call(a) PROVE Placed'
  BY <1>1, Calls DEF Placed, Known, CallCases
<1>2. ASSUME NEW a \in Attempts, Agents!Resumes(a) PROVE Placed'
  BY <1>2 DEF Placed, Known, Agents!Goes, Agents!Resumes
<1>3. ASSUME NEW a \in Attempts, Agents!LoadOk(a) PROVE Placed'
  BY <1>3 DEF Placed, Known, Agents!LoadAbort, Agents!Owned, Agents!OwnerActive, Agents!Goes,
       Agents!Holds, Agents!LoadOk
<1>4. ASSUME NEW a \in Attempts, Agents!LoadFails(a) PROVE Placed'
  BY <1>4 DEF Placed, Known, Agents!Goes, Agents!LoadFails
<1>5. ASSUME NEW a \in Attempts, Agents!LoadAborted(a) PROVE Placed'
  BY <1>5 DEF Placed, Known, Agents!Goes, Agents!LoadAborted
<1>6. ASSUME NEW a \in Attempts, Agents!LateLoad(a) PROVE Placed'
  BY <1>6 DEF Placed, Known, Agents!Abandoned, Agents!LateLoad
<1>7. ASSUME NEW a \in Attempts, Agents!Loaded(a) PROVE Placed'
  BY <1>7 DEF Placed, Known, Agents!Owned, Agents!OwnerActive, Agents!Goes, Agents!Holds,
       Agents!Prepare, Agents!Loaded
<1>8. ASSUME NEW a \in Attempts, Agents!Listed(a) PROVE Placed'
  <2>1. ListCases(a) /\ a \notin tracked /\ disp[a] = "no" /\ Kind[a] = "configured"
    BY <1>8, Lists DEF Known, Before, Sorted, ListCases
  <2>2. CASE /\ factoryPc' = [factoryPc EXCEPT ![a] = "rejected"]
             /\ UNCHANGED <<prep, aborted, tracked, followed, disp, agents, sessions, stored>>
    BY <2>1, <2>2 DEF Placed, Known, ListCases
  <2>3. CASE factory = "active" /\ tracked' = tracked \cup {a} /\ followed' = followed \cup {a}
             /\ PublishCases(a, "rejected")
    <3>1. CASE sessions # None /\ Tears(a) /\ factoryPc' = [factoryPc EXCEPT ![a] = "rejected"]
               /\ UNCHANGED <<prep, agents, sessions, stored>>
      BY <2>1, <2>3, <3>1 DEF Placed, Known, ListCases, Tears
    <3>2. CASE /\ sessions = None /\ sessions' = a /\ agents' = a
               /\ factoryPc' = [factoryPc EXCEPT ![a] = "published"]
               /\ prep' = [prep EXCEPT ![a] = "released"]
               /\ stored' \in {stored, TRUE} /\ UNCHANGED <<disp, aborted>>
      BY <2>1, <2>3, <3>2 DEF Placed, Known, ListCases
    <3>3. CASE /\ sessions = None /\ sessions' = a /\ agents' = a
               /\ Tears(a) /\ factoryPc' = [factoryPc EXCEPT ![a] = "rejected"]
               /\ UNCHANGED <<prep, stored>>
      BY <2>1, <2>3, <3>3 DEF Placed, Known, ListCases, Tears
    <3> QED
      BY <2>3, <3>1, <3>2, <3>3 DEF PublishCases
  <2> QED
    BY <2>1, <2>2, <2>3 DEF ListCases
<1>9. ASSUME NEW a \in Attempts, Agents!SetupOk(a) PROVE Placed'
  <2>1. /\ factoryPc[a] = "setup" /\ a \notin aborted /\ disp[a] = "no" /\ a \in tracked
        /\ UNCHANGED <<late, tracked, followed, busy, owner, joins, factory, waits>>
        /\ PublishCases(a, "unwinding")
    BY <1>9, Publishes DEF Known, Agents!SetupOk, Agents!Publishable
  <2>2. CASE sessions # None /\ Tears(a) /\ factoryPc' = [factoryPc EXCEPT ![a] = "unwinding"]
             /\ UNCHANGED <<prep, agents, sessions, stored>>
    BY <2>1, <2>2 DEF Placed, Known, Tears
  <2>3. CASE /\ sessions = None /\ sessions' = a /\ agents' = a
             /\ factoryPc' = [factoryPc EXCEPT ![a] = "published"]
             /\ prep' = [prep EXCEPT ![a] = "released"]
             /\ stored' \in {stored, TRUE} /\ UNCHANGED <<disp, aborted>>
    BY <2>1, <2>3 DEF Placed, Known
  <2>4. CASE /\ sessions = None /\ sessions' = a /\ agents' = a
             /\ Tears(a) /\ factoryPc' = [factoryPc EXCEPT ![a] = "unwinding"]
             /\ UNCHANGED <<prep, stored>>
    BY <2>1, <2>4 DEF Placed, Known, Tears
  <2> QED
    BY <2>1, <2>2, <2>3, <2>4 DEF PublishCases
<1>10. ASSUME NEW a \in Attempts, Agents!SetupFails(a) PROVE Placed'
  BY <1>10 DEF Placed, Known, Agents!Begin, Agents!Goes, Agents!SetupFails
<1>11. ASSUME NEW a \in Attempts, Agents!Rejects(a) PROVE Placed'
  BY <1>11 DEF Placed, Known, Agents!Unwound, Agents!Goes, Agents!Holds, Agents!Rejects
<1>12. ASSUME NEW a \in Attempts, Agents!CallerAborts(a) PROVE Placed'
  BY <1>12 DEF Placed, Known, Agents!Running, Agents!CallerAborts
<1>13. ASSUME NEW a \in Attempts, Agents!Works(a) PROVE Placed'
  BY <1>13 DEF Placed, Known, Agents!Works
<1>14. ASSUME NEW a \in Attempts, Agents!WorkEnds(a) PROVE Placed'
  BY <1>14 DEF Placed, Known, Agents!WorkEnds
<1>15. ASSUME NEW a \in Attempts, Agents!HandleDisposes(a) PROVE Placed'
  BY <1>15 DEF Placed, Known, Agents!Begin, Agents!HandleDisposes
<1>16. ASSUME NEW a \in Attempts, Agents!Drains(a) PROVE Placed'
  BY <1>16 DEF Placed, Known, Agents!Drains
<1>17. ASSUME NEW a \in Attempts, Agents!Unwinds(a) PROVE Placed'
  BY <1>17 DEF Placed, Known, Agents!Detached, Agents!Woken, Agents!Unwinds
<1>18. ASSUME NEW o \in Owners, Agents!OwnerUnloads(o) PROVE Placed'
  BY <1>18 DEF Placed, Known, Agents!Joinable, Agents!Begin, Agents!OwnerUnloads
<1>19. ASSUME NEW o \in Owners, Agents!OwnerUnloaded(o) PROVE Placed'
  BY <1>19 DEF Placed, Known, Agents!OwnerUnloaded
<1>20. CASE Agents!FactoryUnloads
  BY <1>20 DEF Placed, Known, Agents!Begin, Agents!Wrappers, Agents!Running, Agents!FactoryUnloads
<1>21. CASE Agents!FactoryUnloaded
  BY <1>21 DEF Placed, Known, Agents!Wrappers, Agents!Running, Agents!FactoryUnloaded
<1>22. CASE UNCHANGED factoryVars
  BY <1>22 DEF Placed, Known, factoryVars
<1> QED
  BY <1>1, <1>2, <1>3, <1>4, <1>5, <1>6, <1>7, <1>8, <1>9, <1>10, <1>11, <1>12, <1>13, <1>14,
       <1>15, <1>16, <1>17, <1>18, <1>19, <1>20, <1>21, <1>22 DEF Agents!Next, Agents!Continues,
       Agents!SetupAborted

LEMMA KnownStep ==
  ASSUME FactoryInv, [Agents!Next]_factoryVars
  PROVE  Known'
<1> USE FactoryBounds DEF Agents!AgentFactoryAssumption, FactoryInv, Agents!TypeOK,
        Agents!tears, Agents!registry, Agents!fibers
<1>1. ASSUME NEW a \in Attempts, Agents!Call(a) PROVE Known'
  <2>1. CallCases(a) /\ a \notin tracked /\ disp[a] = "no"
    BY <1>1, Calls DEF Known, Before, CallCases
  <2>2. SUFFICES ASSUME NEW b \in Attempts
                 PROVE  /\ tracked' = followed'
                        /\ disp[b] \in {"drain", "scope"} => b \in tracked'
                        /\ disp[b] = "done" => b \notin tracked'
                        /\ factoryPc'[b] \in Before => b \notin tracked' /\ disp[b] = "no"
                        /\ factoryPc'[b] \in {"setup", "published"} /\ disp[b] = "no" =>
                             b \in tracked'
                        /\ factoryPc'[b] = "unwinding" => disp[b] # "no"
                        /\ factoryPc'[b] = "rejected" /\ b \in tracked' => disp[b] # "no"
    BY <2>1 DEF Known, CallCases
  <2>3. CASE b = a
    BY <2>1, <2>3 DEF Known, Before, CallCases
  <2>4. CASE b # a
    <3>1. factoryPc'[b] = factoryPc[b] /\ (b \in tracked' <=> b \in tracked) /\ tracked' = followed'
      BY <2>1, <2>4 DEF Known, CallCases
    <3> QED
      BY <3>1 DEF Known
  <2> QED
    BY <2>3, <2>4
<1>2. ASSUME NEW a \in Attempts, Agents!Resumes(a) PROVE Known'
  BY <1>2 DEF Known, Placed, Before, Agents!Goes, Agents!Resumes
<1>3. ASSUME NEW a \in Attempts, Agents!LoadOk(a) PROVE Known'
  BY <1>3 DEF Known, Placed, Before, Agents!LoadAbort, Agents!Owned, Agents!OwnerActive,
       Agents!Goes, Agents!Holds, Agents!LoadOk
<1>4. ASSUME NEW a \in Attempts, Agents!LoadFails(a) PROVE Known'
  BY <1>4 DEF Known, Placed, Before, Agents!Goes, Agents!LoadFails
<1>5. ASSUME NEW a \in Attempts, Agents!LoadAborted(a) PROVE Known'
  BY <1>5 DEF Known, Placed, Before, Agents!Goes, Agents!LoadAborted
<1>6. ASSUME NEW a \in Attempts, Agents!LateLoad(a) PROVE Known'
  BY <1>6 DEF Known, Placed, Before, Agents!Abandoned, Agents!LateLoad
<1>7. ASSUME NEW a \in Attempts, Agents!Loaded(a) PROVE Known'
  <2>1. a \notin tracked /\ disp[a] = "no" /\ factoryPc[a] = "loaded" /\ UNCHANGED <<disp, aborted>>
    BY <1>7 DEF Known, Before, Agents!Loaded
  <2>2. CASE /\ factoryPc' = [factoryPc EXCEPT ![a] = "setup"]
             /\ tracked' = tracked \cup {a} /\ followed' = followed \cup {a}
    BY <2>1, <2>2 DEF Known, Before
  <2>3. CASE /\ factoryPc' = [factoryPc EXCEPT ![a] = "rejected"]
             /\ UNCHANGED <<tracked, followed>>
    BY <2>1, <2>3 DEF Known, Before
  <2> QED
    BY <1>7, <2>2, <2>3 DEF Agents!Loaded, Agents!Goes, Agents!Prepare
<1>8. ASSUME NEW a \in Attempts, Agents!Listed(a) PROVE Known'
  <2>1. ListCases(a) /\ a \notin tracked /\ disp[a] = "no" /\ Kind[a] = "configured"
    BY <1>8, Lists DEF Known, Before, Sorted, ListCases
  <2>2. CASE /\ factoryPc' = [factoryPc EXCEPT ![a] = "rejected"]
             /\ UNCHANGED <<prep, aborted, tracked, followed, disp, agents, sessions, stored>>
    BY <2>1, <2>2 DEF Known, Placed, Before, ListCases
  <2>3. CASE factory = "active" /\ tracked' = tracked \cup {a} /\ followed' = followed \cup {a}
             /\ PublishCases(a, "rejected")
    <3>1. CASE sessions # None /\ Tears(a) /\ factoryPc' = [factoryPc EXCEPT ![a] = "rejected"]
               /\ UNCHANGED <<prep, agents, sessions, stored>>
      BY <2>1, <2>3, <3>1 DEF Known, Placed, Before, ListCases, Tears
    <3>2. CASE /\ sessions = None /\ sessions' = a /\ agents' = a
               /\ factoryPc' = [factoryPc EXCEPT ![a] = "published"]
               /\ prep' = [prep EXCEPT ![a] = "released"]
               /\ stored' \in {stored, TRUE} /\ UNCHANGED <<disp, aborted>>
      BY <2>1, <2>3, <3>2 DEF Known, Placed, Before, ListCases
    <3>3. CASE /\ sessions = None /\ sessions' = a /\ agents' = a
               /\ Tears(a) /\ factoryPc' = [factoryPc EXCEPT ![a] = "rejected"]
               /\ UNCHANGED <<prep, stored>>
      BY <2>1, <2>3, <3>3 DEF Known, Placed, Before, ListCases, Tears
    <3> QED
      BY <2>3, <3>1, <3>2, <3>3 DEF PublishCases
  <2> QED
    BY <2>1, <2>2, <2>3 DEF ListCases
<1>9. ASSUME NEW a \in Attempts, Agents!SetupOk(a) PROVE Known'
  <2>1. /\ factoryPc[a] = "setup" /\ a \notin aborted /\ disp[a] = "no" /\ a \in tracked
        /\ UNCHANGED <<late, tracked, followed, busy, owner, joins, factory, waits>>
        /\ PublishCases(a, "unwinding")
    BY <1>9, Publishes DEF Known, Agents!SetupOk, Agents!Publishable
  <2>2. CASE sessions # None /\ Tears(a) /\ factoryPc' = [factoryPc EXCEPT ![a] = "unwinding"]
             /\ UNCHANGED <<prep, agents, sessions, stored>>
    BY <2>1, <2>2 DEF Known, Placed, Before, Tears
  <2>3. CASE /\ sessions = None /\ sessions' = a /\ agents' = a
             /\ factoryPc' = [factoryPc EXCEPT ![a] = "published"]
             /\ prep' = [prep EXCEPT ![a] = "released"]
             /\ stored' \in {stored, TRUE} /\ UNCHANGED <<disp, aborted>>
    BY <2>1, <2>3 DEF Known, Placed, Before
  <2>4. CASE /\ sessions = None /\ sessions' = a /\ agents' = a
             /\ Tears(a) /\ factoryPc' = [factoryPc EXCEPT ![a] = "unwinding"]
             /\ UNCHANGED <<prep, stored>>
    BY <2>1, <2>4 DEF Known, Placed, Before, Tears
  <2> QED
    BY <2>1, <2>2, <2>3, <2>4 DEF PublishCases
<1>10. ASSUME NEW a \in Attempts, Agents!SetupFails(a) PROVE Known'
  BY <1>10 DEF Known, Placed, Before, Agents!Begin, Agents!Goes, Agents!SetupFails
<1>11. ASSUME NEW a \in Attempts, Agents!Rejects(a) PROVE Known'
  BY <1>11 DEF Known, Placed, Before, Agents!Unwound, Agents!Goes, Agents!Holds, Agents!Rejects
<1>12. ASSUME NEW a \in Attempts, Agents!CallerAborts(a) PROVE Known'
  BY <1>12 DEF Known, Placed, Before, Agents!Running, Agents!CallerAborts
<1>13. ASSUME NEW a \in Attempts, Agents!Works(a) PROVE Known'
  BY <1>13 DEF Known, Placed, Before, Agents!Works
<1>14. ASSUME NEW a \in Attempts, Agents!WorkEnds(a) PROVE Known'
  BY <1>14 DEF Known, Placed, Before, Agents!WorkEnds
<1>15. ASSUME NEW a \in Attempts, Agents!HandleDisposes(a) PROVE Known'
  BY <1>15 DEF Known, Placed, Before, Agents!Begin, Agents!HandleDisposes
<1>16. ASSUME NEW a \in Attempts, Agents!Drains(a) PROVE Known'
  BY <1>16 DEF Known, Placed, Before, Agents!Drains
<1>17. ASSUME NEW a \in Attempts, Agents!Unwinds(a) PROVE Known'
  BY <1>17 DEF Known, Placed, Before, Agents!Detached, Agents!Woken, Agents!Unwinds
<1>18. ASSUME NEW o \in Owners, Agents!OwnerUnloads(o) PROVE Known'
  BY <1>18 DEF Known, Placed, Before, Agents!Joinable, Agents!Begin, Agents!OwnerUnloads
<1>19. ASSUME NEW o \in Owners, Agents!OwnerUnloaded(o) PROVE Known'
  BY <1>19 DEF Known, Placed, Before, Agents!OwnerUnloaded
<1>20. CASE Agents!FactoryUnloads
  BY <1>20 DEF Known, Placed, Before, Agents!Begin, Agents!Wrappers, Agents!Running,
       Agents!FactoryUnloads
<1>21. CASE Agents!FactoryUnloaded
  BY <1>21 DEF Known, Placed, Before, Agents!Wrappers, Agents!Running, Agents!FactoryUnloaded
<1>22. CASE UNCHANGED factoryVars
  BY <1>22 DEF Known, Placed, Before, factoryVars
<1> QED
  BY <1>1, <1>2, <1>3, <1>4, <1>5, <1>6, <1>7, <1>8, <1>9, <1>10, <1>11, <1>12, <1>13, <1>14,
       <1>15, <1>16, <1>17, <1>18, <1>19, <1>20, <1>21, <1>22 DEF Agents!Next, Agents!Continues,
       Agents!SetupAborted

LEMMA SortedStep ==
  ASSUME FactoryInv, [Agents!Next]_factoryVars
  PROVE  Sorted'
<1> USE FactoryBounds DEF Agents!AgentFactoryAssumption, FactoryInv, Agents!TypeOK,
        Agents!tears, Agents!registry, Agents!fibers
<1>1. ASSUME NEW a \in Attempts, Agents!Call(a) PROVE Sorted'
  BY <1>1, Calls DEF Sorted, Known, Before, CallCases
<1>2. ASSUME NEW a \in Attempts, Agents!Resumes(a) PROVE Sorted'
  BY <1>2 DEF Sorted, Known, Before, Agents!Goes, Agents!Resumes
<1>3. ASSUME NEW a \in Attempts, Agents!LoadOk(a) PROVE Sorted'
  BY <1>3 DEF Sorted, Known, Before, Agents!LoadAbort, Agents!Owned, Agents!OwnerActive,
       Agents!Goes, Agents!Holds, Agents!LoadOk
<1>4. ASSUME NEW a \in Attempts, Agents!LoadFails(a) PROVE Sorted'
  BY <1>4 DEF Sorted, Known, Before, Agents!Goes, Agents!LoadFails
<1>5. ASSUME NEW a \in Attempts, Agents!LoadAborted(a) PROVE Sorted'
  BY <1>5 DEF Sorted, Known, Before, Agents!Goes, Agents!LoadAborted
<1>6. ASSUME NEW a \in Attempts, Agents!LateLoad(a) PROVE Sorted'
  BY <1>6 DEF Sorted, Known, Before, Agents!Abandoned, Agents!LateLoad
<1>7. ASSUME NEW a \in Attempts, Agents!Loaded(a) PROVE Sorted'
  BY <1>7 DEF Sorted, Known, Before, Agents!Owned, Agents!OwnerActive, Agents!Goes, Agents!Holds,
       Agents!Prepare, Agents!Loaded
<1>8. ASSUME NEW a \in Attempts, Agents!Listed(a) PROVE Sorted'
  <2>1. ListCases(a) /\ a \notin tracked /\ disp[a] = "no" /\ Kind[a] = "configured"
    BY <1>8, Lists DEF Known, Before, Sorted, ListCases
  <2>2. CASE /\ factoryPc' = [factoryPc EXCEPT ![a] = "rejected"]
             /\ UNCHANGED <<prep, aborted, tracked, followed, disp, agents, sessions, stored>>
    BY <2>1, <2>2 DEF Sorted, Known, Before, ListCases
  <2>3. CASE factory = "active" /\ tracked' = tracked \cup {a} /\ followed' = followed \cup {a}
             /\ PublishCases(a, "rejected")
    <3>1. CASE sessions # None /\ Tears(a) /\ factoryPc' = [factoryPc EXCEPT ![a] = "rejected"]
               /\ UNCHANGED <<prep, agents, sessions, stored>>
      BY <2>1, <2>3, <3>1 DEF Sorted, Known, Before, ListCases, Tears
    <3>2. CASE /\ sessions = None /\ sessions' = a /\ agents' = a
               /\ factoryPc' = [factoryPc EXCEPT ![a] = "published"]
               /\ prep' = [prep EXCEPT ![a] = "released"]
               /\ stored' \in {stored, TRUE} /\ UNCHANGED <<disp, aborted>>
      BY <2>1, <2>3, <3>2 DEF Sorted, Known, Before, ListCases
    <3>3. CASE /\ sessions = None /\ sessions' = a /\ agents' = a
               /\ Tears(a) /\ factoryPc' = [factoryPc EXCEPT ![a] = "rejected"]
               /\ UNCHANGED <<prep, stored>>
      BY <2>1, <2>3, <3>3 DEF Sorted, Known, Before, ListCases, Tears
    <3> QED
      BY <2>3, <3>1, <3>2, <3>3 DEF PublishCases
  <2> QED
    BY <2>1, <2>2, <2>3 DEF ListCases
<1>9. ASSUME NEW a \in Attempts, Agents!SetupOk(a) PROVE Sorted'
  <2>1. /\ factoryPc[a] = "setup" /\ a \notin aborted /\ disp[a] = "no" /\ a \in tracked
        /\ UNCHANGED <<late, tracked, followed, busy, owner, joins, factory, waits>>
        /\ PublishCases(a, "unwinding")
    BY <1>9, Publishes DEF Known, Agents!SetupOk, Agents!Publishable
  <2>2. CASE sessions # None /\ Tears(a) /\ factoryPc' = [factoryPc EXCEPT ![a] = "unwinding"]
             /\ UNCHANGED <<prep, agents, sessions, stored>>
    BY <2>1, <2>2 DEF Sorted, Known, Before, Tears
  <2>3. CASE /\ sessions = None /\ sessions' = a /\ agents' = a
             /\ factoryPc' = [factoryPc EXCEPT ![a] = "published"]
             /\ prep' = [prep EXCEPT ![a] = "released"]
             /\ stored' \in {stored, TRUE} /\ UNCHANGED <<disp, aborted>>
    BY <2>1, <2>3 DEF Sorted, Known, Before
  <2>4. CASE /\ sessions = None /\ sessions' = a /\ agents' = a
             /\ Tears(a) /\ factoryPc' = [factoryPc EXCEPT ![a] = "unwinding"]
             /\ UNCHANGED <<prep, stored>>
    BY <2>1, <2>4 DEF Sorted, Known, Before, Tears
  <2> QED
    BY <2>1, <2>2, <2>3, <2>4 DEF PublishCases
<1>10. ASSUME NEW a \in Attempts, Agents!SetupFails(a) PROVE Sorted'
  BY <1>10 DEF Sorted, Known, Before, Agents!Begin, Agents!Goes, Agents!SetupFails
<1>11. ASSUME NEW a \in Attempts, Agents!Rejects(a) PROVE Sorted'
  BY <1>11 DEF Sorted, Known, Before, Agents!Unwound, Agents!Goes, Agents!Holds, Agents!Rejects
<1>12. ASSUME NEW a \in Attempts, Agents!CallerAborts(a) PROVE Sorted'
  BY <1>12 DEF Sorted, Known, Before, Agents!Running, Agents!CallerAborts
<1>13. ASSUME NEW a \in Attempts, Agents!Works(a) PROVE Sorted'
  BY <1>13 DEF Sorted, Known, Before, Agents!Works
<1>14. ASSUME NEW a \in Attempts, Agents!WorkEnds(a) PROVE Sorted'
  BY <1>14 DEF Sorted, Known, Before, Agents!WorkEnds
<1>15. ASSUME NEW a \in Attempts, Agents!HandleDisposes(a) PROVE Sorted'
  BY <1>15 DEF Sorted, Known, Before, Agents!Begin, Agents!HandleDisposes
<1>16. ASSUME NEW a \in Attempts, Agents!Drains(a) PROVE Sorted'
  BY <1>16 DEF Sorted, Known, Before, Agents!Drains
<1>17. ASSUME NEW a \in Attempts, Agents!Unwinds(a) PROVE Sorted'
  BY <1>17 DEF Sorted, Known, Before, Agents!Detached, Agents!Woken, Agents!Unwinds
<1>18. ASSUME NEW o \in Owners, Agents!OwnerUnloads(o) PROVE Sorted'
  BY <1>18 DEF Sorted, Known, Before, Agents!Joinable, Agents!Begin, Agents!OwnerUnloads
<1>19. ASSUME NEW o \in Owners, Agents!OwnerUnloaded(o) PROVE Sorted'
  BY <1>19 DEF Sorted, Known, Before, Agents!OwnerUnloaded
<1>20. CASE Agents!FactoryUnloads
  BY <1>20 DEF Sorted, Known, Before, Agents!Begin, Agents!Wrappers, Agents!Running,
       Agents!FactoryUnloads
<1>21. CASE Agents!FactoryUnloaded
  BY <1>21 DEF Sorted, Known, Before, Agents!Wrappers, Agents!Running, Agents!FactoryUnloaded
<1>22. CASE UNCHANGED factoryVars
  BY <1>22 DEF Sorted, Known, Before, factoryVars
<1> QED
  BY <1>1, <1>2, <1>3, <1>4, <1>5, <1>6, <1>7, <1>8, <1>9, <1>10, <1>11, <1>12, <1>13, <1>14,
       <1>15, <1>16, <1>17, <1>18, <1>19, <1>20, <1>21, <1>22 DEF Agents!Next, Agents!Continues,
       Agents!SetupAborted

LEMMA OwedStep ==
  ASSUME FactoryInv, [Agents!Next]_factoryVars
  PROVE  Owed'
<1> USE FactoryBounds DEF Agents!AgentFactoryAssumption, FactoryInv, Agents!TypeOK,
        Agents!tears, Agents!registry, Agents!fibers
<1>1. ASSUME NEW a \in Attempts, Agents!Call(a) PROVE Owed'
  BY <1>1, Calls DEF Owed, Known, Before, CallCases, Agents!OwnerActive
<1>2. ASSUME NEW a \in Attempts, Agents!Resumes(a) PROVE Owed'
  BY <1>2 DEF Owed, Known, Before, Agents!Goes, Agents!Resumes
<1>3. ASSUME NEW a \in Attempts, Agents!LoadOk(a) PROVE Owed'
  BY <1>3 DEF Owed, Known, Before, Agents!LoadAbort, Agents!Owned, Agents!OwnerActive,
       Agents!Goes, Agents!Holds, Agents!LoadOk
<1>4. ASSUME NEW a \in Attempts, Agents!LoadFails(a) PROVE Owed'
  BY <1>4 DEF Owed, Known, Before, Agents!Goes, Agents!LoadFails
<1>5. ASSUME NEW a \in Attempts, Agents!LoadAborted(a) PROVE Owed'
  BY <1>5 DEF Owed, Known, Before, Agents!Goes, Agents!LoadAborted
<1>6. ASSUME NEW a \in Attempts, Agents!LateLoad(a) PROVE Owed'
  BY <1>6 DEF Owed, Known, Before, Agents!Abandoned, Agents!LateLoad
<1>7. ASSUME NEW a \in Attempts, Agents!Loaded(a) PROVE Owed'
  BY <1>7 DEF Owed, Known, Before, Agents!Owned, Agents!OwnerActive, Agents!Goes, Agents!Holds,
       Agents!Prepare, Agents!Loaded
<1>8. ASSUME NEW a \in Attempts, Agents!Listed(a) PROVE Owed'
  <2>1. ListCases(a) /\ a \notin tracked /\ disp[a] = "no" /\ Kind[a] = "configured"
    BY <1>8, Lists DEF Known, Before, Sorted, ListCases
  <2>2. CASE /\ factoryPc' = [factoryPc EXCEPT ![a] = "rejected"]
             /\ UNCHANGED <<prep, aborted, tracked, followed, disp, agents, sessions, stored>>
    BY <2>1, <2>2 DEF Owed, Known, Before, ListCases
  <2>3. CASE factory = "active" /\ tracked' = tracked \cup {a} /\ followed' = followed \cup {a}
             /\ PublishCases(a, "rejected")
    <3>1. CASE sessions # None /\ Tears(a) /\ factoryPc' = [factoryPc EXCEPT ![a] = "rejected"]
               /\ UNCHANGED <<prep, agents, sessions, stored>>
      BY <2>1, <2>3, <3>1 DEF Owed, Known, Before, ListCases, Tears
    <3>2. CASE /\ sessions = None /\ sessions' = a /\ agents' = a
               /\ factoryPc' = [factoryPc EXCEPT ![a] = "published"]
               /\ prep' = [prep EXCEPT ![a] = "released"]
               /\ stored' \in {stored, TRUE} /\ UNCHANGED <<disp, aborted>>
      BY <2>1, <2>3, <3>2 DEF Owed, Known, Before, ListCases
    <3>3. CASE /\ sessions = None /\ sessions' = a /\ agents' = a
               /\ Tears(a) /\ factoryPc' = [factoryPc EXCEPT ![a] = "rejected"]
               /\ UNCHANGED <<prep, stored>>
      BY <2>1, <2>3, <3>3 DEF Owed, Known, Before, ListCases, Tears
    <3> QED
      BY <2>3, <3>1, <3>2, <3>3 DEF PublishCases
  <2> QED
    BY <2>1, <2>2, <2>3 DEF ListCases
<1>9. ASSUME NEW a \in Attempts, Agents!SetupOk(a) PROVE Owed'
  <2>1. /\ factoryPc[a] = "setup" /\ a \notin aborted /\ disp[a] = "no" /\ a \in tracked
        /\ UNCHANGED <<late, tracked, followed, busy, owner, joins, factory, waits>>
        /\ PublishCases(a, "unwinding")
    BY <1>9, Publishes DEF Known, Agents!SetupOk, Agents!Publishable
  <2>2. CASE sessions # None /\ Tears(a) /\ factoryPc' = [factoryPc EXCEPT ![a] = "unwinding"]
             /\ UNCHANGED <<prep, agents, sessions, stored>>
    BY <2>1, <2>2 DEF Owed, Known, Before, Tears
  <2>3. CASE /\ sessions = None /\ sessions' = a /\ agents' = a
             /\ factoryPc' = [factoryPc EXCEPT ![a] = "published"]
             /\ prep' = [prep EXCEPT ![a] = "released"]
             /\ stored' \in {stored, TRUE} /\ UNCHANGED <<disp, aborted>>
    BY <2>1, <2>3 DEF Owed, Known, Before
  <2>4. CASE /\ sessions = None /\ sessions' = a /\ agents' = a
             /\ Tears(a) /\ factoryPc' = [factoryPc EXCEPT ![a] = "unwinding"]
             /\ UNCHANGED <<prep, stored>>
    BY <2>1, <2>4 DEF Owed, Known, Before, Tears
  <2> QED
    BY <2>1, <2>2, <2>3, <2>4 DEF PublishCases
<1>10. ASSUME NEW a \in Attempts, Agents!SetupFails(a) PROVE Owed'
  BY <1>10 DEF Owed, Known, Before, Agents!Begin, Agents!Goes, Agents!SetupFails
<1>11. ASSUME NEW a \in Attempts, Agents!Rejects(a) PROVE Owed'
  BY <1>11 DEF Owed, Known, Before, Agents!Unwound, Agents!Goes, Agents!Holds, Agents!Rejects
<1>12. ASSUME NEW a \in Attempts, Agents!CallerAborts(a) PROVE Owed'
  BY <1>12 DEF Owed, Known, Before, Agents!Running, Agents!CallerAborts
<1>13. ASSUME NEW a \in Attempts, Agents!Works(a) PROVE Owed'
  BY <1>13 DEF Owed, Known, Before, Agents!Works
<1>14. ASSUME NEW a \in Attempts, Agents!WorkEnds(a) PROVE Owed'
  BY <1>14 DEF Owed, Known, Before, Agents!WorkEnds
<1>15. ASSUME NEW a \in Attempts, Agents!HandleDisposes(a) PROVE Owed'
  BY <1>15 DEF Owed, Known, Before, Agents!Begin, Agents!HandleDisposes
<1>16. ASSUME NEW a \in Attempts, Agents!Drains(a) PROVE Owed'
  BY <1>16 DEF Owed, Known, Before, Agents!Drains
<1>17. ASSUME NEW a \in Attempts, Agents!Unwinds(a) PROVE Owed'
  BY <1>17 DEF Owed, Known, Before, Agents!Detached, Agents!Woken, Agents!Unwinds
<1>18. ASSUME NEW o \in Owners, Agents!OwnerUnloads(o) PROVE Owed'
  BY <1>18 DEF Owed, Known, Before, Agents!Joinable, Agents!Begin, Agents!OwnerUnloads
<1>19. ASSUME NEW o \in Owners, Agents!OwnerUnloaded(o) PROVE Owed'
  BY <1>19 DEF Owed, Known, Before, Agents!OwnerUnloaded
<1>20. CASE Agents!FactoryUnloads
  BY <1>20 DEF Owed, Known, Before, Agents!Begin, Agents!Wrappers, Agents!Running,
       Agents!FactoryUnloads
<1>21. CASE Agents!FactoryUnloaded
  BY <1>21 DEF Owed, Known, Before, Agents!Wrappers, Agents!Running, Agents!FactoryUnloaded
<1>22. CASE UNCHANGED factoryVars
  BY <1>22 DEF Owed, Known, Before, factoryVars
<1> QED
  BY <1>1, <1>2, <1>3, <1>4, <1>5, <1>6, <1>7, <1>8, <1>9, <1>10, <1>11, <1>12, <1>13, <1>14,
       <1>15, <1>16, <1>17, <1>18, <1>19, <1>20, <1>21, <1>22 DEF Agents!Next, Agents!Continues,
       Agents!SetupAborted

LEMMA EndedStep ==
  ASSUME FactoryInv, [Agents!Next]_factoryVars
  PROVE  Ended'
<1> USE FactoryBounds DEF Agents!AgentFactoryAssumption, FactoryInv, Agents!TypeOK,
        Agents!tears, Agents!registry, Agents!fibers
<1>1. ASSUME NEW a \in Attempts, Agents!Call(a) PROVE Ended'
  BY <1>1, Calls DEF Ended, Known, Before, Agents!Running, CallCases, Agents!OwnerActive
<1>2. ASSUME NEW a \in Attempts, Agents!Resumes(a) PROVE Ended'
  BY <1>2 DEF Ended, Known, Before, Agents!Running, Agents!Goes, Agents!Resumes
<1>3. ASSUME NEW a \in Attempts, Agents!LoadOk(a) PROVE Ended'
  BY <1>3 DEF Ended, Known, Before, Agents!Running, Agents!LoadAbort, Agents!Owned,
       Agents!OwnerActive, Agents!Goes, Agents!Holds, Agents!LoadOk
<1>4. ASSUME NEW a \in Attempts, Agents!LoadFails(a) PROVE Ended'
  BY <1>4 DEF Ended, Known, Before, Agents!Running, Agents!Goes, Agents!LoadFails
<1>5. ASSUME NEW a \in Attempts, Agents!LoadAborted(a) PROVE Ended'
  BY <1>5 DEF Ended, Known, Before, Agents!Running, Agents!Goes, Agents!LoadAborted
<1>6. ASSUME NEW a \in Attempts, Agents!LateLoad(a) PROVE Ended'
  BY <1>6 DEF Ended, Known, Before, Agents!Running, Agents!Abandoned, Agents!LateLoad
<1>7. ASSUME NEW a \in Attempts, Agents!Loaded(a) PROVE Ended'
  BY <1>7 DEF Ended, Known, Before, Agents!Running, Agents!Owned, Agents!OwnerActive, Agents!Goes,
       Agents!Holds, Agents!Prepare, Agents!Loaded
<1>8. ASSUME NEW a \in Attempts, Agents!Listed(a) PROVE Ended'
  <2>1. ListCases(a) /\ a \notin tracked /\ disp[a] = "no" /\ Kind[a] = "configured"
    BY <1>8, Lists DEF Known, Before, Sorted, ListCases
  <2>2. CASE /\ factoryPc' = [factoryPc EXCEPT ![a] = "rejected"]
             /\ UNCHANGED <<prep, aborted, tracked, followed, disp, agents, sessions, stored>>
    BY <2>1, <2>2 DEF Ended, Known, Before, Agents!Running, ListCases
  <2>3. CASE factory = "active" /\ tracked' = tracked \cup {a} /\ followed' = followed \cup {a}
             /\ PublishCases(a, "rejected")
    <3>1. CASE sessions # None /\ Tears(a) /\ factoryPc' = [factoryPc EXCEPT ![a] = "rejected"]
               /\ UNCHANGED <<prep, agents, sessions, stored>>
      BY <2>1, <2>3, <3>1 DEF Ended, Known, Before, Agents!Running, ListCases, Tears
    <3>2. CASE /\ sessions = None /\ sessions' = a /\ agents' = a
               /\ factoryPc' = [factoryPc EXCEPT ![a] = "published"]
               /\ prep' = [prep EXCEPT ![a] = "released"]
               /\ stored' \in {stored, TRUE} /\ UNCHANGED <<disp, aborted>>
      BY <2>1, <2>3, <3>2 DEF Ended, Known, Before, Agents!Running, ListCases
    <3>3. CASE /\ sessions = None /\ sessions' = a /\ agents' = a
               /\ Tears(a) /\ factoryPc' = [factoryPc EXCEPT ![a] = "rejected"]
               /\ UNCHANGED <<prep, stored>>
      BY <2>1, <2>3, <3>3 DEF Ended, Known, Before, Agents!Running, ListCases, Tears
    <3> QED
      BY <2>3, <3>1, <3>2, <3>3 DEF PublishCases
  <2> QED
    BY <2>1, <2>2, <2>3 DEF ListCases
<1>9. ASSUME NEW a \in Attempts, Agents!SetupOk(a) PROVE Ended'
  <2>1. /\ factoryPc[a] = "setup" /\ a \notin aborted /\ disp[a] = "no" /\ a \in tracked
        /\ UNCHANGED <<late, tracked, followed, busy, owner, joins, factory, waits>>
        /\ PublishCases(a, "unwinding")
    BY <1>9, Publishes DEF Known, Agents!SetupOk, Agents!Publishable
  <2>2. CASE sessions # None /\ Tears(a) /\ factoryPc' = [factoryPc EXCEPT ![a] = "unwinding"]
             /\ UNCHANGED <<prep, agents, sessions, stored>>
    BY <2>1, <2>2 DEF Ended, Known, Before, Agents!Running, Tears
  <2>3. CASE /\ sessions = None /\ sessions' = a /\ agents' = a
             /\ factoryPc' = [factoryPc EXCEPT ![a] = "published"]
             /\ prep' = [prep EXCEPT ![a] = "released"]
             /\ stored' \in {stored, TRUE} /\ UNCHANGED <<disp, aborted>>
    BY <2>1, <2>3 DEF Ended, Known, Before, Agents!Running
  <2>4. CASE /\ sessions = None /\ sessions' = a /\ agents' = a
             /\ Tears(a) /\ factoryPc' = [factoryPc EXCEPT ![a] = "unwinding"]
             /\ UNCHANGED <<prep, stored>>
    BY <2>1, <2>4 DEF Ended, Known, Before, Agents!Running, Tears
  <2> QED
    BY <2>1, <2>2, <2>3, <2>4 DEF PublishCases
<1>10. ASSUME NEW a \in Attempts, Agents!SetupFails(a) PROVE Ended'
  BY <1>10 DEF Ended, Known, Before, Agents!Running, Agents!Begin, Agents!Goes, Agents!SetupFails
<1>11. ASSUME NEW a \in Attempts, Agents!Rejects(a) PROVE Ended'
  BY <1>11 DEF Ended, Known, Before, Agents!Running, Agents!Unwound, Agents!Goes, Agents!Holds,
       Agents!Rejects
<1>12. ASSUME NEW a \in Attempts, Agents!CallerAborts(a) PROVE Ended'
  BY <1>12 DEF Ended, Known, Before, Agents!Running, Agents!CallerAborts
<1>13. ASSUME NEW a \in Attempts, Agents!Works(a) PROVE Ended'
  BY <1>13 DEF Ended, Known, Before, Agents!Running, Agents!Works
<1>14. ASSUME NEW a \in Attempts, Agents!WorkEnds(a) PROVE Ended'
  BY <1>14 DEF Ended, Known, Before, Agents!Running, Agents!WorkEnds
<1>15. ASSUME NEW a \in Attempts, Agents!HandleDisposes(a) PROVE Ended'
  BY <1>15 DEF Ended, Known, Before, Agents!Running, Agents!Begin, Agents!HandleDisposes
<1>16. ASSUME NEW a \in Attempts, Agents!Drains(a) PROVE Ended'
  BY <1>16 DEF Ended, Known, Before, Agents!Running, Agents!Drains
<1>17. ASSUME NEW a \in Attempts, Agents!Unwinds(a) PROVE Ended'
  BY <1>17 DEF Ended, Known, Before, Agents!Running, Agents!Detached, Agents!Woken, Agents!Unwinds
<1>18. ASSUME NEW o \in Owners, Agents!OwnerUnloads(o) PROVE Ended'
  BY <1>18 DEF Ended, Known, Before, Agents!Running, Agents!Joinable, Agents!Begin,
       Agents!OwnerUnloads
<1>19. ASSUME NEW o \in Owners, Agents!OwnerUnloaded(o) PROVE Ended'
  BY <1>19 DEF Ended, Known, Before, Agents!Running, Agents!OwnerUnloaded
<1>20. CASE Agents!FactoryUnloads
  BY <1>20 DEF Ended, Known, Before, Agents!Running, Agents!Begin, Agents!Wrappers,
       Agents!FactoryUnloads
<1>21. CASE Agents!FactoryUnloaded
  BY <1>21 DEF Ended, Known, Before, Agents!Running, Agents!Wrappers, Agents!FactoryUnloaded
<1>22. CASE UNCHANGED factoryVars
  BY <1>22 DEF Ended, Known, Before, Agents!Running, factoryVars
<1> QED
  BY <1>1, <1>2, <1>3, <1>4, <1>5, <1>6, <1>7, <1>8, <1>9, <1>10, <1>11, <1>12, <1>13, <1>14,
       <1>15, <1>16, <1>17, <1>18, <1>19, <1>20, <1>21, <1>22 DEF Agents!Next, Agents!Continues,
       Agents!SetupAborted

LEMMA FactoryInit == Agents!Init => FactoryInv
BY FactoryBounds DEF Agents!Init, FactoryInv, Agents!AgentFactoryAssumption, Agents!TypeOK, Placed,
   Known, Sorted, Owed, Ended, Before, Agents!Running

LEMMA FactoryInductive == FactoryInv /\ [Agents!Next]_factoryVars => FactoryInv'
BY TypingStep, PlacedStep, KnownStep, SortedStep, OwedStep, EndedStep DEF FactoryInv

LEMMA FactoryInvSafe == FactoryInv => Agents!FactorySafe
<1> SUFFICES ASSUME FactoryInv PROVE Agents!FactorySafe
  OBVIOUS
<1> USE FactoryBounds DEF Agents!AgentFactoryAssumption, FactoryInv, Agents!TypeOK
<1>1. Agents!PlaceIsHeld
  BY DEF Agents!PlaceIsHeld, Placed
<1>2. Agents!NoOrphan
  BY DEF Agents!NoOrphan, Owed, Placed, Known
<1>3. Agents!NothingAfterFactory
  <2> SUFFICES ASSUME factory = "gone"
               PROVE  /\ Agents!Running = {} /\ agents = None /\ sessions = None
                      /\ busy = {} /\ tracked = {}
                      /\ \A a \in Attempts : prep[a] # "held"
    BY DEF Agents!NothingAfterFactory
  <2>1. Agents!Running = {} /\ tracked = {}
    BY DEF Ended
  <2>2. agents = None /\ sessions = None /\ busy = {}
    BY <2>1 DEF Placed
  <2>3. \A a \in Attempts : factoryPc[a] \in {"new", "published", "rejected"}
    BY <2>1 DEF Agents!Running
  <2> QED
    BY <2>1, <2>2, <2>3 DEF Sorted
<1>4. Agents!RejectedLeavesNothing
  BY DEF Agents!RejectedLeavesNothing, Sorted, Known, Placed
<1> QED
  BY <1>1, <1>2, <1>3, <1>4 DEF Agents!FactorySafe

(* Only two steps publish: both look at the signal, or nobody could abort it. *)
LEMMA PublishedUnaborted ==
  ASSUME FactoryInv, [Agents!Next]_factoryVars
  PROVE  \A a \in Attempts : a \in aborted /\ factoryPc'[a] = "published" =>
           factoryPc[a] = "published"
<1> USE FactoryBounds DEF Agents!AgentFactoryAssumption, FactoryInv, Agents!TypeOK,
        Agents!tears, Agents!registry, Agents!fibers
<1>1. ASSUME NEW a \in Attempts, Agents!Listed(a)
      PROVE  a \notin aborted /\ \A b \in Attempts \ {a} : factoryPc'[b] = factoryPc[b]
  <2>1. ListCases(a)
    BY <1>1, Lists
  <2>2. a \notin aborted
    BY <2>1 DEF ListCases, Sorted, Known, Before
  <2>3. \A b \in Attempts \ {a} : factoryPc'[b] = factoryPc[b]
    BY <2>1 DEF ListCases, PublishCases
  <2> QED
    BY <2>2, <2>3
<1>2. ASSUME NEW a \in Attempts, Agents!SetupOk(a)
      PROVE  a \notin aborted /\ \A b \in Attempts \ {a} : factoryPc'[b] = factoryPc[b]
  BY <1>2, Publishes DEF Agents!SetupOk, Agents!Publishable, PublishCases
<1>3. ASSUME NEW a \in Attempts, Agents!Call(a)
      PROVE  \A b \in Attempts : factoryPc'[b] = "published" => factoryPc[b] = "published"
  BY <1>3, Calls DEF CallCases
<1>4. ASSUME NEW a \in Attempts,
             \/ Agents!Resumes(a) \/ Agents!LoadAborted(a) \/ Agents!Loaded(a) \/ Agents!Rejects(a)
             \/ Agents!WorkEnds(a) \/ Agents!Drains(a) \/ Agents!LoadOk(a) \/ Agents!LoadFails(a)
             \/ Agents!LateLoad(a) \/ Agents!SetupFails(a) \/ Agents!CallerAborts(a)
             \/ Agents!Works(a) \/ Agents!HandleDisposes(a)
      PROVE  \A b \in Attempts : factoryPc'[b] = "published" => factoryPc[b] = "published"
  BY <1>4 DEF Agents!Resumes, Agents!LoadAborted, Agents!Loaded, Agents!Rejects, Agents!WorkEnds,
     Agents!Drains, Agents!LoadOk, Agents!LoadFails, Agents!LateLoad, Agents!SetupFails,
     Agents!CallerAborts, Agents!Works, Agents!HandleDisposes, Agents!Goes
<1>5. ASSUME NEW a \in Attempts, Agents!Unwinds(a)
      PROVE  \A b \in Attempts : factoryPc'[b] = "published" => factoryPc[b] = "published"
  BY <1>5 DEF Agents!Unwinds
<1>6. ASSUME \/ \E o \in Owners : Agents!OwnerUnloads(o) \/ Agents!OwnerUnloaded(o)
             \/ Agents!FactoryUnloads \/ Agents!FactoryUnloaded \/ UNCHANGED factoryVars
      PROVE  factoryPc' = factoryPc
  BY <1>6 DEF Agents!OwnerUnloads, Agents!OwnerUnloaded, Agents!FactoryUnloads,
     Agents!FactoryUnloaded, factoryVars
<1> QED
  BY <1>1, <1>2, <1>3, <1>4, <1>5, <1>6 DEF Agents!Next, Agents!Continues, Agents!SetupAborted

LEMMA FactoryStep == [MCNext]_<<part, vars, replayVars, factoryVars>> => [Agents!Next]_factoryVars
BY DEF MCNext

LEMMA FactoryInvariant == MCSpec => []FactoryInv
<1>1. MCInit => FactoryInv
  BY FactoryInit DEF MCInit
<1>2. FactoryInv /\ [MCNext]_<<part, vars, replayVars, factoryVars>> => FactoryInv'
  BY FactoryStep, FactoryInductive
<1> QED
  BY <1>1, <1>2, PTL DEF MCSpec

(* However starts, aborts, disposals and unloads of owners and factory        *)
(* interleave, for any number of attempts under one id and any number of      *)
(* owners: agents and sessions are registered together, no agent loses its    *)
(* place or outlives its owner, and a rejected start leaves nothing.          *)
THEOREM FactoryAlwaysHolds == MCSpec => []FactoryHolds
<1>1. FactoryInv => FactoryHolds
  BY FactoryInvSafe DEF FactoryHolds
<1> QED
  BY <1>1, FactoryInvariant, PTL

LEMMA NobodyAborted == MCSpec => Agents!AbortedIsNotPublished
<1>1. FactoryInv /\ [MCNext]_<<part, vars, replayVars, factoryVars>> =>
        [\A a \in Attempts : (a \in aborted /\ factoryPc'[a] = "published") =>
            factoryPc[a] = "published"]_(Agents!vars)
  BY FactoryStep, PublishedUnaborted DEF Agents!vars, Agents!tears, Agents!registry, Agents!fibers,
     factoryVars
<1> QED
  BY <1>1, FactoryInvariant, PTL DEF MCSpec, Agents!AbortedIsNotPublished

--------------------------------------------------------------------------------
(* The replay of pending approvals *)

All == INSTANCE PromptReplay WITH link <- linkState, Features <- {"early", "failed", "cold"}

Frames == {All!Requested(a) : a \in Approvals} \cup {All!Resolved(a) : a \in Approvals}

(* A frame about the approval is on its way. *)
Tells(s, a) == \E i \in DOMAIN s : s[i].id = a

(* The last frame about each approval says whether it is among those that wait. *)
LastAgrees(s, W) ==
  \A i \in DOMAIN s :
    (\A j \in DOMAIN s : j > i => s[j].id # s[i].id) => (s[i].type = "requested" <=> s[i].id \in W)

Wired ==
  /\ All!TypeOK /\ pending \in Seq(Approvals) /\ fresh \cap All!Waiting = {}
  /\ ~mux => stream = <<>>
  /\ linkState = "backoff" => ~mux
  /\ linkState = "connected" => state = "connected"
  /\ instance = "none" => buffer = dots
  /\ mux => LastAgrees(stream, All!Waiting)

(* The client's status is what it was told, when no handshake fails after frames came. *)
Told ==
  /\ ~mux => dots = {}
  /\ linkState # "connected" /\ ~heard => dots = {}
  /\ mux => \A a \in Approvals : ~Tells(stream, a) => (a \in dots <=> a \in All!Waiting)

Fresh ==
  /\ instance # "cold"
  /\ linkState = "connected" /\ instance = "opened" => shown \subseteq dots

Arriving ==
  mux => \A a \in All!Waiting :
    /\ Tells(stream, a) \/ a \in (IF instance = "none" THEN buffer ELSE shown)
    /\ linkState = "connecting" /\ ~heard => Tells(stream, a)

Distinct(s) == \A m, n \in DOMAIN s : s[m] = s[n] => m = n
Elements(s) == {s[m] : m \in DOMAIN s}

(* An element is taken out of a sequence that holds it once. *)
LEMMA Removed ==
  ASSUME NEW S, NEW s \in Seq(S), NEW i \in DOMAIN s, Distinct(s),
         NEW r, r = All!RemoveAt(s, i)
  PROVE  r \in Seq(S) /\ Distinct(r) /\ Elements(r) = Elements(s) \ {s[i]}
<1>1. i \in 1..Len(s) /\ Len(s) \in Nat /\ DOMAIN s = 1..Len(s)
  OBVIOUS
<1>2. PICK x, y : x = SubSeq(s, 1, i - 1) /\ y = SubSeq(s, i + 1, Len(s))
  OBVIOUS
<1>3. x \in Seq(S) /\ Len(x) = i - 1 /\ \A m \in 1..(i - 1) : x[m] = s[m]
  BY <1>1, <1>2
<1>4. y \in Seq(S) /\ Len(y) = Len(s) - i /\ \A m \in 1..(Len(s) - i) : y[m] = s[m + i]
  BY <1>1, <1>2
<1>5. r = x \o y
  BY <1>2 DEF All!RemoveAt
<1>7. /\ r \in Seq(S) /\ Len(r) = Len(s) - 1 /\ DOMAIN r = 1..(Len(s) - 1)
      /\ \A m \in 1..(Len(s) - 1) : r[m] = IF m <= i - 1 THEN x[m] ELSE y[m - (i - 1)]
  <2>1. /\ r \in Seq(S) /\ Len(r) = Len(x) + Len(y)
        /\ \A m \in 1..(Len(x) + Len(y)) : r[m] = IF m <= Len(x) THEN x[m] ELSE y[m - Len(x)]
    <3>1. PICK z : z = x \o y
      OBVIOUS
    <3>2. /\ z \in Seq(S) /\ Len(z) = Len(x) + Len(y)
          /\ \A m \in 1..(Len(x) + Len(y)) : z[m] = IF m <= Len(x) THEN x[m] ELSE y[m - Len(x)]
      BY <1>3, <1>4, <3>1, ConcatProperties
    <3> QED
      BY <1>5, <3>1, <3>2
  <2>2. Len(x) + Len(y) = Len(s) - 1
    BY <1>1, <1>3, <1>4
  <2>3. DOMAIN r = 1..Len(r)
    BY <2>1
  <2> QED
    BY <1>3, <2>1, <2>2, <2>3
<1>8. \A m \in 1..(Len(s) - 1) : r[m] = IF m < i THEN s[m] ELSE s[m + 1]
  <2>1. SUFFICES ASSUME NEW m \in 1..(Len(s) - 1)
                 PROVE  r[m] = IF m < i THEN s[m] ELSE s[m + 1]
    OBVIOUS
  <2>2. CASE m < i
    BY <1>1, <1>3, <1>7, <2>2
  <2>3. CASE m >= i
    <3>1. m - (i - 1) \in 1..(Len(s) - i) /\ m - (i - 1) + i = m + 1 /\ ~(m <= i - 1)
      BY <1>1, <2>3
    <3>2. r[m] = y[m - (i - 1)]
      BY <1>7, <3>1
    <3>3. y[m - (i - 1)] = s[m + 1] /\ ~(m < i)
      <4>1. PICK k : k = m - (i - 1)
        OBVIOUS
      <4>2. k \in 1..(Len(s) - i) /\ k + i = m + 1 /\ ~(m < i)
        BY <1>1, <2>3, <4>1
      <4> QED
        BY <1>4, <4>1, <4>2
    <3> QED
      BY <3>2, <3>3
  <2> QED
    BY <1>1, <2>2, <2>3
<1>9. ASSUME NEW m \in DOMAIN r, NEW n \in DOMAIN r, r[m] = r[n] PROVE m = n
  <2>1. \E k \in DOMAIN s : s[k] = r[m] /\ k = (IF m < i THEN m ELSE m + 1)
    BY <1>1, <1>7, <1>8
  <2>2. \E k \in DOMAIN s : s[k] = r[n] /\ k = (IF n < i THEN n ELSE n + 1)
    BY <1>1, <1>7, <1>8
  <2> QED
    BY <1>1, <1>7, <1>9, <2>1, <2>2 DEF Distinct
<1>10. ASSUME NEW m \in DOMAIN r PROVE \E k \in DOMAIN s : s[k] = r[m] /\ s[k] # s[i]
  <2>1. \E k \in DOMAIN s : s[k] = r[m] /\ k # i
    <3>1. (IF m < i THEN m ELSE m + 1) \in DOMAIN s \ {i}
      BY <1>1, <1>7
    <3> QED
      BY <1>7, <1>8, <3>1
  <2> QED
    BY <2>1 DEF Distinct
<1>11. ASSUME NEW k \in DOMAIN s, k # i PROVE \E m \in DOMAIN r : r[m] = s[k]
  <2>1. CASE k < i
    BY <1>1, <1>7, <1>8, <2>1
  <2>2. CASE k > i
    <3>1. k - 1 \in DOMAIN r /\ r[k - 1] = s[k]
      BY <1>1, <1>7, <1>8, <2>2
    <3> QED
      BY <3>1
  <2> QED
    BY <1>1, <1>11, <2>1, <2>2
<1>12. Distinct(r)
  BY <1>9 DEF Distinct
<1>13. Elements(r) = Elements(s) \ {s[i]}
  <2>1. ASSUME NEW e \in Elements(r) PROVE e \in Elements(s) \ {s[i]}
    BY <1>10 DEF Elements
  <2>2. ASSUME NEW e \in Elements(s) \ {s[i]} PROVE e \in Elements(r)
    BY <1>11 DEF Elements
  <2> QED
    BY <2>1, <2>2
<1> QED
  BY <1>7, <1>12, <1>13

LEMMA FrameShape ==
  /\ \A f \in Frames : f.id \in Approvals /\ f.type \in {"requested", "resolved"}
  /\ \A a \in Approvals :
       /\ All!Requested(a) \in Frames /\ All!Resolved(a) \in Frames
       /\ All!Requested(a).id = a /\ All!Requested(a).type = "requested"
       /\ All!Resolved(a).id = a /\ All!Resolved(a).type = "resolved"
<1>1. \A f \in Frames : \E a \in Approvals : f = All!Requested(a) \/ f = All!Resolved(a)
  BY DEF Frames
<1>2. \A a \in Approvals : All!Requested(a) \in Frames /\ All!Resolved(a) \in Frames
  BY Zenon DEF Frames
<1>3. \A a : /\ All!Requested(a).id = a /\ All!Requested(a).type = "requested"
            /\ All!Resolved(a).id = a /\ All!Resolved(a).type = "resolved"
  BY DEF All!Requested, All!Resolved
<1> QED
  BY <1>1, <1>2, <1>3

(* A frame more: it is the last one about its approval. *)
LEMMA TellsMore ==
  ASSUME NEW s \in Seq(Frames), NEW f \in Frames
  PROVE  /\ \A a \in Approvals : Tells(Append(s, f), a) <=> Tells(s, a) \/ a = f.id
         /\ \A W : LastAgrees(s, W) =>
              LastAgrees(Append(s, f), IF f.type = "requested" THEN W \cup {f.id} ELSE W \ {f.id})
<1>1. PICK t : t = Append(s, f)
  OBVIOUS
<1>2. /\ t \in Seq(Frames) /\ DOMAIN t = 1..(Len(s) + 1) /\ Len(s) \in Nat /\ t[Len(s) + 1] = f
      /\ DOMAIN s = 1..Len(s) /\ \A i \in 1..Len(s) : t[i] = s[i]
  BY <1>1, Appended
<1>3. \A a \in Approvals : Tells(t, a) <=> Tells(s, a) \/ a = f.id
  BY <1>2 DEF Tells
<1>4. ASSUME NEW W, LastAgrees(s, W)
      PROVE  LastAgrees(t, IF f.type = "requested" THEN W \cup {f.id} ELSE W \ {f.id})
  <2> DEFINE V == IF f.type = "requested" THEN W \cup {f.id} ELSE W \ {f.id}
  <2> SUFFICES ASSUME NEW i \in DOMAIN t, \A j \in DOMAIN t : j > i => t[j].id # t[i].id
               PROVE  t[i].type = "requested" <=> t[i].id \in V
    BY DEF LastAgrees
  <2>1. CASE i = Len(s) + 1
    BY <1>2, <2>1
  <2>2. CASE i \in 1..Len(s)
    <3>1. t[i] = s[i] /\ f.id # s[i].id
      BY <1>2, <2>2
    <3>2. \A j \in DOMAIN s : j > i => s[j].id # s[i].id
      BY <1>2, <2>2
    <3>3. s[i].type = "requested" <=> s[i].id \in W
      BY <1>2, <1>4, <2>2, <3>2 DEF LastAgrees
    <3> QED
      BY <3>1, <3>3
  <2> QED
    BY <1>2, <2>1, <2>2
<1> QED
  BY <1>1, <1>3, <1>4

(* A frame less: the others still tell of theirs, and if none of them is about *)
(* the same approval it was the last word on it.                               *)
LEMMA TellsLess ==
  ASSUME NEW s \in Seq(Frames), s # <<>>
  PROVE  /\ \A a \in Approvals : Tells(s, a) <=> Tells(Tail(s), a) \/ a = Head(s).id
         /\ \A W : LastAgrees(s, W) =>
              /\ LastAgrees(Tail(s), W)
              /\ ~Tells(Tail(s), Head(s).id) => (Head(s).type = "requested" <=> Head(s).id \in W)
<1>1. PICK t : t = Tail(s)
  OBVIOUS
<1>2. /\ t \in Seq(Frames) /\ Len(s) \in Nat /\ Len(s) >= 1 /\ DOMAIN t = 1..(Len(s) - 1)
      /\ DOMAIN s = 1..Len(s) /\ Head(s) = s[1] /\ \A i \in 1..(Len(s) - 1) : t[i] = s[i + 1]
  BY <1>1, Shortened
<1>3. ASSUME NEW a \in Approvals PROVE Tells(s, a) <=> Tells(t, a) \/ a = Head(s).id
  <2>1. ASSUME Tells(s, a), a # Head(s).id PROVE Tells(t, a)
    <3>1. PICK i \in DOMAIN s : s[i].id = a
      BY <2>1 DEF Tells
    <3>2. i - 1 \in DOMAIN t /\ t[i - 1] = s[i]
      BY <1>2, <2>1, <3>1
    <3> QED
      BY <3>1, <3>2 DEF Tells
  <2>2. ASSUME Tells(t, a) PROVE Tells(s, a)
    <3>1. PICK i \in DOMAIN t : t[i].id = a
      BY <2>2 DEF Tells
    <3>2. i + 1 \in DOMAIN s /\ t[i] = s[i + 1]
      BY <1>2, <3>1
    <3> QED
      BY <3>1, <3>2 DEF Tells
  <2>3. a = Head(s).id => Tells(s, a)
    BY <1>2 DEF Tells
  <2> QED
    BY <2>1, <2>2, <2>3
<1>4. ASSUME NEW W, LastAgrees(s, W) PROVE LastAgrees(t, W)
  <2> SUFFICES ASSUME NEW i \in DOMAIN t, \A j \in DOMAIN t : j > i => t[j].id # t[i].id
               PROVE  t[i].type = "requested" <=> t[i].id \in W
    BY DEF LastAgrees
  <2>1. i + 1 \in DOMAIN s /\ t[i] = s[i + 1]
    BY <1>2
  <2>2. ASSUME NEW j \in DOMAIN s, j > i + 1 PROVE s[j].id # s[i + 1].id
    <3>1. j - 1 \in DOMAIN t /\ t[j - 1] = s[j] /\ j - 1 > i
      BY <1>2, <2>2
    <3> QED
      BY <2>1, <3>1
  <2> QED
    BY <1>4, <2>1, <2>2 DEF LastAgrees
<1>5. ASSUME NEW W, LastAgrees(s, W), ~Tells(t, Head(s).id)
      PROVE  Head(s).type = "requested" <=> Head(s).id \in W
  <2>1. ASSUME NEW j \in DOMAIN s, j > 1 PROVE s[j].id # s[1].id
    <3>1. j - 1 \in DOMAIN t /\ t[j - 1] = s[j]
      BY <1>2, <2>1
    <3> QED
      BY <1>2, <1>5, <3>1 DEF Tells
  <2> QED
    BY <1>2, <1>5, <2>1 DEF LastAgrees
<1> QED
  BY <1>1, <1>3, <1>4, <1>5

(* What a stream starts with tells of everything that waits. *)
LEMMA TellsAll ==
  ASSUME All!Waiting \subseteq Approvals, \E n \in Nat : DOMAIN pending = 1..n,
         \A i, j \in DOMAIN pending : pending[i] = pending[j] => i = j
  PROVE  /\ All!Replay \in Seq(Frames) /\ LastAgrees(All!Replay, All!Waiting)
         /\ \A a \in Approvals : Tells(All!Replay, a) <=> a \in All!Waiting
<1>1. PICK t : t = All!Replay
  OBVIOUS
<1>2. /\ DOMAIN t = DOMAIN pending
      /\ \A i \in DOMAIN t : /\ pending[i] \in All!Waiting /\ pending[i] \in Approvals
                             /\ t[i] = All!Requested(pending[i])
  BY <1>1 DEF All!Replay, All!Waiting
<1>3. \A i \in DOMAIN t : t[i] \in Frames /\ t[i].id = pending[i] /\ t[i].type = "requested"
  BY <1>2, FrameShape
<1>4. t \in Seq(Frames)
  <2>1. PICK n \in Nat : DOMAIN t = 1..n
    BY <1>2
  <2>2. t = [i \in 1..n |-> t[i]]
    BY <1>1, <2>1, <1>2 DEF All!Replay
  <2> QED
    BY <1>3, <2>1, <2>2
<1>5. LastAgrees(t, All!Waiting)
  BY <1>2, <1>3 DEF LastAgrees
<1>6. \A a \in Approvals : Tells(t, a) <=> a \in All!Waiting
  BY <1>2, <1>3 DEF Tells, All!Waiting
<1> QED
  BY <1>1, <1>4, <1>5, <1>6

LEMMA Asked ==
  ASSUME Wired, NEW a \in Approvals, All!Ask(a)
  PROVE  /\ pending' \in Seq(Approvals)
         /\ \A i, j \in DOMAIN pending' : pending'[i] = pending'[j] => i = j
         /\ All!Waiting' = All!Waiting \cup {a} /\ a \notin All!Waiting
<1>1. pending \in Seq(Approvals) /\ a \notin All!Waiting /\ pending' = Append(pending, a)
      /\ \A i, j \in DOMAIN pending : pending[i] = pending[j] => i = j
  BY DEF Wired, All!TypeOK, All!Ask
<1>2. /\ pending' \in Seq(Approvals) /\ Len(pending) \in Nat
      /\ DOMAIN pending = 1..Len(pending) /\ DOMAIN pending' = 1..(Len(pending) + 1)
      /\ pending'[Len(pending) + 1] = a /\ \A i \in 1..Len(pending) : pending'[i] = pending[i]
  BY <1>1, Appended
<1>3. \A i \in DOMAIN pending : pending[i] \in All!Waiting
  BY DEF All!Waiting
<1>4. \A i, j \in DOMAIN pending' : pending'[i] = pending'[j] => i = j
  BY <1>1, <1>2, <1>3
<1>5. {pending'[i] : i \in DOMAIN pending'} = {pending[i] : i \in DOMAIN pending} \cup {a}
  BY <1>2
<1> QED
  BY <1>1, <1>2, <1>4, <1>5 DEF All!Waiting

LEMMA Answered ==
  ASSUME Wired, NEW a \in Approvals, All!Settle(a)
  PROVE  /\ pending' \in Seq(Approvals)
         /\ \A i, j \in DOMAIN pending' : pending'[i] = pending'[j] => i = j
         /\ All!Waiting' = All!Waiting \ {a}
<1>1. PICK i \in DOMAIN pending : pending[i] = a /\ pending' = All!RemoveAt(pending, i)
  BY DEF All!Settle
<1>2. PICK s, r : s = pending /\ r = pending'
  OBVIOUS
<1>3. s \in Seq(Approvals) /\ i \in DOMAIN s /\ Distinct(s) /\ r = All!RemoveAt(s, i) /\ s[i] = a
  BY <1>1, <1>2 DEF Wired, All!TypeOK, Distinct
<1>4. r \in Seq(Approvals) /\ Distinct(r) /\ Elements(r) = Elements(s) \ {a}
  BY <1>3, Removed
<1> QED
  BY <1>2, <1>4 DEF All!Waiting, Elements, Distinct

(* A frame is sent when a stream is there, and tells of what then waits. *)
LEMMA Sent ==
  ASSUME Wired, NEW f \in Frames, All!Broadcast(f),
         All!Waiting' = IF f.type = "requested" THEN All!Waiting \cup {f.id}
                                                ELSE All!Waiting \ {f.id}
  PROVE  /\ stream' \in Seq(Frames) /\ (~mux => stream' = <<>>)
         /\ mux => /\ LastAgrees(stream', All!Waiting')
                   /\ \A b \in Approvals : Tells(stream', b) <=> Tells(stream, b) \/ b = f.id
<1>1. stream \in Seq(Frames)
  BY DEF Wired, All!TypeOK, Frames
<1>2. CASE mux
  <2>1. stream' = Append(stream, f)
    BY <1>2 DEF All!Broadcast
  <2> QED
    BY <1>1, <1>2, <2>1, TellsMore, Appended DEF Wired
<1>3. CASE ~mux
  BY <1>1, <1>3 DEF All!Broadcast, Wired
<1> QED
  BY <1>2, <1>3 DEF Wired, All!TypeOK

LEMMA Untouched ==
  ASSUME All!Connected \/ All!Lost \/ All!Retry \/ All!Deliver \/ All!Instantiate \/ All!Open
  PROVE  All!Waiting' = All!Waiting /\ fresh' = fresh /\ pending' = pending
BY DEF All!Connected, All!Lost, All!Retry, All!Deliver, All!Instantiate, All!Open, All!host,
   All!Waiting

LEMMA WiredStep ==
  ASSUME Wired, [All!Next]_replayVars
  PROVE  Wired'
<1> USE ReplayBounds DEF Early!PromptReplayAssumption
<1>0. stream \in Seq(Frames)
  BY DEF Wired, All!TypeOK, Frames
<1>1. ASSUME NEW a \in Approvals, All!Ask(a) PROVE Wired'
  <2>1. All!Requested(a) \in Frames /\ All!Requested(a).type = "requested" /\ All!Requested(a).id = a
    BY FrameShape
  <2>2. All!Waiting' = All!Waiting \cup {a}
    BY <1>1, Asked
  <2>3. /\ stream' \in Seq(Frames) /\ (~mux => stream' = <<>>)
        /\ mux => LastAgrees(stream', All!Waiting')
    BY <1>1, <2>1, <2>2, Sent DEF All!Ask
  <2> QED
    BY <1>1, <2>2, <2>3, Asked DEF All!Ask, Wired, All!TypeOK, Frames, All!loop, All!client
<1>2. ASSUME NEW a \in Approvals, All!Settle(a) PROVE Wired'
  <2>1. All!Resolved(a) \in Frames /\ All!Resolved(a).type = "resolved" /\ All!Resolved(a).id = a
    BY FrameShape
  <2>2. All!Waiting' = All!Waiting \ {a}
    BY <1>2, Answered
  <2>3. /\ stream' \in Seq(Frames) /\ (~mux => stream' = <<>>)
        /\ mux => LastAgrees(stream', All!Waiting')
    BY <1>2, <2>1, <2>2, Sent DEF All!Settle
  <2> QED
    BY <1>2, <2>2, <2>3, Answered DEF All!Settle, Wired, All!TypeOK, Frames, All!loop, All!client
<1>3. CASE All!MuxOpens
  <2>1. /\ All!Replay \in Seq(Frames) /\ LastAgrees(All!Replay, All!Waiting)
    BY TellsAll DEF Wired, All!TypeOK
  <2>2. All!Waiting' = All!Waiting
    BY <1>3 DEF All!MuxOpens, All!host, All!Waiting
  <2> QED
    BY <1>3, <2>1, <2>2 DEF All!MuxOpens, Wired, All!TypeOK, Frames, All!host, All!loop, All!client
<1>4. CASE All!Deliver
  <2>1. PICK f \in Frames : f = Head(stream)
    BY <1>0, <1>4, Shortened DEF All!Deliver
  <2>2. Tail(stream) \in Seq(Frames)
        /\ \A W : LastAgrees(stream, W) => LastAgrees(Tail(stream), W)
    BY <1>0, <1>4, TellsLess DEF All!Deliver
  <2>3. All!Waiting' = All!Waiting
    BY <1>4 DEF All!Deliver, All!host, All!Waiting
  <2>4. f.id \in Approvals
    BY FrameShape
  <2> QED
    BY <1>4, <2>1, <2>2, <2>3, <2>4 DEF All!Deliver, Wired, All!TypeOK, Frames, All!host
<1>5. CASE All!Connected
  BY <1>5, Untouched DEF All!Connected, All!wire, All!Resync, Wired, All!TypeOK
<1>6. CASE All!Lost
  <2>1. /\ linkState' = "backoff" /\ state' = "reconnecting" /\ heard' = FALSE /\ mux' = FALSE
        /\ stream' = <<>> /\ gen' = gen /\ instance' = instance /\ shown' = shown
        /\ \/ dots' = dots /\ buffer' = buffer
           \/ dots' = {} /\ buffer' = {}
    BY <1>6 DEF All!Lost, All!Disconnected
  <2>2. stream' \in Seq(Frames)
    BY <2>1
  <2>3. All!TypeOK'
    BY <1>6, <2>1, <2>2, Untouched DEF Wired, All!TypeOK, Frames
  <2> QED
    BY <1>6, <2>1, <2>3, Untouched DEF Wired
<1>7. CASE All!Retry
  BY <1>7, Untouched DEF All!Retry, All!wire, All!client, Wired, All!TypeOK
<1>8. CASE All!Instantiate
  BY <1>8, Untouched DEF All!Instantiate, All!Kept, All!wire, All!loop, Wired, All!TypeOK
<1>9. CASE All!Open
  BY <1>9, Untouched DEF All!Open, All!wire, All!loop, Wired, All!TypeOK
<1>10. CASE UNCHANGED replayVars
  BY <1>10 DEF replayVars, Wired, All!TypeOK, All!Waiting
<1> QED
  BY <1>1, <1>2, <1>3, <1>4, <1>5, <1>6, <1>7, <1>8, <1>9, <1>10 DEF All!Next

(* A frame is handled: the set it is meant for follows it. *)
LEMMA Handled ==
  ASSUME Wired, All!Deliver
  PROVE  \E f \in Frames :
           /\ f.id \in Approvals /\ f = Head(stream) /\ mux /\ linkState # "backoff"
           /\ stream \in Seq(Frames) /\ stream # <<>> /\ stream' = Tail(stream)
           /\ All!Waiting' = All!Waiting /\ UNCHANGED <<mux, linkState, instance>>
           /\ heard' = (heard \/ linkState = "connecting")
           /\ \A a \in Approvals : Tells(stream, a) <=> Tells(stream', a) \/ a = f.id
           /\ ~Tells(stream', f.id) => (f.type = "requested" <=> f.id \in All!Waiting)
           /\ LET after(set) == IF f.type = "requested" THEN set \cup {f.id} ELSE set \ {f.id}
              IN  /\ dots' = after(dots)
                  /\ instance = "none" => buffer' = after(buffer)
                  /\ instance # "none" => shown' = after(shown)
<1>1. stream \in Seq(Frames) /\ stream # <<>> /\ mux /\ LastAgrees(stream, All!Waiting)
  BY DEF Wired, All!TypeOK, Frames, All!Deliver
<1>2. PICK f \in Frames : f = Head(stream)
  BY <1>1, Shortened
<1>3. f.id \in Approvals
  BY FrameShape
<1>4. /\ \A a \in Approvals : Tells(stream, a) <=> Tells(Tail(stream), a) \/ a = f.id
      /\ ~Tells(Tail(stream), f.id) => (f.type = "requested" <=> f.id \in All!Waiting)
  BY <1>1, <1>2, TellsLess
<1>5. All!Waiting' = All!Waiting
  BY Untouched
<1> QED
  BY <1>1, <1>2, <1>3, <1>4, <1>5 DEF All!Deliver, Wired

(* An approval is asked for or settled: the client hears of it by a frame. *)
LEMMA Changed ==
  ASSUME Wired, NEW a \in Approvals, All!Ask(a) \/ All!Settle(a)
  PROVE  /\ UNCHANGED <<mux, linkState, heard, dots, buffer, instance, shown>>
         /\ \A b \in Approvals : b # a => (b \in All!Waiting' <=> b \in All!Waiting)
         /\ mux => \A b \in Approvals : Tells(stream', b) <=> Tells(stream, b) \/ b = a
         /\ All!Waiting' \subseteq Approvals
<1>1. CASE All!Ask(a)
  <2>1. All!Requested(a) \in Frames /\ All!Requested(a).type = "requested" /\ All!Requested(a).id = a
    BY FrameShape
  <2>2. All!Waiting' = All!Waiting \cup {a}
    BY <1>1, Asked
  <2>3. mux => \A b \in Approvals : Tells(stream', b) <=> Tells(stream, b) \/ b = a
    BY <1>1, <2>1, <2>2, Sent DEF All!Ask
  <2> QED
    BY <1>1, <2>2, <2>3 DEF All!Ask, All!loop, All!client, Wired, All!TypeOK
<1>2. CASE All!Settle(a)
  <2>1. All!Resolved(a) \in Frames /\ All!Resolved(a).type = "resolved" /\ All!Resolved(a).id = a
    BY FrameShape
  <2>2. All!Waiting' = All!Waiting \ {a}
    BY <1>2, Answered
  <2>3. mux => \A b \in Approvals : Tells(stream', b) <=> Tells(stream, b) \/ b = a
    BY <1>2, <2>1, <2>2, Sent DEF All!Settle
  <2> QED
    BY <1>2, <2>2, <2>3 DEF All!Settle, All!loop, All!client, Wired, All!TypeOK
<1> QED
  BY <1>1, <1>2

(* The stream opens with everything that waits. *)
LEMMA Opens ==
  ASSUME Wired, All!MuxOpens
  PROVE  /\ ~mux /\ mux' = TRUE /\ All!Waiting' = All!Waiting
         /\ \A a \in Approvals : Tells(stream', a) <=> a \in All!Waiting
         /\ UNCHANGED <<linkState, heard, dots, buffer, instance, shown>>
<1>1. \A a \in Approvals : Tells(All!Replay, a) <=> a \in All!Waiting
  BY TellsAll DEF Wired, All!TypeOK
<1>2. All!Waiting' = All!Waiting
  BY DEF All!MuxOpens, All!host, All!Waiting
<1> QED
  BY <1>1, <1>2 DEF All!MuxOpens, All!loop, All!client

LEMMA ToldStep ==
  ASSUME Wired, Told, [All!Next]_replayVars,
         All!Lost => ~(linkState = "connecting" /\ heard)
  PROVE  Told'
<1>1. ASSUME NEW a \in Approvals, All!Ask(a) \/ All!Settle(a) PROVE Told'
  BY <1>1, Changed DEF Told
<1>2. CASE All!MuxOpens
  BY <1>2, Opens DEF Told
<1>3. CASE All!Deliver
  <2>1. PICK f \in Frames :
           /\ f.id \in Approvals /\ mux /\ linkState # "backoff"
           /\ All!Waiting' = All!Waiting /\ UNCHANGED <<mux, linkState, instance>>
           /\ heard' = (heard \/ linkState = "connecting")
           /\ \A a \in Approvals : Tells(stream, a) <=> Tells(stream', a) \/ a = f.id
           /\ ~Tells(stream', f.id) => (f.type = "requested" <=> f.id \in All!Waiting)
           /\ dots' = IF f.type = "requested" THEN dots \cup {f.id} ELSE dots \ {f.id}
    BY <1>3, Handled
  <2>2. mux' = mux /\ linkState' = linkState /\ linkState \in {"connecting", "connected"}
        /\ (linkState # "connected" => heard')
    BY <2>1 DEF Wired, All!TypeOK
  <2>3. ASSUME NEW a \in Approvals, ~Tells(stream', a) PROVE a \in dots' <=> a \in All!Waiting'
    <3>1. CASE a = f.id
      BY <2>1, <2>3, <3>1
    <3>2. CASE a # f.id
      BY <2>1, <2>3, <3>2 DEF Told
    <3> QED
      BY <3>1, <3>2
  <2> QED
    BY <2>1, <2>2, <2>3 DEF Told
<1>4. CASE All!Lost
  <2>1. linkState \in {"connecting", "connected"} /\ mux' = FALSE /\ heard' = FALSE
    BY <1>4 DEF All!Lost, Wired, All!TypeOK
  <2>2. dots' = {}
    BY <1>4, <2>1 DEF All!Lost, All!Disconnected, Wired, Told
  <2> QED
    BY <2>1, <2>2 DEF Told
<1>5. ASSUME All!Connected \/ All!Retry \/ All!Instantiate \/ All!Open
      PROVE  Told'
  <2>1. All!Waiting' = All!Waiting
    BY <1>5, Untouched
  <2>2. UNCHANGED <<mux, stream, heard, dots>> /\ (linkState' = "connected" \/ linkState # "connected")
        /\ (All!Instantiate \/ All!Open => linkState' = linkState)
    BY <1>5 DEF All!Connected, All!Retry, All!Instantiate, All!Open, All!wire, All!loop, All!client
  <2> QED
    BY <2>1, <2>2 DEF Told
<1>6. CASE UNCHANGED replayVars
  BY <1>6 DEF replayVars, Told, All!Waiting
<1> QED
  BY <1>1, <1>2, <1>3, <1>4, <1>5, <1>6 DEF All!Next

LEMMA FreshStep ==
  ASSUME Wired, Fresh, [All!Next]_replayVars, All!Instantiate => instance' = "opened"
  PROVE  Fresh'
<1>1. ASSUME NEW a \in Approvals, All!Ask(a) \/ All!Settle(a) PROVE Fresh'
  BY <1>1, Changed DEF Fresh
<1>2. CASE All!MuxOpens
  BY <1>2, Opens DEF Fresh
<1>3. CASE All!Deliver
  <2>1. PICK f \in Frames :
           /\ UNCHANGED <<linkState, instance>>
           /\ dots' = IF f.type = "requested" THEN dots \cup {f.id} ELSE dots \ {f.id}
           /\ instance # "none" =>
                shown' = IF f.type = "requested" THEN shown \cup {f.id} ELSE shown \ {f.id}
    BY <1>3, Handled
  <2> QED
    BY <2>1 DEF Fresh
<1>4. CASE All!Connected
  BY <1>4 DEF All!Connected, All!Resync, Fresh
<1>5. CASE All!Lost
  BY <1>5 DEF All!Lost, Fresh
<1>6. CASE All!Retry
  BY <1>6 DEF All!Retry, All!client, Fresh
<1>7. CASE All!Instantiate
  BY <1>7 DEF All!Instantiate, All!loop, Fresh, Wired
<1>8. CASE All!Open
  BY <1>8 DEF All!Open, Fresh
<1>9. CASE UNCHANGED replayVars
  BY <1>9 DEF replayVars, Fresh
<1> QED
  BY <1>1, <1>2, <1>3, <1>4, <1>5, <1>6, <1>7, <1>8, <1>9 DEF All!Next

LEMMA ArrivingStep ==
  ASSUME Wired, Arriving, [All!Next]_replayVars, All!Connected => ~heard
  PROVE  Arriving'
<1>1. ASSUME NEW a \in Approvals, All!Ask(a) \/ All!Settle(a) PROVE Arriving'
  <2>1. /\ UNCHANGED <<mux, linkState, heard, buffer, instance, shown>>
        /\ All!Waiting' \subseteq Approvals
        /\ \A b \in Approvals : b # a => (b \in All!Waiting' <=> b \in All!Waiting)
        /\ mux => \A b \in Approvals : Tells(stream', b) <=> Tells(stream, b) \/ b = a
    BY <1>1, Changed
  <2>2. ASSUME mux, NEW b \in All!Waiting'
        PROVE  /\ Tells(stream', b) \/ b \in (IF instance = "none" THEN buffer ELSE shown)
               /\ linkState = "connecting" /\ ~heard => Tells(stream', b)
    <3>1. CASE b = a
      BY <2>1, <2>2, <3>1
    <3>2. CASE b # a
      BY <2>1, <2>2, <3>2 DEF Arriving
    <3> QED
      BY <3>1, <3>2
  <2> QED
    BY <2>1, <2>2 DEF Arriving
<1>2. CASE All!MuxOpens
  BY <1>2, Opens DEF Arriving, Wired, All!TypeOK
<1>3. CASE All!Deliver
  <2>1. PICK f \in Frames :
           /\ f.id \in Approvals /\ mux
           /\ All!Waiting' = All!Waiting /\ UNCHANGED <<mux, linkState, instance>>
           /\ heard' = (heard \/ linkState = "connecting")
           /\ \A a \in Approvals : Tells(stream, a) <=> Tells(stream', a) \/ a = f.id
           /\ ~Tells(stream', f.id) => (f.type = "requested" <=> f.id \in All!Waiting)
           /\ instance = "none" =>
                buffer' = IF f.type = "requested" THEN buffer \cup {f.id} ELSE buffer \ {f.id}
           /\ instance # "none" =>
                shown' = IF f.type = "requested" THEN shown \cup {f.id} ELSE shown \ {f.id}
    BY <1>3, Handled
  <2>2. SUFFICES ASSUME NEW a \in All!Waiting
                 PROVE  /\ Tells(stream', a) \/ a \in (IF instance = "none" THEN buffer' ELSE shown')
                        /\ linkState = "connecting" => heard'
    BY <2>1 DEF Arriving
  <2>3. a \in Approvals
    BY DEF Wired, All!TypeOK
  <2>4. CASE a = f.id
    BY <2>1, <2>4
  <2>5. CASE a # f.id
    BY <2>1, <2>3, <2>5 DEF Arriving
  <2> QED
    BY <2>4, <2>5
<1>4. CASE All!Connected
  <2>1. All!Waiting' = All!Waiting
    BY <1>4, Untouched
  <2>2. mux => \A a \in All!Waiting : Tells(stream, a)
    BY <1>4 DEF All!Connected, Arriving
  <2> QED
    BY <1>4, <2>1, <2>2 DEF All!Connected, All!wire, Arriving
<1>5. CASE All!Lost
  BY <1>5 DEF All!Lost, Arriving
<1>6. CASE All!Retry
  <2>1. ~mux /\ mux' = mux
    BY <1>6 DEF All!Retry, All!wire, Wired
  <2> QED
    BY <2>1 DEF Arriving
<1>7. CASE All!Instantiate
  <2>1. All!Waiting' = All!Waiting
    BY <1>7, Untouched
  <2> QED
    BY <1>7, <2>1 DEF All!Instantiate, All!wire, All!loop, Arriving, Wired
<1>8. CASE All!Open
  <2>1. All!Waiting' = All!Waiting
    BY <1>8, Untouched
  <2> QED
    BY <1>8, <2>1 DEF All!Open, All!wire, All!loop, Arriving
<1>9. CASE UNCHANGED replayVars
  BY <1>9 DEF replayVars, Arriving, All!Waiting
<1> QED
  BY <1>1, <1>2, <1>3, <1>4, <1>5, <1>6, <1>7, <1>8, <1>9 DEF All!Next

(* What each set of features leaves of the steps. *)
LEMMA EarlySteps ==
  ASSUME [Early!Next]_replayVars
  PROVE  /\ [All!Next]_replayVars
         /\ All!Lost => ~(linkState = "connecting" /\ heard)
         /\ All!Instantiate => instance' = "opened"
<1>1. ASSUME NEW a \in Approvals, Early!Ask(a)
      PROVE  All!Ask(a) /\ UNCHANGED <<linkState, instance>>
  BY <1>1 DEF Early!Ask, All!Ask, Early!Broadcast, All!Broadcast, Early!Requested,
     All!Requested, Early!loop, All!loop, Early!client, All!client
<1>2. ASSUME NEW a \in Approvals, Early!Settle(a)
      PROVE  All!Settle(a) /\ UNCHANGED <<linkState, instance>>
  BY <1>2 DEF Early!Settle, All!Settle, Early!RemoveAt, All!RemoveAt, Early!Broadcast,
     All!Broadcast, Early!Resolved, All!Resolved, Early!loop, All!loop, Early!client, All!client
<1>3. ASSUME Early!MuxOpens
      PROVE  All!MuxOpens /\ UNCHANGED <<linkState, instance>>
  BY <1>3 DEF Early!MuxOpens, All!MuxOpens, Early!Replay, All!Replay, Early!Requested,
     All!Requested, Early!host, All!host, Early!loop, All!loop, Early!client, All!client
<1>4. ASSUME Early!Deliver
      PROVE  All!Deliver /\ UNCHANGED <<linkState, instance>>
  BY <1>4 DEF Early!Deliver, All!Deliver, Early!host, All!host
<1>5. ASSUME Early!Connected
      PROVE  /\ All!Connected /\ linkState' = "connected" /\ instance' = instance
             /\ heard => "early" \in {"early"}
  BY <1>5 DEF Early!Connected, All!Connected, Early!Resync, All!Resync, Early!host, All!host,
     Early!wire, All!wire
<1>6. ASSUME Early!Lost
      PROVE  /\ All!Lost /\ instance' = instance
             /\ linkState = "connecting" /\ heard => "failed" \in {"early"}
  BY <1>6 DEF Early!Lost, All!Lost, Early!Disconnected, All!Disconnected, Early!host, All!host
<1>7. ASSUME Early!Retry
      PROVE  All!Retry /\ linkState = "backoff" /\ linkState' = "connecting" /\ instance' = instance
  BY <1>7 DEF Early!Retry, All!Retry, Early!host, All!host, Early!wire, All!wire, Early!client,
     All!client
<1>8. ASSUME Early!Instantiate
      PROVE  /\ All!Instantiate /\ linkState' = linkState
             /\ instance' \in {"opened"} \cup ({"early"} \cap {"cold"})
  BY <1>8 DEF Early!Instantiate, All!Instantiate, Early!Kept, All!Kept, Early!host, All!host,
     Early!wire, All!wire, Early!loop, All!loop
<1>9. ASSUME Early!Open
      PROVE  All!Open /\ linkState' = linkState /\ instance = "cold"
  BY <1>9 DEF Early!Open, All!Open, Early!host, All!host, Early!wire, All!wire, Early!loop,
     All!loop
<1>10. CASE UNCHANGED replayVars
  BY <1>10 DEF replayVars, All!Lost, All!Connected, All!Instantiate
<1> QED
  BY <1>1, <1>2, <1>3, <1>4, <1>5, <1>6, <1>7, <1>8, <1>9, <1>10 DEF Early!Next, All!Next, All!Lost,
     All!Connected, All!Instantiate

LEMMA OpenedSteps ==
  ASSUME [Opened!Next]_replayVars
  PROVE  /\ [All!Next]_replayVars
         /\ All!Lost => ~(linkState = "connecting" /\ heard)
<1>1. ASSUME NEW a \in Approvals, Opened!Ask(a)
      PROVE  All!Ask(a) /\ UNCHANGED <<linkState, instance>>
  BY <1>1 DEF Opened!Ask, All!Ask, Opened!Broadcast, All!Broadcast, Opened!Requested,
     All!Requested, Opened!loop, All!loop, Opened!client, All!client
<1>2. ASSUME NEW a \in Approvals, Opened!Settle(a)
      PROVE  All!Settle(a) /\ UNCHANGED <<linkState, instance>>
  BY <1>2 DEF Opened!Settle, All!Settle, Opened!RemoveAt, All!RemoveAt, Opened!Broadcast,
     All!Broadcast, Opened!Resolved, All!Resolved, Opened!loop, All!loop, Opened!client,
     All!client
<1>3. ASSUME Opened!MuxOpens
      PROVE  All!MuxOpens /\ UNCHANGED <<linkState, instance>>
  BY <1>3 DEF Opened!MuxOpens, All!MuxOpens, Opened!Replay, All!Replay, Opened!Requested,
     All!Requested, Opened!host, All!host, Opened!loop, All!loop, Opened!client, All!client
<1>4. ASSUME Opened!Deliver
      PROVE  All!Deliver /\ UNCHANGED <<linkState, instance>>
  BY <1>4 DEF Opened!Deliver, All!Deliver, Opened!host, All!host
<1>5. ASSUME Opened!Connected
      PROVE  /\ All!Connected /\ linkState' = "connected" /\ instance' = instance
             /\ heard => "early" \in {"early", "cold"}
  BY <1>5 DEF Opened!Connected, All!Connected, Opened!Resync, All!Resync, Opened!host, All!host,
     Opened!wire, All!wire
<1>6. ASSUME Opened!Lost
      PROVE  /\ All!Lost /\ instance' = instance
             /\ linkState = "connecting" /\ heard => "failed" \in {"early", "cold"}
  BY <1>6 DEF Opened!Lost, All!Lost, Opened!Disconnected, All!Disconnected, Opened!host,
     All!host
<1>7. ASSUME Opened!Retry
      PROVE  All!Retry /\ linkState = "backoff" /\ linkState' = "connecting" /\ instance' = instance
  BY <1>7 DEF Opened!Retry, All!Retry, Opened!host, All!host, Opened!wire, All!wire,
     Opened!client, All!client
<1>8. ASSUME Opened!Instantiate
      PROVE  /\ All!Instantiate /\ linkState' = linkState
             /\ instance' \in {"opened"} \cup ({"early", "cold"} \cap {"cold"})
  BY <1>8 DEF Opened!Instantiate, All!Instantiate, Opened!Kept, All!Kept, Opened!host, All!host,
     Opened!wire, All!wire, Opened!loop, All!loop
<1>9. ASSUME Opened!Open
      PROVE  All!Open /\ linkState' = linkState /\ instance = "cold"
  BY <1>9 DEF Opened!Open, All!Open, Opened!host, All!host, Opened!wire, All!wire, Opened!loop,
     All!loop
<1>10. CASE UNCHANGED replayVars
  BY <1>10 DEF replayVars, All!Lost, All!Connected, All!Instantiate
<1> QED
  BY <1>1, <1>2, <1>3, <1>4, <1>5, <1>6, <1>7, <1>8, <1>9, <1>10 DEF Opened!Next, All!Next, All!Lost,
     All!Connected, All!Instantiate

LEMMA OrderedSteps ==
  ASSUME [Ordered!Next]_replayVars
  PROVE  /\ [All!Next]_replayVars
         /\ All!Connected => ~heard
<1>1. ASSUME NEW a \in Approvals, Ordered!Ask(a)
      PROVE  All!Ask(a) /\ UNCHANGED <<linkState, instance>>
  BY <1>1 DEF Ordered!Ask, All!Ask, Ordered!Broadcast, All!Broadcast, Ordered!Requested,
     All!Requested, Ordered!loop, All!loop, Ordered!client, All!client
<1>2. ASSUME NEW a \in Approvals, Ordered!Settle(a)
      PROVE  All!Settle(a) /\ UNCHANGED <<linkState, instance>>
  BY <1>2 DEF Ordered!Settle, All!Settle, Ordered!RemoveAt, All!RemoveAt, Ordered!Broadcast,
     All!Broadcast, Ordered!Resolved, All!Resolved, Ordered!loop, All!loop, Ordered!client,
     All!client
<1>3. ASSUME Ordered!MuxOpens
      PROVE  All!MuxOpens /\ UNCHANGED <<linkState, instance>>
  BY <1>3 DEF Ordered!MuxOpens, All!MuxOpens, Ordered!Replay, All!Replay, Ordered!Requested,
     All!Requested, Ordered!host, All!host, Ordered!loop, All!loop, Ordered!client, All!client
<1>4. ASSUME Ordered!Deliver
      PROVE  All!Deliver /\ UNCHANGED <<linkState, instance>>
  BY <1>4 DEF Ordered!Deliver, All!Deliver, Ordered!host, All!host
<1>5. ASSUME Ordered!Connected
      PROVE  /\ All!Connected /\ linkState' = "connected" /\ instance' = instance
             /\ heard => "early" \in {"failed", "cold"}
  BY <1>5 DEF Ordered!Connected, All!Connected, Ordered!Resync, All!Resync, Ordered!host,
     All!host, Ordered!wire, All!wire
<1>6. ASSUME Ordered!Lost
      PROVE  /\ All!Lost /\ instance' = instance
             /\ linkState = "connecting" /\ heard => "failed" \in {"failed", "cold"}
  BY <1>6 DEF Ordered!Lost, All!Lost, Ordered!Disconnected, All!Disconnected, Ordered!host,
     All!host
<1>7. ASSUME Ordered!Retry
      PROVE  All!Retry /\ linkState = "backoff" /\ linkState' = "connecting" /\ instance' = instance
  BY <1>7 DEF Ordered!Retry, All!Retry, Ordered!host, All!host, Ordered!wire, All!wire,
     Ordered!client, All!client
<1>8. ASSUME Ordered!Instantiate
      PROVE  /\ All!Instantiate /\ linkState' = linkState
             /\ instance' \in {"opened"} \cup ({"failed", "cold"} \cap {"cold"})
  BY <1>8 DEF Ordered!Instantiate, All!Instantiate, Ordered!Kept, All!Kept, Ordered!host,
     All!host, Ordered!wire, All!wire, Ordered!loop, All!loop
<1>9. ASSUME Ordered!Open
      PROVE  All!Open /\ linkState' = linkState /\ instance = "cold"
  BY <1>9 DEF Ordered!Open, All!Open, Ordered!host, All!host, Ordered!wire, All!wire,
     Ordered!loop, All!loop
<1>10. CASE UNCHANGED replayVars
  BY <1>10 DEF replayVars, All!Lost, All!Connected, All!Instantiate
<1> QED
  BY <1>1, <1>2, <1>3, <1>4, <1>5, <1>6, <1>7, <1>8, <1>9, <1>10 DEF Ordered!Next, All!Next, All!Lost,
     All!Connected, All!Instantiate

ReplayInv ==
  /\ part = "early" => Wired /\ Told /\ Fresh
  /\ part = "opened" => Wired /\ Told
  /\ part = "ordered" => Wired /\ Arriving

LEMMA ReplayInit == Early!Init => Wired /\ Told /\ Fresh /\ Arriving
<1> SUFFICES ASSUME Early!Init PROVE Wired /\ Told /\ Fresh /\ Arriving
  OBVIOUS
<1> USE ReplayBounds DEF Early!PromptReplayAssumption, Early!Init
<1>1. All!Waiting = {} /\ pending \in Seq(Approvals) /\ stream \in Seq(Frames)
  BY DEF All!Waiting
<1>2. Wired
  <2>1. gen \in 1 .. MaxGen
    BY DEF Early!Init
  <2>2. \A i, j \in DOMAIN pending : pending[i] = pending[j] => i = j
    BY DEF Early!Init
  <2>3. All!TypeOK
    BY <1>1, <2>1, <2>2 DEF All!TypeOK, Frames
  <2> QED
    BY <1>1, <2>3 DEF Wired
<1> QED
  BY <1>2 DEF Told, Fresh, Arriving

LEMMA ReplayStep == ReplayInv /\ [MCNext]_<<part, vars, replayVars, factoryVars>> => ReplayInv'
<1> SUFFICES ASSUME ReplayInv, [MCNext]_<<part, vars, replayVars, factoryVars>>
             PROVE  ReplayInv'
  OBVIOUS
<1>1. part' = part
  BY DEF MCNext
<1>2. CASE part = "early"
  <2>1. [Early!Next]_replayVars
    BY <1>2 DEF MCNext
  <2> QED
    BY <1>1, <1>2, <2>1, EarlySteps, WiredStep, ToldStep, FreshStep DEF ReplayInv
<1>3. CASE part = "opened"
  <2>1. [Opened!Next]_replayVars
    BY <1>3 DEF MCNext
  <2> QED
    BY <1>1, <1>3, <2>1, OpenedSteps, WiredStep, ToldStep DEF ReplayInv
<1>4. CASE part = "ordered"
  <2>1. [Ordered!Next]_replayVars
    BY <1>4 DEF MCNext
  <2> QED
    BY <1>1, <1>4, <2>1, OrderedSteps, WiredStep, ArrivingStep DEF ReplayInv
<1> QED
  BY <1>1, <1>2, <1>3, <1>4 DEF ReplayInv

LEMMA ReplayInvSafe == ReplayInv => ReplayHolds
<1> SUFFICES ASSUME ReplayInv PROVE ReplayHolds
  OBVIOUS
<1>1. ASSUME Wired
      PROVE  /\ \A a \in Approvals : ~Tells(<<>>, a)
             /\ All!Waiting \subseteq Approvals /\ dots \subseteq Approvals
  BY <1>1 DEF Tells, Wired, All!TypeOK
<1>2. ASSUME part = "early"
      PROVE  Early!TypeOK /\ Early!StatusAgrees /\ Early!NoPhantomPrompt
  <2>1. Wired /\ Told /\ Fresh
    BY <1>2 DEF ReplayInv
  <2>2. Early!Waiting = All!Waiting
    BY DEF Early!Waiting, All!Waiting
  <2>3. Early!TypeOK
    BY <2>1, <2>2 DEF Wired, Early!TypeOK, All!TypeOK, Early!Requested, Early!Resolved,
       All!Requested, All!Resolved
  <2>4. Early!Current => dots = All!Waiting /\ (instance = "none" => buffer = All!Waiting)
    BY <1>1, <2>1 DEF Early!Current, Told, Wired
  <2> QED
    BY <2>1, <2>2, <2>3, <2>4 DEF Early!StatusAgrees, Early!NoPhantomPrompt, Early!Current, Fresh
<1>3. ASSUME part = "opened" PROVE Opened!TypeOK /\ Opened!StatusAgrees
  <2>1. Wired /\ Told
    BY <1>3 DEF ReplayInv
  <2>2. Opened!Waiting = All!Waiting
    BY DEF Opened!Waiting, All!Waiting
  <2>3. Opened!TypeOK
    BY <2>1, <2>2 DEF Wired, Opened!TypeOK, All!TypeOK, Opened!Requested, Opened!Resolved,
       All!Requested, All!Resolved
  <2>4. Opened!Current => dots = All!Waiting /\ (instance = "none" => buffer = All!Waiting)
    BY <1>1, <2>1 DEF Opened!Current, Told, Wired
  <2> QED
    BY <2>2, <2>3, <2>4 DEF Opened!StatusAgrees
<1>4. ASSUME part = "ordered" PROVE Ordered!TypeOK /\ Ordered!NoPromptLost
  <2>1. Wired /\ Arriving
    BY <1>4 DEF ReplayInv
  <2>2. Ordered!Waiting = All!Waiting
    BY DEF Ordered!Waiting, All!Waiting
  <2>3. Ordered!TypeOK
    BY <2>1, <2>2 DEF Wired, Ordered!TypeOK, All!TypeOK, Ordered!Requested, Ordered!Resolved,
       All!Requested, All!Resolved
  <2>4. Ordered!NoPromptLost
    BY <1>1, <2>1, <2>2 DEF Ordered!NoPromptLost, Ordered!Current, Arriving
  <2> QED
    BY <2>3, <2>4
<1> QED
  BY <1>2, <1>3, <1>4 DEF ReplayHolds

(* However often the connection is lost, in any order of frames, handshakes,  *)
(* questions and answers: the session list marks what the host waits for; an  *)
(* opened session shows no prompt settled meanwhile, unless its instance was  *)
(* there before or a handshake failed; and it shows every prompt there is,    *)
(* unless frames overtook a handshake.                                        *)
THEOREM ReplayAlwaysHolds == MCSpec => []ReplayHolds
<1>1. MCInit => ReplayInv
  BY ReplayInit DEF MCInit, ReplayInv
<1> QED
  BY <1>1, ReplayStep, ReplayInvSafe, PTL DEF MCSpec

--------------------------------------------------------------------------------
(* The steps of the three parts *)

(* A recovered MCP connection whose tool names are taken keeps running, for   *)
(* any budget and any number of generations, and no agent is published on an  *)
(* aborted signal, for any number of attempts and owners.                     *)
THEOREM ClientStepsHold == MCSpec => ClientSteps
<1>1. MCInit => Init
  BY DEF MCInit
<1>2. [MCNext]_<<part, vars, replayVars, factoryVars>> => [Next]_vars
  BY DEF MCNext
<1>3. MCSpec => Spec
  BY <1>1, <1>2, PTL DEF MCSpec, Spec
<1>4. MCSpec => ConflictsContained
  BY <1>3, ConflictsStayContained
<1> QED
  BY <1>4, NobodyAborted DEF ClientSteps
================================================================================
