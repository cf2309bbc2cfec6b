------------------------------- MODULE Approvals -------------------------------
(***************************************************************************)
(* How a tool call of one turn asks a person.  The approval service logs   *)
(* the question, lets the answerers decide in a microtask of its own and   *)
(* races them against the call's abort signal; the gateway, the answerer,  *)
(* finds the question it was asked in the log, publishes it and settles it *)
(* by the person's answer, the abort, or its own end.  A call asks for its *)
(* gate and then, once it runs, for wider rights of the sandbox.           *)
(***************************************************************************)
EXTENDS Naturals, Sequences, FiniteSets

CONSTANTS Calls,       \* the tool calls of the turn
          MaxSwitches  \* bound on the changes of the approval policy

(* Assumed by the modules that instantiate this one. *)
ApprovalsAssumption == IsFiniteSet(Calls) /\ MaxSwitches \in Nat

VARIABLES
  log,       \* the audit events of the session, in order
  turn,      \* open or ended
  at,        \* call -> free, asking, settled (not yet logged), over
  asks,      \* call -> how many questions it has asked
  outcome,   \* call -> the outcome of its last question
  queued,    \* questions whose dispatch is a microtask to come
  answers,   \* what the answerers returned, before decide() sees it
  pending,   \* the gateway's entries: the question asked, the id it claimed
  aborted,   \* the calls whose signal is aborted
  gateway,   \* up, deaf (its listener is removed), gone (its registry too)
  policy,    \* ask or never
  switches,  \* changes of the policy so far
  allowed,   \* ids a person allowed
  ran        \* ids that were taken for a grant

audit == <<log, turn>>
service == <<at, asks, outcome, queued, answers>>
people == <<aborted, policy, switches>>
vars == <<audit, service, pending, gateway, people, allowed, ran>>

Outcomes == {"allowed-once", "rejected", "cancelled", "unavailable"}
Ids == Calls \X (1 .. 2)
Asked(id) == [type |-> "asked", id |-> id]
Decided(id) == [type |-> "decided", id |-> id]
Last(c) == <<c, asks[c]>>

Init ==
  /\ log = <<>> /\ turn = "open"
  /\ at = [c \in Calls |-> "free"] /\ asks = [c \in Calls |-> 0]
  /\ outcome = [c \in Calls |-> "unavailable"] /\ queued = {} /\ answers = {}
  /\ pending = {} /\ gateway = "up"
  /\ aborted = {} /\ policy = "ask" /\ switches = 0
  /\ allowed = {} /\ ran = {}

--------------------------------------------------------------------------------
(* Plausible bugs: each is a mutated form of the definition it is named after *)

WithdrawnBug(id) == FALSE                 \* no second look at the signal
SweptBug == answers                       \* the entries go, their promises dangle

--------------------------------------------------------------------------------
(* The approval service *)

(* A question is logged, and refused at once when its call is aborted or the *)
(* policy says so; otherwise the answerers are asked in a later microtask.   *)
Ask(c) ==
  /\ at[c] = "free" /\ asks[c] < 2 /\ turn = "open"
  /\ asks' = [asks EXCEPT ![c] = @ + 1]
  /\ log' = Append(log, Asked(Last(c)'))
  /\ LET refused == c \in aborted \/ policy = "never"
     IN /\ at' = [at EXCEPT ![c] = IF refused THEN "settled" ELSE "asking"]
        /\ queued' = IF refused THEN queued ELSE queued \cup {Last(c)'}
        /\ outcome' = [outcome EXCEPT ![c] = IF c \in aborted THEN "cancelled" ELSE "rejected"]
  /\ UNCHANGED <<turn, answers, pending, gateway, people, allowed, ran>>

(* The question was not settled by an abort yet. *)
Waits(a) == at[a.ask[1]] = "asking" /\ a.ask = Last(a.ask[1])

(* decide() takes what the answerers returned unless the abort came first. *)
Resolve(a) ==
  /\ a \in answers /\ answers' = answers \ {a}
  /\ LET c == a.ask[1]
     IN /\ at' = IF Waits(a) THEN [at EXCEPT ![c] = "settled"] ELSE at
        /\ outcome' = IF Waits(a) THEN [outcome EXCEPT ![c] = a.outcome] ELSE outcome
  /\ UNCHANGED <<audit, asks, queued, pending, gateway, people, allowed, ran>>

(* The pair is completed and the caller reads the outcome: a grant lets the *)
(* call go on, everything else ends it.                                     *)
LogDecision(c) ==
  /\ at[c] = "settled" /\ log' = Append(log, Decided(Last(c)))
  /\ LET goes == outcome[c] = "allowed-once" /\ (asks[c] = 1 => c \notin aborted)
     IN /\ at' = [at EXCEPT ![c] = IF goes THEN "free" ELSE "over"]
        /\ ran' = IF goes THEN ran \cup {Last(c)} ELSE ran
  /\ UNCHANGED <<turn, asks, outcome, queued, answers, pending, gateway, people, allowed>>

(* A call ends without a further question, and the turn with its last call. *)
CallEnds(c) ==
  /\ at[c] = "free" /\ at' = [at EXCEPT ![c] = "over"]
  /\ UNCHANGED <<audit, asks, outcome, queued, answers, pending, gateway, people, allowed, ran>>

TurnEnds ==
  /\ turn = "open" /\ \A c \in Calls : at[c] = "over"
  /\ turn' = "ended"
  /\ UNCHANGED <<log, service, pending, gateway, people, allowed, ran>>

--------------------------------------------------------------------------------
(* The gateway *)

(* The record names the call of the request. *)
SameCall(id, event) == id[1] = event.id[1]

(* The newest question of the log that is undecided, not claimed by another *)
(* entry, and of the same call: 0 when there is none.                       *)
Claim(id) ==
  LET open(i) == /\ log[i].type = "asked" /\ SameCall(id, log[i])
                 /\ \A j \in i .. Len(log) : log[j] # Decided(log[i].id)
                 /\ \A p \in pending : p.id # log[i].id
      found == {i \in DOMAIN log : open(i)}
  IN IF found = {} THEN 0 ELSE CHOOSE i \in found : \A j \in found : j <= i

(* The request was withdrawn before its dispatch. *)
Withdrawn(id) == id[1] \in aborted

(* An outcome outside the vocabulary, or a throw, closes the question. *)
Normal(result) == IF result \in Outcomes THEN result ELSE "unavailable"

Returns(id, result) == answers' = answers \cup {[ask |-> id, outcome |-> Normal(result)]}

(* The microtask of a question reaches the gateway's listener, or falls through *)
(* to the default, or to a listener that throws, when there is none.            *)
Dispatch(id) ==
  /\ id \in queued /\ queued' = queued \ {id}
  /\ IF gateway = "up" /\ ~Withdrawn(id) /\ Claim(id) # 0
       THEN pending' = pending \cup {[ask |-> id, id |-> log[Claim(id)].id]} /\ UNCHANGED answers
       ELSE /\ \E result \in IF gateway = "up" /\ Withdrawn(id)
                              THEN {"cancelled"} ELSE {"unavailable", "rogue"} :
                 Returns(id, result)
            /\ UNCHANGED pending
  /\ UNCHANGED <<audit, at, asks, outcome, gateway, people, allowed, ran>>

(* Entries leave the table. *)
Removed(ids) == pending' = {p \in pending : p.ask \notin ids}

(* A person answers a prompt: a settled one is not pending any more. *)
Respond(p, result) ==
  /\ p \in pending /\ gateway # "gone"
  /\ Removed({p.ask}) /\ Returns(p.ask, result)
  /\ allowed' = IF result = "allowed-once" THEN allowed \cup {p.id} ELSE allowed
  /\ UNCHANGED <<audit, at, asks, outcome, queued, gateway, people, ran>>

(* The gateway is unloaded: disposers run newest first, one microtask each. *)
Unlisten ==
  /\ gateway = "up" /\ gateway' = "deaf"
  /\ UNCHANGED <<audit, service, pending, people, allowed, ran>>

(* The promises the sweep settles. *)
Swept == answers \cup {[ask |-> p.ask, outcome |-> "cancelled"] : p \in pending}

Sweep ==
  /\ gateway = "deaf" /\ gateway' = "gone"
  /\ pending' = {}
  /\ answers' = Swept
  /\ UNCHANGED <<audit, at, asks, outcome, queued, people, allowed, ran>>

--------------------------------------------------------------------------------
(* People *)

(* The call's signal is aborted, with its turn or its program: the service's *)
(* listener runs, then the entry's.                                          *)
Abort(c) ==
  /\ c \notin aborted /\ at[c] # "over" /\ aborted' = aborted \cup {c}
  /\ at' = IF at[c] = "asking" THEN [at EXCEPT ![c] = "settled"] ELSE at
  /\ outcome' = IF at[c] = "asking" THEN [outcome EXCEPT ![c] = "cancelled"] ELSE outcome
  /\ LET withdrawn == {p.ask : p \in {q \in pending : q.ask[1] = c}}
     IN /\ Removed(withdrawn)
        /\ answers' = answers \cup {[ask |-> id, outcome |-> "cancelled"] : id \in withdrawn}
  /\ UNCHANGED <<audit, asks, queued, gateway, policy, switches, allowed, ran>>

(* A switch applies to the questions asked from now on. *)
SetPolicy ==
  /\ switches < MaxSwitches /\ switches' = switches + 1
  /\ policy' = IF policy = "ask" THEN "never" ELSE "ask"
  /\ UNCHANGED <<audit, service, pending, gateway, aborted, allowed, ran>>

--------------------------------------------------------------------------------
Next == \/ \E c \in Calls : Ask(c) \/ LogDecision(c) \/ CallEnds(c) \/ Abort(c)
        \/ \E a \in answers : Resolve(a)
        \/ \E id \in queued : Dispatch(id)
        \/ \E p \in pending : \E result \in {"allowed-once", "rejected"} : Respond(p, result)
        \/ TurnEnds \/ Unlisten \/ Sweep \/ SetPolicy

Spec == Init /\ [][Next]_vars

(* Microtasks run; nobody has to answer, to cancel or to unload anything. *)
Fairness ==
  /\ \A c \in Calls : WF_vars(LogDecision(c))
  /\ WF_vars(\E a \in answers : Resolve(a)) /\ WF_vars(\E id \in queued : Dispatch(id))
  /\ WF_vars(Sweep)

FairSpec == Spec /\ Fairness

--------------------------------------------------------------------------------
(* Properties *)

TypeOK ==
  /\ log \in Seq({Asked(id) : id \in Ids} \cup {Decided(id) : id \in Ids})
  /\ turn \in {"open", "ended"}
  /\ at \in [Calls -> {"free", "asking", "settled", "over"}]
  /\ asks \in [Calls -> 0 .. 2] /\ outcome \in [Calls -> Outcomes]
  /\ queued \subseteq Ids /\ answers \subseteq [ask : Ids, outcome : Outcomes]
  /\ pending \subseteq [ask : Ids, id : Ids] /\ aborted \subseteq Calls
  /\ gateway \in {"up", "deaf", "gone"} /\ policy \in {"ask", "never"}
  /\ switches \in 0 .. MaxSwitches
  /\ allowed \subseteq Ids /\ ran \subseteq Ids
  /\ Cardinality({p.ask : p \in pending}) = Cardinality(pending)

(* A prompt carries the audit id of the question it stands for, and what was *)
(* taken for a grant is what a person allowed under that id, however many    *)
(* calls ask at once.                                                        *)
OwnAnswer == (\A p \in pending : p.id = p.ask) /\ ran \subseteq allowed

(* Every prompt belongs to the question its call waits for now: none outlives *)
(* its question, its turn or the gateway.                                     *)
NoZombie ==
  \A p \in pending : /\ at[p.ask[1]] = "asking" /\ p.ask = Last(p.ask[1])
                     /\ turn = "open" /\ gateway # "gone"

(* When the turn is over its log holds every question with one decision, and *)
(* the decision behind the question.                                         *)
AuditWhole ==
  turn = "ended" =>
    \A i \in DOMAIN log : log[i].type = "asked" =>
      \E j \in DOMAIN log : /\ j > i /\ log[j] = Decided(log[i].id)
                            /\ \A k \in DOMAIN log \ {j} : log[k] # log[j]

(* A question whose call is aborted, or whose gateway is gone, is settled. *)
AskSettles ==
  \A c \in Calls : (at[c] = "asking" /\ (c \in aborted \/ gateway = "gone")) ~> at[c] # "asking"

(* What any order of questions, answers, aborts and unloads keeps. *)
ApprovalsSafe == TypeOK /\ OwnAnswer /\ NoZombie /\ AuditWhole
================================================================================
