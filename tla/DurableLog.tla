------------------------------- MODULE DurableLog ------------------------------
(***************************************************************************)
(* What the write path promises the session and its flush callers, with    *)
(* no queue, timer, batch or retry: events are accepted in order, the      *)
(* stored log is always a prefix of the accepted one and only grows, and a *)
(* flush is acknowledged only once everything accepted before it is        *)
(* stored.                                                                 *)
(***************************************************************************)
EXTENDS Naturals, Sequences

CONSTANTS Callers, MaxEvents

VARIABLES accepted, stored, ticket

logvars == <<accepted, stored, ticket>>

Ticket == [state : {"idle", "open", "resolved", "rejected"}, mark : Nat]

Init ==
  /\ accepted = <<>>
  /\ stored = <<>>
  /\ ticket = [c \in Callers |-> [state |-> "idle", mark |-> 0]]

Accept ==
  /\ Len(accepted) < MaxEvents
  /\ accepted' = Append(accepted, Len(accepted) + 1)
  /\ UNCHANGED <<stored, ticket>>

(* The stored prefix grows, by any number of events at once. *)
Store ==
  /\ UNCHANGED <<accepted, ticket>>
  /\ \E rest \in {SubSeq(accepted, Len(stored) + 1, n) : n \in Len(stored) .. Len(accepted)} :
       stored' = stored \o rest

Request(c) ==
  /\ ticket[c].state # "open"
  /\ ticket' = [ticket EXCEPT ![c] = [state |-> "open", mark |-> Len(accepted)]]
  /\ UNCHANGED <<accepted, stored>>

(* One or several open flushes are answered together. *)
Answer(outcome) ==
  /\ \E S \in SUBSET Callers :
       /\ \A c \in S : /\ ticket[c].state = "open"
                       /\ outcome = "resolved" => ticket[c].mark <= Len(stored)
       /\ ticket' = [c \in Callers |->
                       IF c \in S THEN [ticket[c] EXCEPT !.state = outcome] ELSE ticket[c]]
  /\ UNCHANGED <<accepted, stored>>

Next ==
  \/ Accept \/ Store
  \/ \E c \in Callers : Request(c)
  \/ Answer("resolved") \/ Answer("rejected")

Spec == Init /\ [][Next]_logvars
================================================================================
