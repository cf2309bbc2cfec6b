--------------------------- MODULE SubagentTreeProofs ---------------------------
(***************************************************************************)
(* Proofs about SubagentTree for any tree of agents, any calls and any     *)
(* setups: a parent outlives and counts its children, a call that failed   *)
(* leaves no Activation, a drain that resolved left nothing behind, and    *)
(* reports are read before the notice of their epoch.                      *)
(*                                                                         *)
(* What the invariant adds is what the awaits of the manager may rely on:  *)
(* a call that has its caller's generation has an announced caller, whose  *)
(* ancestors are all live, so that a closed scope is seen by every call    *)
(* below it; and what a teardown owns is going away itself.                *)
(***************************************************************************)
EXTENDS SubagentTree, TLAPS, SequenceTheorems, FiniteSetTheorems, NaturalsInduction

Msgs ==
  [kind : {"task", "report", "notice"}, from : Children \cup {"caller"}, gen : Nat, acc : BOOLEAN]

Agents ==
  [phase : {"off", "idle", "run", "abort"}, latch : BOOLEAN, stepQ : Seq(Msgs),
   turnQ : Seq(Msgs), gen : Nat, poked : BOOLEAN, log : Seq(Msgs)]

Calls ==
  [pc : {"new", "prepare", "queued", "ok", "failed"} \cup Holding, child : Children,
   start : BOOLEAN, gen : Nat, line : SUBSET Nodes]

Stages == {"none", "up", "rollback", "stop", "quiet", "handle"}
Teardown == {"stop", "quiet", "handle"}

TreeTyped ==
  /\ stage \in [Children -> Stages] /\ owned \in [Children -> SUBSET Children]
  /\ above \in [Children -> SUBSET Nodes] /\ announced \in [Children -> BOOLEAN]
  /\ waits \in [Children -> SUBSET Children] /\ watch \in [Children -> {"off", "race", "poke"}]

DrainsTyped ==
  /\ drain \in [phase : {"no", "wait", "roots", "done"}, ops : SUBSET Ops,
                roots : SUBSET Children]
  /\ scope \in [phase : {"no", "wait", "done"}, ops : SUBSET Ops, roots : SUBSET Children,
                root : Roots, members : SUBSET Nodes]

(* The types. *)
Typed ==
  /\ setup \in Setups /\ ag \in [Nodes -> Agents] /\ TreeTyped /\ op \in [Ops -> Calls]
  /\ DrainsTyped /\ durable \subseteq Children /\ reports \in 0 .. MaxReports

(* An agent lives as long as its Activation; only one that is up is watched. *)
Alive ==
  /\ \A c \in Children : stage[c] = "none" <=> ~Live(c)
  /\ \A c \in Children : watch[c] # "off" <=> stage[c] = "up"
  /\ \A r \in Roots : Live(r)

(* What an Activation owns is resident, and going away when the owner is. *)
Owners ==
  /\ \A c \in Children : \A d \in owned[c] :
       Parent[d] = c /\ Resident(d) /\ (stage[c] \in Teardown => stage[d] # "up")
  /\ \A c \in Children : stage[c] \in {"none", "rollback", "handle"} => owned[c] = {}
  /\ \A c \in Children : stage[c] \in Teardown => waits[c] = owned[c]

Known(a) == a \in Roots \/ announced[a]

(* Somebody has an id for a child: its parent is live, is known itself, and counts it. *)
Announcements ==
  \A c \in Children :
    announced[c] =>
      /\ stage[c] \notin {"none", "rollback"} /\ Live(Parent[c]) /\ Known(Parent[c])
      /\ Parent[c] \in Children => c \in owned[Parent[c]]

Active(o) == op[o].pc \notin {"new", "ok", "failed"}

(* While the caller of a call is the agent that called, it is known, and the turn that *)
(* started a child waits for the start.                                                *)
Callers ==
  \A o \in Ops : Active(o) =>
    LET p == Parent[op[o].child] IN
    /\ op[o].gen <= ag[p].gen
    /\ Live(p) /\ op[o].gen = ag[p].gen => Known(p)
    /\ op[o].start => op[o].gen = ag[p].gen /\ ag[p].phase \in {"run", "abort"}

(* A child nobody has an id for has the call that made it, and nothing to do. *)
Unheard ==
  \A c \in Children : Resident(c) /\ ~announced[c] =>
    /\ ag[c].phase = "idle"
    /\ \E o \in Ops : op[o].child = c /\ op[o].pc \in {"submit", "rolling", "undo"}

(* What the holder of a child's lock may rely on. *)
Locks ==
  /\ \A o \in Ops :
       /\ op[o].pc \in {"inspect", "create"} => stage[op[o].child] = "none"
       /\ op[o].pc = "rolling" => stage[op[o].child] = "rollback"
       /\ op[o].pc = "submit" => ~announced[op[o].child]
       /\ op[o].pc \in {"submit", "undo"} => stage[op[o].child] # "rollback"
  /\ \A o, q \in Ops :
       op[o].pc \in Holding /\ op[q].pc \in Holding /\ op[o].child = op[q].child => o = q

(* The lineage taken down at the admission of a child was its whole ancestry. *)
Lines ==
  /\ \A o \in Materializing : op[o].line = Ancestors[Parent[op[o].child]]
  /\ \A c \in Children : Resident(c) => above[c] = Ancestors[c]

(* What a drain has not waited for cannot come any more. *)
Drains ==
  /\ drain.phase = "wait" => Materializing \subseteq drain.ops
  /\ drain.phase \in {"roots", "done"} => Materializing = {} /\ Up = {}
  /\ drain.phase = "roots" =>
       \A c \in Children : Resident(c) => c \in drain.roots \/ \E d \in Children : c \in owned[d]
  /\ drain.phase = "done" => \A c \in Children : ~Resident(c)

Inside(c) == scope.root \in Ancestors[c]

(* The same below the root of a closed scope. *)
Scopes ==
  scope.phase # "no" =>
    /\ \A o \in Materializing :
         Inside(op[o].child) => o \in scope.ops /\ Parent[op[o].child] \in scope.members
    /\ \A c \in Up : ~Inside(c)
    /\ scope.phase = "wait" =>
         \A c \in Children : Resident(c) /\ Inside(c) =>
           c \in scope.roots \/ stage[c] = "rollback" \/ \E d \in Children : c \in owned[d]
    /\ scope.phase = "done" =>
         /\ \A c \in Children : Inside(c) => ~Resident(c)
         /\ \A o \in Materializing : ~Inside(op[o].child)

CutOff(c) == drain.phase # "no" \/ (scope.phase # "no" /\ c \in scope.members)

(* A teardown with children to come that are announced is part of a drain that is closing. *)
Turnless ==
  "select" \notin Features =>
    \A c \in Children : stage[c] \in Teardown =>
      /\ ag[c].phase \in {"idle", "abort"} /\ ~ag[c].latch
      /\ \A d \in Children : announced[d] /\ Parent[d] = c => CutOff(c)

(* n may be read after m. *)
Follows(n, m) == m.kind = "notice" /\ n.kind = "report" /\ m.from = n.from => n.gen > m.gen

Elements(s) == {s[i] : i \in DOMAIN s}
InOrder(s) == \A i, j \in DOMAIN s : i < j => Follows(s[j], s[i])

(* What an agent read and what it will read next, in order; reports never wait for a turn. *)
MailOf(r) ==
  /\ InOrder(r.log) /\ InOrder(r.stepQ)
  /\ \A m \in Elements(r.log), n \in Elements(r.stepQ) : Follows(n, m)
  /\ \A m \in Elements(r.turnQ) : m.kind # "report"

Mail ==
  "interrupt" \notin Features =>
    /\ \A a \in Roots \cup Up : ag[a].phase # "abort"
    /\ \A a \in Nodes : MailOf(ag[a])

(* A notice speaks of an epoch that is over. *)
Over(m) ==
  m.kind = "notice" =>
    m.from \in Children /\ m.gen <= ag[m.from].gen /\ (Live(m.from) => m.gen < ag[m.from].gen)

Messages(r) == Elements(r.log) \cup Elements(r.stepQ) \cup Elements(r.turnQ)

Notices == \A a \in Nodes : \A m \in Messages(ag[a]) : Over(m)

IInv ==
  /\ Typed /\ Alive /\ Owners /\ Announcements /\ Callers /\ Unheard /\ Locks /\ Lines
  /\ Drains /\ Scopes /\ Turnless /\ Mail /\ Notices

--------------------------------------------------------------------------------
(* The tree *)

LEMMA Assumed ==
  /\ IsFiniteSet(Nodes) /\ Roots # {} /\ Children # {} /\ Roots \cap Children = {}
  /\ Parent \in [Children -> Nodes] /\ Roots \subseteq Nodes /\ Children \subseteq Nodes
  /\ \A c \in Children : c \notin Ancestors[Parent[c]]
BY SubagentTreeAssumption DEF Nodes

LEMMA SetupAssumed ==
  ASSUME setup \in Setups
  PROVE  /\ Started \subseteq Children /\ MaxReports \in Nat
         /\ \A c \in Started : Parent[c] \in Roots \cup Started
BY SubagentTreeAssumption DEF Started, MaxReports

(* An agent descends from itself and from what its parent descends from. *)
LEMMA AncestorsOf ==
  /\ \A a \in Nodes : Ancestors[a] \subseteq Nodes /\ a \in Ancestors[a]
  /\ \A c \in Children : Ancestors[c] = {c} \cup Ancestors[Parent[c]]
  /\ \A r \in Roots : Ancestors[r] = {r}
<1> DEFINE Closed(T) == \A c \in T \cap Children : Parent[c] \in T
<1>1. \A a \in Nodes :
        Ancestors[a] = {b \in Nodes : \A T \in SUBSET Nodes : a \in T /\ Closed(T) => b \in T}
  BY DEF Ancestors
<1>2. \A a \in Nodes : Ancestors[a] \subseteq Nodes /\ a \in Ancestors[a] /\ Closed(Ancestors[a])
  BY <1>1, Assumed
<1>3. \A a \in Nodes : \A T \in SUBSET Nodes : a \in T /\ Closed(T) => Ancestors[a] \subseteq T
  BY <1>1
<1>4. ASSUME NEW c \in Children PROVE Ancestors[c] = {c} \cup Ancestors[Parent[c]]
  <2>1. c \in Nodes /\ Parent[c] \in Nodes
    BY Assumed
  <2>2. Parent[c] \in Ancestors[c]
    BY <1>2, <2>1
  <2>3. Ancestors[Parent[c]] \subseteq Ancestors[c]
    BY <1>2, <1>3, <2>1, <2>2
  <2>4. Closed({c} \cup Ancestors[Parent[c]])
    BY <1>2, <2>1
  <2>5. Ancestors[c] \subseteq {c} \cup Ancestors[Parent[c]]
    <3> DEFINE T == {c} \cup Ancestors[Parent[c]]
    <3>1. T \in SUBSET Nodes /\ c \in T /\ Closed(T)
      BY <1>2, <2>1, <2>4
    <3> HIDE DEF T, Closed
    <3>2. Ancestors[c] \subseteq T
      BY <1>3, <2>1, <3>1
    <3> QED
      BY <3>2 DEF T
  <2> QED
    BY <1>2, <2>1, <2>3, <2>5
<1>5. ASSUME NEW r \in Roots PROVE Ancestors[r] = {r}
  <2>1. r \in Nodes /\ {r} \in SUBSET Nodes /\ Closed({r})
    BY Assumed
  <2> HIDE DEF Closed
  <2>2. Ancestors[r] \subseteq {r}
    BY <1>3, <2>1
  <2> QED
    BY <1>2, <2>1, <2>2
<1> QED
  BY <1>2, <1>4, <1>5

(* A set that is closed under parents has the ancestors of its members. *)
LEMMA AncestorsWithin ==
  ASSUME NEW T \in SUBSET Nodes, \A c \in T \cap Children : Parent[c] \in T, NEW a \in T
  PROVE  Ancestors[a] \subseteq T
BY DEF Ancestors

(* A set of natural numbers that is not empty has a least element. *)
LEMMA LeastOf ==
  ASSUME NEW S \in SUBSET Nat, S # {}
  PROVE  \E x \in S : \A y \in S : x <= y
<1>1. \E x \in S : \A y \in S : ~ (<<y, x>> \in OpToRel(<, Nat))
  BY NatLessThanWellFounded, WFMin
<1>2. PICK x \in S : \A y \in S : ~ (<<y, x>> \in OpToRel(<, Nat))
  BY <1>1
<1>3. \A y \in S : ~ (y < x)
  BY <1>2 DEF OpToRel
<1> QED
  BY <1>3

(* Following parents out of a set of children, one leaves it. *)
LEMMA Rooted ==
  ASSUME NEW X \in SUBSET Children, X # {}
  PROVE  \E c \in X : Parent[c] \notin X
<1> DEFINE depth(a) == Cardinality(Ancestors[a])
           D == {depth(c) : c \in X}
<1>1. \A a \in Nodes : IsFiniteSet(Ancestors[a]) /\ depth(a) \in Nat
  BY Assumed, AncestorsOf, FS_Subset, FS_CardinalityType
<1>2. \A c \in Children : depth(Parent[c]) < depth(c)
  <2> SUFFICES ASSUME NEW c \in Children PROVE depth(Parent[c]) < depth(c)
    OBVIOUS
  <2>1. Parent[c] \in Nodes /\ c \notin Ancestors[Parent[c]]
    BY Assumed
  <2>2. Ancestors[c] = Ancestors[Parent[c]] \cup {c}
    BY AncestorsOf
  <2>3. Cardinality(Ancestors[Parent[c]] \cup {c}) = Cardinality(Ancestors[Parent[c]]) + 1
    BY <1>1, <2>1, FS_AddElement
  <2> QED
    BY <1>1, <2>1, <2>2, <2>3
<1>3. D \in SUBSET Nat /\ D # {}
  BY <1>1, Assumed
<1> HIDE DEF depth
<1>4. PICK n \in D : \A m \in D : n <= m
  <2> HIDE DEF D
  <2> QED
    BY <1>3, LeastOf
<1>5. PICK c \in X : n = depth(c)
  BY <1>4
<1>6. Parent[c] \notin X
  <2> SUFFICES ASSUME Parent[c] \in X PROVE FALSE
    OBVIOUS
  <2>1. depth(c) <= depth(Parent[c])
    BY <1>4, <1>5
  <2>2. depth(Parent[c]) < depth(c) /\ depth(c) \in Nat /\ depth(Parent[c]) \in Nat
    BY <1>1, <1>2, Assumed
  <2> QED
    BY <2>1, <2>2
<1> QED
  BY <1>6

(* The ancestors of a known agent are known, and the registry resolves them all. *)
LEMMA KnownLineage ==
  ASSUME Alive, Announcements, NEW a \in Nodes, Known(a)
  PROVE  Lineage(a) = Ancestors[a]
<1> DEFINE T == {x \in Nodes : Known(x)}
<1>1. \A c \in T \cap Children : Parent[c] \in T
  BY Assumed DEF Known, Announcements
<1>2. Ancestors[a] \subseteq T
  BY <1>1, AncestorsWithin
<1>3. \A x \in T : Live(x)
  BY DEF Known, Alive, Announcements, Nodes
<1> QED
  BY <1>2, <1>3 DEF Lineage

(* Whom a closed scope covers is refused. *)
LEMMA ScopeCloses ==
  ASSUME Typed, Alive, Announcements, scope.phase # "no",
         NEW c \in Children, Inside(c), Known(Parent[c])
  PROVE  ~Admits(Parent[c])
<1>1. Parent[c] \in Nodes /\ scope.root \in Roots /\ scope.root # c
  BY Assumed DEF Typed, DrainsTyped
<1>2. scope.root \in Ancestors[Parent[c]]
  BY <1>1, AncestorsOf DEF Inside
<1> QED
  BY <1>1, <1>2, KnownLineage DEF Admits, Closing

--------------------------------------------------------------------------------
(* An agent and its inbox *)

LEMMA ElementsBoth ==
  ASSUME NEW S, NEW s \in Seq(S), NEW t \in Seq(S)
  PROVE  s \o t \in Seq(S) /\ Elements(s \o t) = Elements(s) \cup Elements(t)
<1>1. /\ s \o t \in Seq(S) /\ Len(s \o t) = Len(s) + Len(t)
      /\ \A i \in 1 .. Len(s) + Len(t) :
           (s \o t)[i] = IF i <= Len(s) THEN s[i] ELSE t[i - Len(s)]
  BY ConcatProperties
<1>2. ASSUME NEW i \in DOMAIN t PROVE t[i] \in Elements(s \o t)
  <2>1. Len(s) + i \in 1 .. Len(s) + Len(t) /\ (s \o t)[Len(s) + i] = t[i]
    BY <1>1
  <2> QED
    BY <1>1, <2>1 DEF Elements
<1>3. ASSUME NEW i \in DOMAIN s PROVE s[i] \in Elements(s \o t)
  <2>1. i \in 1 .. Len(s) + Len(t) /\ (s \o t)[i] = s[i]
    BY <1>1
  <2> QED
    BY <1>1, <2>1 DEF Elements
<1>4. ASSUME NEW i \in DOMAIN (s \o t) PROVE (s \o t)[i] \in Elements(s) \cup Elements(t)
  BY <1>1 DEF Elements
<1> QED
  BY <1>1, <1>2, <1>3, <1>4 DEF Elements

LEMMA ElementsMore ==
  ASSUME NEW S, NEW s \in Seq(S), NEW m \in S
  PROVE  Append(s, m) \in Seq(S) /\ Elements(Append(s, m)) = Elements(s) \cup {m}
<1>1. /\ Append(s, m) \in Seq(S) /\ Len(Append(s, m)) = Len(s) + 1
      /\ \A i \in 1 .. Len(s) : Append(s, m)[i] = s[i]
      /\ Append(s, m)[Len(s) + 1] = m
  BY AppendProperties
<1> QED
  BY <1>1 DEF Elements

LEMMA ElementsNone == Elements(<<>>) = {} /\ InOrder(<<>>)
BY DEF Elements, InOrder

(* The rest of a queue after its head. *)
LEMMA RestOf ==
  ASSUME NEW S, NEW s \in Seq(S)
  PROVE  /\ SubSeq(s, 2, Len(s)) \in Seq(S)
         /\ Elements(SubSeq(s, 2, Len(s))) \subseteq Elements(s)
<1>1. /\ SubSeq(s, 2, Len(s)) \in Seq(S)
      /\ Len(SubSeq(s, 2, Len(s))) = IF 2 <= Len(s) THEN Len(s) - 1 ELSE 0
      /\ \A i \in 1 .. Len(s) - 1 : SubSeq(s, 2, Len(s))[i] = s[i + 1]
  BY SubSeqProperties
<1> QED
  BY <1>1 DEF Elements

(* The head of a queue that may be empty. *)
LEMMA HeadOf ==
  ASSUME NEW S, NEW s \in Seq(S)
  PROVE  LET h == IF s = <<>> THEN <<>> ELSE <<Head(s)>>
         IN  h \in Seq(S) /\ Elements(h) \subseteq Elements(s) /\ InOrder(h)
<1>1. s # <<>> => 1 \in DOMAIN s /\ Head(s) = s[1] /\ s[1] \in S
  OBVIOUS
<1> QED
  BY <1>1 DEF Elements, InOrder

(* Two sequences in order, one behind the other. *)
LEMMA InOrderBehind ==
  ASSUME NEW S, NEW s \in Seq(S), NEW t \in Seq(S), InOrder(s), InOrder(t),
         \A m \in Elements(s), n \in Elements(t) : Follows(n, m)
  PROVE  InOrder(s \o t)
<1>1. /\ s \o t \in Seq(S) /\ Len(s \o t) = Len(s) + Len(t)
      /\ \A i \in 1 .. Len(s) + Len(t) :
           (s \o t)[i] = IF i <= Len(s) THEN s[i] ELSE t[i - Len(s)]
  BY ConcatProperties
<1> SUFFICES ASSUME NEW i \in 1 .. Len(s) + Len(t), NEW j \in 1 .. Len(s) + Len(t), i < j
             PROVE  Follows((s \o t)[j], (s \o t)[i])
  BY <1>1 DEF InOrder
<1>2. CASE j <= Len(s)
  <2>1. (s \o t)[i] = s[i] /\ (s \o t)[j] = s[j] /\ i \in DOMAIN s /\ j \in DOMAIN s
    BY <1>1, <1>2
  <2> QED
    BY <2>1 DEF InOrder
<1>3. CASE i > Len(s)
  <2>1. /\ (s \o t)[i] = t[i - Len(s)] /\ (s \o t)[j] = t[j - Len(s)]
        /\ i - Len(s) \in DOMAIN t /\ j - Len(s) \in DOMAIN t /\ i - Len(s) < j - Len(s)
    BY <1>1, <1>3
  <2> QED
    BY <2>1 DEF InOrder
<1>4. CASE i <= Len(s) /\ j > Len(s)
  <2>1. /\ (s \o t)[i] = s[i] /\ (s \o t)[j] = t[j - Len(s)]
        /\ i \in DOMAIN s /\ j - Len(s) \in DOMAIN t
    BY <1>1, <1>4
  <2> QED
    BY <2>1 DEF Elements
<1> QED
  BY <1>2, <1>3, <1>4

(* What may follow all of a sequence may be appended to it. *)
LEMMA InOrderAppended ==
  ASSUME NEW S, NEW s \in Seq(S), NEW m \in S, InOrder(s), \A x \in Elements(s) : Follows(m, x)
  PROVE  InOrder(Append(s, m))
<1>1. /\ Append(s, m) \in Seq(S) /\ Len(Append(s, m)) = Len(s) + 1
      /\ \A i \in 1 .. Len(s) : Append(s, m)[i] = s[i]
      /\ Append(s, m)[Len(s) + 1] = m
  BY AppendProperties
<1> SUFFICES ASSUME NEW i \in 1 .. Len(s) + 1, NEW j \in 1 .. Len(s) + 1, i < j
             PROVE  Follows(Append(s, m)[j], Append(s, m)[i])
  BY <1>1 DEF InOrder
<1>2. i \in DOMAIN s /\ Append(s, m)[i] = s[i] /\ s[i] \in Elements(s)
  BY <1>1 DEF Elements
<1>3. CASE j = Len(s) + 1
  BY <1>1, <1>2, <1>3
<1>4. CASE j \in DOMAIN s
  BY <1>1, <1>2, <1>4 DEF InOrder
<1> QED
  BY <1>3, <1>4

LEMMA TakesOf ==
  ASSUME NEW r \in Agents, NEW q \in Seq(Msgs)
  PROVE  LET t == Takes(r, q)
         IN  /\ t \in Agents /\ t.log = r.log \o q /\ t.phase = r.phase /\ t.latch = r.latch
             /\ t.gen = r.gen /\ t.stepQ = r.stepQ /\ t.turnQ = r.turnQ
<1>1. r.log \o q \in Seq(Msgs)
  BY ConcatProperties DEF Agents
<1>2. (r.poked \/ Waking(q)) \in BOOLEAN
  BY DEF Agents, Waking
<1> QED
  BY <1>1, <1>2 DEF Takes, Agents

(* A turn begins with all that waits for a step, and one message of the next turn. *)
LEMMA OpenedOf ==
  ASSUME NEW r \in Agents
  PROVE  LET t == Opened(r)
             head == IF r.turnQ = <<>> THEN <<>> ELSE <<Head(r.turnQ)>>
         IN  /\ t \in Agents /\ t.phase = "run" /\ ~t.latch /\ t.gen = r.gen
             /\ t.stepQ = <<>> /\ t.turnQ = SubSeq(r.turnQ, 2, Len(r.turnQ))
             /\ t.log = r.log \o (r.stepQ \o head) /\ Messages(t) \subseteq Messages(r)
             /\ MailOf(r) => MailOf(t)
<1> DEFINE head == IF r.turnQ = <<>> THEN <<>> ELSE <<Head(r.turnQ)>>
           rest == SubSeq(r.turnQ, 2, Len(r.turnQ))
           q == r.stepQ \o head
           u == Takes(r, q)
           t == Opened(r)
<1>1. /\ r.log \in Seq(Msgs) /\ r.stepQ \in Seq(Msgs) /\ r.turnQ \in Seq(Msgs)
      /\ r.gen \in Nat
  BY DEF Agents
<1>2. head \in Seq(Msgs) /\ Elements(head) \subseteq Elements(r.turnQ) /\ InOrder(head)
  BY <1>1, HeadOf
<1>3. rest \in Seq(Msgs) /\ Elements(rest) \subseteq Elements(r.turnQ)
  BY <1>1, RestOf
<1>4. t = [u EXCEPT !.phase = "run", !.latch = FALSE, !.stepQ = <<>>, !.turnQ = rest]
  BY DEF Opened
<1> HIDE DEF head, rest, t
<1>6. q \in Seq(Msgs) /\ Elements(q) = Elements(r.stepQ) \cup Elements(head)
  BY <1>1, <1>2, ElementsBoth
<1> HIDE DEF q
<1>7. u \in Agents /\ u.log = r.log \o q /\ u.gen = r.gen
  BY <1>6, TakesOf
<1> HIDE DEF u
<1>8. /\ t \in Agents /\ t.phase = "run" /\ ~t.latch /\ t.gen = r.gen
      /\ t.stepQ = <<>> /\ t.turnQ = rest /\ t.log = r.log \o q
  BY <1>3, <1>4, <1>7, EmptySeq DEF Agents
<1>9. Elements(t.log) = Elements(r.log) \cup Elements(q) /\ Elements(<<>>) = {}
  BY <1>1, <1>6, <1>8, ElementsBoth, ElementsNone
<1>10. Messages(t) \subseteq Messages(r)
  BY <1>2, <1>3, <1>6, <1>8, <1>9 DEF Messages
<1>11. ASSUME MailOf(r) PROVE MailOf(t)
  <2>1. \A n \in Elements(head) : n.kind # "report"
    BY <1>2, <1>11 DEF MailOf
  <2>2. \A n \in Elements(head), m \in Msgs : Follows(n, m)
    BY <2>1 DEF Follows
  <2>3. Elements(r.log) \subseteq Msgs /\ Elements(r.stepQ) \subseteq Msgs
    BY <1>1 DEF Elements
  <2>4. InOrder(q)
    BY <1>1, <1>2, <1>11, <2>2, <2>3, InOrderBehind DEF MailOf, q
  <2>5. \A m \in Elements(r.log), n \in Elements(q) : Follows(n, m)
    BY <1>6, <1>11, <2>2, <2>3 DEF MailOf
  <2>6. InOrder(t.log)
    BY <1>1, <1>6, <1>8, <1>11, <2>4, <2>5, InOrderBehind DEF MailOf
  <2>7. InOrder(<<>>)
    BY DEF InOrder
  <2> QED
    BY <1>3, <1>8, <1>9, <1>11, <2>6, <2>7 DEF MailOf
<1> QED
  BY <1>8, <1>10, <1>11 DEF t, rest, q, head

LEMMA RetiredOf ==
  ASSUME NEW r \in Agents
  PROVE  LET t == Retired(r)
         IN  /\ t \in Agents /\ t.phase \in {"idle", "run"} /\ ~t.latch /\ t.gen = r.gen
             /\ ~r.latch => t.phase = "idle" /\ t.log = r.log
             /\ Messages(t) \subseteq Messages(r) /\ (MailOf(r) => MailOf(t))
<1>1. CASE r.latch /\ Pending(r)
  BY <1>1, OpenedOf DEF Retired
<1>2. CASE ~(r.latch /\ Pending(r))
  BY <1>2 DEF Retired, Agents, Messages, MailOf
<1> QED
  BY <1>1, <1>2

LEMMA ClearedOf ==
  ASSUME NEW r \in Agents
  PROVE  LET t == Cleared(r)
         IN  /\ t \in Agents /\ t.phase = (IF r.phase = "run" THEN "abort" ELSE r.phase)
             /\ ~t.latch /\ t.gen = r.gen /\ t.log = r.log
             /\ Messages(t) \subseteq Messages(r) /\ (MailOf(r) => MailOf(t))
<1> DEFINE t == Cleared(r)
<1>1. (r.poked \/ Accepted(r)) \in BOOLEAN
  BY DEF Agents, Accepted, Waking
<1>2. /\ t \in Agents /\ t.phase = (IF r.phase = "run" THEN "abort" ELSE r.phase)
      /\ ~t.latch /\ t.gen = r.gen /\ t.log = r.log /\ t.stepQ = <<>> /\ t.turnQ = <<>>
  BY <1>1, EmptySeq DEF Agents, Cleared
<1> HIDE DEF t
<1> QED
  BY <1>2, ElementsNone DEF t, Messages, MailOf

(* A message: it reaches a queue, and opens a turn of an idle agent when it wakes. *)
LEMMA SentOf ==
  ASSUME NEW r \in Agents, NEW m \in Msgs, NEW where, NEW wakes \in BOOLEAN
  PROVE  LET t == Sent(r, m, where, wakes)
         IN  /\ t \in Agents /\ t.gen = r.gen
             /\ t.phase = (IF wakes /\ r.phase = "idle" THEN "run" ELSE r.phase)
             /\ ~wakes => t.latch = r.latch /\ t.log = r.log
             /\ Messages(t) \subseteq Messages(r) \cup {m}
<1> DEFINE late == wakes /\ r.phase = "abort"
           put == IF late \/ where = "turn" THEN [r EXCEPT !.turnQ = Append(@, m)]
                                            ELSE [r EXCEPT !.stepQ = Append(@, m)]
           told == [put EXCEPT !.poked = @ \/ m.acc]
           t == Sent(r, m, where, wakes)
<1>1. t = IF wakes /\ r.phase = "idle" THEN Opened(told) ELSE [told EXCEPT !.latch = @ \/ late]
  BY DEF Sent
<1>2. /\ r.log \in Seq(Msgs) /\ r.stepQ \in Seq(Msgs) /\ r.turnQ \in Seq(Msgs)
      /\ r.gen \in Nat /\ m.acc \in BOOLEAN
  BY DEF Agents, Msgs
<1>3. /\ Append(r.turnQ, m) \in Seq(Msgs)
      /\ Elements(Append(r.turnQ, m)) = Elements(r.turnQ) \cup {m}
      /\ Append(r.stepQ, m) \in Seq(Msgs)
      /\ Elements(Append(r.stepQ, m)) = Elements(r.stepQ) \cup {m}
  BY <1>2, ElementsMore
<1>4. /\ put \in Agents /\ put.gen = r.gen /\ put.phase = r.phase /\ put.latch = r.latch
      /\ put.log = r.log /\ Messages(put) \subseteq Messages(r) \cup {m}
  BY <1>3 DEF Agents, Messages
<1> HIDE DEF put
<1>5. /\ told \in Agents /\ told.gen = r.gen /\ told.phase = r.phase /\ told.latch = r.latch
      /\ told.log = r.log /\ Messages(told) \subseteq Messages(r) \cup {m}
  BY <1>2, <1>4 DEF Agents, Messages
<1> HIDE DEF told, t
<1>6. CASE wakes /\ r.phase = "idle"
  BY <1>1, <1>5, <1>6, OpenedOf DEF t
<1>7. CASE ~(wakes /\ r.phase = "idle")
  <2>1. t = [told EXCEPT !.latch = @ \/ late]
    BY <1>1, <1>7
  <2>2. /\ t \in Agents /\ t.gen = r.gen /\ t.phase = r.phase /\ t.log = r.log
        /\ (~wakes => t.latch = r.latch) /\ Messages(t) \subseteq Messages(r) \cup {m}
    BY <1>5, <2>1 DEF Agents, Messages
  <2> QED
    BY <1>7, <2>2 DEF t
<1> QED
  BY <1>6, <1>7

(* No message but a report out of turn brings the mail out of order. *)
LEMMA SentInOrder ==
  ASSUME NEW r \in Agents, NEW m \in Msgs, NEW where, NEW wakes \in BOOLEAN, MailOf(r),
         m.kind = "report" => /\ where = "step" /\ r.phase # "abort"
                              /\ \A x \in Messages(r) : Follows(m, x)
  PROVE  MailOf(Sent(r, m, where, wakes))
<1> DEFINE late == wakes /\ r.phase = "abort"
           put == IF late \/ where = "turn" THEN [r EXCEPT !.turnQ = Append(@, m)]
                                            ELSE [r EXCEPT !.stepQ = Append(@, m)]
           told == [put EXCEPT !.poked = @ \/ m.acc]
           t == Sent(r, m, where, wakes)
<1>1. t = IF wakes /\ r.phase = "idle" THEN Opened(told) ELSE [told EXCEPT !.latch = @ \/ late]
  BY DEF Sent
<1>2. /\ r.log \in Seq(Msgs) /\ r.stepQ \in Seq(Msgs) /\ r.turnQ \in Seq(Msgs)
      /\ m.acc \in BOOLEAN
  BY DEF Agents, Msgs
<1>3. /\ Append(r.turnQ, m) \in Seq(Msgs)
      /\ Elements(Append(r.turnQ, m)) = Elements(r.turnQ) \cup {m}
      /\ Append(r.stepQ, m) \in Seq(Msgs)
      /\ Elements(Append(r.stepQ, m)) = Elements(r.stepQ) \cup {m}
  BY <1>2, ElementsMore
<1>4. \A x \in Messages(r) : Follows(m, x)
  BY DEF Follows
<1>5. put \in Agents /\ MailOf(put)
  <2>1. CASE late \/ where = "turn"
    <3>1. m.kind # "report"
      BY <2>1
    <3> QED
      BY <1>3, <2>1, <3>1 DEF Agents, MailOf
  <2>2. CASE ~(late \/ where = "turn")
    <3>1. InOrder(Append(r.stepQ, m))
      BY <1>2, <1>4, InOrderAppended DEF MailOf, Messages
    <3>2. \A x \in Elements(r.log) : Follows(m, x)
      BY <1>4 DEF Messages
    <3>3. /\ put \in Agents /\ put.stepQ = Append(r.stepQ, m) /\ put.log = r.log
          /\ put.turnQ = r.turnQ
      BY <1>3, <2>2 DEF Agents
    <3> QED
      BY <1>3, <3>1, <3>2, <3>3 DEF MailOf
  <2> QED
    BY <2>1, <2>2
<1> HIDE DEF put
<1>6. told \in Agents /\ MailOf(told)
  BY <1>2, <1>5 DEF Agents, MailOf
<1> HIDE DEF told, t
<1>7. CASE wakes /\ r.phase = "idle"
  BY <1>1, <1>6, <1>7, OpenedOf DEF t
<1>8. CASE ~(wakes /\ r.phase = "idle")
  <2>1. t = [told EXCEPT !.latch = @ \/ late]
    BY <1>1, <1>8
  <2> QED
    BY <1>6, <2>1 DEF t, MailOf, Agents
<1> QED
  BY <1>7, <1>8

--------------------------------------------------------------------------------
(* What the helpers of the manager do *)

(* All that an agent is but its watcher's signal. *)
Looks(r, s) ==
  /\ s.phase = r.phase /\ s.latch = r.latch /\ s.gen = r.gen
  /\ s.stepQ = r.stepQ /\ s.turnQ = r.turnQ /\ s.log = r.log

Closed(D) == D \in SUBSET Up /\ \A d \in D : owned[d] \cap Up \subseteq D

Stopped(D) ==
  /\ ag' = [a \in Nodes |-> IF a \in D THEN Cleared(ag[a]) ELSE ag[a]]
  /\ stage' = [c \in Children |->
                 IF c \notin D THEN stage[c] ELSE IF ag[c].phase = "idle" THEN "quiet" ELSE "stop"]
  /\ waits' = [c \in Children |-> IF c \in D THEN owned[c] ELSE waits[c]]
  /\ watch' = [c \in Children |-> IF c \in D THEN "off" ELSE watch[c]]
  /\ UNCHANGED <<owned, above, announced>>

(* A disposal stops what is up and all that is up below it. *)
LEMMA BelowOf ==
  ASSUME NEW S
  PROVE  Closed(Below(S)) /\ S \cap Up \subseteq Below(S)
BY DEF Below, Closed

(* It stops no more than a set that is closed. *)
LEMMA BelowWithin ==
  ASSUME NEW S, NEW T, Closed(T), S \cap Up \subseteq T
  PROVE  Below(S) \subseteq T
BY DEF Below, Closed

LEMMA DisposesOf ==
  ASSUME NEW S, Disposes(S)
  PROVE  Closed(Below(S)) /\ S \cap Up \subseteq Below(S) /\ Stopped(Below(S))
BY BelowOf DEF Disposes, Stopped

LEMMA StoppedOf ==
  ASSUME Typed, NEW D, Closed(D), Stopped(D)
  PROVE  /\ D \subseteq Children /\ ag' \in [Nodes -> Agents] /\ TreeTyped'
         /\ \A a \in Nodes :
              /\ ag'[a].gen = ag[a].gen /\ (ag'[a].phase = "off" <=> ag[a].phase = "off")
              /\ Messages(ag'[a]) \subseteq Messages(ag[a])
              /\ MailOf(ag[a]) => MailOf(ag'[a])
              /\ ag'[a].log = ag[a].log
              /\ a \notin D => ag'[a] = ag[a]
              /\ a \in D => /\ ag'[a].phase = (IF ag[a].phase = "run" THEN "abort" ELSE ag[a].phase)
                            /\ ~ag'[a].latch
         /\ \A c \in Children :
              /\ c \in D => /\ stage[c] = "up" /\ stage'[c] \in {"stop", "quiet"}
                            /\ waits'[c] = owned[c] /\ watch'[c] = "off"
              /\ c \notin D => stage'[c] = stage[c] /\ waits'[c] = waits[c] /\ watch'[c] = watch[c]
         /\ UNCHANGED <<owned, above, announced>>
<1>1. \A a \in Nodes : ag[a] \in Agents
  BY DEF Typed
<1>2. D \subseteq Children /\ \A c \in D : stage[c] = "up"
  BY DEF Closed, Up
<1>3. \A a \in Nodes : ag'[a] = IF a \in D THEN Cleared(ag[a]) ELSE ag[a]
  BY DEF Stopped
<1>4. ag' \in [Nodes -> Agents]
  BY <1>1, ClearedOf DEF Stopped
<1>5. TreeTyped'
  BY DEF Stopped, Typed, TreeTyped, Stages
<1>6. \A a \in Nodes :
              /\ ag'[a].gen = ag[a].gen /\ (ag'[a].phase = "off" <=> ag[a].phase = "off")
              /\ Messages(ag'[a]) \subseteq Messages(ag[a])
              /\ MailOf(ag[a]) => MailOf(ag'[a])
              /\ ag'[a].log = ag[a].log
              /\ a \notin D => ag'[a] = ag[a]
              /\ a \in D => /\ ag'[a].phase = (IF ag[a].phase = "run" THEN "abort" ELSE ag[a].phase)
                            /\ ~ag'[a].latch
  BY <1>1, <1>3, ClearedOf
<1>7. \A c \in Children :
              /\ c \in D => /\ stage[c] = "up" /\ stage'[c] \in {"stop", "quiet"}
                            /\ waits'[c] = owned[c] /\ watch'[c] = "off"
              /\ c \notin D => stage'[c] = stage[c] /\ waits'[c] = waits[c] /\ watch'[c] = watch[c]
  BY <1>2 DEF Stopped
<1> QED
  BY <1>2, <1>4, <1>5, <1>6, <1>7 DEF Stopped

(* The entry of a child goes; its owner is told to look. *)
LEMMA RemovedOf ==
  ASSUME Typed, NEW c \in Children, NEW agents \in [Nodes -> Agents], Removed(c, agents)
  PROVE  /\ ag' \in [Nodes -> Agents] /\ TreeTyped'
         /\ ag'[c].phase = "off" /\ ag'[c].gen = agents[c].gen /\ ag'[c].log = agents[c].log
         /\ Messages(ag'[c]) \subseteq Messages(agents[c])
         /\ MailOf(agents[c]) => MailOf(ag'[c])
         /\ \A a \in Nodes : a # c => Looks(agents[a], ag'[a])
         /\ \A a \in Nodes : ag'[a].gen = agents[a].gen
         /\ \A d \in Children :
              /\ stage'[d] = (IF d = c THEN "none" ELSE stage[d])
              /\ announced'[d] = (d # c /\ announced[d])
              /\ owned'[d] = owned[d] \ {c} /\ waits'[d] = waits[d] \ {c}
              /\ above'[d] = (IF d = c THEN {} ELSE above[d])
         /\ UNCHANGED watch
<1> DEFINE gone == [agents[c] EXCEPT !.phase = "off", !.stepQ = <<>>, !.turnQ = <<>>,
                                     !.latch = FALSE, !.poked = FALSE]
           left == [agents EXCEPT ![c] = gone]
           after(a) == IF a \in Children /\ c \in owned[a] THEN [left[a] EXCEPT !.poked = TRUE]
                                                           ELSE left[a]
<1>1. c \in Nodes /\ agents[c] \in Agents
  BY Assumed
<1>2. /\ gone \in Agents /\ gone.phase = "off" /\ gone.gen = agents[c].gen
      /\ gone.log = agents[c].log /\ gone.stepQ = <<>> /\ gone.turnQ = <<>>
  BY <1>1, EmptySeq DEF Agents
<1> HIDE DEF gone
<1>3. /\ Messages(gone) \subseteq Messages(agents[c])
      /\ MailOf(agents[c]) => MailOf(gone)
  BY <1>2, ElementsNone DEF Messages, MailOf
<1>4. left \in [Nodes -> Agents] /\ left[c] = gone /\ \A a \in Nodes : a # c => left[a] = agents[a]
  BY <1>1, <1>2
<1>5. ag' = [a \in Nodes |-> after(a)]
  <2>1. left = [agents EXCEPT ![c].phase = "off", ![c].stepQ = <<>>, ![c].turnQ = <<>>,
                              ![c].latch = FALSE, ![c].poked = FALSE]
    BY <1>1 DEF gone, Agents
  <2> QED
    BY <2>1 DEF Removed, Gives
<1> HIDE DEF left
<1>6. \A a \in Nodes : after(a) \in Agents /\ Looks(left[a], after(a))
  BY <1>4 DEF Agents, Looks
<1> HIDE DEF after
<1>7. ag' \in [Nodes -> Agents] /\ \A a \in Nodes : ag'[a] \in Agents /\ Looks(left[a], ag'[a])
  BY <1>5, <1>6
<1>8. /\ ag'[c].phase = "off" /\ ag'[c].gen = agents[c].gen /\ ag'[c].log = agents[c].log
      /\ Messages(ag'[c]) \subseteq Messages(agents[c]) /\ (MailOf(agents[c]) => MailOf(ag'[c]))
  BY <1>1, <1>2, <1>3, <1>4, <1>7 DEF Looks, Messages, MailOf
<1>9. \A a \in Nodes : a # c => Looks(agents[a], ag'[a])
  BY <1>4, <1>7
<1>10. \A a \in Nodes : ag'[a].gen = agents[a].gen
  BY <1>8, <1>9 DEF Looks
<1>11. TreeTyped'
  BY DEF Removed, Typed, TreeTyped, Stages
<1>12. \A d \in Children :
         /\ stage'[d] = (IF d = c THEN "none" ELSE stage[d])
         /\ announced'[d] = (d # c /\ announced[d])
         /\ owned'[d] = owned[d] \ {c} /\ waits'[d] = waits[d] \ {c}
         /\ above'[d] = (IF d = c THEN {} ELSE above[d])
  BY DEF Removed, Typed, TreeTyped
<1> QED
  BY <1>7, <1>8, <1>9, <1>10, <1>11, <1>12 DEF Removed

(* The owner of a new or a followed child counts it. *)
LEMMA AcquiredOf ==
  ASSUME Typed, NEW c \in Children
  PROVE  /\ Acquired(c) \in [Children -> SUBSET Children]
         /\ \A a \in Children : Acquired(c)[a] =
              IF a = Parent[c] /\ stage[a] = "up" THEN owned[a] \cup {c} ELSE owned[a]
BY DEF Acquired, Typed, TreeTyped

LEMMA TaskTyped == Task \in Msgs
BY DEF Task, Msgs

LEMMA AcceptsOf ==
  ASSUME Typed, NEW o \in Ops, Accepts(o), UNCHANGED <<stage, above, waits, watch>>
  PROVE  LET c == op[o].child IN
         /\ c \in Children /\ ag' \in [Nodes -> Agents] /\ TreeTyped'
         /\ ag'[c] = Sent(ag[c], Task, "turn", TRUE)
         /\ \A a \in Nodes : a # c => ag'[a] = ag[a]
         /\ \A a \in Nodes :
              /\ ag'[a].gen = ag[a].gen
              /\ ag'[a].phase = (IF a = c /\ ag[a].phase = "idle" THEN "run" ELSE ag[a].phase)
         /\ owned' = Acquired(c)
         /\ \A d \in Children : announced'[d] = (d = c \/ announced[d])
         /\ op' = [op EXCEPT ![o].pc = "ok"]
<1> DEFINE c == op[o].child
           s == Sent(ag[c], Task, "turn", TRUE)
<1>1. c \in Children /\ c \in Nodes /\ ag[c] \in Agents
  BY Assumed DEF Typed, Calls
<1> HIDE DEF c
<1>2. /\ s \in Agents /\ s.gen = ag[c].gen
      /\ s.phase = (IF ag[c].phase = "idle" THEN "run" ELSE ag[c].phase)
  <2>1. PICK wakes \in BOOLEAN : wakes = TRUE
    OBVIOUS
  <2>2. s = Sent(ag[c], Task, "turn", wakes)
    BY <2>1
  <2> DEFINE t == Sent(ag[c], Task, "turn", wakes)
  <2>3. /\ t \in Agents /\ t.gen = ag[c].gen
        /\ t.phase = (IF wakes /\ ag[c].phase = "idle" THEN "run" ELSE ag[c].phase)
    BY <1>1, SentOf, TaskTyped
  <2> HIDE DEF t
  <2>4. s = t
    BY <2>2 DEF t
  <2> HIDE DEF s
  <2> QED
    BY <2>1, <2>3, <2>4
<1>3. /\ ag' = [ag EXCEPT ![c] = s] /\ announced' = [announced EXCEPT ![c] = TRUE]
      /\ owned' = Acquired(c) /\ op' = [op EXCEPT ![o].pc = "ok"]
  BY DEF Accepts, To, c
<1> HIDE DEF s
<1>4. /\ ag' \in [Nodes -> Agents] /\ ag'[c] = s /\ \A a \in Nodes : a # c => ag'[a] = ag[a]
  BY <1>1, <1>2, <1>3 DEF Typed
<1>5. TreeTyped'
  BY <1>1, <1>3, AcquiredOf DEF Typed, TreeTyped
<1>6. \A d \in Children : announced'[d] = (d = c \/ announced[d])
  BY <1>1, <1>3 DEF Typed, TreeTyped
<1> QED
  BY <1>1, <1>2, <1>3, <1>4, <1>5, <1>6 DEF s, c

(* The notice of a child that settled. *)
Notice(c, accepted) ==
  [kind |-> "notice", from |-> c, gen |-> ag[c].gen, acc |-> accepted]

LEMMA NoticeTyped ==
  ASSUME Typed, NEW c \in Children, NEW accepted \in BOOLEAN
  PROVE  Notice(c, accepted) \in Msgs
BY Assumed DEF Typed, Notice, Msgs, Agents

(* A parent that is live is told, and woken unless its lineage is closing. *)
LEMMA NotifiedOf ==
  ASSUME Typed, NEW c \in Children
  PROVE  LET p == Parent[c]
             told == announced[c] /\ Live(p)
         IN  /\ Notified(c) \in [Nodes -> Agents]
             /\ \A a \in Nodes : a # p => Notified(c)[a] = ag[a]
             /\ ~told => Notified(c) = ag
             /\ told => \E accepted, wakes \in BOOLEAN, where \in {"turn", "step"} :
                  /\ Notified(c)[p] = Sent(ag[p], Notice(c, accepted), where, wakes)
                  /\ wakes <=> ~Closing(p)
             /\ \A a \in Nodes :
                  /\ Notified(c)[a].gen = ag[a].gen
                  /\ Notified(c)[a].phase # ag[a].phase =>
                       ag[a].phase = "idle" /\ Notified(c)[a].phase = "run"
<1> DEFINE p == Parent[c]
           told == announced[c] /\ Live(p)
           where == IF ag[p].phase = "idle" THEN "turn" ELSE "step"
           N == Notified(c)
<1>1. p \in Nodes /\ ag[p] \in Agents /\ ag \in [Nodes -> Agents] /\ HasActivation(p) \in BOOLEAN
  BY Assumed DEF Typed, HasActivation
<1>2. CASE ~told
  BY <1>1, <1>2 DEF Notified
<1>3. CASE told
  <2>1. PICK accepted \in BOOLEAN, wakes \in BOOLEAN, w \in {"turn", "step"} :
          /\ N = [ag EXCEPT ![p] = Sent(ag[p], Notice(c, accepted), w, wakes)]
          /\ wakes <=> ~Closing(p)
    <3>1. CASE Closing(p)
      <4>1. N = [ag EXCEPT ![p] = Sent(ag[p], Notice(c, FALSE), "step", FALSE)]
        BY <1>3, <3>1 DEF Notified, Notice
      <4> QED
        BY <3>1, <4>1
    <3>2. CASE ~Closing(p)
      <4>1. N = [ag EXCEPT ![p] = Sent(ag[p], Notice(c, HasActivation(p)), where, TRUE)]
        BY <1>3, <3>2 DEF Notified, Notice
      <4> QED
        BY <1>1, <3>2, <4>1
    <3> QED
      BY <3>1, <3>2
  <2> DEFINE s == Sent(ag[p], Notice(c, accepted), w, wakes)
  <2>2. /\ s \in Agents /\ s.gen = ag[p].gen
        /\ s.phase = (IF wakes /\ ag[p].phase = "idle" THEN "run" ELSE ag[p].phase)
    BY <1>1, NoticeTyped, SentOf
  <2>3. N[p] = s /\ \A a \in Nodes : a # p => N[a] = ag[a]
    BY <1>1, <2>1
  <2>4. N \in [Nodes -> Agents]
    BY <1>1, <2>1, <2>2
  <2> HIDE DEF s, N
  <2>5. \A a \in Nodes : /\ N[a].gen = ag[a].gen
                         /\ N[a].phase # ag[a].phase => ag[a].phase = "idle" /\ N[a].phase = "run"
    BY <2>2, <2>3
  <2> QED
    BY <1>3, <2>1, <2>3, <2>4, <2>5 DEF s, N
<1> QED
  BY <1>2, <1>3

LEMMA BecomesOf ==
  ASSUME Typed, NEW a \in Nodes, NEW r \in Agents, Becomes(a, r)
  PROVE  /\ ag' \in [Nodes -> Agents] /\ TreeTyped'
         /\ ag'[a] = r /\ \A b \in Nodes : b # a => ag'[b] = ag[b]
         /\ \A c \in Children :
              IF c = a /\ stage[c] = "stop" /\ r.phase = "idle" THEN stage'[c] = "quiet"
                                                                ELSE stage'[c] = stage[c]
         /\ UNCHANGED <<owned, above, announced, waits, watch, op, durable, drainVars, reports>>
BY DEF Becomes, Typed, TreeTyped, Stages

(* What an agent at work becomes. *)
LEMMA WorkOf ==
  ASSUME Typed, NEW a \in Nodes,
         NextStep(a) \/ TurnEnds(a) \/ TurnFails(a) \/ AbortSeen(a) \/ (a \in Children /\ Interrupt(a))
  PROVE  \E r \in Agents :
           /\ Becomes(a, r) /\ r.gen = ag[a].gen /\ Messages(r) \subseteq Messages(ag[a])
           /\ MailOf(ag[a]) => MailOf(r)
           /\ ag[a].phase \in {"run", "abort"} /\ r.phase \in {"idle", "run", "abort"}
           /\ r.phase \notin {"run", "abort"} => ~InCall(a)
           /\ r.phase = "abort" => ag[a].phase = "run" /\ stage[a] = "up" /\ "interrupt" \in Features
           /\ ag[a].phase = "abort" /\ ~ag[a].latch => r.phase = "idle" /\ ~r.latch /\ r.log = ag[a].log
<1>1. /\ ag[a] \in Agents /\ ag[a].log \in Seq(Msgs) /\ ag[a].stepQ \in Seq(Msgs)
      /\ ag[a].turnQ \in Seq(Msgs)
  BY DEF Typed, Agents
<1>2. CASE NextStep(a)
  <2> DEFINE t == Takes(ag[a], ag[a].stepQ)
             r == [t EXCEPT !.stepQ = <<>>]
  <2>1. /\ t \in Agents /\ t.log = ag[a].log \o ag[a].stepQ /\ t.phase = ag[a].phase
        /\ t.gen = ag[a].gen /\ t.turnQ = ag[a].turnQ
    BY <1>1, TakesOf
  <2> HIDE DEF t
  <2>2. /\ r \in Agents /\ r.log = ag[a].log \o ag[a].stepQ /\ r.phase = ag[a].phase
        /\ r.gen = ag[a].gen /\ r.stepQ = <<>> /\ r.turnQ = ag[a].turnQ
    BY <2>1, EmptySeq DEF Agents
  <2>3. Becomes(a, r) /\ ag[a].phase = "run"
    BY <1>2 DEF NextStep, t
  <2> HIDE DEF r
  <2>4. Elements(r.log) = Elements(ag[a].log) \cup Elements(ag[a].stepQ)
    BY <1>1, <2>2, ElementsBoth
  <2>5. ASSUME MailOf(ag[a]) PROVE MailOf(r)
    <3>1. InOrder(r.log)
      BY <1>1, <2>2, <2>5, InOrderBehind DEF MailOf
    <3> QED
      BY <2>2, <2>5, <3>1, ElementsNone DEF MailOf
  <2> QED
    BY <2>2, <2>3, <2>4, <2>5, ElementsNone DEF Messages
<1>3. CASE TurnEnds(a)
  <2>1. CASE Pending(ag[a])
    BY <1>1, <1>3, <2>1, OpenedOf DEF TurnEnds
  <2>2. CASE ~Pending(ag[a])
    <3> DEFINE r == [ag[a] EXCEPT !.phase = "idle"]
    <3>1. /\ r \in Agents /\ r.gen = ag[a].gen /\ r.phase = "idle" /\ Messages(r) = Messages(ag[a])
          /\ MailOf(ag[a]) => MailOf(r)
      BY <1>1 DEF Agents, Messages, MailOf
    <3>2. Becomes(a, r) /\ ag[a].phase = "run" /\ ~InCall(a)
      BY <1>3, <2>2 DEF TurnEnds
    <3> QED
      BY <3>1, <3>2
  <2> QED
    BY <2>1, <2>2
<1>4. CASE TurnFails(a) \/ AbortSeen(a)
  <2>1. Becomes(a, Retired(ag[a])) /\ ag[a].phase \in {"run", "abort"} /\ ~InCall(a)
    BY <1>4 DEF TurnFails, AbortSeen
  <2> QED
    BY <1>1, <2>1, RetiredOf
<1>5. CASE a \in Children /\ Interrupt(a)
  <2> DEFINE r == [ag[a] EXCEPT !.phase = "abort"]
  <2>1. /\ r \in Agents /\ r.gen = ag[a].gen /\ r.phase = "abort" /\ Messages(r) = Messages(ag[a])
        /\ MailOf(ag[a]) => MailOf(r)
    BY <1>1 DEF Agents, Messages, MailOf
  <2>2. Becomes(a, r) /\ ag[a].phase = "run" /\ stage[a] = "up" /\ "interrupt" \in Features
    BY <1>5 DEF Interrupt
  <2> QED
    BY <2>1, <2>2
<1> QED
  BY <1>2, <1>3, <1>4, <1>5

--------------------------------------------------------------------------------
(* The steps, by what they do *)

SameAgents == ag' \in [Nodes -> Agents] /\ \A a \in Nodes : Looks(ag[a], ag'[a])
SameTree == UNCHANGED <<stage, owned, above, announced, waits>>

(* A call goes on or fails, without a change to the tree. *)
Moves(o) ==
  /\ op[o].pc \in {"prepare", "queued", "gone", "inspect", "create", "undo"}
  /\ \E pc \in {"queued", "inspect", "gone", "failed"} :
       /\ op' = [op EXCEPT ![o].pc = pc]
       /\ pc \in {"inspect", "gone"} => ~Held(op[o].child) /\ op[o].pc = "queued"
       /\ pc = "inspect" => stage[op[o].child] = "none"
       /\ pc = "queued" => op[o].pc \in {"prepare", "gone"}
  /\ op[o].pc = "undo" => ~Resident(op[o].child)
  /\ UNCHANGED <<ag, actVars, durable, drainVars, reports>>

(* A child is admitted for materialization. *)
Admitted(o) ==
  LET p == Parent[op[o].child] IN
  /\ op[o].pc = "inspect" /\ Admits(p) /\ (op[o].start \/ Authorized(o))
  /\ op' = [op EXCEPT ![o].pc = "create", ![o].line = Lineage(p)]
  /\ UNCHANGED <<ag, actVars, durable, drainVars, reports>>

(* Its agent exists. *)
Made(o) ==
  LET c == op[o].child IN
  /\ op[o].pc = "create"
  /\ ag' = [ag EXCEPT ![c].phase = "idle", ![c].gen = @ + 1, ![c].poked = FALSE]
  /\ durable' = durable \cup {c} /\ above' = [above EXCEPT ![c] = {c} \cup op[o].line]
  /\ UNCHANGED <<announced, waits, drainVars, reports>>

Installed(o) ==
  LET c == op[o].child IN
  /\ Made(o) /\ Installs(o)
  /\ stage' = [stage EXCEPT ![c] = "up"] /\ owned' = Acquired(c)
  /\ watch' = [watch EXCEPT ![c] = "race"] /\ op' = [op EXCEPT ![o].pc = "submit"]

Condemned(o) ==
  LET c == op[o].child IN
  /\ Made(o) /\ stage' = [stage EXCEPT ![c] = "rollback"]
  /\ op' = [op EXCEPT ![o].pc = "rolling"] /\ UNCHANGED <<owned, watch>>

(* The message of a call is in the child's inbox. *)
Answered(o) ==
  /\ op[o].pc = "submit" \/ (op[o].pc = "queued" /\ ~Held(op[o].child))
  /\ MaySubmit(o) /\ Accepts(o) /\ UNCHANGED <<stage, above, waits, watch>>
  /\ UNCHANGED <<durable, drainVars, reports>>

Refused(o) ==
  /\ op[o].pc = "submit" /\ Disposes({op[o].child}) /\ op' = [op EXCEPT ![o].pc = "undo"]
  /\ UNCHANGED <<durable, drainVars, reports>>

Works(a) ==
  NextStep(a) \/ TurnEnds(a) \/ TurnFails(a) \/ AbortSeen(a) \/ (a \in Children /\ Interrupt(a))

(* The watcher of an Activation turns around. *)
Watching(c) ==
  /\ stage[c] = "up" /\ SameAgents /\ SameTree /\ UNCHANGED <<op, durable, drainVars, reports>>
  /\ \E w \in {"race", "poke"} : watch' = [watch EXCEPT ![c] = w]

Settling(c) ==
  Settled(c) /\ Disposes({c}) /\ UNCHANGED <<op, durable, drainVars, reports>>

LEMMA Kinds ==
  ASSUME Typed, Alive, [Next]_vars
  PROVE  /\ UNCHANGED setup
         /\ \/ \E o \in Ops, c \in Children, start \in BOOLEAN : Call(o, c, start)
            \/ \E o \in Ops : \/ Moves(o) \/ Admitted(o) \/ Installed(o) \/ Condemned(o)
                              \/ Answered(o) \/ Refused(o) \/ RolledBack(o)
            \/ \E a \in Nodes : Works(a)
            \/ \E c \in Children, quiet \in BOOLEAN : Report(c, quiet)
            \/ \E c \in Children : Watching(c) \/ Settling(c) \/ Release(c) \/ Released(c)
            \/ Drain \/ DrainForest \/ DrainDone \/ ScopeDone
            \/ \E r \in Roots : DrainScope(r) \/ \E S \in SUBSET Children : Select(r, S)
            \/ UNCHANGED vars
<1>1. CASE UNCHANGED vars
  BY <1>1 DEF vars
<1>2. ASSUME NEW o \in Ops, Prepared(o) PROVE Moves(o)
  BY <1>2 DEF Prepared, Moves, To
<1>3. ASSUME NEW o \in Ops, Enter(o) PROVE Moves(o) \/ Answered(o)
  <2> DEFINE c == op[o].child
  <2>1. c \in Children /\ op[o].pc = "queued" /\ ~Held(c)
    BY <1>3 DEF Enter, Typed, Calls
  <2>2. CASE To(o, "failed") /\ UNCHANGED <<ag, actVars, durable, drainVars, reports>>
    BY <2>1, <2>2 DEF Moves, To
  <2>3. CASE op[o].start
    <3>1. \/ To(o, "failed") /\ UNCHANGED <<ag, actVars>>
          \/ To(o, "inspect") /\ ~Live(c) /\ UNCHANGED <<ag, actVars>>
      BY <1>3, <2>3 DEF Enter
    <3>2. UNCHANGED <<durable, drainVars, reports>>
      BY <1>3 DEF Enter
    <3> QED
      BY <2>1, <2>2, <3>1, <3>2 DEF Moves, To, Alive
  <2>4. CASE ~op[o].start
    <3>1. UNCHANGED <<durable, drainVars, reports>>
      BY <1>3 DEF Enter
    <3>2. CASE stage[c] = "none"
      <4>1. \/ To(o, "failed") /\ UNCHANGED <<ag, actVars>>
            \/ To(o, "inspect") /\ UNCHANGED <<ag, actVars>>
        BY <1>3, <2>4, <3>2 DEF Enter
      <4> QED
        BY <2>1, <2>2, <3>1, <3>2, <4>1 DEF Moves, To
    <3>3. CASE stage[c] = "up"
      <4>1. \/ To(o, "failed") /\ UNCHANGED <<ag, actVars>>
            \/ MaySubmit(o) /\ Accepts(o) /\ UNCHANGED <<stage, above, waits, watch>>
        BY <1>3, <2>4, <3>3 DEF Enter
      <4> QED
        BY <2>1, <2>2, <3>1, <4>1 DEF Answered
    <3>4. CASE stage[c] \notin {"none", "up"}
      <4>1. To(o, "gone") /\ UNCHANGED <<ag, actVars>>
        BY <1>3, <2>4, <3>4 DEF Enter
      <4> QED
        BY <2>1, <3>1, <4>1 DEF Moves, To
    <3> QED
      BY <3>2, <3>3, <3>4
  <2> QED
    BY <2>3, <2>4
<1>4. ASSUME NEW o \in Ops, Gone(o) \/ CreateFails(o) \/ Undone(o) PROVE Moves(o)
  BY <1>4 DEF Gone, CreateFails, Undone, Moves, To
<1>5. ASSUME NEW o \in Ops, Inspected(o) PROVE Moves(o) \/ Admitted(o)
  BY <1>5 DEF Inspected, Moves, Admitted, To
<1>6. ASSUME NEW o \in Ops, Created(o) PROVE Installed(o) \/ Condemned(o)
  BY <1>6 DEF Created, Made, Installed, Condemned, To
<1>7. ASSUME NEW o \in Ops, Submit(o) PROVE Answered(o) \/ Refused(o)
  BY <1>7 DEF Submit, Answered, Refused, To
<1>8. ASSUME NEW c \in Children, Look(c) \/ Poked(c) PROVE Watching(c) \/ Settling(c)
  <2>1. CASE Settled(c) /\ Disposes({c}) /\ UNCHANGED <<op, durable, drainVars, reports>>
    BY <2>1 DEF Settling
  <2>2. CASE /\ ag' = [ag EXCEPT ![c].poked = FALSE] /\ watch[c] \in {"race", "poke"}
             /\ \E w \in {"race", "poke"} : watch' = [watch EXCEPT ![c] = w]
             /\ UNCHANGED <<stage, owned, above, announced, waits, op, durable, drainVars, reports>>
    <3>1. stage[c] = "up"
      BY <2>2 DEF Alive
    <3>2. SameAgents
      <4> DEFINE r == [ag[c] EXCEPT !.poked = FALSE]
      <4>1. ag \in [Nodes -> Agents] /\ c \in Nodes
        BY Assumed DEF Typed
      <4>2. r \in Agents /\ Looks(ag[c], r)
        BY <4>1 DEF Agents, Looks
      <4>3. ag' = [ag EXCEPT ![c] = r]
        BY <2>2
      <4> HIDE DEF r
      <4>4. \A a \in Nodes : Looks(ag[a], ag[a])
        BY DEF Looks
      <4> QED
        BY <4>1, <4>2, <4>3, <4>4 DEF SameAgents
    <3> QED
      BY <2>2, <3>1, <3>2 DEF Watching, SameTree
  <2>3. CASE /\ UNCHANGED ag /\ watch[c] = "race" /\ watch' = [watch EXCEPT ![c] = "poke"]
             /\ UNCHANGED <<stage, owned, above, announced, waits, op, durable, drainVars, reports>>
    <3>1. stage[c] = "up"
      BY <2>3 DEF Alive
    <3>2. SameAgents
      BY <2>3 DEF SameAgents, Looks, Typed
    <3> QED
      BY <2>3, <3>1, <3>2 DEF Watching, SameTree
  <2>4. CASE Poked(c)
    BY <2>2, <2>4 DEF Poked
  <2>5. CASE Look(c)
    <3>1. CASE ~Settled(c) /\ ag[c].phase # "idle" /\ UNCHANGED watch /\ ag' = [ag EXCEPT ![c].poked = FALSE]
      <4>1. watch' = [watch EXCEPT ![c] = "race"] /\ watch[c] = "race"
        BY <2>5, <3>1 DEF Look, Typed, TreeTyped
      <4> QED
        BY <2>2, <2>5, <3>1, <4>1 DEF Look
    <3> QED
      BY <2>1, <2>3, <2>5, <3>1 DEF Look
  <2> QED
    BY <1>8, <2>4, <2>5
<1>9. ASSUME NEW a \in Nodes, AgentSteps(a) \/ TurnFails(a) PROVE Works(a)
  BY <1>9 DEF AgentSteps, Works
<1>10. ASSUME NEW c \in Children, Interrupt(c) PROVE \E a \in Nodes : Works(a)
  BY <1>10, Assumed DEF Works
<1>11. CASE Rest
  BY <1>11 DEF Rest, vars
<1> QED
  BY <1>1, <1>2, <1>3, <1>4, <1>5, <1>6, <1>7, <1>8, <1>9, <1>10, <1>11
     DEF Next, Steps, CallSteps, Watches, DrainSteps

--------------------------------------------------------------------------------
(* What a call does to the calls, and a new agent to the agents *)

LEMMA GoesOf ==
  ASSUME Typed, NEW o \in Ops, NEW pc \in {"prepare", "queued", "ok", "failed"} \cup Holding,
         op' = [op EXCEPT ![o].pc = pc]
  PROVE  /\ op' \in [Ops -> Calls]
         /\ \A q \in Ops : /\ op'[q].pc = (IF q = o THEN pc ELSE op[q].pc)
                           /\ op'[q].child = op[q].child /\ op'[q].start = op[q].start
                           /\ op'[q].gen = op[q].gen /\ op'[q].line = op[q].line
<1>1. op \in [Ops -> Calls] /\ op[o] \in Calls
  BY DEF Typed
<1> DEFINE r == [op[o] EXCEPT !.pc = pc]
<1>2. /\ r \in Calls /\ r.pc = pc /\ r.child = op[o].child /\ r.start = op[o].start
      /\ r.gen = op[o].gen /\ r.line = op[o].line
  BY <1>1 DEF Calls
<1>3. op' = [op EXCEPT ![o] = r]
  OBVIOUS
<1> HIDE DEF r
<1> QED
  BY <1>1, <1>2, <1>3

LEMMA AdmittedOf ==
  ASSUME Typed, NEW o \in Ops, Admitted(o)
  PROVE  /\ op' \in [Ops -> Calls] /\ op'[o].line = Lineage(Parent[op[o].child])
         /\ \A q \in Ops : /\ op'[q].pc = (IF q = o THEN "create" ELSE op[q].pc)
                           /\ op'[q].child = op[q].child /\ op'[q].start = op[q].start
                           /\ op'[q].gen = op[q].gen /\ (q # o => op'[q].line = op[q].line)
<1>1. op \in [Ops -> Calls] /\ op[o] \in Calls
  BY DEF Typed
<1> DEFINE l == Lineage(Parent[op[o].child])
           r == [op[o] EXCEPT !.pc = "create", !.line = l]
<1>2. l \in SUBSET Nodes
  <2>1. Parent[op[o].child] \in Nodes
    BY <1>1, Assumed DEF Calls
  <2> QED
    BY <2>1, AncestorsOf DEF Lineage
<1>3. op' = [op EXCEPT ![o] = r]
  BY DEF Admitted
<1> HIDE DEF l
<1>4. /\ r \in Calls /\ r.pc = "create" /\ r.child = op[o].child /\ r.start = op[o].start
      /\ r.gen = op[o].gen /\ r.line = l
  BY <1>1, <1>2 DEF Calls, Holding
<1> HIDE DEF r
<1>5. /\ op' \in [Ops -> Calls] /\ op'[o].line = l
      /\ \A q \in Ops : /\ op'[q].pc = (IF q = o THEN "create" ELSE op[q].pc)
                        /\ op'[q].child = op[q].child /\ op'[q].start = op[q].start
                        /\ op'[q].gen = op[q].gen /\ (q # o => op'[q].line = op[q].line)
  BY <1>1, <1>3, <1>4
<1> QED
  BY <1>5 DEF l

LEMMA CallOf ==
  ASSUME Typed, NEW o \in Ops, NEW c \in Children, NEW start \in BOOLEAN, Call(o, c, start)
  PROVE  /\ op' \in [Ops -> Calls] /\ op'[o].pc \in {"prepare", "queued"} /\ op'[o].child = c
         /\ op'[o].start = start /\ op'[o].gen = ag[Parent[c]].gen
         /\ \A q \in Ops : q # o => op'[q] = op[q]
<1>1. op \in [Ops -> Calls] /\ Parent[c] \in Nodes /\ ag[Parent[c]] \in Agents
  BY Assumed DEF Typed
<1> DEFINE r == [pc |-> IF start THEN "prepare" ELSE "queued", child |-> c, start |-> start,
                 gen |-> ag[Parent[c]].gen, line |-> {}]
<1>2. op' = [op EXCEPT ![o] = r]
  BY DEF Call
<1>3. /\ r \in Calls /\ r.pc \in {"prepare", "queued"} /\ r.child = c /\ r.start = start
      /\ r.gen = ag[Parent[c]].gen
  BY <1>1 DEF Calls, Agents
<1> HIDE DEF r
<1> QED
  BY <1>1, <1>2, <1>3

LEMMA RenewedOf ==
  ASSUME NEW r \in Agents
  PROVE  LET s == [r EXCEPT !.phase = "idle", !.gen = @ + 1, !.poked = FALSE]
         IN  /\ s \in Agents /\ s.phase = "idle" /\ s.gen = r.gen + 1 /\ r.gen \in Nat
             /\ s.log = r.log /\ s.stepQ = r.stepQ /\ s.turnQ = r.turnQ
<1> DEFINE n == r.gen + 1
           s == [r EXCEPT !.phase = "idle", !.gen = n, !.poked = FALSE]
<1>1. r.gen \in Nat
  BY DEF Agents
<1>2. n \in Nat
  BY <1>1
<1> HIDE DEF n
<1>3. /\ s \in Agents /\ s.phase = "idle" /\ s.gen = n
      /\ s.log = r.log /\ s.stepQ = r.stepQ /\ s.turnQ = r.turnQ
  BY <1>2 DEF Agents
<1> QED
  BY <1>1, <1>3 DEF n

LEMMA MadeOf ==
  ASSUME Typed, NEW o \in Ops, Made(o)
  PROVE  LET c == op[o].child IN
         /\ c \in Children /\ c \in Nodes /\ ag' \in [Nodes -> Agents]
         /\ ag'[c].phase = "idle" /\ ag'[c].gen = ag[c].gen + 1 /\ ag[c].gen \in Nat
         /\ Messages(ag'[c]) = Messages(ag[c]) /\ (MailOf(ag[c]) => MailOf(ag'[c]))
         /\ \A a \in Nodes : a # c => ag'[a] = ag[a]
         /\ above' \in [Children -> SUBSET Nodes] /\ above'[c] = {c} \cup op[o].line
         /\ \A d \in Children : d # c => above'[d] = above[d]
<1> DEFINE c == op[o].child
           r == [ag[c] EXCEPT !.phase = "idle", !.gen = @ + 1, !.poked = FALSE]
<1>1. op[o] \in Calls /\ c \in Children /\ c \in Nodes
  BY Assumed DEF Typed, Calls
<1>2. ag \in [Nodes -> Agents] /\ ag[c] \in Agents
  BY <1>1 DEF Typed
<1>3. above' = [above EXCEPT ![c] = {c} \cup op[o].line] /\ ag' = [ag EXCEPT ![c] = r]
  BY DEF Made
<1>4. above' \in [Children -> SUBSET Nodes] /\ above'[c] = {c} \cup op[o].line
      /\ \A d \in Children : d # c => above'[d] = above[d]
  BY <1>1, <1>3 DEF Typed, TreeTyped, Calls
<1>5. /\ r \in Agents /\ r.phase = "idle" /\ r.gen = ag[c].gen + 1 /\ ag[c].gen \in Nat
      /\ r.log = ag[c].log /\ r.stepQ = ag[c].stepQ /\ r.turnQ = ag[c].turnQ
  BY <1>2, RenewedOf
<1> HIDE DEF r
<1>6. ag' \in [Nodes -> Agents] /\ ag'[c] = r /\ \A a \in Nodes : a # c => ag'[a] = ag[a]
  BY <1>1, <1>2, <1>3, <1>5
<1>7. Messages(r) = Messages(ag[c]) /\ (MailOf(ag[c]) => MailOf(r))
  BY <1>5 DEF Messages, MailOf
<1> QED
  BY <1>1, <1>4, <1>5, <1>6, <1>7

(* Every disposal stops a set that is closed under what is owned and up. *)
Stops ==
  \/ \E o \in Ops : Refused(o)
  \/ \E c \in Children : Settling(c)
  \/ DrainForest \/ \E r \in Roots : DrainScope(r) \/ \E S \in SUBSET Children : Select(r, S)

LEMMA StopsOf ==
  ASSUME Stops
  PROVE  \E D : Closed(D) /\ Stopped(D)
BY DisposesOf DEF Stops, Refused, Settling, DrainForest, DrainScope, Select

(* What a step that is no disposal, no removal and no new agent does to the tree. *)
LEMMA StaysOf ==
  ASSUME \/ \E o \in Ops, c \in Children, start \in BOOLEAN : Call(o, c, start)
         \/ \E o \in Ops : Moves(o) \/ Admitted(o)
         \/ \E c \in Children, quiet \in BOOLEAN : Report(c, quiet)
         \/ \E c \in Children : Watching(c)
         \/ Drain \/ DrainDone \/ ScopeDone \/ UNCHANGED vars
  PROVE  UNCHANGED <<stage, owned, above, announced, waits>>
BY DEF Call, Moves, Admitted, Report, Watching, SameTree, Drain, DrainDone, ScopeDone, vars, actVars

(* A report in the inbox of the parent. *)
LEMMA ReportOf ==
  ASSUME Typed, NEW c \in Children, NEW quiet \in BOOLEAN, Report(c, quiet)
  PROVE  \E m \in Msgs :
           /\ m.kind = "report" /\ m.from = c /\ m.gen = ag[c].gen /\ Parent[c] \in Nodes
           /\ ag' \in [Nodes -> Agents] /\ ag'[Parent[c]] = Sent(ag[Parent[c]], m, "step", ~quiet)
           /\ \A a \in Nodes : a # Parent[c] => ag'[a] = ag[a]
           /\ \A a \in Nodes :
                /\ ag'[a].gen = ag[a].gen
                /\ ag'[a].phase # ag[a].phase => /\ a = Parent[c] /\ ~quiet
                                                 /\ ag[a].phase = "idle" /\ ag'[a].phase = "run"
<1> DEFINE p == Parent[c]
           m == [kind |-> "report", from |-> c, gen |-> ag[c].gen,
                 acc |-> ~quiet /\ HasActivation(p)]
<1>1. p \in Nodes /\ c \in Nodes /\ ag[c] \in Agents /\ ag[p] \in Agents /\ ag \in [Nodes -> Agents]
  BY Assumed DEF Typed
<1>2. m \in Msgs /\ m.kind = "report" /\ m.from = c /\ m.gen = ag[c].gen
  BY <1>1 DEF Msgs, Agents, HasActivation
<1>3. ag' = [ag EXCEPT ![p] = Sent(ag[p], m, "step", ~quiet)]
  BY DEF Report
<1> HIDE DEF m
<1>4. PICK w \in BOOLEAN : w = ~quiet
  OBVIOUS
<1>5. LET t == Sent(ag[p], m, "step", w)
      IN  /\ t \in Agents /\ t.gen = ag[p].gen
          /\ t.phase = (IF w /\ ag[p].phase = "idle" THEN "run" ELSE ag[p].phase)
  BY <1>1, <1>2, SentOf
<1> DEFINE t == Sent(ag[p], m, "step", ~quiet)
<1>6. /\ t \in Agents /\ t.gen = ag[p].gen
      /\ t.phase = (IF ~quiet /\ ag[p].phase = "idle" THEN "run" ELSE ag[p].phase)
  BY <1>4, <1>5
<1>7. ag' = [ag EXCEPT ![p] = t]
  BY <1>3
<1> HIDE DEF t, p
<1>8. /\ ag' \in [Nodes -> Agents] /\ ag'[p] = t
      /\ \A a \in Nodes : a # p => ag'[a] = ag[a]
      /\ \A a \in Nodes :
           /\ ag'[a].gen = ag[a].gen
           /\ ag'[a].phase # ag[a].phase => /\ a = p /\ ~quiet
                                            /\ ag[a].phase = "idle" /\ ag'[a].phase = "run"
  BY <1>1, <1>6, <1>7
<1> QED
  BY <1>1, <1>2, <1>8 DEF t, p

--------------------------------------------------------------------------------
(* Types *)

LEMMA InitTyped ==
  ASSUME Init
  PROVE  Typed
<1>1. setup \in Setups /\ Started \subseteq Children /\ MaxReports \in Nat
  BY SetupAssumed DEF Init
<1>2. ag \in [Nodes -> Agents]
  <2>1. \A a \in Nodes : Started0(a) \in Agents
    BY DEF Started0, Agents
  <2> QED
    BY <2>1 DEF Init
<1>3. TreeTyped
  BY <1>1, AncestorsOf, Assumed DEF Init, TreeTyped, Stages
<1>4. op \in [Ops -> Calls]
  <2>1. PICK d \in Children : d = CHOOSE c \in Children : TRUE
    BY Assumed
  <2>2. op \in [Ops -> [pc : {"new"}, child : {d}, start : {FALSE}, gen : {0}, line : {{}}]]
    BY <2>1 DEF Init
  <2>3. ASSUME NEW x \in [pc : {"new"}, child : {d}, start : {FALSE}, gen : {0}, line : {{}}]
        PROVE  x \in Calls
    <3>1. /\ x = [pc |-> x.pc, child |-> x.child, start |-> x.start, gen |-> x.gen, line |-> x.line]
          /\ x.pc = "new" /\ x.child = d /\ x.start = FALSE /\ x.gen = 0 /\ x.line \in {{}}
      OBVIOUS
    <3>2. x.line \in SUBSET Nodes
      BY <3>1
    <3>3. x.pc \in {"new", "prepare", "queued", "ok", "failed"} \cup Holding /\ x.gen \in Nat
      BY <3>1
    <3>4. x.start \in BOOLEAN
      BY <3>1, Zenon
    <3> QED
      BY <3>1, <3>2, <3>3, <3>4 DEF Calls
  <2> QED
    BY <2>2, <2>3
<1>5. DrainsTyped
  <2>1. (CHOOSE r \in Roots : TRUE) \in Roots
    BY Assumed
  <2> QED
    BY <2>1 DEF Init, DrainsTyped, NoDrain
<1> QED
  BY <1>1, <1>2, <1>3, <1>4, <1>5 DEF Init, Typed

LEMMA TypedKept ==
  ASSUME Typed, Alive, [Next]_vars
  PROVE  Typed'
<1> DEFINE Rest2 == /\ DrainsTyped' /\ durable' \subseteq Children /\ reports' \in 0 .. MaxReports
           Goal == ag' \in [Nodes -> Agents] /\ TreeTyped' /\ op' \in [Ops -> Calls] /\ Rest2
<1>1. UNCHANGED <<drain, scope, durable, reports>> => Rest2
  BY DEF Typed, DrainsTyped
<1>2. UNCHANGED <<stage, owned, above, announced, waits, watch>> => TreeTyped'
  BY DEF Typed, TreeTyped
<1>3. UNCHANGED ag => ag' \in [Nodes -> Agents]
  BY DEF Typed
<1>4. UNCHANGED op => op' \in [Ops -> Calls]
  BY DEF Typed
<1> HIDE DEF Rest2
<1>5. ASSUME NEW o \in Ops, NEW c \in Children, NEW start \in BOOLEAN, Call(o, c, start)
      PROVE  Goal
  <2>1. op' \in [Ops -> Calls]
    BY <1>5, CallOf
  <2> QED
    BY <1>1, <1>2, <1>3, <1>5, <2>1 DEF Call, actVars, drainVars
<1>6. ASSUME NEW o \in Ops, Moves(o)
      PROVE  Goal
  <2>1. op' \in [Ops -> Calls]
    BY <1>6, GoesOf DEF Moves, Holding
  <2> QED
    BY <1>1, <1>2, <1>3, <1>6, <2>1 DEF Moves, actVars, drainVars
<1>7. ASSUME NEW o \in Ops, Admitted(o)
      PROVE  Goal
  <2>1. op' \in [Ops -> Calls]
    BY <1>7, AdmittedOf
  <2> QED
    BY <1>1, <1>2, <1>3, <1>7, <2>1 DEF Admitted, actVars, drainVars
<1>8. ASSUME NEW o \in Ops, Installed(o)
      PROVE  Goal
  <2>1. op[o].child \in Children
    BY DEF Typed, Calls
  <2>2. op' \in [Ops -> Calls]
    BY <1>8, GoesOf DEF Installed, Holding
  <2>3. ag' \in [Nodes -> Agents] /\ above' \in [Children -> SUBSET Nodes]
    BY <1>8, MadeOf DEF Installed
  <2>4. owned' \in [Children -> SUBSET Children]
    BY <1>8, <2>1, AcquiredOf DEF Installed
  <2>5. UNCHANGED <<announced, waits, drain, scope, reports>> /\ durable' \subseteq Children
    BY <1>8, <2>1 DEF Installed, Made, drainVars, Typed
  <2>6. TreeTyped'
    BY <1>8, <2>1, <2>3, <2>4, <2>5 DEF Installed, Typed, TreeTyped, Stages
  <2>7. Rest2
    BY <2>5 DEF Rest2, Typed, DrainsTyped
  <2> QED
    BY <2>2, <2>3, <2>6, <2>7
<1>9. ASSUME NEW o \in Ops, Condemned(o)
      PROVE  Goal
  <2>1. op[o].child \in Children
    BY DEF Typed, Calls
  <2>2. op' \in [Ops -> Calls]
    BY <1>9, GoesOf DEF Condemned, Holding
  <2>3. ag' \in [Nodes -> Agents] /\ above' \in [Children -> SUBSET Nodes]
    BY <1>9, MadeOf DEF Condemned
  <2>5. UNCHANGED <<announced, waits, drain, scope, reports>> /\ durable' \subseteq Children
    BY <1>9, <2>1 DEF Condemned, Made, drainVars, Typed
  <2>6. TreeTyped'
    BY <1>9, <2>1, <2>3, <2>5 DEF Condemned, Typed, TreeTyped, Stages
  <2>7. Rest2
    BY <2>5 DEF Rest2, Typed, DrainsTyped
  <2> QED
    BY <2>2, <2>3, <2>6, <2>7
<1>10. ASSUME NEW o \in Ops, Answered(o)
       PROVE  Goal
  <2>1. ag' \in [Nodes -> Agents] /\ TreeTyped' /\ op' = [op EXCEPT ![o].pc = "ok"]
    BY <1>10, AcceptsOf DEF Answered
  <2>2. op' \in [Ops -> Calls]
    BY <2>1, GoesOf
  <2> QED
    BY <1>1, <1>10, <2>1, <2>2 DEF Answered, drainVars
<1>11. ASSUME Stops, UNCHANGED op \/ \E o \in Ops : op' = [op EXCEPT ![o].pc = "undo"], Rest2
       PROVE  Goal
  <2>1. ag' \in [Nodes -> Agents] /\ TreeTyped'
    BY <1>11, StopsOf, StoppedOf
  <2>2. op' \in [Ops -> Calls]
    BY <1>4, <1>11, GoesOf DEF Holding
  <2> QED
    BY <1>11, <2>1, <2>2
<1>12. ASSUME NEW o \in Ops, Refused(o)
       PROVE  Goal
  BY <1>1, <1>11, <1>12 DEF Refused, Stops, drainVars
<1>13. ASSUME NEW c \in Children, Settling(c)
       PROVE  Goal
  BY <1>1, <1>11, <1>13 DEF Settling, Stops, drainVars
<1>14. ASSUME NEW r \in Roots, NEW S \in SUBSET Children, Select(r, S)
       PROVE  Goal
  BY <1>1, <1>11, <1>14 DEF Select, Stops, drainVars
<1>15. ASSUME DrainForest
       PROVE  Goal
  <2> DEFINE roots == Unowned({c \in Children : Resident(c)})
  <2>1. roots \in SUBSET Children /\ drain' = [drain EXCEPT !.phase = "roots", !.roots = roots]
        /\ UNCHANGED <<op, durable, scope, reports>>
    BY <1>15 DEF DrainForest, Unowned
  <2> HIDE DEF roots
  <2>2. Rest2
    BY <2>1 DEF Typed, DrainsTyped, Rest2
  <2> QED
    BY <1>11, <1>15, <2>1, <2>2 DEF Stops
<1>16. ASSUME NEW r \in Roots, DrainScope(r)
       PROVE  Goal
  <2>1. PICK ops \in SUBSET Ops, roots \in SUBSET Children, members \in SUBSET Nodes :
          scope' = [phase |-> "wait", root |-> r, ops |-> ops, roots |-> roots, members |-> members]
    <3> DEFINE targets == {c \in Children : Resident(c) /\ r \in above[c]}
               started == {o \in Materializing : r \in op[o].line}
               lineages == UNION {{c} \cup Lineage(c) : c \in targets}
               lines == UNION {op[o].line : o \in started}
               members == {r} \cup lineages \cup lines
    <3>1. \A c \in Nodes : Lineage(c) \subseteq Nodes
      BY AncestorsOf DEF Lineage
    <3>2. \A o \in Ops : op[o].line \subseteq Nodes
      BY DEF Typed, Calls
    <3>3. r \in Nodes /\ targets \subseteq Children /\ targets \subseteq Nodes /\ started \subseteq Ops
      BY Assumed DEF Materializing
    <3>4. Unowned(targets) \subseteq Children
      BY <3>3 DEF Unowned
    <3>5. members \in SUBSET Nodes
      <4> HIDE DEF targets, started
      <4>1. lineages \subseteq Nodes
        BY <3>1, <3>3
      <4>2. lines \subseteq Nodes
        BY <3>2, <3>3
      <4> HIDE DEF lineages, lines
      <4> QED
        BY <3>3, <4>1, <4>2
    <3>6. scope' = [phase |-> "wait", root |-> r, ops |-> started, roots |-> Unowned(targets),
                    members |-> members]
      BY <1>16 DEF DrainScope
    <3> HIDE DEF members, targets, started
    <3> QED
      BY <3>3, <3>4, <3>5, <3>6
  <2>3. UNCHANGED <<op, durable, drain, reports>>
    BY <1>16 DEF DrainScope
  <2>4. scope' \in [phase : {"no", "wait", "done"}, ops : SUBSET Ops, roots : SUBSET Children,
                    root : Roots, members : SUBSET Nodes]
    BY <2>1
  <2>2. Rest2
    BY <2>3, <2>4 DEF Typed, DrainsTyped, Rest2
  <2> QED
    BY <1>11, <1>16, <2>2 DEF Stops, DrainScope
<1>17. ASSUME NEW o \in Ops, RolledBack(o)
       PROVE  Goal
  <2>1. op[o].child \in Children /\ ag \in [Nodes -> Agents]
    BY DEF Typed, Calls
  <2>2. ag' \in [Nodes -> Agents] /\ TreeTyped'
    BY <1>17, <2>1, RemovedOf DEF RolledBack
  <2>3. op' \in [Ops -> Calls]
    BY <1>17, GoesOf DEF RolledBack, To
  <2> QED
    BY <1>1, <1>17, <2>2, <2>3 DEF RolledBack, drainVars
<1>18. ASSUME NEW c \in Children, Released(c)
       PROVE  Goal
  <2>1. Notified(c) \in [Nodes -> Agents]
    BY NotifiedOf
  <2>2. ag' \in [Nodes -> Agents] /\ TreeTyped'
    BY <1>18, <2>1, RemovedOf DEF Released
  <2> QED
    BY <1>1, <1>4, <1>18, <2>2 DEF Released, drainVars
<1>19. ASSUME NEW a \in Nodes, Works(a)
       PROVE  Goal
  <2>1. PICK r \in Agents : Becomes(a, r)
    BY <1>19, WorkOf DEF Works
  <2>2. ag' \in [Nodes -> Agents] /\ TreeTyped'
        /\ UNCHANGED <<op, durable, drain, scope, reports>>
    BY <2>1, BecomesOf DEF drainVars
  <2> QED
    BY <1>1, <1>4, <2>2
<1>20. ASSUME NEW c \in Children, NEW quiet \in BOOLEAN, Report(c, quiet)
       PROVE  Goal
  <2>1. ag' \in [Nodes -> Agents]
    BY <1>20, ReportOf
  <2>2. reports < MaxReports /\ reports' = reports + 1 /\ MaxReports \in Nat /\ reports \in 0 .. MaxReports
    BY <1>20, SetupAssumed DEF Report, Typed
  <2>3. reports' \in 0 .. MaxReports
    BY <2>2
  <2>4. Rest2
    BY <1>20, <2>3 DEF Report, Typed, DrainsTyped, Rest2, drainVars
  <2> QED
    BY <1>2, <1>4, <1>20, <2>1, <2>4 DEF Report, actVars
<1>21. ASSUME NEW c \in Children, Watching(c)
       PROVE  Goal
  <2>1. ag' \in [Nodes -> Agents] /\ TreeTyped'
    BY <1>21 DEF Watching, SameAgents, SameTree, Typed, TreeTyped
  <2> QED
    BY <1>1, <1>4, <1>21, <2>1 DEF Watching, drainVars
<1>22. ASSUME NEW c \in Children, Release(c)
       PROVE  Goal
  <2>1. c \in Nodes /\ ag \in [Nodes -> Agents] /\ Cleared(ag[c]) \in Agents
    BY Assumed, ClearedOf DEF Typed
  <2>2. ag' = [ag EXCEPT ![c] = Cleared(ag[c])]
    BY <1>22 DEF Release
  <2>3. ag' \in [Nodes -> Agents]
    BY <2>1, <2>2
  <2>4. TreeTyped'
    BY <1>22 DEF Release, Typed, TreeTyped, Stages
  <2> QED
    BY <1>1, <1>4, <1>22, <2>3, <2>4 DEF Release, drainVars
<1>23. ASSUME Drain
       PROVE  Goal
  <2>1. Materializing \in SUBSET Ops
    BY DEF Materializing
  <2>2. Rest2
    BY <1>23, <2>1 DEF Drain, Typed, DrainsTyped, Rest2
  <2> QED
    BY <1>2, <1>3, <1>4, <1>23, <2>2 DEF Drain, actVars
<1>24. ASSUME DrainDone \/ ScopeDone
       PROVE  Goal
  <2>2. Rest2
    BY <1>24 DEF DrainDone, ScopeDone, Typed, DrainsTyped, Rest2
  <2> QED
    BY <1>2, <1>3, <1>4, <1>24, <2>2 DEF DrainDone, ScopeDone, actVars
<1>25. ASSUME UNCHANGED vars
       PROVE  Goal
  BY <1>1, <1>2, <1>3, <1>4, <1>25 DEF vars, actVars, drainVars
<1> HIDE DEF Goal
<1>26. Goal /\ UNCHANGED setup
  BY <1>5, <1>6, <1>7, <1>8, <1>9, <1>10, <1>12, <1>13, <1>14, <1>15, <1>16, <1>17, <1>18, <1>19,
     <1>20, <1>21, <1>22, <1>23, <1>24, <1>25, Kinds
<1> QED
  BY <1>26 DEF Goal, Rest2, Typed, MaxReports

--------------------------------------------------------------------------------
(* Agents and Activations *)

(* An idle agent gets a message of a call or of a child. *)
Wakes(a) ==
  \/ \E o \in Ops : Answered(o) /\ a = op[o].child
  \/ \E c \in Children, quiet \in BOOLEAN : Report(c, quiet) /\ a = Parent[c]

(* No agent comes or goes; an Activation stays as it is or goes away a little more. *)
Steady ==
  /\ \A a \in Nodes : ag'[a].gen = ag[a].gen /\ (ag'[a].phase = "off" <=> ag[a].phase = "off")
  /\ \A c \in Children : \/ stage'[c] = stage[c]
                         \/ stage[c] \in {"up", "stop", "quiet"} /\ stage'[c] \in Teardown
  /\ \A c \in Children : watch'[c] # "off" <=> stage'[c] = "up"
  /\ above' = above
  /\ \A a \in Nodes :
       ag[a].phase \in {"run", "abort"} /\ InCall(a) => ag'[a].phase \in {"run", "abort"}
  /\ \A a \in Nodes : ag[a].phase = "idle" /\ ag'[a].phase # "idle" => Wakes(a)

LEMMA SteadyOf ==
  ASSUME Typed, Alive,
         \/ \E o \in Ops, c \in Children, start \in BOOLEAN : Call(o, c, start)
         \/ \E o \in Ops : Moves(o) \/ Admitted(o) \/ Answered(o)
         \/ \E a \in Nodes : Works(a)
         \/ \E c \in Children, quiet \in BOOLEAN : Report(c, quiet)
         \/ \E c \in Children : Watching(c) \/ Release(c)
         \/ Drain \/ DrainDone \/ ScopeDone \/ Stops \/ UNCHANGED vars
  PROVE  Steady
<1>1. CASE \/ \E o \in Ops, c \in Children, start \in BOOLEAN : Call(o, c, start)
           \/ \E o \in Ops : Moves(o) \/ Admitted(o)
           \/ Drain \/ DrainDone \/ ScopeDone \/ UNCHANGED vars
  <2>1. UNCHANGED <<ag, stage, above, watch>>
    BY <1>1 DEF Call, Moves, Admitted, Drain, DrainDone, ScopeDone, vars, actVars
  <2> QED
    BY <2>1 DEF Steady, Alive
<1>2. CASE \E o \in Ops : Answered(o)
  <2>1. PICK o \in Ops : Answered(o)
    BY <1>2
  <2>2. UNCHANGED <<stage, above, watch>> /\ op[o].child \in Children
    BY <2>1 DEF Answered, Typed, Calls
  <2>3. \A a \in Nodes :
          /\ ag'[a].gen = ag[a].gen
          /\ ag'[a].phase # ag[a].phase =>
               a = op[o].child /\ ag[a].phase = "idle" /\ ag'[a].phase = "run"
    BY <2>1, AcceptsOf DEF Answered
  <2>4. \A a \in Nodes : ag'[a].phase # ag[a].phase => Wakes(a)
    BY <2>1, <2>3 DEF Wakes
  <2> QED
    BY <2>2, <2>3, <2>4 DEF Steady, Alive
<1>3. CASE \E a \in Nodes : Works(a)
  <2>1. PICK a \in Nodes : Works(a)
    BY <1>3
  <2>2. PICK r \in Agents : /\ Becomes(a, r) /\ r.gen = ag[a].gen
                            /\ ag[a].phase \in {"run", "abort"} /\ r.phase \in {"idle", "run", "abort"}
                            /\ r.phase \notin {"run", "abort"} => ~InCall(a)
    BY <2>1, WorkOf DEF Works
  <2>3. /\ ag'[a] = r /\ \A b \in Nodes : b # a => ag'[b] = ag[b]
        /\ \A c \in Children : stage'[c] # stage[c] => stage[c] = "stop" /\ stage'[c] = "quiet"
        /\ UNCHANGED <<above, watch>>
    BY <2>2, BecomesOf
  <2>4. \A b \in Nodes :
          /\ ag'[b].gen = ag[b].gen /\ (ag'[b].phase = "off" <=> ag[b].phase = "off")
          /\ ag[b].phase \in {"run", "abort"} /\ InCall(b) => ag'[b].phase \in {"run", "abort"}
          /\ ag[b].phase = "idle" => ag'[b].phase = "idle"
    BY <2>2, <2>3
  <2> QED
    BY <2>3, <2>4 DEF Steady, Alive, Teardown
<1>4. CASE \E c \in Children, quiet \in BOOLEAN : Report(c, quiet)
  <2>1. PICK c \in Children, quiet \in BOOLEAN : Report(c, quiet)
    BY <1>4
  <2>2. UNCHANGED <<stage, above, watch>>
    BY <2>1 DEF Report, actVars
  <2>3. \A a \in Nodes :
          /\ ag'[a].gen = ag[a].gen
          /\ ag'[a].phase # ag[a].phase =>
               a = Parent[c] /\ ag[a].phase = "idle" /\ ag'[a].phase = "run"
    BY <2>1, ReportOf
  <2>4. \A a \in Nodes : ag'[a].phase # ag[a].phase => Wakes(a)
    BY <2>1, <2>3 DEF Wakes
  <2> QED
    BY <2>2, <2>3, <2>4 DEF Steady, Alive
<1>5. CASE \E c \in Children : Watching(c)
  <2>1. PICK c \in Children : Watching(c)
    BY <1>5
  <2>2. stage[c] = "up" /\ UNCHANGED <<stage, above>>
        /\ \A d \in Children : IF d = c THEN watch'[d] # "off" ELSE watch'[d] = watch[d]
    BY <2>1 DEF Watching, SameTree, Typed, TreeTyped
  <2>3. \A a \in Nodes : ag'[a].gen = ag[a].gen /\ ag'[a].phase = ag[a].phase
    BY <2>1 DEF Watching, SameAgents, Looks
  <2> QED
    BY <2>2, <2>3 DEF Steady, Alive
<1>6. CASE \E c \in Children : Release(c)
  <2>1. PICK c \in Children : Release(c)
    BY <1>6
  <2>2. /\ stage[c] = "quiet" /\ stage'[c] = "handle" /\ UNCHANGED <<above, watch>>
        /\ \A d \in Children : d # c => stage'[d] = stage[d]
    BY <2>1 DEF Release, Typed, TreeTyped
  <2>3. c \in Nodes /\ ag \in [Nodes -> Agents] /\ ag' = [ag EXCEPT ![c] = Cleared(ag[c])]
    BY <2>1, Assumed DEF Release, Typed
  <2>4. /\ Cleared(ag[c]).gen = ag[c].gen
        /\ Cleared(ag[c]).phase = (IF ag[c].phase = "run" THEN "abort" ELSE ag[c].phase)
    BY <2>3, ClearedOf
  <2>5. \A a \in Nodes :
          /\ ag'[a].gen = ag[a].gen /\ (ag'[a].phase = "off" <=> ag[a].phase = "off")
          /\ ag[a].phase \in {"run", "abort"} => ag'[a].phase \in {"run", "abort"}
          /\ ag[a].phase = "idle" => ag'[a].phase = "idle"
    BY <2>3, <2>4
  <2> QED
    BY <2>2, <2>5 DEF Steady, Alive, Teardown
<1>7. CASE Stops
  <2>1. PICK D : Closed(D) /\ Stopped(D)
    BY <1>7, StopsOf
  <2>2. \A a \in Nodes :
          /\ ag'[a].gen = ag[a].gen /\ (ag'[a].phase = "off" <=> ag[a].phase = "off")
          /\ ag[a].phase \in {"run", "abort"} => ag'[a].phase \in {"run", "abort"}
          /\ ag[a].phase = "idle" => ag'[a].phase = "idle"
    BY <2>1, StoppedOf
  <2>3. \A c \in Children :
          /\ c \in D => stage[c] = "up" /\ stage'[c] \in {"stop", "quiet"} /\ watch'[c] = "off"
          /\ c \notin D => stage'[c] = stage[c] /\ watch'[c] = watch[c]
    BY <2>1, StoppedOf
  <2>4. above' = above
    BY <2>1 DEF Stopped
  <2> QED
    BY <2>2, <2>3, <2>4 DEF Steady, Alive, Teardown
<1> QED
  BY <1>1, <1>2, <1>3, <1>4, <1>5, <1>6, <1>7

LEMMA SteadyOr ==
  ASSUME Typed, Alive, [Next]_vars
  PROVE  \/ Steady /\ (UNCHANGED <<owned, announced>> \/ \E o \in Ops : Answered(o))
         \/ \E o \in Ops : Installed(o) \/ Condemned(o) \/ RolledBack(o)
         \/ \E c \in Children : Released(c)
<1>1. ASSUME \/ \E o \in Ops, c \in Children, start \in BOOLEAN : Call(o, c, start)
             \/ \E o \in Ops : Moves(o) \/ Admitted(o)
             \/ \E c \in Children, quiet \in BOOLEAN : Report(c, quiet)
             \/ \E c \in Children : Watching(c) \/ Release(c)
             \/ \E a \in Nodes : Works(a)
             \/ Drain \/ DrainDone \/ ScopeDone \/ Stops \/ UNCHANGED vars
      PROVE  Steady /\ UNCHANGED <<owned, announced>>
  <2>1. Steady
    BY <1>1, SteadyOf
  <2>2. CASE Stops
    BY <2>1, <2>2, StopsOf DEF Stopped
  <2>3. CASE \E a \in Nodes : Works(a)
    <3>1. PICK a \in Nodes, r \in Agents : Becomes(a, r)
      BY <2>3, WorkOf DEF Works
    <3> QED
      BY <2>1, <3>1 DEF Becomes
  <2>4. CASE \E c \in Children : Release(c)
    BY <2>1, <2>4 DEF Release
  <2> QED
    BY <1>1, <2>1, <2>2, <2>3, <2>4, StaysOf
<1>2. ASSUME NEW o \in Ops, Answered(o) PROVE Steady
  BY <1>2, SteadyOf
<1> QED
  BY <1>1, <1>2, Kinds DEF Stops

(* An agent leaves the tree. *)
Leaves(c) ==
  \E agents \in [Nodes -> Agents] :
    /\ Removed(c, agents)
    /\ \A a \in Nodes :
         /\ agents[a].gen = ag[a].gen
         /\ agents[a].phase # ag[a].phase =>
              /\ a = Parent[c] /\ announced[c] /\ ag[a].phase = "idle" /\ agents[a].phase = "run"

LEMMA LeavesOf ==
  ASSUME Typed, NEW c \in Children, Released(c) \/ \E o \in Ops : RolledBack(o) /\ c = op[o].child
  PROVE  Leaves(c)
<1>1. CASE \E o \in Ops : RolledBack(o) /\ c = op[o].child
  <2>1. Removed(c, ag) /\ ag \in [Nodes -> Agents]
    BY <1>1 DEF RolledBack, Typed
  <2> QED
    BY <2>1 DEF Leaves
<1>2. CASE Released(c)
  <2>1. Removed(c, Notified(c))
    BY <1>2 DEF Released
  <2>2. /\ Notified(c) \in [Nodes -> Agents]
        /\ \A a \in Nodes :
             /\ Notified(c)[a].gen = ag[a].gen
             /\ Notified(c)[a].phase # ag[a].phase =>
                  /\ a = Parent[c] /\ announced[c] /\ ag[a].phase = "idle"
                  /\ Notified(c)[a].phase = "run"
    BY NotifiedOf
  <2> QED
    BY <2>1, <2>2 DEF Leaves
<1> QED
  BY <1>1, <1>2

LEMMA AliveKept ==
  ASSUME Typed, Alive, Locks, [Next]_vars
  PROVE  Alive'
<1>1. CASE Steady
  <2>1. \A a \in Nodes : Live(a)' <=> Live(a)
    BY <1>1 DEF Steady, Live
  <2>2. \A c \in Children : (stage'[c] = "none" <=> stage[c] = "none") /\ (watch'[c] # "off" <=> stage'[c] = "up")
    BY <1>1 DEF Steady, Teardown
  <2> QED
    BY <2>1, <2>2, Assumed DEF Alive
<1>2. ASSUME NEW o \in Ops, Installed(o) \/ Condemned(o) PROVE Alive'
  <2> DEFINE c == op[o].child
  <2>1. Made(o) /\ op[o].pc = "create" /\ stage[c] = "none" /\ c \in Children /\ watch[c] = "off"
    BY <1>2 DEF Installed, Condemned, Made, Locks, Typed, Calls, Alive
  <2>2. \/ stage' = [stage EXCEPT ![c] = "up"] /\ watch' = [watch EXCEPT ![c] = "race"]
        \/ stage' = [stage EXCEPT ![c] = "rollback"] /\ UNCHANGED watch
    BY <1>2 DEF Installed, Condemned
  <2>3. /\ \A d \in Children : d # c => stage'[d] = stage[d] /\ watch'[d] = watch[d]
        /\ stage'[c] # "none" /\ (watch'[c] # "off" <=> stage'[c] = "up")
    BY <2>1, <2>2 DEF Typed, TreeTyped
  <2>4. /\ ag'[c].phase # "off"
        /\ \A a \in Nodes : a # c => (ag'[a].phase # "off" <=> ag[a].phase # "off")
    BY <2>1, MadeOf
  <2> HIDE DEF c
  <2> QED
    BY <2>1, <2>3, <2>4, Assumed DEF Alive, Live
<1>3. ASSUME NEW c \in Children, Leaves(c), watch[c] = "off" PROVE Alive'
  <2>1. PICK agents \in [Nodes -> Agents] :
          /\ Removed(c, agents)
          /\ \A a \in Nodes :
               agents[a].phase # ag[a].phase => ag[a].phase = "idle" /\ agents[a].phase = "run"
    BY <1>3 DEF Leaves
  <2>2. /\ ag'[c].phase = "off" /\ \A a \in Nodes : a # c => ag'[a].phase = agents[a].phase
        /\ \A d \in Children : stage'[d] = (IF d = c THEN "none" ELSE stage[d])
        /\ UNCHANGED watch
    BY <2>1, RemovedOf DEF Looks
  <2>3. ~Live(c)' /\ \A a \in Nodes : a # c => (Live(a)' <=> Live(a))
    BY <2>1, <2>2 DEF Live
  <2> QED
    BY <1>3, <2>2, <2>3, Assumed DEF Alive
<1>4. ASSUME NEW o \in Ops, RolledBack(o) PROVE Alive'
  <2>1. op[o].child \in Children /\ stage[op[o].child] = "rollback"
    BY <1>4 DEF RolledBack, Locks, Typed, Calls
  <2>2. watch[op[o].child] = "off"
    BY <2>1 DEF Alive
  <2> QED
    BY <1>3, <1>4, <2>1, <2>2, LeavesOf
<1>5. ASSUME NEW c \in Children, Released(c) PROVE Alive'
  <2>1. watch[c] = "off"
    BY <1>5 DEF Released, Alive
  <2> QED
    BY <1>3, <1>5, <2>1, LeavesOf
<1> QED
  BY <1>1, <1>2, <1>4, <1>5, SteadyOr

--------------------------------------------------------------------------------
(* Owners *)

LEMMA ApartOf ==
  ASSUME NEW c \in Children
  PROVE  Parent[c] # c /\ Parent[c] \in Nodes
BY Assumed, AncestorsOf

LEMMA ChildOf ==
  ASSUME Typed, NEW o \in Ops
  PROVE  op[o].child \in Children /\ op[o].child \in Nodes /\ op[o].start \in BOOLEAN
BY Assumed DEF Typed, Calls

LEMMA AcquiresOf ==
  ASSUME Typed, NEW c \in Children, owned' = Acquired(c)
  PROVE  \A a \in Children :
           /\ owned[a] \subseteq owned'[a] /\ (stage[a] # "up" => owned'[a] = owned[a])
           /\ \A d \in owned'[a] : /\ d \in Children
                                   /\ d \notin owned[a] => d = c /\ a = Parent[c] /\ stage[a] = "up"
           /\ a = Parent[c] /\ stage[a] = "up" => c \in owned'[a]
<1>1. owned \in [Children -> SUBSET Children]
  BY DEF Typed, TreeTyped
<1> QED
  BY <1>1, AcquiredOf

LEMMA OwnersKept ==
  ASSUME Typed, Alive, Owners, Locks, [Next]_vars
  PROVE  Owners'
<1>1. ASSUME UNCHANGED <<stage, owned, waits>> PROVE Owners'
  BY <1>1 DEF Owners, Resident
<1>2. ASSUME NEW a \in Nodes, Works(a) PROVE Owners'
  <2>1. PICK r \in Agents : Becomes(a, r)
    BY <1>2, WorkOf DEF Works
  <2>2. /\ \A c \in Children : stage'[c] # stage[c] => stage[c] = "stop" /\ stage'[c] = "quiet"
        /\ UNCHANGED <<owned, waits>>
    BY <2>1, BecomesOf
  <2> QED
    BY <2>2 DEF Owners, Resident, Teardown, Typed, TreeTyped
<1>3. ASSUME NEW c \in Children, Release(c) PROVE Owners'
  <2>1. /\ stage[c] = "quiet" /\ stage'[c] = "handle" /\ waits[c] = {} /\ UNCHANGED <<owned, waits>>
        /\ \A d \in Children : d # c => stage'[d] = stage[d]
    BY <1>3 DEF Release, Typed, TreeTyped
  <2>2. owned[c] = {}
    BY <2>1 DEF Owners, Teardown
  <2> QED
    BY <2>1, <2>2 DEF Owners, Resident, Teardown, Typed, TreeTyped
<1>4. ASSUME NEW c \in Children, owned' = Acquired(c), stage'[c] = "up", UNCHANGED waits,
             stage[c] \in {"none", "up"}, \A d \in Children : d # c => stage'[d] = stage[d]
      PROVE  Owners'
  <2>1. \A a \in Children :
          /\ stage[a] # "up" => owned'[a] = owned[a]
          /\ \A d \in owned'[a] : /\ d \in Children
                                  /\ d \notin owned[a] => d = c /\ a = Parent[c] /\ stage[a] = "up"
    BY <1>4, AcquiresOf
  <2>2. Parent[c] # c /\ owned \in [Children -> SUBSET Children]
    BY ApartOf DEF Typed, TreeTyped
  <2>3. ASSUME NEW a \in Children, NEW d \in owned'[a]
        PROVE  Parent[d] = a /\ stage'[d] # "none" /\ (stage'[a] \in Teardown => stage'[d] # "up")
    <3>1. CASE d \in owned[a]
      <4>1. /\ d \in Children /\ Parent[d] = a /\ stage[d] # "none"
            /\ stage[a] \in Teardown => stage[d] # "up"
        BY <2>1, <2>3, <3>1 DEF Owners, Resident
      <4>2. a # c => stage'[a] = stage[a]
        BY <1>4
      <4>3. stage[c] = "none" => d # c
        BY <4>1
      <4> QED
        BY <1>4, <4>1, <4>2, <4>3 DEF Teardown
    <3>2. CASE d \notin owned[a]
      <4>1. d = c /\ a = Parent[c] /\ stage[a] = "up"
        BY <2>1, <2>3, <3>2
      <4> QED
        BY <1>4, <2>2, <4>1 DEF Teardown
    <3> QED
      BY <3>1, <3>2
  <2>4. ASSUME NEW a \in Children
        PROVE  /\ stage'[a] \in {"none", "rollback", "handle"} => owned'[a] = {}
               /\ stage'[a] \in Teardown => waits'[a] = owned'[a]
    <3>1. CASE stage'[a] = "up"
      BY <3>1 DEF Teardown
    <3>2. CASE stage'[a] # "up"
      <4>1. a # c /\ stage'[a] = stage[a] /\ owned'[a] = owned[a] /\ waits' = waits
        BY <1>4, <2>1, <3>2
      <4> QED
        BY <4>1 DEF Owners
    <3> QED
      BY <3>1, <3>2
  <2> QED
    BY <2>3, <2>4 DEF Owners, Resident
<1>5. ASSUME NEW o \in Ops, Answered(o) PROVE Owners'
  <2>1. /\ op[o].child \in Children /\ owned' = Acquired(op[o].child) /\ UNCHANGED <<stage, waits>>
        /\ stage[op[o].child] = "up"
    BY <1>5, ChildOf DEF Answered, Accepts, MaySubmit
  <2> QED
    BY <1>4, <2>1
<1>6. ASSUME NEW o \in Ops, Installed(o) PROVE Owners'
  <2>1. /\ op[o].child \in Children /\ owned' = Acquired(op[o].child) /\ UNCHANGED waits
        /\ stage[op[o].child] = "none" /\ stage' = [stage EXCEPT ![op[o].child] = "up"]
    BY <1>6, ChildOf DEF Installed, Made, Locks
  <2>2. stage \in [Children -> Stages]
    BY DEF Typed, TreeTyped
  <2>3. stage'[op[o].child] = "up" /\ \A d \in Children : d # op[o].child => stage'[d] = stage[d]
    BY <2>1, <2>2
  <2> QED
    BY <1>4, <2>1, <2>3
<1>11. ASSUME NEW o \in Ops, Condemned(o) PROVE Owners'
  <2> DEFINE c == op[o].child
  <2>1. c \in Children /\ UNCHANGED <<owned, waits>> /\ stage[c] = "none"
        /\ stage' = [stage EXCEPT ![c] = "rollback"]
    BY <1>11, ChildOf DEF Condemned, Made, Locks
  <2>2. stage'[c] = "rollback" /\ \A d \in Children : d # c => stage'[d] = stage[d]
    BY <2>1 DEF Typed, TreeTyped
  <2>3. owned \in [Children -> SUBSET Children] /\ owned[c] = {}
    BY <2>1 DEF Typed, TreeTyped, Owners
  <2> HIDE DEF c
  <2>4. ASSUME NEW a \in Children, NEW d \in owned[a]
        PROVE  Parent[d] = a /\ stage'[d] # "none" /\ (stage'[a] \in Teardown => stage'[d] # "up")
    <3>1. /\ d \in Children /\ Parent[d] = a /\ stage[d] # "none" /\ a # c
          /\ stage[a] \in Teardown => stage[d] # "up"
      BY <2>3 DEF Owners, Resident
    <3> QED
      BY <2>1, <2>2, <3>1
  <2>5. \A a \in Children : /\ stage'[a] \in {"none", "rollback", "handle"} => owned[a] = {}
                            /\ stage'[a] \in Teardown => waits[a] = owned[a]
    BY <2>1, <2>2, <2>3 DEF Owners, Teardown
  <2> QED
    BY <2>1, <2>4, <2>5 DEF Owners, Resident
<1>7. ASSUME NEW c \in Children, Leaves(c), owned[c] = {} PROVE Owners'
  <2>1. /\ \A d \in Children : /\ stage'[d] = (IF d = c THEN "none" ELSE stage[d])
                               /\ owned'[d] = owned[d] \ {c} /\ waits'[d] = waits[d] \ {c}
    BY <1>7, RemovedOf DEF Leaves
  <2>2. owned \in [Children -> SUBSET Children]
    BY DEF Typed, TreeTyped
  <2>3. ASSUME NEW a \in Children, NEW d \in owned'[a]
        PROVE  Parent[d] = a /\ stage'[d] # "none" /\ (stage'[a] \in Teardown => stage'[d] # "up")
    <3>1. /\ d \in Children /\ d # c /\ d \in owned[a] /\ a # c
      BY <1>7, <2>1, <2>2
    <3>2. Parent[d] = a /\ stage[d] # "none" /\ (stage[a] \in Teardown => stage[d] # "up")
      BY <3>1 DEF Owners, Resident
    <3> QED
      BY <2>1, <3>1, <3>2
  <2>4. ASSUME NEW a \in Children
        PROVE  /\ stage'[a] \in {"none", "rollback", "handle"} => owned'[a] = {}
               /\ stage'[a] \in Teardown => waits'[a] = owned'[a]
    <3>1. CASE a = c
      BY <1>7, <2>1, <3>1 DEF Teardown
    <3>2. CASE a # c
      <4>1. /\ stage'[a] = stage[a] /\ owned'[a] = owned[a] \ {c} /\ waits'[a] = waits[a] \ {c}
        BY <2>1, <3>2
      <4>2. stage[a] \in {"none", "rollback", "handle"} => owned[a] = {}
        BY DEF Owners
      <4>3. stage[a] \in Teardown => waits[a] = owned[a]
        BY DEF Owners
      <4> QED
        BY <4>1, <4>2, <4>3
    <3> QED
      BY <3>1, <3>2
  <2> QED
    BY <2>3, <2>4 DEF Owners, Resident
<1>8. ASSUME NEW o \in Ops, RolledBack(o) PROVE Owners'
  <2>1. op[o].child \in Children /\ owned[op[o].child] = {}
    BY <1>8 DEF RolledBack, Locks, Owners, Typed, Calls
  <2> QED
    BY <1>7, <1>8, <2>1, LeavesOf
<1>9. ASSUME NEW c \in Children, Released(c) PROVE Owners'
  <2>1. owned[c] = {}
    BY <1>9 DEF Released, Owners
  <2> QED
    BY <1>7, <1>9, <2>1, LeavesOf
<1>10. ASSUME Stops PROVE Owners'
  <2>1. PICK D : Closed(D) /\ Stopped(D)
    BY <1>10, StopsOf
  <2>2. \A c \in Children :
          /\ c \in D => stage[c] = "up" /\ stage'[c] \in {"stop", "quiet"} /\ waits'[c] = owned[c]
          /\ c \notin D => stage'[c] = stage[c] /\ waits'[c] = waits[c]
    BY <2>1, StoppedOf
  <2>3. owned' = owned /\ owned \in [Children -> SUBSET Children]
    BY <2>1 DEF Stopped, Typed, TreeTyped
  <2>4. \A c, d \in Children : c \in D /\ d \in owned[c] /\ stage[d] = "up" => d \in D
    BY <2>1 DEF Closed, Up
  <2>5. \A c \in Children : \A d \in owned[c] :
          Parent[d] = c /\ stage'[d] # "none" /\ (stage'[c] \in Teardown => stage'[d] # "up")
    BY <2>2, <2>3, <2>4 DEF Owners, Resident, Teardown
  <2>6. \A c \in Children :
          /\ stage'[c] \in {"none", "rollback", "handle"} => owned[c] = {}
          /\ stage'[c] \in Teardown => waits'[c] = owned[c]
    BY <2>2, <2>3 DEF Owners, Teardown
  <2> QED
    BY <2>3, <2>5, <2>6 DEF Owners, Resident
<1> QED
  BY <1>1, <1>2, <1>3, <1>5, <1>6, <1>11, <1>8, <1>9, <1>10, Kinds, StaysOf DEF Stops

LEMMA AnnouncementsKept ==
  ASSUME Typed, Alive, Owners, Announcements, Callers, Locks, [Next]_vars
  PROVE  Announcements'
<1>1. ASSUME Steady, UNCHANGED <<owned, announced>> PROVE Announcements'
  <2>1. \A c \in Children : stage[c] \notin {"none", "rollback"} => stage'[c] \notin {"none", "rollback"}
    BY <1>1 DEF Steady, Teardown
  <2>2. \A a \in Nodes : Live(a) => Live(a)'
    BY <1>1 DEF Steady, Live
  <2>3. \A a \in Nodes : Known(a) => Known(a)'
    BY <1>1 DEF Known
  <2> QED
    BY <1>1, <2>1, <2>2, <2>3, ApartOf DEF Announcements
<1>2. ASSUME NEW o \in Ops, Answered(o), Steady PROVE Announcements'
  <2> DEFINE c == op[o].child
             p == Parent[c]
  <2>0. c \in Children /\ p \in Nodes
    BY ChildOf, ApartOf
  <2>1. /\ stage[c] = "up" /\ UNCHANGED stage /\ owned' = Acquired(c)
        /\ op[o].pc \in {"submit", "queued"} /\ Authorized(o) /\ CanOwn(p)
    BY <1>2 DEF Answered, MaySubmit, Accepts
  <2>5. \A d \in Children : announced'[d] = (d = c \/ announced[d])
    BY <1>2, AcceptsOf DEF Answered
  <2>6. \A a \in Children : /\ owned[a] \subseteq owned'[a]
                            /\ a = Parent[c] /\ stage[a] = "up" => c \in owned'[a]
    BY <2>0, <2>1, AcquiresOf
  <2>2. p \in Nodes /\ Live(p) /\ Known(p)
    BY <2>0, <2>1 DEF Callers, Active, Authorized
  <2>3. p \in Children => stage[p] = "up"
    BY <2>1, <2>2 DEF CanOwn, Alive
  <2>4. \A a \in Nodes : (Live(a) => Live(a)') /\ (Known(a) => Known(a)')
    BY <1>2, <2>5 DEF Steady, Live, Known, Nodes
  <2> HIDE DEF c
  <2>7. ASSUME NEW d \in Children, announced'[d]
        PROVE  /\ stage'[d] \notin {"none", "rollback"} /\ Live(Parent[d])' /\ Known(Parent[d])'
               /\ Parent[d] \in Children => d \in owned'[Parent[d]]
    <3>1. Parent[d] \in Nodes
      BY ApartOf
    <3>2. CASE d = c
      BY <2>1, <2>2, <2>3, <2>4, <2>6, <3>1, <3>2 DEF p
    <3>3. CASE d # c
      <4>1. announced[d]
        BY <2>5, <2>7, <3>3
      <4> QED
        BY <2>1, <2>4, <2>6, <3>1, <4>1 DEF Announcements
    <3> QED
      BY <3>2, <3>3
  <2> QED
    BY <2>7 DEF Announcements
<1>3. ASSUME NEW o \in Ops, Installed(o) \/ Condemned(o) PROVE Announcements'
  <2> DEFINE c == op[o].child
  <2>1. /\ c \in Children /\ Made(o) /\ stage[c] = "none" /\ UNCHANGED announced
    BY <1>3, ChildOf DEF Installed, Condemned, Made, Locks
  <2>5. \A a \in Children : owned[a] \subseteq owned'[a]
    BY <1>3, <2>1, AcquiresOf DEF Installed, Condemned
  <2>6. \A d \in Children : d # c => stage'[d] = stage[d]
    BY <1>3, <2>1 DEF Installed, Condemned, Typed, TreeTyped
  <2>2. ~announced[c]
    BY <2>1 DEF Announcements
  <2>3. \A a \in Nodes : ag[a].phase # "off" => ag'[a].phase # "off"
    BY <2>1, MadeOf
  <2>4. \A a \in Nodes : (Live(a) => Live(a)') /\ (Known(a) => Known(a)')
    BY <2>1, <2>3 DEF Live, Known
  <2> HIDE DEF c
  <2> QED
    BY <2>1, <2>2, <2>4, <2>5, <2>6, ApartOf DEF Announcements
<1>4. ASSUME NEW c \in Children, Leaves(c), owned[c] = {} PROVE Announcements'
  <2>1. PICK agents \in [Nodes -> Agents] :
          /\ Removed(c, agents)
          /\ \A a \in Nodes :
               agents[a].phase # ag[a].phase => ag[a].phase = "idle" /\ agents[a].phase = "run"
    BY <1>4 DEF Leaves
  <2>2. /\ \A a \in Nodes : a # c => ag'[a].phase = agents[a].phase
        /\ \A d \in Children :
             /\ stage'[d] = (IF d = c THEN "none" ELSE stage[d])
             /\ announced'[d] = (d # c /\ announced[d])
             /\ owned'[d] = owned[d] \ {c}
    BY <2>1, RemovedOf DEF Looks
  <2>3. \A a \in Nodes : a # c => (Live(a) => Live(a)') /\ (Known(a) => Known(a)')
    BY <2>1, <2>2 DEF Live, Known, Nodes
  <2>4. \A d \in Children : announced[d] => Parent[d] # c
    BY <1>4 DEF Announcements
  <2> QED
    BY <2>2, <2>3, <2>4, ApartOf DEF Announcements
<1>5. ASSUME NEW o \in Ops, RolledBack(o) PROVE Announcements'
  <2>1. op[o].child \in Children /\ owned[op[o].child] = {}
    BY <1>5 DEF RolledBack, Locks, Owners, Typed, Calls
  <2> QED
    BY <1>4, <1>5, <2>1, LeavesOf
<1>6. ASSUME NEW c \in Children, Released(c) PROVE Announcements'
  <2>1. owned[c] = {}
    BY <1>6 DEF Released, Owners
  <2> QED
    BY <1>4, <1>6, <2>1, LeavesOf
<1> QED
  BY <1>1, <1>2, <1>3, <1>5, <1>6, SteadyOr

--------------------------------------------------------------------------------
(* Calls *)

(* A call that is under way goes on. *)
Advances(o) ==
  /\ Active(o)
  /\ \E pc \in {"queued", "ok", "failed"} \cup (Holding \ {"create"}) :
       /\ op' = [op EXCEPT ![o].pc = pc]
       /\ pc = "rolling" => op[o].pc = "create"
       /\ pc \in Holding /\ op[o].pc \notin Holding => ~Held(op[o].child)
       /\ op[o].pc \in {"submit", "rolling", "undo"} =>
            pc = "undo" \/ Answered(o) \/ RolledBack(o) \/ ~Resident(op[o].child)

LEMMA OpsOf ==
  ASSUME Typed, Alive, [Next]_vars
  PROVE  \/ UNCHANGED op
         \/ \E o \in Ops, c \in Children, start \in BOOLEAN : Call(o, c, start)
         \/ \E o \in Ops : Admitted(o) \/ Advances(o)
<1>1. ASSUME NEW o \in Ops, Moves(o) PROVE Advances(o)
  <2>1. PICK pc \in {"queued", "inspect", "gone", "failed"} : op' = [op EXCEPT ![o].pc = pc]
    BY <1>1 DEF Moves
  <2>2. op[o].pc \in {"prepare", "queued", "gone", "inspect", "create", "undo"}
        /\ (op[o].pc = "undo" => ~Resident(op[o].child))
    BY <1>1 DEF Moves
  <2>4. pc \in {"inspect", "gone"} => ~Held(op[o].child)
    <3>1. op[o] \in Calls
      BY DEF Typed
    <3>2. PICK s \in {"queued", "inspect", "gone", "failed"} :
            op' = [op EXCEPT ![o].pc = s] /\ (s \in {"inspect", "gone"} => ~Held(op[o].child))
      BY <1>1 DEF Moves
    <3>3. op'[o].pc = pc /\ op'[o].pc = s
      BY <2>1, <3>2, GoesOf DEF Holding
    <3> QED
      BY <3>2, <3>3
  <2>3. pc \in {"queued", "ok", "failed"} \cup (Holding \ {"create"}) /\ pc # "rolling" /\ Active(o)
    BY <2>1, <2>2 DEF Holding, Active
  <2> QED
    BY <2>1, <2>2, <2>3, <2>4 DEF Advances, Holding
<1>2. ASSUME NEW o \in Ops, Installed(o) \/ Condemned(o) PROVE Advances(o)
  BY <1>2 DEF Installed, Condemned, Made, Advances, Active, Holding
<1>3. ASSUME NEW o \in Ops, Answered(o) PROVE Advances(o)
  BY <1>3 DEF Answered, Accepts, To, Advances, Active, Holding
<1>4. ASSUME NEW o \in Ops, Refused(o) PROVE Advances(o)
  BY <1>4 DEF Refused, Advances, Active, Holding
<1>5. ASSUME NEW o \in Ops, RolledBack(o) PROVE Advances(o)
  BY <1>5 DEF RolledBack, To, Advances, Active, Holding
<1>6. ASSUME NEW a \in Nodes, Works(a) PROVE UNCHANGED op
  BY <1>6, WorkOf DEF Works, Becomes
<1> QED
  BY <1>1, <1>2, <1>3, <1>4, <1>5, <1>6, Kinds
     DEF Report, Watching, Settling, Release, Released, Drain, DrainForest, DrainDone, ScopeDone,
         DrainScope, Select, vars

LEMMA AdvancesOf ==
  ASSUME Typed, NEW o \in Ops, Advances(o)
  PROVE  /\ Active(o)
         /\ \A q \in Ops : /\ op'[q].child = op[q].child /\ op'[q].start = op[q].start
                           /\ op'[q].gen = op[q].gen /\ op'[q].line = op[q].line
                           /\ q # o => op'[q].pc = op[q].pc
         /\ op'[o].pc # "create" /\ (op'[o].pc = "rolling" => op[o].pc = "create")
         /\ op'[o].pc \in Holding /\ op[o].pc \notin Holding => ~Held(op[o].child)
         /\ op[o].pc \in {"submit", "rolling", "undo"} =>
              op'[o].pc = "undo" \/ Answered(o) \/ RolledBack(o) \/ ~Resident(op[o].child)
<1>1. PICK pc \in {"queued", "ok", "failed"} \cup (Holding \ {"create"}) :
        /\ op' = [op EXCEPT ![o].pc = pc] /\ (pc = "rolling" => op[o].pc = "create")
        /\ pc \in Holding /\ op[o].pc \notin Holding => ~Held(op[o].child)
        /\ op[o].pc \in {"submit", "rolling", "undo"} =>
             pc = "undo" \/ Answered(o) \/ RolledBack(o) \/ ~Resident(op[o].child)
  BY DEF Advances
<1>2. pc \in {"prepare", "queued", "ok", "failed"} \cup Holding /\ pc # "create"
  BY <1>1
<1>3. \A q \in Ops : /\ op'[q].pc = (IF q = o THEN pc ELSE op[q].pc)
                     /\ op'[q].child = op[q].child /\ op'[q].start = op[q].start
                     /\ op'[q].gen = op[q].gen /\ op'[q].line = op[q].line
  BY <1>1, <1>2, GoesOf
<1>4. op'[o].pc = pc
  BY <1>3
<1> QED
  BY <1>1, <1>2, <1>3, <1>4 DEF Advances

(* A call that is under way was, or has just been made. *)
LEMMA ActiveOf ==
  ASSUME Typed, Alive, [Next]_vars, NEW q \in Ops, Active(q)'
  PROVE  \/ /\ Active(q) /\ op'[q].child = op[q].child /\ op'[q].start = op[q].start
            /\ op'[q].gen = op[q].gen
         \/ \E c \in Children, start \in BOOLEAN : Call(q, c, start)
<1>1. CASE UNCHANGED op
  BY <1>1 DEF Active
<1>2. ASSUME NEW o \in Ops, NEW c \in Children, NEW start \in BOOLEAN, Call(o, c, start), q # o
      PROVE  op'[q] = op[q]
  BY <1>2, CallOf
<1>3. ASSUME NEW o \in Ops, Admitted(o)
      PROVE  /\ Active(q) /\ op'[q].child = op[q].child /\ op'[q].start = op[q].start
             /\ op'[q].gen = op[q].gen
  BY <1>3, AdmittedOf DEF Active, Admitted
<1>4. ASSUME NEW o \in Ops, Advances(o)
      PROVE  /\ Active(q) /\ op'[q].child = op[q].child /\ op'[q].start = op[q].start
             /\ op'[q].gen = op[q].gen
  BY <1>4, AdvancesOf DEF Active
<1> QED
  BY <1>1, <1>2, <1>3, <1>4, OpsOf DEF Active

(* A materialization a drain would wait for was one before, or has just been admitted. *)
LEMMA MaterializingOf ==
  ASSUME Typed, Alive, [Next]_vars, NEW q \in Materializing'
  PROVE  \/ q \in Materializing /\ op'[q].child = op[q].child /\ op'[q].line = op[q].line
         \/ Admitted(q)
<1>0. q \in Ops /\ op'[q].pc \in {"create", "rolling"}
  BY DEF Materializing
<1>1. CASE UNCHANGED op
  BY <1>1 DEF Materializing
<1>2. ASSUME NEW o \in Ops, NEW c \in Children, NEW start \in BOOLEAN, Call(o, c, start)
      PROVE  op'[q] = op[q]
  BY <1>0, <1>2, CallOf
<1>3. ASSUME NEW o \in Ops, Admitted(o), q # o
      PROVE  op'[q].pc = op[q].pc /\ op'[q].child = op[q].child /\ op'[q].line = op[q].line
  BY <1>0, <1>3, AdmittedOf
<1>4. ASSUME NEW o \in Ops, Advances(o)
      PROVE  /\ op[q].pc \in {"create", "rolling"}
             /\ op'[q].child = op[q].child /\ op'[q].line = op[q].line
  BY <1>0, <1>4, AdvancesOf
<1> QED
  BY <1>0, <1>1, <1>2, <1>3, <1>4, OpsOf DEF Materializing

LEMMA CallersKept ==
  ASSUME Typed, Alive, Announcements, Callers, Unheard, Locks, [Next]_vars
  PROVE  Callers'
<1> DEFINE Called(p, gen, start) ==
             /\ gen <= ag'[p].gen
             /\ ag'[p].phase # "off" /\ gen = ag'[p].gen => p \in Roots \/ announced'[p]
             /\ start => gen = ag'[p].gen /\ ag'[p].phase \in {"run", "abort"}
<1> SUFFICES ASSUME NEW q \in Ops, Active(q)'
             PROVE  Called(Parent[op'[q].child], op'[q].gen, op'[q].start)
  BY DEF Callers, Live, Known
<1>1. CASE \E c \in Children, start \in BOOLEAN : Call(q, c, start)
  <2>1. PICK c \in Children, start \in BOOLEAN : Call(q, c, start)
    BY <1>1
  <2> DEFINE p == Parent[c]
  <2>2. p \in Nodes /\ ag[p] \in Agents /\ Known(p)
    BY <2>1, ApartOf DEF Call, Known, Nodes, Typed
  <2>3. op'[q].child = c /\ op'[q].gen = ag[p].gen /\ op'[q].start = start
    BY <2>1, CallOf
  <2>4. UNCHANGED <<ag, announced>> /\ (start => ag[p].phase = "run")
    BY <2>1 DEF Call, actVars
  <2>5. ag[p].gen <= ag[p].gen
    BY <2>2 DEF Agents
  <2> QED
    BY <2>2, <2>3, <2>4, <2>5 DEF Known
<1>2. CASE /\ Active(q) /\ op'[q].child = op[q].child /\ op'[q].start = op[q].start
           /\ op'[q].gen = op[q].gen
  <2> DEFINE p == Parent[op[q].child]
  <2>1. /\ p \in Nodes /\ op[q].gen <= ag[p].gen
        /\ Live(p) /\ op[q].gen = ag[p].gen => Known(p)
        /\ op[q].start => op[q].gen = ag[p].gen /\ ag[p].phase \in {"run", "abort"}
    BY <1>2, ChildOf, ApartOf DEF Callers
  <2>2. op[q].gen \in Nat /\ ag[p].gen \in Nat /\ op[q].start \in BOOLEAN
    BY <2>1 DEF Typed, Calls, Agents
  <2> SUFFICES Called(p, op[q].gen, op[q].start)
    BY <1>2
  <2>3. op[q].start => InCall(p)
    BY <1>2 DEF InCall, Active, Typed, Calls
  <2> HIDE DEF p
  <2>4. CASE Steady /\ (UNCHANGED <<owned, announced>> \/ \E o \in Ops : Answered(o))
    <3>1. announced[p] /\ p \in Children => announced'[p]
      BY <2>4, AcceptsOf DEF Answered
    <3>2. p \in Roots \/ p \in Children
      BY <2>1 DEF Nodes
    <3>3. ag'[p].gen = ag[p].gen /\ (ag'[p].phase = "off" <=> ag[p].phase = "off")
      BY <2>1, <2>4 DEF Steady
    <3>4. op[q].start => ag'[p].phase \in {"run", "abort"}
      BY <2>1, <2>3, <2>4 DEF Steady
    <3> QED
      BY <2>1, <3>1, <3>2, <3>3, <3>4 DEF Live, Known
  <2>5. ASSUME NEW o \in Ops, Installed(o) \/ Condemned(o)
        PROVE  Called(p, op[q].gen, op[q].start)
    <3> DEFINE c == op[o].child
    <3>1. Made(o) /\ c \in Children /\ stage[c] = "none" /\ UNCHANGED announced
      BY <2>5, ChildOf DEF Installed, Condemned, Made, Locks
    <3>2. ag[c].phase = "off"
      BY <3>1 DEF Alive, Live
    <3>3. ag'[c].gen = ag[c].gen + 1 /\ \A a \in Nodes : a # c => ag'[a] = ag[a]
      BY <3>1, MadeOf
    <3> HIDE DEF c
    <3>4. CASE p = c
      BY <2>1, <2>2, <3>2, <3>3, <3>4
    <3>5. CASE p # c
      BY <2>1, <3>1, <3>3, <3>5 DEF Live, Known
    <3> QED
      BY <3>4, <3>5
  <2>6. ASSUME NEW c \in Children, Leaves(c), ag[c].phase = "idle"
        PROVE  Called(p, op[q].gen, op[q].start)
    <3>1. PICK agents \in [Nodes -> Agents] :
            /\ Removed(c, agents)
            /\ \A a \in Nodes :
                 /\ agents[a].gen = ag[a].gen
                 /\ agents[a].phase # ag[a].phase => ag[a].phase = "idle" /\ agents[a].phase = "run"
      BY <2>6 DEF Leaves
    <3>2. /\ ag'[c].phase = "off" /\ \A a \in Nodes : a # c => ag'[a].phase = agents[a].phase
          /\ \A a \in Nodes : ag'[a].gen = agents[a].gen
          /\ \A d \in Children : announced'[d] = (d # c /\ announced[d])
      BY <3>1, RemovedOf DEF Looks
    <3>3. p # c /\ announced[p] /\ p \in Children => announced'[p]
      BY <3>2
    <3>4. p \in Roots \/ p \in Children
      BY <2>1 DEF Nodes
    <3>5. CASE p = c
      BY <2>1, <2>6, <3>1, <3>2, <3>5
    <3>6. CASE p # c
      BY <2>1, <3>1, <3>2, <3>3, <3>4, <3>6 DEF Live, Known
    <3> QED
      BY <3>5, <3>6
  <2>7. ASSUME NEW o \in Ops, RolledBack(o)
        PROVE  op[o].child \in Children /\ Leaves(op[o].child) /\ ag[op[o].child].phase = "idle"
    <3>1. op[o].child \in Children /\ Leaves(op[o].child) /\ stage[op[o].child] = "rollback"
      BY <2>7, ChildOf, LeavesOf DEF RolledBack, Locks
    <3>2. ~announced[op[o].child]
      BY <3>1 DEF Announcements
    <3> QED
      BY <3>1, <3>2 DEF Unheard, Resident
  <2>8. ASSUME NEW c \in Children, Released(c)
        PROVE  Leaves(c) /\ ag[c].phase = "idle"
    BY <2>8, LeavesOf DEF Released
  <2> QED
    BY <2>4, <2>5, <2>6, <2>7, <2>8, SteadyOr
<1> QED
  BY <1>1, <1>2, ActiveOf

(* A child that works has somebody who has an id for it, and so has its parent. *)
LEMMA AtWork ==
  ASSUME Typed, Alive, Announcements, Unheard, NEW c \in Children, stage[c] = "up", ag[c].phase = "run"
  PROVE  announced[c] /\ Known(Parent[c])
<1>1. announced[c]
  BY DEF Unheard, Resident, Typed, TreeTyped
<1> QED
  BY <1>1 DEF Announcements

LEMMA UnheardKept ==
  ASSUME Typed, Alive, Announcements, Unheard, Locks, [Next]_vars
  PROVE  Unheard'
<1> DEFINE Pcs == {"submit", "rolling", "undo"}
<1> SUFFICES ASSUME NEW c \in Children, stage'[c] # "none", ~announced'[c]
             PROVE  /\ ag'[c].phase = "idle"
                    /\ \E o \in Ops : op'[o].child = c /\ op'[o].pc \in Pcs
  BY DEF Unheard, Resident
<1>0. c \in Nodes
  BY Assumed
<1>1. ASSUME NEW o \in Ops, Installed(o) \/ Condemned(o), op[o].child = c
      PROVE  /\ ag'[c].phase = "idle"
             /\ \E q \in Ops : op'[q].child = c /\ op'[q].pc \in Pcs
  <2>1. Made(o) /\ (op' = [op EXCEPT ![o].pc = "submit"] \/ op' = [op EXCEPT ![o].pc = "rolling"])
    BY <1>1 DEF Installed, Condemned
  <2>2. ag'[c].phase = "idle"
    BY <1>1, <2>1, MadeOf
  <2>3. op'[o].child = c /\ op'[o].pc \in Pcs
    BY <1>1, <2>1, GoesOf DEF Holding
  <2> QED
    BY <2>2, <2>3
<1>2. ASSUME stage[c] # "none", ~announced[c], \A o \in Ops : Answered(o) \/ RolledBack(o) => op[o].child # c
      PROVE  \E o \in Ops : op'[o].child = c /\ op'[o].pc \in Pcs
  <2>1. PICK o \in Ops : op[o].child = c /\ op[o].pc \in Pcs
    BY <1>2 DEF Unheard, Resident
  <2>2. CASE UNCHANGED op
    BY <2>1, <2>2
  <2>3. ASSUME NEW q \in Ops, NEW d \in Children, NEW start \in BOOLEAN, Call(q, d, start)
        PROVE  op'[o] = op[o]
    <3>1. q # o
      BY <2>1, <2>3 DEF Call
    <3> QED
      BY <2>3, <3>1, CallOf
  <2>4. ASSUME NEW q \in Ops, Admitted(q)
        PROVE  op'[o].child = c /\ op'[o].pc = op[o].pc
    <3>1. q # o
      BY <2>1, <2>4 DEF Admitted
    <3> QED
      BY <2>1, <2>4, <3>1, AdmittedOf
  <2>5. ASSUME NEW q \in Ops, Advances(q)
        PROVE  op'[o].child = c /\ op'[o].pc \in Pcs
    <3>1. q # o => op'[o].pc = op[o].pc
      BY <2>5, AdvancesOf
    <3>2. q = o => op'[o].pc = "undo"
      BY <1>2, <2>1, <2>5, AdvancesOf DEF Resident
    <3>3. op'[o].child = c
      BY <2>1, <2>5, AdvancesOf
    <3> QED
      BY <2>1, <3>1, <3>2, <3>3
  <2> QED
    BY <2>1, <2>2, <2>3, <2>4, <2>5, OpsOf
<1>3. CASE Steady /\ (UNCHANGED <<owned, announced>> \/ \E o \in Ops : Answered(o))
  <2>1. stage[c] # "none"
    BY <1>3 DEF Steady
  <2>2. ~announced[c] /\ \A o \in Ops : Answered(o) => op[o].child # c
    BY <1>3, AcceptsOf DEF Answered
  <2>3. \A o \in Ops : RolledBack(o) => op[o].child # c
    BY ChildOf, RemovedOf DEF RolledBack, Typed
  <2>4. ag[c].phase = "idle"
    BY <2>1, <2>2 DEF Unheard, Resident
  <2>5. ASSUME NEW d \in Children, NEW quiet \in BOOLEAN, Report(d, quiet) PROVE c # Parent[d]
    <3>1. Known(Parent[d])
      BY <2>5, AtWork DEF Report
    <3> QED
      BY <2>2, <3>1, Assumed DEF Known
  <2>6. ag'[c].phase = "idle"
    BY <1>0, <1>3, <2>2, <2>4, <2>5 DEF Steady, Wakes
  <2> QED
    BY <1>2, <2>1, <2>2, <2>3, <2>6
<1>4. ASSUME NEW q \in Ops, Installed(q) \/ Condemned(q), op[q].child # c
      PROVE  /\ ag'[c].phase = "idle"
             /\ \E o \in Ops : op'[o].child = c /\ op'[o].pc \in Pcs
  <2>1. stage[c] # "none" /\ ~announced[c] /\ Made(q)
    BY <1>4, ChildOf DEF Installed, Condemned, Made, Typed, TreeTyped
  <2>2. ag'[c] = ag[c]
    BY <1>0, <1>4, <2>1, MadeOf
  <2>3. \A o \in Ops : Answered(o) \/ RolledBack(o) => op[o].child # c
    <3>1. ASSUME NEW o \in Ops, Answered(o), op[o].child = c PROVE FALSE
      BY <2>1, <3>1, AcceptsOf DEF Answered
    <3>2. ASSUME NEW o \in Ops, RolledBack(o), op[o].child = c PROVE FALSE
      BY <3>2, ChildOf, RemovedOf DEF RolledBack, Typed
    <3> QED
      BY <3>1, <3>2
  <2>4. ag[c].phase = "idle"
    BY <2>1 DEF Unheard, Resident
  <2> QED
    BY <1>2, <2>1, <2>2, <2>3, <2>4
<1>5. ASSUME NEW d \in Children, Leaves(d)
      PROVE  /\ ag'[c].phase = "idle"
             /\ \E o \in Ops : op'[o].child = c /\ op'[o].pc \in Pcs
  <2>1. PICK agents \in [Nodes -> Agents] :
          /\ Removed(d, agents)
          /\ \A a \in Nodes : agents[a].phase # ag[a].phase => a = Parent[d] /\ announced[d]
    BY <1>5 DEF Leaves
  <2>2. /\ \A a \in Nodes : a # d => ag'[a].phase = agents[a].phase
        /\ \A e \in Children : /\ stage'[e] = (IF e = d THEN "none" ELSE stage[e])
                               /\ announced'[e] = (e # d /\ announced[e])
    BY <2>1, RemovedOf DEF Looks
  <2>3. c # d /\ stage[c] # "none" /\ ~announced[c]
    BY <2>2
  <2>4. ag[c].phase = "idle"
    BY <2>3 DEF Unheard, Resident
  <2>5. announced[d] => c # Parent[d]
    BY <2>3, Assumed DEF Announcements, Known
  <2>6. ag'[c].phase = "idle"
    BY <1>0, <2>1, <2>2, <2>3, <2>4, <2>5
  <2>7. \A o \in Ops : Answered(o) \/ RolledBack(o) => op[o].child # c
    <3>1. ASSUME NEW o \in Ops, Answered(o), op[o].child = c PROVE FALSE
      BY <2>3, <3>1, AcceptsOf DEF Answered
    <3>2. ASSUME NEW o \in Ops, RolledBack(o), op[o].child = c PROVE FALSE
      BY <3>2, ChildOf, RemovedOf DEF RolledBack, Typed
    <3> QED
      BY <3>1, <3>2
  <2> QED
    BY <1>2, <2>3, <2>6, <2>7
<1>6. ASSUME NEW o \in Ops, RolledBack(o)
      PROVE  /\ ag'[c].phase = "idle"
             /\ \E q \in Ops : op'[q].child = c /\ op'[q].pc \in Pcs
  BY <1>5, <1>6, ChildOf, LeavesOf
<1>7. ASSUME NEW d \in Children, Released(d)
      PROVE  /\ ag'[c].phase = "idle"
             /\ \E q \in Ops : op'[q].child = c /\ op'[q].pc \in Pcs
  BY <1>5, <1>7, LeavesOf
<1> QED
  BY <1>1, <1>3, <1>4, <1>6, <1>7, SteadyOr

--------------------------------------------------------------------------------
(* Locks *)

Locked(o) ==
  /\ op[o].pc \in {"inspect", "create"} => stage[op[o].child] = "none"
  /\ op[o].pc = "rolling" => stage[op[o].child] = "rollback"
  /\ op[o].pc = "submit" => ~announced[op[o].child]
  /\ op[o].pc \in {"submit", "undo"} => stage[op[o].child] # "rollback"

Alone(o, q) ==
  op[o].pc \in Holding /\ op[q].pc \in Holding /\ op[o].child = op[q].child => o = q

LEMMA LocksAre == Locks <=> /\ \A o \in Ops : Locked(o)
                            /\ \A o, q \in Ops : Alone(o, q)
BY DEF Locks, Locked, Alone

LEMMA AloneKept ==
  ASSUME Typed, Alive, Locks, [Next]_vars
  PROVE  \A o, q \in Ops : Alone(o, q)'
<1>0. \A o, q \in Ops : Alone(o, q)
  BY LocksAre
<1>1. CASE UNCHANGED op
  BY <1>0, <1>1 DEF Alone
<1>2. ASSUME NEW a \in Ops, NEW c \in Children, NEW start \in BOOLEAN, Call(a, c, start)
      PROVE  \A o, q \in Ops : Alone(o, q)'
  <2>1. op'[a].pc \notin Holding /\ \A q \in Ops : q # a => op'[q] = op[q]
    BY <1>2, CallOf DEF Holding
  <2> QED
    BY <1>0, <2>1 DEF Alone
<1>3. ASSUME NEW a \in Ops, Admitted(a)
      PROVE  \A o, q \in Ops : Alone(o, q)'
  <2>1. op[a].pc \in Holding
    BY <1>3 DEF Admitted, Holding
  <2>2. \A q \in Ops : op'[q].child = op[q].child /\ (q # a => op'[q].pc = op[q].pc)
    BY <1>3, AdmittedOf
  <2> QED
    BY <1>0, <2>1, <2>2 DEF Alone
<1>4. ASSUME NEW a \in Ops, Advances(a)
      PROVE  \A o, q \in Ops : Alone(o, q)'
  <2>1. \A q \in Ops : op'[q].child = op[q].child /\ (q # a => op'[q].pc = op[q].pc)
    BY <1>4, AdvancesOf
  <2>2. op'[a].pc \in Holding /\ op[a].pc \notin Holding => ~Held(op[a].child)
    BY <1>4, AdvancesOf
  <2>3. CASE op'[a].pc \in Holding /\ op[a].pc \notin Holding
    <3>1. \A q \in Ops : op[q].child = op[a].child => op[q].pc \notin Holding
      BY <2>2, <2>3 DEF Held
    <3> QED
      BY <1>0, <2>1, <3>1 DEF Alone
  <2>4. CASE op'[a].pc \in Holding => op[a].pc \in Holding
    BY <1>0, <2>1, <2>4 DEF Alone
  <2> QED
    BY <2>3, <2>4
<1> QED
  BY <1>1, <1>2, <1>3, <1>4, OpsOf

LEMMA LocksKept ==
  ASSUME Typed, Alive, Announcements, Locks, [Next]_vars
  PROVE  Locks'
<1> SUFFICES ASSUME NEW q \in Ops PROVE Locked(q)'
  BY AloneKept DEF Locks, Locked, Alone
<1> DEFINE c == op[q].child
           Same == op'[q].pc = op[q].pc /\ op'[q].child = op[q].child
<1>1. c \in Children /\ Locked(q) /\ \A o \in Ops : Alone(o, q)
  BY ChildOf, LocksAre
(* The call is not the one that goes on. *)
<1>2. ASSUME Same, Steady, op[q].pc = "submit" => announced'[c] = announced[c]
      PROVE  Locked(q)'
  <2>1. (stage'[c] = "none" <=> stage[c] = "none") /\ (stage'[c] = "rollback" <=> stage[c] = "rollback")
    BY <1>1, <1>2 DEF Steady, Teardown
  <2> QED
    BY <1>1, <1>2, <2>1 DEF Locked
<1>3. ASSUME Same, stage'[c] = stage[c], announced'[c] = announced[c] \/ ~announced'[c]
      PROVE  Locked(q)'
  BY <1>1, <1>3 DEF Locked
<1>4. ASSUME op'[q].pc \notin {"inspect", "create", "rolling", "submit", "undo"}
      PROVE  Locked(q)'
  BY <1>4 DEF Locked
<1>5. ASSUME NEW a \in Ops, NEW d \in Children, NEW start \in BOOLEAN, Call(a, d, start) PROVE Locked(q)'
  <2>1. UNCHANGED <<stage, announced>>
    BY <1>5 DEF Call, actVars
  <2>2. CASE a = q
    BY <1>4, <1>5, <2>2, CallOf
  <2>3. CASE a # q
    BY <1>3, <1>5, <2>1, <2>3, CallOf
  <2> QED
    BY <2>2, <2>3
<1>6. ASSUME NEW a \in Ops, Moves(a) PROVE Locked(q)'
  <2>1. PICK pc \in {"queued", "inspect", "gone", "failed"} :
          /\ op' = [op EXCEPT ![a].pc = pc]
          /\ pc = "inspect" => stage[op[a].child] = "none"
    BY <1>6 DEF Moves
  <2>2. UNCHANGED <<stage, announced>>
    BY <1>6 DEF Moves, actVars
  <2>3. /\ op'[q].child = op[q].child /\ op'[q].pc = (IF q = a THEN pc ELSE op[q].pc)
    BY <2>1, GoesOf DEF Holding
  <2>4. CASE q = a
    BY <2>1, <2>2, <2>3, <2>4 DEF Locked
  <2>5. CASE q # a
    BY <1>3, <2>2, <2>3, <2>5
  <2> QED
    BY <2>4, <2>5
<1>7. ASSUME NEW a \in Ops, Admitted(a) PROVE Locked(q)'
  <2>1. UNCHANGED <<stage, announced>> /\ op[a].pc = "inspect"
    BY <1>7 DEF Admitted, actVars
  <2>2. /\ op'[q].child = op[q].child /\ op'[q].pc = (IF q = a THEN "create" ELSE op[q].pc)
    BY <1>7, AdmittedOf
  <2> QED
    BY <1>1, <2>1, <2>2 DEF Locked
<1>8. ASSUME NEW a \in Ops, Installed(a) \/ Condemned(a) PROVE Locked(q)'
  <2>1. Made(a) /\ op[a].pc = "create" /\ UNCHANGED announced /\ stage[op[a].child] = "none"
    BY <1>8, LocksAre DEF Installed, Condemned, Made, Locked
  <2>2. ~announced[op[a].child] /\ op[a].child \in Children
    BY <2>1, ChildOf DEF Announcements
  <2>3. CASE Installed(a)
    <3>1. /\ op'[q].child = op[q].child /\ op'[q].pc = (IF q = a THEN "submit" ELSE op[q].pc)
      BY <2>3, GoesOf DEF Installed, Holding
    <3>2. stage' = [stage EXCEPT ![op[a].child] = "up"] /\ stage \in [Children -> Stages]
      BY <2>3 DEF Installed, Typed, TreeTyped
    <3>3. CASE q = a
      BY <2>1, <2>2, <3>1, <3>2, <3>3 DEF Locked
    <3>4. CASE q # a
      <4>1. op[q].pc \in Holding => stage'[c] = stage[c]
        BY <1>1, <2>1, <3>2, <3>4 DEF Alone, Holding
      <4> QED
        BY <1>3, <1>4, <2>1, <3>1, <3>4, <4>1 DEF Holding
    <3> QED
      BY <3>3, <3>4
  <2>4. CASE Condemned(a)
    <3>1. /\ op'[q].child = op[q].child /\ op'[q].pc = (IF q = a THEN "rolling" ELSE op[q].pc)
      BY <2>4, GoesOf DEF Condemned, Holding
    <3>2. stage' = [stage EXCEPT ![op[a].child] = "rollback"] /\ stage \in [Children -> Stages]
      BY <2>4 DEF Condemned, Typed, TreeTyped
    <3>3. CASE q = a
      BY <2>1, <2>2, <3>1, <3>2, <3>3 DEF Locked
    <3>4. CASE q # a
      <4>1. op[q].pc \in Holding => stage'[c] = stage[c]
        BY <1>1, <2>1, <3>2, <3>4 DEF Alone, Holding
      <4> QED
        BY <1>3, <1>4, <2>1, <3>1, <3>4, <4>1 DEF Holding
    <3> QED
      BY <3>3, <3>4
  <2> QED
    BY <1>8, <2>3, <2>4
<1>9. ASSUME NEW a \in Ops, Answered(a) PROVE Locked(q)'
  <2>1. op' = [op EXCEPT ![a].pc = "ok"] /\ UNCHANGED stage
        /\ \A d \in Children : announced'[d] = (d = op[a].child \/ announced[d])
    BY <1>9, AcceptsOf DEF Answered
  <2>2. /\ op'[q].child = op[q].child /\ op'[q].pc = (IF q = a THEN "ok" ELSE op[q].pc)
    BY <2>1, GoesOf
  <2>3. q # a /\ op[q].pc \in Holding => op[q].child # op[a].child
    <3>1. op[a].pc \in Holding \/ ~Held(op[a].child)
      BY <1>9 DEF Answered, Holding
    <3> QED
      BY <1>1, <3>1 DEF Alone, Held
  <2>4. CASE q = a
    BY <1>4, <2>2, <2>4
  <2>5. CASE q # a
    <3>1. CASE op[q].pc \in Holding
      <4>1. Same /\ stage'[c] = stage[c]
        BY <1>1, <2>1, <2>2, <2>5
      <4>2. announced'[c] <=> announced[c]
        BY <1>1, <2>1, <2>3, <2>5, <3>1
      <4> QED
        BY <1>1, <4>1, <4>2 DEF Locked
    <3>2. CASE op[q].pc \notin Holding
      BY <1>4, <2>2, <2>5, <3>2 DEF Holding
    <3> QED
      BY <3>1, <3>2
  <2> QED
    BY <2>4, <2>5
<1>10. ASSUME NEW a \in Ops, Refused(a) PROVE Locked(q)'
  <2>1. op[a].pc = "submit" /\ op' = [op EXCEPT ![a].pc = "undo"] /\ Steady /\ UNCHANGED announced
    BY <1>10, SteadyOf DEF Refused, Stops, Disposes
  <2>2. /\ op'[q].child = op[q].child /\ op'[q].pc = (IF q = a THEN "undo" ELSE op[q].pc)
    BY <2>1, GoesOf DEF Holding
  <2>3. stage'[c] = "rollback" <=> stage[c] = "rollback"
    BY <1>1, <2>1 DEF Steady, Teardown
  <2> QED
    BY <1>1, <1>2, <2>1, <2>2, <2>3 DEF Locked
<1>11. ASSUME UNCHANGED op, Steady, UNCHANGED <<owned, announced>> PROVE Locked(q)'
  BY <1>2, <1>11
<1>12. ASSUME NEW a \in Ops, RolledBack(a) PROVE Locked(q)'
  <2>1. op[a].pc = "rolling" /\ Removed(op[a].child, ag) /\ op' = [op EXCEPT ![a].pc = "failed"]
    BY <1>12 DEF RolledBack, To
  <2>2. /\ op'[q].child = op[q].child /\ op'[q].pc = (IF q = a THEN "failed" ELSE op[q].pc)
    BY <2>1, GoesOf
  <2>3. \A d \in Children : d # op[a].child => stage'[d] = stage[d] /\ announced'[d] = announced[d]
    <3>1. op[a].child \in Children /\ ag \in [Nodes -> Agents]
      BY ChildOf DEF Typed
    <3>2. \A d \in Children : /\ stage'[d] = (IF d = op[a].child THEN "none" ELSE stage[d])
                              /\ announced'[d] = (d # op[a].child /\ announced[d])
      BY <2>1, <3>1, RemovedOf
    <3>3. \A d \in Children : d # op[a].child => stage'[d] = stage[d]
      BY <3>2
    <3>4. \A d \in Children : d # op[a].child => (announced'[d] <=> announced[d])
      BY <3>2
    <3>5. announced' \in [Children -> BOOLEAN] /\ announced \in [Children -> BOOLEAN]
      BY <2>1, <3>1, RemovedOf DEF Typed, TreeTyped
    <3>6. \A d \in Children : d # op[a].child => announced'[d] = announced[d]
      BY <3>4, <3>5
    <3> QED
      BY <3>3, <3>6
  <2>4. CASE q = a
    BY <1>4, <2>2, <2>4
  <2>5. CASE q # a /\ op[q].pc \in Holding
    <3>1. op[q].child # op[a].child
      BY <1>1, <2>1, <2>5 DEF Alone, Holding
    <3> QED
      BY <1>1, <1>3, <2>2, <2>3, <2>5, <3>1
  <2>6. CASE q # a /\ op[q].pc \notin Holding
    BY <1>4, <2>2, <2>6 DEF Holding
  <2> QED
    BY <2>4, <2>5, <2>6
<1>13. ASSUME NEW d \in Children, Released(d) PROVE Locked(q)'
  <2>1. stage[d] = "handle" /\ op' = op /\ Leaves(d)
    BY <1>13, LeavesOf DEF Released
  <2>2. \A e \in Children : /\ stage'[e] = (IF e = d THEN "none" ELSE stage[e])
                            /\ announced'[e] = (e # d /\ announced[e])
    BY <2>1, RemovedOf DEF Leaves
  <2>3. CASE c = d
    BY <1>1, <2>1, <2>2, <2>3 DEF Locked
  <2>4. CASE c # d
    <3>1. Same /\ stage'[c] = stage[c] /\ (announced'[c] <=> announced[c])
      BY <1>1, <2>1, <2>2, <2>4
    <3> QED
      BY <1>1, <3>1 DEF Locked
  <2> QED
    BY <2>3, <2>4
<1> HIDE DEF c, Same
<1>14. ASSUME \/ \E a \in Nodes : Works(a)
              \/ \E d \in Children, quiet \in BOOLEAN : Report(d, quiet)
              \/ \E d \in Children : Watching(d) \/ Settling(d) \/ Release(d)
              \/ Drain \/ DrainForest \/ DrainDone \/ ScopeDone
              \/ \E r \in Roots : DrainScope(r) \/ \E S \in SUBSET Children : Select(r, S)
              \/ UNCHANGED vars
       PROVE  Locked(q)'
  <2>1. Steady
    BY <1>14, SteadyOf DEF Stops
  <2>2. ASSUME NEW a \in Nodes, Works(a) PROVE UNCHANGED <<op, owned, announced>>
    BY <2>2, WorkOf DEF Works, Becomes
  <2>3. UNCHANGED <<op, owned, announced>>
    BY <1>14, <2>2 DEF Report, Watching, SameTree, Settling, Release, Drain, DrainForest, DrainDone,
       ScopeDone, DrainScope, Select, Disposes, vars, actVars
  <2> QED
    BY <1>11, <2>1, <2>3
<1> QED
  BY <1>5, <1>6, <1>7, <1>8, <1>9, <1>10, <1>12, <1>13, <1>14, Kinds

--------------------------------------------------------------------------------
(* Lineages *)

(* The caller of a call that is admitted is known. *)
LEMMA AdmittedBy ==
  ASSUME Typed, Alive, Callers, NEW o \in Ops, Admitted(o)
  PROVE  Known(Parent[op[o].child])
<1> DEFINE p == Parent[op[o].child]
<1>1. Active(o) /\ p \in Nodes
  BY ChildOf, ApartOf DEF Admitted, Active
<1>2. Live(p) /\ ag[p].gen = op[o].gen
  BY <1>1 DEF Admitted, Authorized, Callers, Live
<1> QED
  BY <1>1, <1>2 DEF Callers

LEMMA LinesKept ==
  ASSUME Typed, Alive, Announcements, Callers, Locks, Lines, [Next]_vars
  PROVE  Lines'
<1>1. ASSUME NEW q \in Materializing' PROVE op'[q].line = Ancestors[Parent[op'[q].child]]
  <2>0. q \in Ops
    BY DEF Materializing
  <2>1. CASE q \in Materializing /\ op'[q].child = op[q].child /\ op'[q].line = op[q].line
    BY <2>1 DEF Lines
  <2>2. CASE Admitted(q)
    <3>1. Known(Parent[op[q].child]) /\ Parent[op[q].child] \in Nodes
      BY <2>0, <2>2, AdmittedBy, ChildOf, ApartOf
    <3>2. Lineage(Parent[op[q].child]) = Ancestors[Parent[op[q].child]]
      BY <3>1, KnownLineage
    <3> QED
      BY <2>0, <2>2, <3>2, AdmittedOf
  <2> QED
    BY <2>1, <2>2, MaterializingOf
<1>2. ASSUME NEW c \in Children, stage'[c] # "none" PROVE above'[c] = Ancestors[c]
  <2>1. CASE Steady
    BY <1>2, <2>1 DEF Steady, Lines, Resident
  <2>2. ASSUME NEW o \in Ops, Installed(o) \/ Condemned(o) PROVE above'[c] = Ancestors[c]
    <3>1. Made(o) /\ op[o].pc = "create" /\ op[o].child \in Children
      BY <2>2, ChildOf DEF Installed, Condemned, Made
    <3>2. o \in Materializing /\ op[o].line = Ancestors[Parent[op[o].child]]
      BY <3>1 DEF Materializing, Lines
    <3>3. \A d \in Children : d # op[o].child => stage'[d] = stage[d]
      BY <2>2, <3>1 DEF Installed, Condemned, Typed, TreeTyped
    <3>4. CASE c = op[o].child
      <4>1. above'[c] = {c} \cup Ancestors[Parent[c]]
        BY <3>1, <3>2, <3>4, MadeOf
      <4> QED
        BY <4>1, AncestorsOf
    <3>5. CASE c # op[o].child
      BY <1>2, <3>1, <3>3, <3>5, MadeOf DEF Lines, Resident
    <3> QED
      BY <3>4, <3>5
  <2>3. ASSUME NEW d \in Children, Leaves(d) PROVE above'[c] = Ancestors[c]
    <3>1. stage'[c] = (IF c = d THEN "none" ELSE stage[c]) /\ above'[c] = (IF c = d THEN {} ELSE above[c])
      BY <2>3, RemovedOf DEF Leaves
    <3> QED
      BY <1>2, <3>1 DEF Lines, Resident
  <2> QED
    BY <2>1, <2>2, <2>3, SteadyOr, LeavesOf, ChildOf
<1> QED
  BY <1>1, <1>2 DEF Lines, Resident

--------------------------------------------------------------------------------
(* Drains *)

(* An Activation was there, and its owner still counts it; or it has just been made. *)
LEMMA TreeStep ==
  ASSUME Typed, Alive, Locks, [Next]_vars, NEW c \in Children, stage'[c] # "none"
  PROVE  \/ /\ stage[c] # "none" /\ (stage'[c] = "up" => stage[c] = "up")
            /\ stage[c] = "rollback" => stage'[c] = "rollback"
            /\ \A d \in Children : c \in owned[d] => c \in owned'[d]
         \/ \E o \in Ops : (Installed(o) \/ Condemned(o)) /\ c = op[o].child
<1>1. CASE Steady /\ (UNCHANGED <<owned, announced>> \/ \E o \in Ops : Answered(o))
  <2>1. \A d \in Children : c \in owned[d] => c \in owned'[d]
    <3>1. CASE UNCHANGED owned
      BY <3>1
    <3>2. ASSUME NEW o \in Ops, Answered(o) PROVE \A d \in Children : owned[d] \subseteq owned'[d]
      BY <3>2, ChildOf, AcquiresOf DEF Answered, Accepts
    <3> QED
      BY <1>1, <3>1, <3>2
  <2> QED
    BY <1>1, <2>1 DEF Steady, Teardown
<1>2. ASSUME NEW o \in Ops, Installed(o) \/ Condemned(o), c # op[o].child
      PROVE  stage'[c] = stage[c] /\ \A d \in Children : c \in owned[d] => c \in owned'[d]
  <2>1. op[o].child \in Children
    BY ChildOf
  <2>2. stage'[c] = stage[c]
    BY <1>2, <2>1 DEF Installed, Condemned, Typed, TreeTyped
  <2>3. \A d \in Children : owned[d] \subseteq owned'[d]
    BY <1>2, <2>1, AcquiresOf DEF Installed, Condemned
  <2> QED
    BY <2>2, <2>3
<1>3. ASSUME NEW e \in Children, Leaves(e)
      PROVE  stage'[c] = stage[c] /\ \A d \in Children : c \in owned[d] => c \in owned'[d]
  <2>1. \A d \in Children : /\ stage'[d] = (IF d = e THEN "none" ELSE stage[d])
                            /\ owned'[d] = owned[d] \ {e}
    BY <1>3, RemovedOf DEF Leaves
  <2> QED
    BY <2>1
<1> QED
  BY <1>1, <1>2, <1>3, SteadyOr, LeavesOf, ChildOf

LEMMA DrainStep ==
  ASSUME Typed, Alive, [Next]_vars
  PROVE  /\ UNCHANGED drain \/ Drain \/ DrainForest \/ DrainDone
         /\ UNCHANGED scope \/ ScopeDone \/ \E r \in Roots : DrainScope(r)
<1>1. ASSUME NEW a \in Nodes, Works(a) PROVE UNCHANGED <<drain, scope>>
  BY <1>1, WorkOf DEF Works, Becomes, drainVars
<1> QED
  BY <1>1, Kinds
     DEF Call, Moves, Admitted, Installed, Condemned, Made, Answered, Refused, RolledBack, Report,
         Watching, Settling, Release, Released, Drain, DrainForest, DrainDone, ScopeDone, DrainScope,
         Select, drainVars, vars

(* What is resident and owned has a resident owner, its parent. *)
LEMMA OwnerOf ==
  ASSUME Typed, Owners, NEW c \in Children, NEW d \in Children, c \in owned[d]
  PROVE  d = Parent[c] /\ Resident(d) /\ stage[d] \in {"up", "stop", "quiet"}
         /\ (stage[d] # "up" => stage[c] # "up")
BY DEF Owners, Resident, Typed, TreeTyped, Stages, Teardown

LEMMA DrainsKept ==
  ASSUME Typed, Alive, Owners, Locks, Drains, [Next]_vars
  PROVE  Drains'
<1>1. CASE UNCHANGED drain
  <2>1. CASE drain.phase = "no"
    BY <1>1, <2>1 DEF Drains
  <2>2. CASE drain.phase # "no"
    <3>1. ASSUME NEW q \in Materializing' PROVE q \in Materializing
      BY <2>2, <3>1, MaterializingOf DEF Admitted, Admits, Closing, Materializing
    <3>2. ASSUME Materializing = {}, NEW o \in Ops PROVE ~(Installed(o) \/ Condemned(o))
      BY <3>2 DEF Installed, Condemned, Made, Materializing
    <3>3. ASSUME Materializing = {}, NEW c \in Children, stage'[c] # "none"
          PROVE  /\ stage[c] # "none" /\ (stage'[c] = "up" => stage[c] = "up")
                 /\ \A d \in Children : c \in owned[d] => c \in owned'[d]
      BY <3>2, <3>3, TreeStep
    <3>4. drain.phase = "wait" => Materializing' \subseteq drain'.ops
      BY <1>1, <3>1 DEF Drains
    <3>5. drain.phase \in {"roots", "done"} => Materializing' = {} /\ Up' = {}
      BY <3>1, <3>3 DEF Drains, Up
    <3>6. drain.phase = "roots" =>
            \A c \in Children : stage'[c] # "none" =>
              c \in drain'.roots \/ \E d \in Children : c \in owned'[d]
      BY <1>1, <3>3 DEF Drains, Resident
    <3>7. drain.phase = "done" => \A c \in Children : stage'[c] = "none"
      BY <1>1, <3>3 DEF Drains, Resident
    <3> QED
      BY <1>1, <3>4, <3>5, <3>6, <3>7 DEF Drains, Resident
  <2> QED
    BY <2>1, <2>2
<1>2. CASE Drain
  <2>1. drain'.phase = "wait" /\ drain'.ops = Materializing /\ op' = op
    BY <1>2 DEF Drain, Typed, DrainsTyped
  <2>2. Materializing' = Materializing
    BY <2>1 DEF Materializing
  <2> QED
    BY <2>1, <2>2 DEF Drains
<1>3. CASE DrainForest
  <2> DEFINE residents == {c \in Children : Resident(c)}
             roots == Unowned(residents)
  <2>1. /\ drain.phase = "wait" /\ drain.ops \cap Materializing = {} /\ Disposes(roots)
        /\ drain' = [drain EXCEPT !.phase = "roots", !.roots = roots] /\ op' = op
    BY <1>3 DEF DrainForest
  <2>2. drain'.phase = "roots" /\ drain'.roots = roots
    BY <2>1 DEF Typed, DrainsTyped
  <2>3. Materializing = {} /\ Materializing' = {}
    BY <2>1 DEF Drains, Materializing
  <2>4. \A c \in residents : c \in roots \/ \E d \in residents : c \in owned[d]
    BY DEF Unowned
  <2> HIDE DEF residents, roots
  <2>5. PICK D : D = Below(roots)
    OBVIOUS
  <2>6. Closed(D) /\ roots \cap Up \subseteq D /\ Stopped(D)
    BY <2>1, <2>5, DisposesOf
  <2>7. Up \subseteq D
    <3> SUFFICES ASSUME Up \ D # {} PROVE FALSE
      OBVIOUS
    <3>1. Up \ D \in SUBSET Children
      BY DEF Up
    <3>2. PICK c \in Up \ D : Parent[c] \notin Up \ D
      BY <3>1, Rooted
    <3>3. c \in residents /\ c \notin roots /\ c \in Children /\ stage[c] = "up"
      BY <2>6, <3>2 DEF residents, Resident, Up
    <3>4. PICK d \in residents : c \in owned[d]
      BY <2>4, <3>3
    <3>5. d \in Children
      BY DEF residents
    <3>6. d = Parent[c] /\ stage[d] = "up"
      BY <3>3, <3>4, <3>5, OwnerOf
    <3>7. d \in D
      BY <3>2, <3>5, <3>6 DEF Up
    <3>8. c \in D
      BY <2>6, <3>2, <3>4, <3>7 DEF Closed
    <3> QED
      BY <3>2, <3>8
  <2>8. /\ owned' = owned
        /\ \A c \in Children : /\ c \in D => stage'[c] \in {"stop", "quiet"} /\ stage[c] # "none"
                               /\ c \notin D => stage'[c] = stage[c]
    BY <2>6, StoppedOf
  <2>9. Up' = {}
    BY <2>7, <2>8 DEF Up
  <2>10. \A c \in Children : stage'[c] # "none" => c \in roots \/ \E d \in Children : c \in owned'[d]
    BY <2>4, <2>8 DEF residents, Resident
  <2> QED
    BY <2>2, <2>3, <2>9, <2>10 DEF Drains, Resident
<1>4. CASE DrainDone
  <2>1. /\ drain.phase = "roots" /\ drain'.phase = "done" /\ UNCHANGED <<op, stage>>
        /\ \A c \in drain.roots : ~Resident(c)
    BY <1>4 DEF DrainDone, actVars, Typed, DrainsTyped
  <2>2. Materializing' = {} /\ Up' = {}
    BY <2>1 DEF Drains, Materializing, Up
  <2> DEFINE X == {c \in Children : Resident(c)}
  <2>3. X = {}
    <3> SUFFICES ASSUME X # {} PROVE FALSE
      OBVIOUS
    <3>1. PICK c \in X : Parent[c] \notin X
      BY Rooted
    <3>2. PICK d \in Children : c \in owned[d]
      BY <2>1, <3>1 DEF Drains
    <3>3. d \in X /\ d = Parent[c]
      BY <3>1, <3>2, OwnerOf
    <3> QED
      BY <3>1, <3>3
  <2> QED
    BY <2>1, <2>2, <2>3 DEF Drains, Resident
<1> QED
  BY <1>1, <1>2, <1>3, <1>4, DrainStep

(* Whom a closed scope covers is covered with its parent. *)
LEMMA InsideOf ==
  ASSUME Typed, NEW c \in Children, Inside(c)
  PROVE  scope.root \in Ancestors[Parent[c]]
<1>1. scope.root \in Roots /\ scope.root # c
  BY Assumed DEF Typed, DrainsTyped
<1> QED
  BY <1>1, AncestorsOf DEF Inside

LEMMA ScopesKept ==
  ASSUME Typed, Alive, Owners, Announcements, Callers, Unheard, Locks, Lines, Scopes, [Next]_vars
  PROVE  Scopes'
<1>1. CASE UNCHANGED scope
  <2>1. CASE scope.phase = "no"
    BY <1>1, <2>1 DEF Scopes
  <2>2. CASE scope.phase # "no"
    <3>0. \A c \in Children : Inside(c)' <=> Inside(c)
      BY <1>1 DEF Inside
    <3>1. ASSUME NEW q \in Materializing', Inside(op'[q].child)
          PROVE  q \in Materializing /\ op'[q].child = op[q].child
      <4>1. ASSUME Admitted(q) PROVE FALSE
        <5>1. q \in Ops /\ op[q].child \in Children /\ op'[q].child = op[q].child
          BY <4>1, AdmittedOf, ChildOf DEF Materializing
        <5>2. Known(Parent[op[q].child]) /\ Admits(Parent[op[q].child])
          BY <4>1, <5>1, AdmittedBy DEF Admitted
        <5> QED
          BY <2>2, <3>1, <5>1, <5>2, ScopeCloses
      <4> QED
        BY <4>1, MaterializingOf
    <3>2. ASSUME NEW o \in Ops, Installed(o) PROVE ~Inside(op[o].child)
      <4>1. o \in Materializing /\ Admits(Parent[op[o].child])
        BY <3>2 DEF Installed, Made, Installs, Materializing
      <4> QED
        BY <2>2, <4>1 DEF Scopes, Admits, Closing
    <3>3. ASSUME NEW o \in Ops, Condemned(o), Inside(op[o].child)
          PROVE  stage'[op[o].child] = "rollback" /\ scope.phase # "done"
      <4>1. o \in Materializing /\ op[o].child \in Children
        BY <3>3, ChildOf DEF Condemned, Made, Materializing
      <4> QED
        BY <2>2, <3>3, <4>1 DEF Scopes, Condemned, Typed, TreeTyped
    <3>4. \A q \in Materializing' :
            Inside(op'[q].child) => q \in scope.ops /\ Parent[op'[q].child] \in scope.members
      BY <2>2, <3>1 DEF Scopes
    <3>5. ASSUME NEW c \in Children, stage'[c] # "none", Inside(c)
          PROVE  \/ /\ stage[c] # "none" /\ (stage'[c] = "up" => stage[c] = "up")
                    /\ stage[c] = "rollback" => stage'[c] = "rollback"
                    /\ \A d \in Children : c \in owned[d] => c \in owned'[d]
                 \/ stage'[c] = "rollback" /\ scope.phase # "done"
      BY <3>2, <3>3, <3>5, TreeStep
    <3>6. \A c \in Up' : c \in Children /\ ~Inside(c)
      BY <2>2, <3>5 DEF Scopes, Up
    <3>7. scope.phase = "wait" =>
            \A c \in Children : stage'[c] # "none" /\ Inside(c) =>
              c \in scope.roots \/ stage'[c] = "rollback" \/ \E d \in Children : c \in owned'[d]
      BY <3>5 DEF Scopes, Resident
    <3>8. scope.phase = "done" =>
            /\ \A c \in Children : Inside(c) => stage'[c] = "none"
            /\ \A q \in Materializing' : ~Inside(op'[q].child)
      BY <3>1, <3>5 DEF Scopes, Resident
    <3> QED
      BY <1>1, <3>4, <3>6, <3>7, <3>8 DEF Scopes, Resident, Inside
  <2> QED
    BY <2>1, <2>2
<1>2. CASE ScopeDone
  <2>1. /\ scope.phase = "wait" /\ scope' = [scope EXCEPT !.phase = "done"] /\ UNCHANGED <<op, stage, owned>>
        /\ scope.ops \cap Materializing = {} /\ \A c \in scope.roots : ~Resident(c)
    BY <1>2 DEF ScopeDone, actVars
  <2>2. /\ scope'.phase = "done" /\ scope'.root = scope.root /\ scope'.ops = scope.ops
        /\ scope'.members = scope.members
    BY <2>1 DEF Typed, DrainsTyped
  <2>3. \A o \in Materializing : ~Inside(op[o].child)
    BY <2>1 DEF Scopes
  <2> DEFINE X == {c \in Children : Resident(c) /\ Inside(c)}
  <2>4. X = {}
    <3> SUFFICES ASSUME X # {} PROVE FALSE
      OBVIOUS
    <3>1. PICK c \in X : Parent[c] \notin X
      BY Rooted
    <3>2. c \notin scope.roots
      BY <2>1, <3>1
    <3>3. stage[c] # "rollback"
      <4> SUFFICES ASSUME stage[c] = "rollback" PROVE FALSE
        OBVIOUS
      <4>1. ~announced[c]
        BY <3>1 DEF Announcements
      <4>2. PICK o \in Ops : op[o].child = c /\ op[o].pc \in {"submit", "rolling", "undo"}
        BY <3>1, <4>1 DEF Unheard
      <4>3. op[o].pc = "rolling"
        BY <4>2 DEF Locks
      <4>4. o \in Materializing
        BY <4>3 DEF Materializing
      <4> QED
        BY <2>3, <3>1, <4>2, <4>4
    <3>4. PICK d \in Children : c \in owned[d]
      BY <2>1, <3>1, <3>2, <3>3 DEF Scopes
    <3>5. d = Parent[c] /\ Resident(d)
      BY <3>1, <3>4, OwnerOf
    <3>6. Inside(d)
      BY <3>1, <3>5, InsideOf DEF Inside
    <3> QED
      BY <3>1, <3>5, <3>6
  <2>5. Materializing' = Materializing /\ Up' = Up
    BY <2>1 DEF Materializing, Up
  <2>6. \A c \in Up : ~Inside(c)
    BY <2>1 DEF Scopes
  <2> HIDE DEF X
  <2>7. \A c \in Children : Inside(c) => stage[c] = "none"
    BY <2>4 DEF X, Resident
  <2> QED
    BY <2>1, <2>2, <2>3, <2>5, <2>6, <2>7 DEF Scopes, Resident, Inside
<1>3. ASSUME NEW r \in Roots, DrainScope(r) PROVE Scopes'
  <2> DEFINE targets == {c \in Children : Resident(c) /\ r \in above[c]}
             started == {o \in Materializing : r \in op[o].line}
             lineages == UNION {{c} \cup Lineage(c) : c \in targets}
             lines == UNION {op[o].line : o \in started}
  <2>1. /\ scope' = [phase |-> "wait", root |-> r, ops |-> started, roots |-> Unowned(targets),
                     members |-> {r} \cup lineages \cup lines]
        /\ Disposes(targets) /\ op' = op
    BY <1>3 DEF DrainScope
  <2>2. /\ scope'.phase = "wait" /\ scope'.root = r /\ scope'.ops = started
        /\ scope'.roots = Unowned(targets) /\ scope'.members = {r} \cup lineages \cup lines
    BY <2>1
  <2>3. \A o \in Materializing : r \in Ancestors[op[o].child] =>
          o \in started /\ Parent[op[o].child] \in lines
    <3> SUFFICES ASSUME NEW o \in Materializing, r \in Ancestors[op[o].child]
                 PROVE  o \in started /\ Parent[op[o].child] \in op[o].line
      BY DEF lines
    <3>1. o \in Ops /\ op[o].child \in Children /\ op[o].child # r
      BY ChildOf, Assumed DEF Materializing
    <3>2. op[o].line = Ancestors[Parent[op[o].child]] /\ Parent[op[o].child] \in Nodes
      BY <3>1, ApartOf DEF Lines
    <3>3. r \in Ancestors[Parent[op[o].child]]
      BY <3>1, AncestorsOf
    <3> QED
      BY <3>2, <3>3, AncestorsOf
  <2>4. \A c \in Children : Resident(c) /\ r \in Ancestors[c] => c \in targets
    BY DEF Lines
  <2>5. \A c \in targets : c \in Unowned(targets) \/ \E d \in Children : c \in owned[d]
    BY DEF Unowned
  <2> HIDE DEF targets, started, lineages, lines
  <2>6. PICK D : D = Below(targets)
    OBVIOUS
  <2>7. Closed(D) /\ targets \cap Up \subseteq D /\ Stopped(D)
    BY <2>1, <2>6, DisposesOf
  <2>8. /\ owned' = owned
        /\ \A c \in Children : /\ c \in D => stage'[c] \in {"stop", "quiet"} /\ stage[c] # "none"
                               /\ c \notin D => stage'[c] = stage[c]
    BY <2>7, StoppedOf
  <2>9. Materializing' = Materializing
    BY <2>1 DEF Materializing
  <2>10. \A c \in Up' : r \notin Ancestors[c]
    <3> SUFFICES ASSUME NEW c \in Children, stage'[c] = "up", r \in Ancestors[c] PROVE FALSE
      BY DEF Up
    <3>1. stage[c] = "up" /\ c \notin D
      BY <2>8
    <3>2. c \in targets /\ c \in Up
      BY <2>4, <3>1 DEF Resident, Up
    <3> QED
      BY <2>7, <3>1, <3>2
  <2>11. \A c \in Children : stage'[c] # "none" /\ r \in Ancestors[c] =>
           c \in scope'.roots \/ \E d \in Children : c \in owned'[d]
    BY <2>2, <2>4, <2>5, <2>8 DEF Resident
  <2>12. \A o \in Materializing : r \in Ancestors[op[o].child] =>
           o \in scope'.ops /\ Parent[op[o].child] \in scope'.members
    BY <2>2, <2>3
  <2> QED
    BY <2>1, <2>2, <2>9, <2>10, <2>11, <2>12 DEF Scopes, Resident, Inside
<1> QED
  BY <1>1, <1>2, <1>3, DrainStep

--------------------------------------------------------------------------------
(* Teardowns *)

LEMMA CutOffStays ==
  ASSUME Typed, Alive, [Next]_vars, NEW c, CutOff(c)
  PROVE  drain'.phase # "no" \/ (scope'.phase # "no" /\ c \in scope'.members)
<1>1. drain.phase # "no" => drain'.phase # "no"
  BY DrainStep DEF Drain, DrainForest, DrainDone, Typed, DrainsTyped
<1>2. scope.phase # "no" => scope'.phase # "no" /\ scope'.members = scope.members
  BY DrainStep DEF ScopeDone, DrainScope, Typed, DrainsTyped
<1> QED
  BY <1>1, <1>2 DEF CutOff

LEMMA LooksSame ==
  ASSUME NEW r, NEW s, Looks(r, s)
  PROVE  Messages(s) = Messages(r) /\ (MailOf(r) => MailOf(s))
BY DEF Looks, Messages, MailOf

(* An agent whose teardown began is left alone until it is gone. *)
LEMMA TeardownOf ==
  ASSUME Typed, Alive, Owners, Announcements, Unheard, Locks, Turnless, "select" \notin Features,
         [Next]_vars, NEW c \in Children, stage[c] \in Teardown
  PROVE  /\ ag'[c].log = ag[c].log /\ ag'[c].phase # "run"
         /\ stage'[c] # "none" => ag'[c].phase \in {"idle", "abort"} /\ ~ag'[c].latch
<1>0. /\ c \in Nodes /\ ag[c] \in Agents /\ ag[c].phase \in {"idle", "abort"} /\ ~ag[c].latch
      /\ \A d \in Children : announced[d] /\ Parent[d] = c => CutOff(c)
      /\ stage[c] \notin {"none", "up", "rollback"}
  BY Assumed DEF Turnless, Typed, Teardown
<1> DEFINE LeftAlone(r) == r.log = ag[c].log /\ r.phase = ag[c].phase /\ (r.latch <=> ag[c].latch)
<1>1. CASE LeftAlone(ag'[c])
  BY <1>0, <1>1
<1>2. ASSUME NEW o \in Ops, Installed(o) \/ Condemned(o) PROVE LeftAlone(ag'[c])
  <2>1. Made(o) /\ stage[op[o].child] = "none"
    BY <1>2 DEF Installed, Condemned, Made, Locks
  <2>2. ag'[c] = ag[c]
    BY <1>0, <2>1, MadeOf
  <2> QED
    BY <2>2
<1>3. ASSUME NEW o \in Ops, Answered(o) PROVE LeftAlone(ag'[c])
  <2>1. stage[op[o].child] = "up"
    BY <1>3 DEF Answered, MaySubmit
  <2>2. ag'[c] = ag[c]
    BY <1>0, <1>3, <2>1, AcceptsOf DEF Answered
  <2> QED
    BY <2>2
<1>4. ASSUME NEW a \in Nodes, Works(a)
      PROVE  /\ ag'[c].log = ag[c].log /\ ag'[c].phase \in {"idle", "abort"} /\ ~ag'[c].latch
  <2>1. PICK r \in Agents :
          /\ Becomes(a, r) /\ ag[a].phase \in {"run", "abort"}
          /\ ag[a].phase = "abort" /\ ~ag[a].latch => r.phase = "idle" /\ ~r.latch /\ r.log = ag[a].log
    BY <1>4, WorkOf DEF Works
  <2>2. ag'[a] = r /\ \A b \in Nodes : b # a => ag'[b] = ag[b]
    BY <2>1, BecomesOf
  <2>3. CASE a = c
    BY <1>0, <2>1, <2>2, <2>3
  <2>4. CASE a # c
    BY <1>0, <2>2, <2>4
  <2> QED
    BY <2>3, <2>4
<1>5. ASSUME NEW d \in Children, NEW quiet \in BOOLEAN, Report(d, quiet) PROVE LeftAlone(ag'[c])
  <2>1. stage[d] = "up" /\ announced[d]
    BY <1>5, AtWork DEF Report
  <2>2. Parent[d] # c
    BY <2>1 DEF Announcements, Owners
  <2>3. ag'[c] = ag[c]
    BY <1>0, <1>5, <2>2, ReportOf
  <2> QED
    BY <2>3
<1>6. ASSUME NEW d \in Children, Watching(d) PROVE LeftAlone(ag'[c])
  BY <1>0, <1>6 DEF Watching, SameAgents, Looks
<1>7. ASSUME NEW d \in Children, Release(d)
      PROVE  /\ ag'[c].log = ag[c].log /\ ag'[c].phase \in {"idle", "abort"} /\ ~ag'[c].latch
  <2>1. d \in Nodes /\ ag \in [Nodes -> Agents] /\ ag' = [ag EXCEPT ![d] = Cleared(ag[d])]
    BY <1>7, Assumed DEF Release, Typed
  <2>2. CASE d = c
    <3>1. /\ Cleared(ag[c]).log = ag[c].log /\ ~Cleared(ag[c]).latch
          /\ Cleared(ag[c]).phase = (IF ag[c].phase = "run" THEN "abort" ELSE ag[c].phase)
      BY <1>0, ClearedOf
    <3>2. ag'[c] = Cleared(ag[c])
      BY <1>0, <2>1, <2>2
    <3> QED
      BY <1>0, <3>1, <3>2
  <2>3. CASE d # c
    BY <1>0, <2>1, <2>3
  <2> QED
    BY <2>2, <2>3
<1>8. ASSUME Stops PROVE LeftAlone(ag'[c])
  <2>1. PICK D : Closed(D) /\ Stopped(D)
    BY <1>8, StopsOf
  <2>2. c \notin D
    BY <1>0, <2>1 DEF Closed, Up
  <2>3. ag'[c] = ag[c]
    BY <1>0, <2>1, <2>2, StoppedOf
  <2> QED
    BY <2>3
<1>9. ASSUME NEW o \in Ops, RolledBack(o) PROVE LeftAlone(ag'[c])
  <2>1. /\ op[o].child \in Children /\ stage[op[o].child] = "rollback" /\ Removed(op[o].child, ag)
        /\ ag \in [Nodes -> Agents]
    BY <1>9, ChildOf DEF RolledBack, Locks, Typed
  <2>2. Looks(ag[c], ag'[c])
    BY <1>0, <2>1, RemovedOf
  <2> QED
    BY <2>2 DEF Looks
<1>10. ASSUME NEW d \in Children, Released(d)
       PROVE  ag'[c].log = ag[c].log /\ (IF d = c THEN ag'[c].phase = "off" /\ stage'[c] = "none"
                                                  ELSE LeftAlone(ag'[c]))
  <2>1. Removed(d, Notified(d)) /\ Notified(d) \in [Nodes -> Agents]
    BY <1>10, NotifiedOf DEF Released
  <2>2. CASE d = c
    <3>1. Parent[c] # c
      BY ApartOf
    <3>2. Notified(c)[c] = ag[c]
      BY <1>0, <3>1, NotifiedOf
    <3>3. ag'[c].phase = "off" /\ ag'[c].log = Notified(c)[c].log /\ stage'[c] = "none"
      BY <2>1, <2>2, RemovedOf
    <3> QED
      BY <2>2, <3>2, <3>3
  <2>3. CASE d # c
    <3>1. Looks(Notified(d)[c], ag'[c])
      BY <1>0, <2>1, <2>3, RemovedOf
    <3>2. LeftAlone(Notified(d)[c])
      <4>1. CASE Parent[d] # c \/ ~(announced[d] /\ Live(Parent[d]))
        <5>1. Notified(d)[c] = ag[c]
          BY <1>0, <4>1, NotifiedOf
        <5> QED
          BY <5>1
      <4>2. CASE Parent[d] = c /\ announced[d] /\ Live(Parent[d])
        <5>1. PICK accepted \in BOOLEAN, wakes \in BOOLEAN, where \in {"turn", "step"} :
                /\ Notified(d)[c] = Sent(ag[c], Notice(d, accepted), where, wakes)
                /\ wakes <=> ~Closing(c)
          BY <4>2, NotifiedOf
        <5>2. Closing(c)
          BY <1>0, <4>2 DEF CutOff, Closing
        <5>3. Notice(d, accepted) \in Msgs /\ ~wakes
          BY <5>1, <5>2, NoticeTyped
        <5>4. LET t == Sent(ag[c], Notice(d, accepted), where, wakes)
              IN  /\ t.phase = (IF wakes /\ ag[c].phase = "idle" THEN "run" ELSE ag[c].phase)
                  /\ ~wakes => t.latch = ag[c].latch /\ t.log = ag[c].log
          BY <1>0, <5>3, SentOf
        <5> QED
          BY <5>1, <5>3, <5>4
      <4> QED
        BY <4>1, <4>2
    <3> QED
      BY <2>3, <3>1, <3>2 DEF Looks
  <2> QED
    BY <2>2, <2>3
<1>11. ASSUME UNCHANGED ag PROVE LeftAlone(ag'[c])
  BY <1>11
<1>12. ASSUME \/ \E o \in Ops, d \in Children, start \in BOOLEAN : Call(o, d, start)
              \/ \E o \in Ops : Moves(o) \/ Admitted(o)
              \/ Drain \/ DrainDone \/ ScopeDone \/ UNCHANGED vars
       PROVE  UNCHANGED ag
  BY <1>12 DEF Call, Moves, Admitted, Drain, DrainDone, ScopeDone, vars
<1> HIDE DEF LeftAlone
<1>13. CASE \E o \in Ops : Installed(o) \/ Condemned(o) \/ Answered(o) \/ RolledBack(o)
  BY <1>1, <1>2, <1>3, <1>9, <1>13
<1>14. CASE \E d \in Children, quiet \in BOOLEAN : Report(d, quiet)
  BY <1>1, <1>5, <1>14
<1>15. CASE \E d \in Children : Watching(d) \/ Release(d) \/ Released(d)
  <2>1. PICK d \in Children : Watching(d) \/ Release(d) \/ Released(d)
    BY <1>15
  <2>2. CASE Released(d) /\ d = c
    BY <1>10, <2>2
  <2>3. CASE Released(d) /\ d # c
    BY <1>1, <1>10, <2>3
  <2>4. CASE Watching(d)
    BY <1>1, <1>6, <2>4
  <2>5. CASE Release(d)
    BY <1>7, <2>5
  <2> QED
    BY <2>1, <2>2, <2>3, <2>4, <2>5
<1>16. CASE Stops \/ \E a \in Nodes : Works(a)
  BY <1>1, <1>4, <1>8, <1>16
<1> QED
  BY <1>1, <1>11, <1>12, <1>13, <1>14, <1>15, <1>16, Kinds DEF Stops

(* A set of Activations is stopped, and each is out of reach or has nothing to come. *)
LEMMA StoppedTurnless ==
  ASSUME Typed, Alive, Owners, Announcements, Locks, Lines, "select" \notin Features, [Next]_vars, Stops
  PROVE  \E D : /\ Closed(D) /\ Stopped(D)
                /\ \A c \in D, d \in Children : announced[d] /\ Parent[d] = c =>
                     drain'.phase # "no" \/ (scope'.phase # "no" /\ c \in scope'.members)
<1>1. ASSUME NEW o \in Ops, Refused(o)
      PROVE  \E D : /\ Closed(D) /\ Stopped(D) /\ \A c \in D, d \in Children : announced[d] => Parent[d] # c
  <2> DEFINE e == op[o].child
             D == Below({e})
             T == {x \in Up : ~announced[x]}
  <2>1. ~announced[e] /\ Closed(D) /\ Stopped(D)
    BY <1>1, DisposesOf DEF Refused, Locks
  <2>2. Closed(T)
    <3>1. ASSUME NEW x \in T, NEW y \in owned[x] \cap Up PROVE y \in T
      <4>1. Parent[y] = x /\ x \in Children /\ y \in Children
        BY DEF Up, Owners
      <4> QED
        BY <4>1, Assumed DEF Announcements, Known
    <3> QED
      BY <3>1 DEF Closed
  <2>3. D \subseteq T
    BY <2>1, <2>2, BelowWithin
  <2>4. \A c \in D, d \in Children : announced[d] => Parent[d] # c
    BY <2>3, Assumed DEF Announcements, Known, Up
  <2> QED
    BY <2>1, <2>4
<1>2. ASSUME NEW e \in Children, Settling(e)
      PROVE  \E D : /\ Closed(D) /\ Stopped(D) /\ \A c \in D, d \in Children : announced[d] => Parent[d] # c
  <2> DEFINE D == Below({e})
             T == {e} \cap Up
  <2>1. owned[e] = {} /\ Closed(D) /\ Stopped(D)
    BY <1>2, DisposesOf DEF Settling, Settled
  <2>2. Closed(T)
    BY <2>1 DEF Closed
  <2>3. D \subseteq T
    BY <2>2, BelowWithin
  <2>4. \A d \in Children : announced[d] => Parent[d] # e
    BY <2>1 DEF Announcements
  <2>5. \A c \in D, d \in Children : announced[d] => Parent[d] # c
    BY <2>3, <2>4
  <2> QED
    BY <2>1, <2>5
<1>3. ASSUME DrainForest
      PROVE  drain'.phase # "no" /\ \E D : Closed(D) /\ Stopped(D)
  BY <1>3, StopsOf DEF Stops, DrainForest, Typed, DrainsTyped
<1>4. ASSUME NEW r \in Roots, DrainScope(r)
      PROVE  \E D : Closed(D) /\ Stopped(D) /\ scope'.phase # "no" /\ D \subseteq scope'.members
  <2> DEFINE targets == {c \in Children : Resident(c) /\ r \in above[c]}
             started == {o \in Materializing : r \in op[o].line}
             lineages == UNION {{c} \cup Lineage(c) : c \in targets}
             lines == UNION {op[o].line : o \in started}
             D == Below(targets)
             T == {x \in Up : r \in Ancestors[x]}
  <2>1. /\ scope' = [phase |-> "wait", root |-> r, ops |-> started, roots |-> Unowned(targets),
                     members |-> {r} \cup lineages \cup lines]
        /\ Disposes(targets)
    BY <1>4 DEF DrainScope
  <2>2. scope'.phase = "wait" /\ lineages \subseteq scope'.members
    BY <2>1
  <2>3. Closed(D) /\ Stopped(D)
    BY <2>1, DisposesOf
  <2>4. Closed(T)
    <3>1. ASSUME NEW x \in T, NEW y \in owned[x] \cap Up PROVE y \in T
      <4>1. Parent[y] = x /\ x \in Children /\ y \in Children
        BY DEF Up, Owners
      <4> QED
        BY <4>1, AncestorsOf
    <3> QED
      BY <3>1 DEF Closed
  <2>5. targets \cap Up \subseteq T
    BY DEF Lines, Up
  <2>6. D \subseteq T
    BY <2>4, <2>5, BelowWithin
  <2>7. \A x \in T : x \in targets
    BY DEF Up, Resident, Lines
  <2>8. \A x \in targets : x \in lineages
    OBVIOUS
  <2>9. D \subseteq scope'.members
    <3> HIDE DEF D, T, targets, lineages
    <3> QED
      BY <2>2, <2>6, <2>7, <2>8
  <2> HIDE DEF D, targets, started, lineages, lines
  <2> QED
    BY <2>2, <2>3, <2>9
<1> QED
  BY <1>1, <1>2, <1>3, <1>4 DEF Stops, Select

LEMMA TurnlessKept ==
  ASSUME Typed, Alive, Owners, Announcements, Unheard, Locks, Lines, Turnless, [Next]_vars
  PROVE  Turnless'
<1>0. setup' = setup /\ Features' = Features
  BY Kinds DEF Features
<1> SUFFICES ASSUME "select" \notin Features, NEW c \in Children, stage'[c] \in Teardown
             PROVE  /\ ag'[c].phase \in {"idle", "abort"} /\ ~ag'[c].latch
                    /\ \A d \in Children : announced'[d] /\ Parent[d] = c =>
                         drain'.phase # "no" \/ (scope'.phase # "no" /\ c \in scope'.members)
  BY <1>0 DEF Turnless, CutOff
<1>1. CASE stage[c] \in Teardown
  <2>1. ag'[c].phase \in {"idle", "abort"} /\ ~ag'[c].latch
    BY <1>1, TeardownOf DEF Teardown
  <2>2. ASSUME NEW d \in Children, announced'[d], Parent[d] = c PROVE announced[d]
    <3>1. ASSUME NEW o \in Ops, Answered(o) PROVE d # op[o].child
      BY <1>1, <2>2, <3>1 DEF Answered, MaySubmit, CanOwn, Teardown
    <3>2. CASE \E o \in Ops : Answered(o)
      BY <2>2, <3>1, <3>2, AcceptsOf DEF Answered
    <3>3. CASE UNCHANGED announced
      BY <2>2, <3>3
    <3>4. ASSUME NEW e \in Children, Leaves(e) PROVE announced[d]
      BY <2>2, <3>4, RemovedOf DEF Leaves
    <3> QED
      BY <3>2, <3>3, <3>4, SteadyOr, LeavesOf, ChildOf DEF Installed, Condemned, Made
  <2>3. ASSUME NEW d \in Children, announced[d], Parent[d] = c
        PROVE  drain'.phase # "no" \/ (scope'.phase # "no" /\ c \in scope'.members)
    BY <1>1, <2>3, CutOffStays DEF Turnless
  <2> QED
    BY <2>1, <2>2, <2>3
<1>2. CASE stage[c] \notin Teardown
  <2>1. Stops
    <3>1. ASSUME Steady, ~Stops PROVE stage'[c] = stage[c]
      <4>1. ASSUME NEW a \in Nodes, Works(a) PROVE stage'[c] = stage[c]
        <5>1. PICK r \in Agents : Becomes(a, r)
          BY <4>1, WorkOf DEF Works
        <5>2. IF c = a /\ stage[c] = "stop" /\ r.phase = "idle" THEN stage'[c] = "quiet"
                                                                ELSE stage'[c] = stage[c]
          BY <5>1, BecomesOf
        <5> QED
          BY <1>2, <5>2 DEF Teardown
      <4>2. ASSUME NEW d \in Children, Release(d) PROVE stage'[c] = stage[c]
        BY <1>2, <4>2 DEF Release, Teardown, Typed, TreeTyped
      <4>3. ASSUME NEW o \in Ops, Installed(o) \/ Condemned(o) PROVE stage'[c] = stage[c]
        BY <4>3, ChildOf DEF Installed, Condemned, Typed, TreeTyped, Teardown
      <4>4. ASSUME NEW d \in Children, Leaves(d) PROVE stage'[c] = stage[c]
        <5>1. stage'[c] = (IF c = d THEN "none" ELSE stage[c])
          BY <4>4, RemovedOf DEF Leaves
        <5> QED
          BY <5>1 DEF Teardown
      <4>5. ASSUME NEW o \in Ops, Answered(o) PROVE stage'[c] = stage[c]
        BY <4>5 DEF Answered
      <4> QED
        BY <3>1, <4>1, <4>2, <4>3, <4>4, <4>5, Kinds, StaysOf, LeavesOf, ChildOf DEF Stops
    <3>2. ASSUME NEW o \in Ops, Installed(o) \/ Condemned(o) PROVE FALSE
      BY <1>2, <3>2, ChildOf DEF Installed, Condemned, Typed, TreeTyped, Teardown
    <3>3. ASSUME NEW d \in Children, Leaves(d) PROVE FALSE
      <4>1. stage'[c] = (IF c = d THEN "none" ELSE stage[c])
        BY <3>3, RemovedOf DEF Leaves
      <4> QED
        BY <1>2, <4>1 DEF Teardown
    <3> QED
      BY <1>2, <3>1, <3>2, <3>3, SteadyOr, LeavesOf, ChildOf
  <2>2. PICK D : /\ Closed(D) /\ Stopped(D)
                 /\ \A x \in D, d \in Children : announced[d] /\ Parent[d] = x =>
                      drain'.phase # "no" \/ (scope'.phase # "no" /\ x \in scope'.members)
    BY <2>1, StoppedTurnless
  <2>3. c \in D
    BY <1>2, <2>2, StoppedOf
  <2>4. /\ ag'[c].phase = (IF ag[c].phase = "run" THEN "abort" ELSE ag[c].phase) /\ ~ag'[c].latch
        /\ stage[c] = "up" /\ announced' = announced
    BY <2>2, <2>3, Assumed, StoppedOf DEF Nodes
  <2>5. ag[c].phase \in {"idle", "run", "abort"}
    <3>1. ag[c] \in Agents /\ ag[c].phase # "off"
      BY <2>4, Assumed DEF Typed, Alive, Live
    <3> QED
      BY <3>1 DEF Agents
  <2> QED
    BY <2>2, <2>3, <2>4, <2>5
<1> QED
  BY <1>1, <1>2

--------------------------------------------------------------------------------
(* Reports and notices *)

(* What a step leaves of what an agent read and will read. *)
LEMMA NoticesKept ==
  ASSUME Typed, Alive, Locks, Notices, [Next]_vars
  PROVE  Notices'
<1> DEFINE OverNow(m) ==
             m.kind = "notice" =>
               /\ m.from \in Children /\ m.gen <= ag'[m.from].gen
               /\ ag'[m.from].phase # "off" => m.gen < ag'[m.from].gen
           AllOver == \A a \in Nodes : \A m \in Messages(ag'[a]) : OverNow(m)
<1>0. \A a \in Nodes : ag[a] \in Agents /\ ag[a].gen \in Nat
  BY DEF Typed, Agents
<1>1. \A a \in Nodes : \A m \in Messages(ag[a]) : m \in Msgs /\ m.gen \in Nat
  <2>1. ASSUME NEW a \in Nodes, NEW m \in Messages(ag[a]) PROVE m \in Msgs
    <3>1. ag[a].log \in Seq(Msgs) /\ ag[a].stepQ \in Seq(Msgs) /\ ag[a].turnQ \in Seq(Msgs)
      BY <1>0 DEF Agents
    <3> QED
      BY <3>1 DEF Messages, Elements
  <2> QED
    BY <2>1 DEF Msgs
(* The epochs of children only go on, and an Activation that comes begins another. *)
<1>2. ASSUME \/ Steady
             \/ \E o \in Ops : Installed(o) \/ Condemned(o)
             \/ \E c \in Children : Leaves(c)
      PROVE  \A a \in Nodes : \A m \in Messages(ag[a]) : OverNow(m)
  <2> SUFFICES ASSUME NEW a \in Nodes, NEW m \in Messages(ag[a]), m.kind = "notice" PROVE OverNow(m)
    OBVIOUS
  <2> DEFINE f == m.from
  <2>1. /\ f \in Children /\ f \in Nodes /\ m.gen <= ag[f].gen /\ m.gen \in Nat /\ ag[f].gen \in Nat
        /\ ag[f].phase # "off" => m.gen < ag[f].gen
    BY <1>0, <1>1, Assumed DEF Notices, Over, Live
  <2>2. CASE Steady
    BY <2>1, <2>2 DEF Steady
  <2>3. ASSUME NEW o \in Ops, Installed(o) \/ Condemned(o) PROVE OverNow(m)
    <3>1. Made(o)
      BY <2>3 DEF Installed, Condemned
    <3>2. IF f = op[o].child THEN ag'[f].gen = ag[f].gen + 1 ELSE ag'[f] = ag[f]
      BY <2>1, <3>1, MadeOf
    <3> QED
      BY <2>1, <3>2
  <2>4. ASSUME NEW c \in Children, Leaves(c) PROVE OverNow(m)
    <3>1. PICK agents \in [Nodes -> Agents] :
            /\ Removed(c, agents)
            /\ \A b \in Nodes :
                 /\ agents[b].gen = ag[b].gen
                 /\ agents[b].phase # ag[b].phase => ag[b].phase = "idle" /\ agents[b].phase = "run"
      BY <2>4 DEF Leaves
    <3>2. /\ ag'[c].phase = "off" /\ \A b \in Nodes : b # c => ag'[b].phase = agents[b].phase
          /\ \A b \in Nodes : ag'[b].gen = agents[b].gen
      BY <3>1, RemovedOf DEF Looks
    <3>3. ag'[f].gen = ag[f].gen /\ (ag'[f].phase # "off" => ag[f].phase # "off")
      BY <2>1, <3>1, <3>2
    <3> QED
      BY <2>1, <3>3
  <2> HIDE DEF OverNow
  <2> QED
    BY <1>2, <2>2, <2>3, <2>4
<1>3. \A m : m.kind # "notice" => OverNow(m)
  OBVIOUS
<1> HIDE DEF OverNow
(* No agent gets a message. *)
<1>4. ASSUME \A a \in Nodes : Messages(ag'[a]) \subseteq Messages(ag[a]),
             Steady \/ \E o \in Ops : Installed(o) \/ Condemned(o)
      PROVE  AllOver
  BY <1>2, <1>4
<1>5. ASSUME UNCHANGED ag, Steady PROVE AllOver
  BY <1>4, <1>5
<1>6. ASSUME NEW o \in Ops, Installed(o) \/ Condemned(o) PROVE AllOver
  <2>1. Made(o)
    BY <1>6 DEF Installed, Condemned
  <2>2. \A a \in Nodes : Messages(ag'[a]) \subseteq Messages(ag[a])
    BY <2>1, MadeOf
  <2> QED
    BY <1>4, <1>6, <2>2
<1>7. ASSUME NEW o \in Ops, Answered(o) PROVE AllOver
  <2> DEFINE c == op[o].child
  <2>1. c \in Nodes /\ Steady
    BY <1>7, ChildOf, SteadyOf
  <2>2. ag'[c] = Sent(ag[c], Task, "turn", TRUE) /\ \A a \in Nodes : a # c => ag'[a] = ag[a]
    BY <1>7, AcceptsOf DEF Answered
  <2>3. PICK w \in BOOLEAN : w = TRUE
    OBVIOUS
  <2>4. LET t == Sent(ag[c], Task, "turn", w) IN Messages(t) \subseteq Messages(ag[c]) \cup {Task}
    BY <1>0, <2>1, TaskTyped, SentOf
  <2>5. Messages(ag'[c]) \subseteq Messages(ag[c]) \cup {Task}
    BY <2>2, <2>3, <2>4
  <2>6. Task.kind # "notice"
    BY DEF Task
  <2> HIDE DEF c
  <2> QED
    BY <1>2, <1>3, <2>1, <2>2, <2>5, <2>6
<1>8. ASSUME NEW c \in Children, NEW quiet \in BOOLEAN, Report(c, quiet) PROVE AllOver
  <2> DEFINE p == Parent[c]
  <2>1. PICK m \in Msgs : /\ m.kind = "report" /\ p \in Nodes
                          /\ ag'[p] = Sent(ag[p], m, "step", ~quiet)
                          /\ \A a \in Nodes : a # p => ag'[a] = ag[a]
    BY <1>8, ReportOf
  <2>2. PICK w \in BOOLEAN : w = ~quiet
    OBVIOUS
  <2>3. LET t == Sent(ag[p], m, "step", w) IN Messages(t) \subseteq Messages(ag[p]) \cup {m}
    BY <1>0, <2>1, SentOf
  <2>4. Messages(ag'[p]) \subseteq Messages(ag[p]) \cup {m}
    BY <2>1, <2>2, <2>3
  <2>5. Steady
    BY <1>8, SteadyOf
  <2> HIDE DEF p
  <2>6. m.kind # "notice"
    BY <2>1
  <2> QED
    BY <1>2, <1>3, <2>1, <2>4, <2>5, <2>6
<1>9. ASSUME NEW a \in Nodes, Works(a) PROVE AllOver
  <2>1. PICK r \in Agents : Becomes(a, r) /\ Messages(r) \subseteq Messages(ag[a])
    BY <1>9, WorkOf DEF Works
  <2>2. ag'[a] = r /\ \A b \in Nodes : b # a => ag'[b] = ag[b]
    BY <2>1, BecomesOf
  <2>3. Steady
    BY <1>9, SteadyOf
  <2> QED
    BY <1>4, <2>1, <2>2, <2>3
<1>10. ASSUME NEW c \in Children, Watching(c) PROVE AllOver
  <2>1. \A a \in Nodes : Messages(ag'[a]) \subseteq Messages(ag[a])
    BY <1>10, LooksSame DEF Watching, SameAgents
  <2>2. Steady
    BY <1>10, SteadyOf
  <2> QED
    BY <1>4, <2>1, <2>2
<1>11. ASSUME NEW c \in Children, Release(c) PROVE AllOver
  <2>1. c \in Nodes /\ ag \in [Nodes -> Agents] /\ ag' = [ag EXCEPT ![c] = Cleared(ag[c])]
    BY <1>11, Assumed DEF Release, Typed
  <2>2. Messages(Cleared(ag[c])) \subseteq Messages(ag[c])
    BY <1>0, <2>1, ClearedOf
  <2>3. \A a \in Nodes : Messages(ag'[a]) \subseteq Messages(ag[a])
    BY <2>1, <2>2
  <2>4. Steady
    BY <1>11, SteadyOf
  <2> QED
    BY <1>4, <2>3, <2>4
<1>12. ASSUME Stops PROVE AllOver
  <2>1. Steady /\ \A a \in Nodes : Messages(ag'[a]) \subseteq Messages(ag[a])
    BY <1>12, StopsOf, StoppedOf, SteadyOf
  <2> QED
    BY <1>4, <2>1
<1>13. ASSUME NEW c \in Children, NEW agents \in [Nodes -> Agents], Removed(c, agents), Leaves(c),
              \A a \in Nodes : \A m \in Messages(agents[a]) : m \in Messages(ag[a]) \/ OverNow(m)
       PROVE  AllOver
  <2>1. \A a \in Nodes : Messages(ag'[a]) \subseteq Messages(agents[a])
    BY <1>13, RemovedOf, LooksSame
  <2> QED
    BY <1>2, <1>13, <2>1
<1>14. ASSUME NEW o \in Ops, RolledBack(o) PROVE AllOver
  <2>1. op[o].child \in Children /\ Removed(op[o].child, ag) /\ Leaves(op[o].child)
        /\ ag \in [Nodes -> Agents]
    BY <1>14, ChildOf, LeavesOf DEF RolledBack, Typed
  <2> QED
    BY <1>13, <2>1
<1>15. ASSUME NEW c \in Children, Released(c) PROVE AllOver
  <2> DEFINE p == Parent[c]
             N == Notified(c)
  <2>1. Removed(c, N) /\ Leaves(c) /\ N \in [Nodes -> Agents] /\ p \in Nodes /\ c \in Nodes
    BY <1>15, LeavesOf, NotifiedOf, ApartOf, Assumed DEF Released
  <2>2. ag'[c].phase = "off" /\ ag'[c].gen = ag[c].gen
    BY <2>1, RemovedOf, NotifiedOf
  <2>3. \A accepted \in BOOLEAN : OverNow(Notice(c, accepted)) /\ Notice(c, accepted) \in Msgs
    BY <1>0, <2>1, <2>2, NoticeTyped DEF Notice, OverNow
  <2>4. \A a \in Nodes : a # p => N[a] = ag[a]
    BY NotifiedOf
  <2>5. \A m \in Messages(N[p]) : m \in Messages(ag[p]) \/ OverNow(m)
    <3>1. CASE ~(announced[c] /\ Live(p))
      BY <3>1, NotifiedOf
    <3>2. CASE announced[c] /\ Live(p)
      <4>1. PICK accepted \in BOOLEAN, wakes \in BOOLEAN, where \in {"turn", "step"} :
              N[p] = Sent(ag[p], Notice(c, accepted), where, wakes)
        BY <3>2, NotifiedOf
      <4>2. PICK m \in Msgs : m = Notice(c, accepted) /\ OverNow(m)
        BY <2>3
      <4>3. Messages(Sent(ag[p], m, where, wakes)) \subseteq Messages(ag[p]) \cup {m}
        BY <1>0, <2>1, SentOf
      <4> HIDE DEF N, p
      <4> QED
        BY <4>1, <4>2, <4>3
    <3> QED
      BY <3>1, <3>2
  <2> HIDE DEF N, p
  <2>6. \A a \in Nodes : \A m \in Messages(N[a]) : m \in Messages(ag[a]) \/ OverNow(m)
    BY <2>4, <2>5
  <2> QED
    BY <1>13, <2>1, <2>6
<1> HIDE DEF AllOver
<1>16. ASSUME \/ \E o \in Ops, d \in Children, start \in BOOLEAN : Call(o, d, start)
              \/ \E o \in Ops : Moves(o) \/ Admitted(o)
              \/ Drain \/ DrainDone \/ ScopeDone \/ UNCHANGED vars
       PROVE  UNCHANGED ag /\ Steady
  <2>1. UNCHANGED ag
    BY <1>16 DEF Call, Moves, Admitted, Drain, DrainDone, ScopeDone, vars
  <2> QED
    BY <1>16, <2>1, SteadyOf
<1>17. AllOver
  BY <1>5, <1>6, <1>7, <1>8, <1>9, <1>10, <1>11, <1>12, <1>14, <1>15, <1>16, Kinds DEF Stops
<1> QED
  BY <1>17 DEF AllOver, OverNow, Notices, Over, Live

LEMMA MailKept ==
  ASSUME Typed, Alive, Owners, Announcements, Unheard, Locks, Mail, Notices, [Next]_vars
  PROVE  Mail'
<1>0. Features' = Features
  BY Kinds DEF Features
<1> DEFINE NoAbort == \A a \in Nodes : ag'[a].phase = "abort" => a \in Children /\ stage'[a] # "up"
           InMail == \A a \in Nodes : MailOf(ag'[a])
<1> SUFFICES ASSUME "interrupt" \notin Features PROVE NoAbort /\ InMail
  BY <1>0, Assumed DEF Mail, Up
<1>1. \A a \in Nodes : ag[a] \in Agents /\ MailOf(ag[a])
  BY DEF Typed, Mail
<1>2. \A a \in Nodes : ag[a].phase = "abort" => a \in Children /\ stage[a] # "up"
  BY DEF Mail, Up, Nodes
<1>3. ASSUME UNCHANGED ag, UNCHANGED stage PROVE NoAbort /\ InMail
  BY <1>1, <1>2, <1>3
<1>4. ASSUME NEW o \in Ops, Installed(o) \/ Condemned(o) PROVE NoAbort /\ InMail
  <2> DEFINE c == op[o].child
  <2>1. Made(o) /\ c \in Children
    BY <1>4, ChildOf DEF Installed, Condemned
  <2>2. ag'[c].phase = "idle" /\ MailOf(ag'[c]) /\ \A a \in Nodes : a # c => ag'[a] = ag[a]
    BY <1>1, <2>1, Assumed, MadeOf
  <2>3. \A d \in Children : d # c => stage'[d] = stage[d]
    BY <1>4, <2>1 DEF Installed, Condemned, Typed, TreeTyped
  <2> HIDE DEF c
  <2> QED
    BY <1>1, <1>2, <2>1, <2>2, <2>3
<1>5. ASSUME NEW o \in Ops, Answered(o) PROVE NoAbort /\ InMail
  <2> DEFINE c == op[o].child
  <2>1. c \in Nodes /\ UNCHANGED stage
    BY <1>5, ChildOf DEF Answered
  <2>2. /\ ag'[c] = Sent(ag[c], Task, "turn", TRUE) /\ \A a \in Nodes : a # c => ag'[a] = ag[a]
        /\ \A a \in Nodes : ag'[a].phase = (IF a = c /\ ag[a].phase = "idle" THEN "run" ELSE ag[a].phase)
    BY <1>5, AcceptsOf DEF Answered
  <2>3. PICK w \in BOOLEAN : w = TRUE
    OBVIOUS
  <2>4. MailOf(Sent(ag[c], Task, "turn", w))
    <3>1. Task.kind # "report"
      BY DEF Task
    <3> QED
      BY <1>1, <2>1, <3>1, TaskTyped, SentInOrder
  <2>5. MailOf(ag'[c])
    BY <2>2, <2>3, <2>4
  <2>6. \A a \in Nodes : ag'[a].phase = "abort" => ag[a].phase = "abort"
    BY <2>2
  <2> HIDE DEF c
  <2> QED
    BY <1>1, <1>2, <2>1, <2>2, <2>5, <2>6
<1>6. ASSUME NEW c \in Children, NEW quiet \in BOOLEAN, Report(c, quiet) PROVE NoAbort /\ InMail
  <2> DEFINE p == Parent[c]
  <2>1. PICK m \in Msgs : /\ m.kind = "report" /\ m.from = c /\ m.gen = ag[c].gen /\ p \in Nodes
                          /\ ag'[p] = Sent(ag[p], m, "step", ~quiet)
                          /\ \A a \in Nodes : a # p => ag'[a] = ag[a]
                          /\ \A a \in Nodes : ag'[a].phase # ag[a].phase => ag'[a].phase = "run"
    BY <1>6, ReportOf
  <2>2. stage[c] = "up" /\ ag[c].phase = "run" /\ UNCHANGED stage
    BY <1>6 DEF Report, actVars
  <2>3. announced[c]
    BY <2>2, AtWork
  <2>4. ag[p].phase # "abort"
    <3>1. p \in Children => c \in owned[p]
      BY <2>3 DEF Announcements
    <3>2. p \in Children => stage[p] = "up"
      BY <2>2, <3>1, OwnerOf DEF Owners, Teardown
    <3> QED
      BY <1>2, <2>1, <3>2
  <2>5. \A x \in Messages(ag[p]) : Follows(m, x)
    <3> SUFFICES ASSUME NEW x \in Messages(ag[p]), x.kind = "notice", m.from = x.from
                 PROVE  m.gen > x.gen
      BY DEF Follows
    <3>1. x.gen < ag[c].gen
      BY <2>1, <2>2 DEF Notices, Over, Live
    <3>2. x.gen \in Nat /\ ag[c].gen \in Nat
      <4>1. ag[p].log \in Seq(Msgs) /\ ag[p].stepQ \in Seq(Msgs) /\ ag[p].turnQ \in Seq(Msgs)
        BY <1>1, <2>1 DEF Agents
      <4>2. x \in Msgs
        BY <4>1 DEF Messages, Elements
      <4> QED
        BY <1>1, <4>2, Assumed DEF Msgs, Agents
    <3> QED
      BY <2>1, <3>1, <3>2
  <2>6. PICK w \in BOOLEAN : w = ~quiet
    OBVIOUS
  <2>7. MailOf(Sent(ag[p], m, "step", w))
    BY <1>1, <2>1, <2>4, <2>5, SentInOrder
  <2>8. MailOf(ag'[p])
    BY <2>1, <2>6, <2>7
  <2>9. \A a \in Nodes : ag'[a].phase = "abort" => ag[a].phase = "abort"
    BY <2>1
  <2> HIDE DEF p
  <2> QED
    BY <1>1, <1>2, <2>1, <2>2, <2>8, <2>9
<1>7. ASSUME NEW a \in Nodes, Works(a) PROVE NoAbort /\ InMail
  <2>1. PICK r \in Agents :
          /\ Becomes(a, r) /\ (MailOf(ag[a]) => MailOf(r))
          /\ r.phase = "abort" => "interrupt" \in Features
    BY <1>7, WorkOf DEF Works
  <2>2. /\ ag'[a] = r /\ \A b \in Nodes : b # a => ag'[b] = ag[b]
    BY <2>1, BecomesOf
  <2>3. \A c \in Children : stage'[c] # stage[c] => stage'[c] = "quiet"
    BY <2>1, BecomesOf
  <2> QED
    BY <1>1, <1>2, <2>1, <2>2, <2>3
<1>8. ASSUME NEW c \in Children, Watching(c) PROVE NoAbort /\ InMail
  <2>1. UNCHANGED stage /\ \A a \in Nodes : Looks(ag[a], ag'[a])
    BY <1>8 DEF Watching, SameTree, SameAgents
  <2>2. \A a \in Nodes : ag'[a].phase = ag[a].phase /\ MailOf(ag'[a])
    BY <1>1, <2>1, LooksSame DEF Looks
  <2> QED
    BY <1>2, <2>1, <2>2
<1>9. ASSUME NEW c \in Children, Release(c) PROVE NoAbort /\ InMail
  <2>1. c \in Nodes /\ ag \in [Nodes -> Agents] /\ ag' = [ag EXCEPT ![c] = Cleared(ag[c])]
    BY <1>9, Assumed DEF Release, Typed
  <2>2. MailOf(Cleared(ag[c]))
    BY <1>1, <2>1, ClearedOf
  <2>3. stage'[c] = "handle" /\ \A d \in Children : d # c => stage'[d] = stage[d]
    BY <1>9 DEF Release, Typed, TreeTyped
  <2>4. ag'[c] = Cleared(ag[c]) /\ \A a \in Nodes : a # c => ag'[a] = ag[a]
    BY <2>1
  <2> QED
    BY <1>1, <1>2, <2>2, <2>3, <2>4
<1>10. ASSUME Stops PROVE NoAbort /\ InMail
  <2>1. PICK D : Closed(D) /\ Stopped(D)
    BY <1>10, StopsOf
  <2>2. /\ \A a \in Nodes : MailOf(ag'[a]) /\ (a \notin D => ag'[a] = ag[a])
        /\ \A c \in Children : /\ c \in D => stage'[c] \in {"stop", "quiet"}
                               /\ c \notin D => stage'[c] = stage[c]
        /\ D \subseteq Children
    BY <1>1, <2>1, StoppedOf
  <2> QED
    BY <1>2, <2>2
<1>11. ASSUME NEW c \in Children, NEW agents \in [Nodes -> Agents], Removed(c, agents),
              \A a \in Nodes : MailOf(agents[a]) /\ (agents[a].phase = "abort" => ag[a].phase = "abort")
       PROVE  NoAbort /\ InMail
  <2>1. /\ ag'[c].phase = "off" /\ MailOf(ag'[c])
        /\ \A a \in Nodes : a # c => Looks(agents[a], ag'[a])
        /\ \A d \in Children : stage'[d] = (IF d = c THEN "none" ELSE stage[d])
    BY <1>11, Assumed, RemovedOf
  <2>2. \A a \in Nodes : a # c => ag'[a].phase = agents[a].phase /\ MailOf(ag'[a])
    BY <1>11, <2>1, LooksSame DEF Looks
  <2> QED
    BY <1>2, <1>11, <2>1, <2>2
<1>12. ASSUME NEW o \in Ops, RolledBack(o) PROVE NoAbort /\ InMail
  <2>1. op[o].child \in Children /\ Removed(op[o].child, ag) /\ ag \in [Nodes -> Agents]
    BY <1>12, ChildOf DEF RolledBack, Typed
  <2> QED
    BY <1>1, <1>11, <2>1
<1>13. ASSUME NEW c \in Children, Released(c) PROVE NoAbort /\ InMail
  <2> DEFINE p == Parent[c]
             N == Notified(c)
  <2>1. Removed(c, N) /\ N \in [Nodes -> Agents] /\ p \in Nodes
    BY <1>13, NotifiedOf, ApartOf DEF Released
  <2>2. \A a \in Nodes : a # p => N[a] = ag[a]
    BY NotifiedOf
  <2>3. MailOf(N[p])
    <3>1. CASE ~(announced[c] /\ Live(p))
      BY <1>1, <2>1, <3>1, NotifiedOf
    <3>2. CASE announced[c] /\ Live(p)
      <4>1. PICK accepted \in BOOLEAN, wakes \in BOOLEAN, where \in {"turn", "step"} :
              N[p] = Sent(ag[p], Notice(c, accepted), where, wakes)
        BY <3>2, NotifiedOf
      <4>2. PICK m \in Msgs : m = Notice(c, accepted) /\ m.kind # "report"
        BY NoticeTyped DEF Notice
      <4>3. MailOf(Sent(ag[p], m, where, wakes))
        BY <1>1, <2>1, <4>2, SentInOrder
      <4> QED
        BY <4>1, <4>2, <4>3
    <3> QED
      BY <3>1, <3>2
  <2>4. \A a \in Nodes : N[a].phase = "abort" => ag[a].phase = "abort"
    BY NotifiedOf
  <2> HIDE DEF N, p
  <2>5. \A a \in Nodes : MailOf(N[a])
    BY <1>1, <2>2, <2>3
  <2> QED
    BY <1>11, <2>1, <2>4, <2>5
<1> HIDE DEF NoAbort, InMail
<1>14. ASSUME \/ \E o \in Ops, d \in Children, start \in BOOLEAN : Call(o, d, start)
              \/ \E o \in Ops : Moves(o) \/ Admitted(o)
              \/ Drain \/ DrainDone \/ ScopeDone \/ UNCHANGED vars
       PROVE  UNCHANGED <<ag, stage>>
  BY <1>14 DEF Call, Moves, Admitted, Drain, DrainDone, ScopeDone, vars, actVars
<1> QED
  BY <1>3, <1>4, <1>5, <1>6, <1>7, <1>8, <1>9, <1>10, <1>12, <1>13, <1>14, Kinds DEF Stops

--------------------------------------------------------------------------------
(* The invariant *)

LEMMA InitIInv ==
  ASSUME Init
  PROVE  IInv
<1>1. Typed
  BY InitTyped
<1>2. /\ Started \subseteq Children /\ \A c \in Started : Parent[c] \in Roots \cup Started
      /\ Roots \cap Children = {}
  BY SetupAssumed, Assumed DEF Init
<1>3. /\ \A a \in Nodes : ag[a] = Started0(a)
      /\ \A c \in Children :
           /\ stage[c] = (IF c \in Started THEN "up" ELSE "none")
           /\ owned[c] = {d \in Started : Parent[d] = c}
           /\ above[c] = (IF c \in Started THEN Ancestors[c] ELSE {})
           /\ announced[c] = (c \in Started) /\ waits[c] = {}
           /\ watch[c] = (IF c \in Started THEN "race" ELSE "off")
      /\ \A o \in Ops : op[o].pc = "new"
      /\ drain.phase = "no" /\ scope.phase = "no"
  BY DEF Init, NoDrain
<1>4. \A a \in Nodes : /\ ag[a].phase = (IF a \in Roots \cup Started THEN "run" ELSE "off")
                       /\ ag[a].log = <<>> /\ ag[a].stepQ = <<>> /\ ag[a].turnQ = <<>>
  <2> SUFFICES ASSUME NEW a \in Nodes
               PROVE  /\ ag[a].phase = (IF a \in Roots \cup Started THEN "run" ELSE "off")
                      /\ ag[a].log = <<>> /\ ag[a].stepQ = <<>> /\ ag[a].turnQ = <<>>
    OBVIOUS
  <2>1. ag[a] = Started0(a)
    BY <1>3
  <2>2. /\ Started0(a).phase = (IF a \in Roots \cup Started THEN "run" ELSE "off")
        /\ Started0(a).log = <<>> /\ Started0(a).stepQ = <<>> /\ Started0(a).turnQ = <<>>
    BY DEF Started0
  <2> QED
    BY <2>1, <2>2
<1>5. Alive
  BY <1>2, <1>3, <1>4, Assumed DEF Alive, Live
<1>6. Owners
  BY <1>2, <1>3 DEF Owners, Resident, Teardown
<1>7. Announcements
  <2> SUFFICES ASSUME NEW c \in Children, announced[c]
               PROVE  /\ stage[c] \notin {"none", "rollback"} /\ Live(Parent[c]) /\ Known(Parent[c])
                      /\ Parent[c] \in Children => c \in owned[Parent[c]]
    BY DEF Announcements
  <2>1. c \in Started /\ Parent[c] \in Roots \cup Started /\ Parent[c] \in Nodes /\ stage[c] = "up"
    BY <1>2, <1>3, ApartOf
  <2>2. Live(Parent[c])
    BY <1>4, <2>1 DEF Live
  <2>3. Known(Parent[c])
    BY <1>2, <1>3, <2>1 DEF Known
  <2>4. Parent[c] \in Children => c \in owned[Parent[c]]
    BY <1>3, <2>1
  <2> QED
    BY <2>1, <2>2, <2>3, <2>4
<1>8. Callers /\ Locks /\ Lines /\ Drains /\ Scopes
  BY <1>3 DEF Callers, Active, Locks, Holding, Lines, Materializing, Resident, Drains, Scopes
<1>9. Unheard
  BY <1>3 DEF Unheard, Resident
<1>10. Turnless
  BY <1>3 DEF Turnless, Teardown
<1>11. Mail
  <2>1. \A a \in Nodes : MailOf(ag[a])
    BY <1>4, ElementsNone DEF MailOf
  <2> QED
    BY <1>4, <2>1, Assumed DEF Mail, Up
<1>12. Notices
  BY <1>4, ElementsNone DEF Notices, Messages
<1> QED
  BY <1>1, <1>5, <1>6, <1>7, <1>8, <1>9, <1>10, <1>11, <1>12 DEF IInv

LEMMA IInvKept == IInv /\ [Next]_vars => IInv'
BY TypedKept, AliveKept, OwnersKept, AnnouncementsKept, CallersKept, UnheardKept, LocksKept, LinesKept,
   DrainsKept, ScopesKept, TurnlessKept, MailKept, NoticesKept DEF IInv

LEMMA Invariant == Spec => []IInv
<1>1. Init => IInv
  BY InitIInv
<1> QED
  BY <1>1, IInvKept, PTL DEF Spec

LEMMA HoldsOf == IInv => TreeHolds
<1> SUFFICES ASSUME IInv PROVE TreeHolds
  OBVIOUS
<1>1. TypeOK
  <2>1. \A a \in Nodes : /\ ag[a].phase \in {"off", "idle", "run", "abort"} /\ ag[a].gen \in Nat
                         /\ ag[a].latch \in BOOLEAN /\ ag[a].poked \in BOOLEAN
    BY DEF IInv, Typed, Agents
  <2>2. \A o \in Ops : op[o].pc \in {"new", "prepare", "queued", "ok", "failed"} \cup Holding
    BY DEF IInv, Typed, Calls
  <2>3. drain.phase \in {"no", "wait", "roots", "done"} /\ scope.phase \in {"no", "wait", "done"}
    BY DEF IInv, Typed, DrainsTyped
  <2>4. \A c \in Children : (stage[c] = "none" <=> ~Live(c)) /\ (watch[c] # "off" <=> stage[c] = "up")
    BY DEF IInv, Alive
  <2> QED
    BY <2>1, <2>2, <2>3, <2>4 DEF IInv, Typed, TreeTyped, Stages, TypeOK
<1>2. ChildFirst
  BY DEF IInv, Announcements, ChildFirst
<1>3. OwnsResidents
  BY DEF IInv, Owners, OwnsResidents
<1>4. NoOrphan
  BY DEF IInv, Unheard, NoOrphan
<1>5. DrainComplete
  BY DEF IInv, Drains, Alive, DrainComplete, Resident
<1>6. ScopeComplete
  BY DEF IInv, Scopes, Alive, ScopeComplete, Resident, Inside
<1>7. ReportsFirst
  <2> SUFFICES ASSUME "interrupt" \notin Features, NEW a \in Nodes,
                      NEW i \in 1 .. Len(ag[a].log), NEW j \in 1 .. Len(ag[a].log), i < j
               PROVE  Follows(ag[a].log[j], ag[a].log[i])
    BY DEF ReportsFirst, Follows
  <2>1. InOrder(ag[a].log) /\ ag[a].log \in Seq(Msgs)
    BY DEF IInv, Mail, MailOf, Typed, Agents
  <2> QED
    BY <2>1 DEF InOrder
<1> QED
  BY <1>1, <1>2, <1>3, <1>4, <1>5, <1>6, <1>7 DEF TreeHolds

(* A parent outlives its children and counts them, a failed call leaves nothing, a resolved *)
(* drain left nothing behind, and reports are read before the notice of their epoch.        *)
THEOREM TreeIsSafe == Spec => []TreeHolds
BY Invariant, HoldsOf, PTL

LEMMA TurnlessOf == IInv /\ [Next]_vars => [TurnlessTeardown]_vars
<1> SUFFICES ASSUME IInv, [Next]_vars PROVE TurnlessTeardown
  OBVIOUS
<1> SUFFICES ASSUME "select" \notin Features, NEW c \in Children, stage[c] \in Teardown
             PROVE  ag'[c].log = ag[c].log /\ ag'[c].phase # "run"
  BY DEF TurnlessTeardown, Teardown
<1> QED
  BY TeardownOf DEF IInv

(* An agent whose teardown began opens no turn, and reads nothing more. *)
THEOREM TeardownIsTurnless == Spec => NoTurnInTeardown
BY Invariant, TurnlessOf, PTL DEF Spec, NoTurnInTeardown
================================================================================
