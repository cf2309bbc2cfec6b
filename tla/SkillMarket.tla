----------------------------- MODULE SkillMarket -----------------------------
(****************************************************************************)
(* The skill market (dsh-skill-market/src/market.ts): skills copied from    *)
(* the market's folder to the user's, marked as the market's, and removed   *)
(* again.  The calls are synchronous; what interrupts one is the end of the *)
(* process or a file operation that throws, between two files.              *)
(*                                                                          *)
(* A folder is the set of its files.  Those of the market carry the version *)
(* they came with, those of the user are one file.                          *)
(****************************************************************************)
EXTENDS Naturals, FiniteSets

CONSTANTS
  Names,       \* valid skill names
  MaxVersion,  \* bound: editions of the market
  MaxStops     \* bound: interrupted calls

(* Assumed by the modules that instantiate this one. *)
BoundsAssumption == MaxVersion \in Nat \ {0} /\ MaxStops \in Nat

VARIABLES
  market,   \* the version the market's folder offers
  dir,      \* the files of ~/.dsh/skills/<name>; none: no such folder
  op,       \* the call under way
  done,     \* the call that came to its end, if none began since
  stops

vars == <<market, dir, op, done, stops>>

Idle == [kind |-> "none"]
Kinds == {"install", "uninstall"}
Stages == {"remove", "copy", "mark"}

SkillFile(v) == <<"SKILL.md", v>>
Package(v) == {SkillFile(v), <<"scripts", v>>}
Marker == <<"marker", 0>>
Own == <<"own", 0>>
Files == {Marker, Own} \cup UNION {Package(v) : v \in 1 .. MaxVersion}

Init ==
  /\ market = 1 /\ dir \in [Names -> {{}, {Own}}]
  /\ op = Idle /\ done = Idle /\ stops = 0

(* isMarketManaged() *)
Managed(n) == Marker \in dir[n]

(* isInstalled() *)
Installed(n) == \E f \in dir[n] : f[1] \in {"SKILL.md", "own"}

Install(n) ==
  /\ op = Idle
  /\ op' = [kind |-> "install", name |-> n, stage |-> "remove", from |-> market]
  /\ done' = Idle
  /\ UNCHANGED <<market, dir, stops>>

(* Mutant: the marker is not asked for. *)
UninstallBug(n) ==
  /\ op = Idle /\ dir[n] # {}
  /\ op' = [kind |-> "uninstall", name |-> n, stage |-> "remove", from |-> market]
  /\ done' = Idle
  /\ UNCHANGED <<market, dir, stops>>

Uninstall(n) ==
  /\ op = Idle /\ dir[n] # {} /\ Managed(n)
  /\ op' = [kind |-> "uninstall", name |-> n, stage |-> "remove", from |-> market]
  /\ done' = Idle
  /\ UNCHANGED <<market, dir, stops>>

(* rmSync() takes the files in some order. *)
RemoveFile ==
  /\ op # Idle /\ op.stage = "remove"
  /\ \E f \in dir[op.name] : dir' = [dir EXCEPT ![op.name] = @ \ {f}]
  /\ UNCHANGED <<market, op, done, stops>>

Removed ==
  /\ op # Idle /\ op.stage = "remove" /\ dir[op.name] = {}
  /\ IF op.kind = "install"
     THEN op' = [op EXCEPT !.stage = "copy"] /\ UNCHANGED done
     ELSE op' = Idle /\ done' = op
  /\ UNCHANGED <<market, dir, stops>>

(* cpSync() copies them in some order. *)
CopyFile ==
  /\ op # Idle /\ op.stage = "copy"
  /\ \E f \in Package(op.from) \ dir[op.name] : dir' = [dir EXCEPT ![op.name] = @ \cup {f}]
  /\ UNCHANGED <<market, op, done, stops>>

Copied ==
  /\ op # Idle /\ op.stage = "copy" /\ Package(op.from) \subseteq dir[op.name]
  /\ op' = [op EXCEPT !.stage = "mark"]
  /\ UNCHANGED <<market, dir, done, stops>>

Mark ==
  /\ op # Idle /\ op.stage = "mark"
  /\ dir' = [dir EXCEPT ![op.name] = @ \cup {Marker}]
  /\ op' = Idle /\ done' = op
  /\ UNCHANGED <<market, stops>>

Stopped ==
  /\ op # Idle /\ stops < MaxStops
  /\ op' = Idle /\ stops' = stops + 1
  /\ UNCHANGED <<market, dir, done>>

(* A later version of the application refreshes the market's folder. *)
Refreshed ==
  /\ op = Idle /\ market < MaxVersion
  /\ market' = market + 1
  /\ UNCHANGED <<dir, op, done, stops>>

(* The user makes a skill where there is no folder, or deletes a folder. *)
UserMakes(n) ==
  /\ op = Idle
  /\ \/ dir[n] = {} /\ dir' = [dir EXCEPT ![n] = {Own}]
     \/ dir[n] # {} /\ dir' = [dir EXCEPT ![n] = {}]
  /\ done' = Idle
  /\ UNCHANGED <<market, op, stops>>

Next ==
  \/ \E n \in Names : Install(n) \/ Uninstall(n) \/ UserMakes(n)
  \/ RemoveFile \/ Removed \/ CopyFile \/ Copied \/ Mark \/ Stopped \/ Refreshed

Spec == Init /\ [][Next]_vars

-----------------------------------------------------------------------------
(* Every variable stays in its domain. *)
TypeOK ==
  /\ market \in 1 .. MaxVersion /\ dir \in [Names -> SUBSET Files] /\ stops \in 0 .. MaxStops
  /\ \A c \in {op, done} : c # Idle => /\ c.kind \in Kinds /\ c.name \in Names
                                       /\ c.stage \in Stages /\ c.from \in 1 .. market

(* Whatever calls were cut short before it and whatever version was there:  *)
(* an install that came to its end left the package it was asked for and    *)
(* nothing else (the removal before the copy).                              *)
InstallReplaces ==
  done # Idle /\ done.kind = "install" => dir[done.name] = Package(done.from) \cup {Marker}

(* No uninstall, finished or cut short, touches a skill the user made (the  *)
(* marker uninstall() asks for).                                            *)
OwnSkillsStay ==
  [][\A n \in Names :
       Own \in dir[n] /\ Own \notin dir'[n] /\ op # Idle => op.kind = "install"]_vars

(* A skill the market's package was copied to can be uninstalled by it. *)
MarketCanUninstall ==
  \A n \in Names : op = Idle /\ Installed(n) /\ Own \notin dir[n] => Managed(n)

(* What any run of calls, finished or cut short, keeps. *)
MarketSafe == TypeOK /\ InstallReplaces
=============================================================================
