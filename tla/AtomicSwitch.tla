---------------------------- MODULE AtomicSwitch ----------------------------
(***************************************************************************)
(* What the updater promises, without files, journals, services or         *)
(* crashes: the installed version changes in one step, only to the version *)
(* the pending request asks for, and a request is taken away only once its *)
(* outcome has been reported.  A report that the update was installed, or  *)
(* that the old version is back, is true when it is made; the report that  *)
(* a rollback failed says nothing about the version.                       *)
(***************************************************************************)
EXTENDS Naturals

CONSTANTS Ops, Versions, None

VARIABLES
  installed,  \* the version in force
  wanted,     \* the pending request, or None
  report      \* the outcome last reported, None while work is going on

switchVars == <<installed, wanted, report>>

Outcomes == {"installed", "unchanged", "unknown"}

SwitchInit ==
  /\ installed \in Versions
  /\ wanted = None
  /\ report = None

Ask(op, v) ==
  /\ wanted = None
  /\ v > installed
  /\ wanted' = [op |-> op, target |-> v]
  /\ UNCHANGED <<installed, report>>

Work ==
  /\ report' = None
  /\ UNCHANGED <<installed, wanted>>

Switch ==
  /\ wanted # None /\ report = None
  /\ installed' = wanted.target
  /\ UNCHANGED <<wanted, report>>

Report(op, v, outcome) ==
  /\ report = None
  /\ outcome = "installed" => installed = v
  /\ outcome = "unchanged" => installed < v
  /\ report' = [op |-> op, target |-> v, outcome |-> outcome]
  /\ UNCHANGED <<installed, wanted>>

Settle ==
  /\ wanted # None /\ report # None
  /\ report.op = wanted.op
  /\ wanted' = None
  /\ UNCHANGED <<installed, report>>

SwitchNext ==
  \/ Work \/ Switch \/ Settle
  \/ \E op \in Ops, v \in Versions :
       \/ Ask(op, v)
       \/ \E outcome \in Outcomes : Report(op, v, outcome)

SwitchSpec == SwitchInit /\ [][SwitchNext]_switchVars
=============================================================================
