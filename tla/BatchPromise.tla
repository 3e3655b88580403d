---------------------------- MODULE BatchPromise ----------------------------
(***************************************************************************)
(* What a batch reset promises an administrator, without locks, workers,   *)
(* crashes or tables.  One batch is open at a time.  Each of its items is  *)
(* asked of Sub2API at most once, only while the batch is open and the     *)
(* item not reported.  Sub2API carries an asked item out at most once,     *)
(* whenever it likes.  Only a carried-out item is reported succeeded, only *)
(* an item never asked is reported skipped, a report is never changed, and *)
(* closing the batch reports every item still open as unknown.             *)
(***************************************************************************)
EXTENDS Naturals

CONSTANTS Users, Jobs

VARIABLES
  phase,   \* of each batch: none, open, closed
  report,  \* per batch and user: none, open or the reported outcome
  asked,   \* per batch and user: how often Sub2API was asked
  done     \* <<batch, user>> pairs Sub2API carried out

promiseVars == <<phase, report, asked, done>>

PromiseInit ==
  /\ phase = [j \in Jobs |-> "none"]
  /\ report = [j \in Jobs |-> [u \in Users |-> "none"]]
  /\ asked = [j \in Jobs |-> [u \in Users |-> 0]]
  /\ done = {}

Open(j) ==
  /\ phase[j] = "none"
  /\ \A i \in Jobs : phase[i] # "open"
  /\ phase' = [phase EXCEPT ![j] = "open"]
  /\ \E chosen \in SUBSET Users :
       report' = [report EXCEPT ![j] =
                    [u \in Users |-> IF u \in chosen THEN "open" ELSE "none"]]
  /\ UNCHANGED <<asked, done>>

OpenItem(j, u) == phase[j] = "open" /\ report[j][u] = "open"

Ask(j, u) ==
  /\ OpenItem(j, u)
  /\ asked[j][u] = 0
  /\ asked' = [asked EXCEPT ![j][u] = 1]
  /\ UNCHANGED <<phase, report, done>>

CarryOut(j, u) ==
  /\ asked[j][u] = 1
  /\ done' = done \cup {<<j, u>>}
  /\ UNCHANGED <<phase, report, asked>>

Report(j, u, outcome) ==
  /\ OpenItem(j, u)
  /\ outcome = "skipped" => asked[j][u] = 0
  /\ outcome = "succeeded" => <<j, u>> \in done
  /\ report' = [report EXCEPT ![j][u] = outcome]
  /\ UNCHANGED <<phase, asked, done>>

Close(j) ==
  /\ phase[j] = "open"
  /\ phase' = [phase EXCEPT ![j] = "closed"]
  /\ report' = [report EXCEPT ![j] =
       [u \in Users |-> IF report[j][u] = "open" THEN "unknown" ELSE report[j][u]]]
  /\ UNCHANGED <<asked, done>>

PromiseNext ==
  \/ \E j \in Jobs : Open(j) \/ Close(j)
  \/ \E j \in Jobs, u \in Users :
       \/ Ask(j, u) \/ CarryOut(j, u)
       \/ \E outcome \in {"succeeded", "failed", "unknown", "skipped"} :
            Report(j, u, outcome)

PromiseSpec == PromiseInit /\ [][PromiseNext]_promiseVars
=============================================================================
