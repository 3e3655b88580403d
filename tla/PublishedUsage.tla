--------------------------- MODULE PublishedUsage ---------------------------
(***************************************************************************)
(* What the portal promises of the usage it shows, without flights,        *)
(* generations, caches or locks.  Each key has a true version at each      *)
(* source.  A visible key shows some version the current source has had,   *)
(* never one below the last change confirmed for it, and the confirmed     *)
(* version itself only grows while the key stays visible.  The source is   *)
(* changed only while nothing is visible.                                  *)
(***************************************************************************)
EXTENDS Naturals

CONSTANTS Keys, Sources

VARIABLES
  truth,    \* version of each key at each source
  source,   \* where the shown versions come from
  visible,  \* keys that are shown to somebody
  shown,    \* the version shown of each key, 0 when it is not visible
  floor     \* the last confirmed version of each visible key

publishedVars == <<truth, source, visible, shown, floor>>

PublishedInit ==
  /\ truth = [c \in Sources |-> [k \in Keys |-> 0]]
  /\ source \in Sources
  /\ visible = {}
  /\ shown = [k \in Keys |-> 0]
  /\ floor = [k \in Keys |-> 0]

Change(c, k) ==
  /\ truth' = [truth EXCEPT ![c][k] = @ + 1]
  /\ UNCHANGED <<source, visible, shown, floor>>

\* Any version from the confirmed one to the true one, for each visible key.
Refresh ==
  /\ \A k \in visible : /\ floor[k] <= shown'[k]
                        /\ shown'[k] <= truth[source][k]
  /\ shown' = [k \in Keys |-> IF k \in visible THEN shown'[k] ELSE 0]
  /\ UNCHANGED <<truth, source, visible, floor>>

ConfirmChange(k) ==
  /\ k \in visible
  /\ floor[k] < floor'[k] /\ floor'[k] <= truth[source][k]
  /\ floor' = [floor EXCEPT ![k] = floor'[k]]
  /\ shown' = [shown EXCEPT ![k] = floor'[k]]
  /\ UNCHANGED <<truth, source, visible>>

\* k becomes visible, in place of the keys in `gone`.
Reveal(k, gone) ==
  /\ visible' = (visible \ gone) \cup {k}
  /\ shown'[k] <= truth[source][k]
  /\ shown' = [x \in Keys |-> IF x = k THEN shown'[k]
                              ELSE IF x \in gone THEN 0 ELSE shown[x]]
  /\ floor' = [x \in Keys |-> IF x \in gone \cup {k} THEN 0 ELSE floor[x]]
  /\ UNCHANGED <<truth, source>>

Hide(k) ==
  /\ visible' = visible \ {k}
  /\ shown' = [shown EXCEPT ![k] = 0]
  /\ floor' = [floor EXCEPT ![k] = 0]
  /\ UNCHANGED <<truth, source>>

Switch ==
  /\ visible = {}
  /\ source' \in Sources
  /\ UNCHANGED <<truth, visible, shown, floor>>

PublishedNext ==
  \/ \E c \in Sources, k \in Keys : Change(c, k)
  \/ Refresh
  \/ \E k \in Keys : \/ ConfirmChange(k) \/ Hide(k)
                     \/ \E gone \in SUBSET Keys : Reveal(k, gone)
  \/ Switch

PublishedSpec == PublishedInit /\ [][PublishedNext]_publishedVars
=============================================================================
